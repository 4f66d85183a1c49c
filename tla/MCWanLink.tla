----------------------------- MODULE MCWanLink -----------------------------
(***************************************************************************)
(* Instances of WanLink for TLC: up to two dependent sections, one or two  *)
(* attach interfaces, a few saves, failures and interface changes.         *)
(***************************************************************************)
EXTENDS WanLink

\* A link is created with everything disabled, or comes back after a restart
\* of the program with everything enabled.
AllOff == [att : {"eth0"}, v4 : Modes \cap {"off", "pppoff"},
           sec : [Sections -> {0}]]
AllOn == [att : {"eth0"}, v4 : Modes \cap {"nothing", "lease", "ppp"},
          sec : [Sections -> {1}]]
BothBoots == AllOff \cup AllOn

\* ... or with its sections enabled and v4 disabled, as for PD alone.
V4Off == [att : {"eth0"}, v4 : Modes \cap {"off"}, sec : [Sections -> {1}]]
AllBoots == BothBoots \cup V4Off

\* A link that was left with a lease when the program was restarted.
LeaseOn == {b \in AllOn : b.v4 = "lease"}
=============================================================================
