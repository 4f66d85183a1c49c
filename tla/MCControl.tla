----------------------------- MODULE MCControl -----------------------------
(***************************************************************************)
(* Parts of the control plane for TLC: flow rules and their targets, the   *)
(* database writer under concurrent callers, the tasks of dynamic DNS, and *)
(* lookups on a DNS upstream - one of them step by step, or several whose  *)
(* outcomes decide on the upstream's health.  They share no state here; a  *)
(* behaviour is one of one of them, the others keep their initial state.   *)
(***************************************************************************)
EXTENDS FlowTargets, StoreWriter, DdnsTasks, DnsLookup

VARIABLE part

controlVars == << flowVars, storeVars, ddnsVars, dnsLookupVars, part >>

ControlInit ==
    /\ FlowInit /\ StoreInit /\ DdnsInit /\ DnsLookupInit
    /\ part \in {"flow", "store", "ddns", "lookup", "health"}
    /\ src = (CHOOSE ip \in Ips : TRUE)   \* the addresses are interchangeable

ControlNext ==
    /\ UNCHANGED part
    /\ \/ part = "flow" /\ FlowNext /\ UNCHANGED << storeVars, ddnsVars, dnsLookupVars >>
       \/ part = "store" /\ StoreNext /\ UNCHANGED << flowVars, ddnsVars, dnsLookupVars >>
       \/ part = "ddns" /\ DdnsNext /\ UNCHANGED << flowVars, storeVars, dnsLookupVars >>
       \/ /\ part \in {"lookup", "health"} /\ DnsLookupNext
          /\ \A c \in DnsCallers : (c \in Traced) # (part = "lookup") => caller'[c] = caller[c]
          /\ UNCHANGED << flowVars, storeVars, ddnsVars >>

ControlSpec == ControlInit /\ [][ControlNext]_controlVars
=============================================================================
