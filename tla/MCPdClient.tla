----------------------------- MODULE MCPdClient -----------------------------
EXTENDS PdClient

\* An ordinary lease, one without T1 and T2, one whose T1 lies after its end, a revoked one.
PdTerms == { [t1 |-> 1, t2 |-> 3, valid |-> 5], [t1 |-> 0, t2 |-> 0, valid |-> 2],
             [t1 |-> 3, t2 |-> 1, valid |-> 2], [t1 |-> 0, t2 |-> 0, valid |-> 0] }

\* A lease of two ticks with T1 after one.
ShortTerms == { [t1 |-> 1, t2 |-> 2, valid |-> 2] }
=============================================================================
