--------------------------- MODULE MCLanPrefixes ---------------------------
EXTENDS LanPrefixes

\* The shortest lease that goes through Renew and Rebind, a revoked one.
ChainTerms == { [t1 |-> 1, t2 |-> 1, valid |-> 2], [t1 |-> 0, t2 |-> 0, valid |-> 0] }
=============================================================================
