---------------------------- MODULE MCWanRouting ----------------------------
(***************************************************************************)
(* Three parts of WAN routing for TLC: the carrier and the session of a    *)
(* link whose interfaces come and go (WanLink), the route state with the   *)
(* kernel's default route (WanRoutes), and the health check of a link      *)
(* (HealthCheck).  They share no state here: a behaviour is one of one of  *)
(* them, the others keep their initial state.  Fairness is assumed for the *)
(* route state alone and only KernelConverges depends on it.               *)
(***************************************************************************)
EXTENDS MCWanLink, WanRoutes, HealthCheck

VARIABLE part

routingVars == << vars, wanVars, hcVars, part >>

RoutingInit ==
    /\ Init /\ WanInit /\ HcInit /\ part \in {"link", "routes", "health"}
    /\ part # "link" => cfg = (CHOOSE b \in Boots : TRUE) /\ \A n \in Ifaces : dev[n].idx = 0

RoutingNext ==
    /\ UNCHANGED part
    /\ \/ part = "link" /\ Next /\ UNCHANGED << wanVars, hcVars >>
       \/ part = "routes" /\ WanNext /\ UNCHANGED << vars, hcVars >>
       \/ part = "health" /\ HcNext /\ UNCHANGED << vars, wanVars >>

RoutingSpec ==
    /\ RoutingInit /\ [][RoutingNext]_routingVars
    /\ \A c \in Callers : WF_wanVars(part = "routes" /\ CallStep(c))
    /\ WF_wanVars(part = "routes" /\ LoopStep)
=============================================================================
