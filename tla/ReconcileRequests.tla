------------------------- MODULE ReconcileRequests -------------------------
(***************************************************************************)
(* What a controller promises to those who enqueue keys: every request is  *)
(* kept until a reconcile of its key has started after it was made, a key  *)
(* is never reconciled twice at the same time, and a failed reconcile is a *)
(* new request.  Only a controller that is being stopped drops requests.   *)
(***************************************************************************)
CONSTANT Keys

VARIABLES
    requested,  \* keys with a request no reconcile has started for
    active,     \* keys being reconciled
    stopping    \* the controller is being stopped

vars == <<requested, active, stopping>>

Init == requested = {} /\ active = {} /\ stopping = FALSE

\* An event, or a reconcile that failed.
Request(k) ==
    /\ requested' = requested \cup {k}
    /\ UNCHANGED <<active, stopping>>

\* A request that is waiting for its delay may outlive the start.
Start(k) ==
    /\ k \in requested \ active
    /\ requested' \in {requested, requested \ {k}}
    /\ active' = active \cup {k}
    /\ UNCHANGED stopping

Finish(k) ==
    /\ k \in active
    /\ active' = active \ {k}
    /\ UNCHANGED <<requested, stopping>>

Stop == stopping' = TRUE /\ UNCHANGED <<requested, active>>

Drop(k) ==
    /\ stopping
    /\ requested' = requested \ {k}
    /\ UNCHANGED <<active, stopping>>

Next == Stop \/ \E k \in Keys : Request(k) \/ Start(k) \/ Finish(k) \/ Drop(k)

Spec == Init /\ [][Next]_vars
=============================================================================
