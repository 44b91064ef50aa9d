------------------------------ MODULE Delivery ------------------------------
(***************************************************************************)
(* What the telemetry pipeline promises about each payload, whatever its   *)
(* shards and workers do.  A payload is accepted or dropped when it is     *)
(* submitted; an accepted payload meets one fate, once, and only in a      *)
(* pipeline that was started.  A started pipeline is finished only when    *)
(* every accepted payload has met its fate; one that was never started     *)
(* finishes as it is, and what it accepted is lost.  After the end nothing *)
(* is accepted or exported any more.                                       *)
(***************************************************************************)
CONSTANT Payloads

VARIABLES
    state,     \* [Payloads -> "new", "accepted", "dropped" or a fate]
    started,   \* the pipeline has been started
    finished   \* the pipeline has been shut down

vars == <<state, started, finished>>

Fates == {"filtered", "rejected", "exported", "failed"}

Init ==
    /\ state = [p \in Payloads |-> "new"]
    /\ started = FALSE
    /\ finished = FALSE

Start ==
    /\ ~finished
    /\ ~started
    /\ started' = TRUE
    /\ UNCHANGED <<state, finished>>

Submit(p) ==
    /\ ~finished
    /\ state[p] = "new"
    /\ \E s \in {"accepted", "dropped"} : state' = [state EXCEPT ![p] = s]
    /\ UNCHANGED <<started, finished>>

Settle(p) ==
    /\ started
    /\ ~finished
    /\ state[p] = "accepted"
    /\ \E f \in Fates : state' = [state EXCEPT ![p] = f]
    /\ UNCHANGED <<started, finished>>

Finish ==
    /\ ~finished
    /\ started => \A p \in Payloads : state[p] # "accepted"
    /\ finished' = TRUE
    /\ UNCHANGED <<state, started>>

Next ==
    \/ Start
    \/ \E p \in Payloads : Submit(p) \/ Settle(p)
    \/ Finish

Spec == Init /\ [][Next]_vars
=============================================================================
