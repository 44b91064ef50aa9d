----------------------------- MODULE MCGateway ------------------------------
(***************************************************************************)
(* Gateway on small instances: two backends of unequal weight for model    *)
(* "m", of which the heavier one also serves "n".                          *)
(***************************************************************************)
EXTENDS Gateway, TLC

TwoBackends == <<"light", "heavy">>
MCWeight == "light" :> 1 @@ "heavy" :> 3
MCServes == "light" :> {"m"} @@ "heavy" :> {"m", "n"}
MCRPS == [m \in Models |-> IF m = "m" THEN 1 ELSE 0]
MCModelOf == [r \in Requests |-> IF r = "r5" THEN NoModel ELSE "m"]
-----------------------------------------------------------------------------
\* Under fairness every request is answered: no handler waits for ever on a
\* bucket, a backend or the checker.
RequestsAnswered ==
    \A r \in Requests : pc[r] # "new" ~> (pc[r] = "done" \/ stage = "exited")

\* A backend that is dead for good leaves the rotation, and one that has come
\* back for good is routed to again.
HealthFollows ==
    \A b \in BackendIds :
        /\ <>[](b \notin alive) => <>[](b \notin healthy \/ stage = "exited")
        /\ <>[](b \in alive) => <>[](b \in healthy \/ stage = "exited")
=============================================================================
