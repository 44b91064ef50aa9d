---------------------------- MODULE AtLeastOnce -----------------------------
(***************************************************************************)
(* What an export call promises: until it returns, backends take its       *)
(* payload; it returns nil only when all of them have; when it has         *)
(* returned, none takes it any more.                                       *)
(***************************************************************************)
CONSTANTS Calls, Backends

VARIABLES
    got,    \* [Calls -> the backends that have taken the payload]
    state   \* [Calls -> "none" while it runs, or what it has returned]

Init ==
    /\ got = [c \in Calls |-> {}]
    /\ state = [c \in Calls |-> "none"]

Step(c) ==
    /\ state[c] = "none"
    /\ \E S \in SUBSET Backends : got' = [got EXCEPT ![c] = @ \cup S]
    /\ \E r \in {"none", "ok", "error", "cancelled"} :
          /\ r = "ok" => got'[c] = Backends
          /\ state' = [state EXCEPT ![c] = r]

Next == \E c \in Calls : Step(c)

Spec == Init /\ [][Next]_<<got, state>>
=============================================================================
