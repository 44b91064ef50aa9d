----------------------------- MODULE AttemptLog -----------------------------
(***************************************************************************)
(* What the execution history of a job promises, whoever runs jobs and     *)
(* however many run at once.  The log only grows; an attempt is opened     *)
(* once and closed once; attempt k of a job is opened only when attempts   *)
(* 1 .. k-1 of that job have failed, and never beyond the retry budget.    *)
(* Nothing is promised about two attempts with the same number: two        *)
(* requests that run the same job open one each.                           *)
(***************************************************************************)
EXTENDS Naturals, Sequences

CONSTANTS Jobs, MaxRetries

VARIABLE log    \* Seq([job : Jobs, attempt : Nat, status : STRING])

\* Attempt k of job j has failed.
Failed(j, k) ==
    \E i \in DOMAIN log : /\ log[i].job = j
                          /\ log[i].attempt = k
                          /\ log[i].status = "failed"

Open(j, k) ==
    /\ k <= MaxRetries[j] + 1
    /\ \A p \in 1..(k - 1) : Failed(j, p)
    /\ log' = Append(log, [job |-> j, attempt |-> k, status |-> "running"])

Close(i, result) ==
    /\ log[i].status = "running"
    /\ log' = [log EXCEPT ![i].status = result]

Init == log = << >>

Next ==
    \/ \E j \in Jobs : \E k \in 1..(MaxRetries[j] + 1) : Open(j, k)
    \/ \E i \in DOMAIN log : \E r \in {"succeeded", "failed"} : Close(i, r)

Spec == Init /\ [][Next]_log
=============================================================================
