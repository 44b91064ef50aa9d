------------------------------ MODULE Exporter ------------------------------
(***************************************************************************)
(* The exporter chain of internal/otelgateway: an OTLP client per backend, *)
(* the fan-out over the backends, and the retry with backoff, which the    *)
(* wiring puts around the fan-out or around each client.  The third wiring *)
(* is retry.WithContext around the fan-out.  Traces and metrics have the   *)
(* same code.                                                              *)
(*                                                                         *)
(* Workers make export calls concurrently.  A step is one call of a        *)
(* backend, its answer, one turn of a loop, or one sleep.  A backend takes *)
(* the payload and says so, does not take it, or takes it while the answer *)
(* is lost, as when it comes after the deadline.                           *)
(***************************************************************************)
EXTENDS Integers, FiniteSets

CONSTANTS
    Calls,           \* the export calls, each of a payload of its own
    Backends,
    MaxAttempts      \* cfg.MaxAttempts

N == Cardinality(Backends)

ASSUME ExporterAssumption ==
    /\ IsFiniteSet(Backends)
    /\ Backends # {}
    /\ MaxAttempts \in Nat

Wirings == {"retry_fanout", "fanout_retry", "with_context"}

VARIABLES
    wiring,
    order,      \* [1..N -> Backends]: the order a map iteration has left
    closed,     \* the backends whose connection has been closed
    closing,    \* Shutdown: index of the next exporter, 0 before the call
    pc,         \* [Calls -> step]
    attempt,    \* [Calls -> Nat]: the retry loop's counter
    at,         \* [Calls -> 1..N+1]: the fan-out's index
    errs,       \* [Calls -> SUBSET Backends]: the errors of the fan-out
    cancelled,  \* the calls whose context is done
    result,     \* [Calls -> "none", "ok", "error" or "cancelled"]
    \* history
    asked,      \* [Calls -> [Backends -> Nat]]: times it was called
    taken,      \* [Calls -> [Backends -> Nat]]: times it took the payload
    lost        \* [Calls -> [Backends -> Nat]]: answers lost on the way

chain == <<wiring, order>>
connections == <<closed, closing>>
locals == <<pc, attempt, at, errs, result>>
history == <<asked, taken, lost>>
vars == <<chain, connections, locals, cancelled, history>>

Zero == [b \in Backends |-> 0]

Init ==
    /\ wiring \in Wirings
    /\ order \in [1 .. N -> Backends]
    /\ \A b \in Backends : \E i \in 1 .. N : order[i] = b
    /\ closed = {}
    /\ closing = 0
    /\ pc = [c \in Calls |-> "new"]
    /\ attempt = [c \in Calls |-> 0]
    /\ at = [c \in Calls |-> 1]
    /\ errs = [c \in Calls |-> {}]
    /\ cancelled = {}
    /\ result = [c \in Calls |-> "none"]
    /\ asked = [c \in Calls |-> Zero]
    /\ taken = [c \in Calls |-> Zero]
    /\ lost = [c \in Calls |-> Zero]
-----------------------------------------------------------------------------
(* Building blocks.                                                        *)

Goto(c, label) == pc' = [pc EXCEPT ![c] = label]

Return(c, r) ==
    /\ Goto(c, "done")
    /\ result' = [result EXCEPT ![c] = r]

\* errors.Join of what the fan-out has collected.
Joined_FirstOnly(E) == IF order[1] \in E THEN "error" ELSE "ok"
Joined(E) == IF E = {} THEN "ok" ELSE "error"

\* The fan-out of retries is done with one backend: the next one starts with
\* a counter of zero, or the call returns.
NextBackend_Stays(c, E) ==
    /\ errs' = [errs EXCEPT ![c] = E]
    /\ Goto(c, "loop")
    /\ UNCHANGED <<at, attempt, result>>
NextBackend(c, E) ==
    /\ errs' = [errs EXCEPT ![c] = E]
    /\ at' = [at EXCEPT ![c] = @ + 1]
    /\ \/ /\ at[c] < N
          /\ attempt' = [attempt EXCEPT ![c] = 0]
          /\ Goto(c, "loop")
          /\ UNCHANGED result
       \/ /\ at[c] = N
          /\ Return(c, Joined(E))
          /\ UNCHANGED attempt
-----------------------------------------------------------------------------
(* ExportTraces and ExportMetrics of the retry, WithContext.               *)

Begin(c) ==
    /\ pc[c] = "new"
    /\ Goto(c, "loop")
    /\ UNCHANGED <<chain, connections, attempt, at, errs, cancelled, result,
                   history>>

MayAttempt(c) == attempt[c] < MaxAttempts

\* ctx.Err() at the head of WithContext's loop.
Stopped(c) == wiring = "with_context" /\ c \in cancelled

\* An attempt of the retry around the fan-out starts a new pass over all
\* backends; one of the retry around a client asks that backend again.
Attempt(c) ==
    /\ pc[c] = "loop"
    /\ MayAttempt(c)
    /\ ~Stopped(c)
    /\ Goto(c, "send")
    /\ \/ /\ wiring # "fanout_retry"
          /\ at' = [at EXCEPT ![c] = 1]
          /\ errs' = [errs EXCEPT ![c] = {}]
       \/ /\ wiring = "fanout_retry"
          /\ UNCHANGED <<at, errs>>
    /\ UNCHANGED <<chain, connections, attempt, cancelled, result, history>>

CancelledBetween(c) ==
    /\ pc[c] = "loop"
    /\ MayAttempt(c)
    /\ Stopped(c)
    /\ Return(c, "cancelled")
    /\ UNCHANGED <<chain, connections, attempt, at, errs, cancelled, history>>

Exhausted_Spins(c) ==
    /\ pc[c] = "loop"
    /\ ~MayAttempt(c)
    /\ UNCHANGED vars
Exhausted(c) ==
    /\ pc[c] = "loop"
    /\ ~MayAttempt(c)
    /\ \/ /\ wiring # "fanout_retry"
          /\ Return(c, "error")
          /\ UNCHANGED <<attempt, at, errs>>
       \/ /\ wiring = "fanout_retry"
          /\ NextBackend(c, errs[c] \cup {order[at[c]]})
    /\ UNCHANGED <<chain, connections, cancelled, history>>

\* The sleep after a failed attempt, the last one too.
Sleep(c) ==
    /\ pc[c] = "backoff"
    /\ attempt' = [attempt EXCEPT ![c] = @ + 1]
    /\ Goto(c, "loop")
    /\ UNCHANGED <<chain, connections, at, errs, cancelled, result, history>>

\* The select of WithContext: when both are ready, either is taken.
CancelledInBackoff(c) ==
    /\ pc[c] = "backoff"
    /\ wiring = "with_context"
    /\ c \in cancelled
    /\ Return(c, "cancelled")
    /\ UNCHANGED <<chain, connections, attempt, at, errs, cancelled, history>>

Cancel(c) ==
    /\ wiring = "with_context"
    /\ pc[c] # "done"
    /\ c \notin cancelled
    /\ cancelled' = cancelled \cup {c}
    /\ UNCHANGED <<chain, connections, locals, history>>
-----------------------------------------------------------------------------
(* The OTLP client and the fan-out.                                        *)

\* client.Export; nothing is sent over a connection that has been closed.
Send(c) ==
    LET b == order[at[c]] IN
    /\ pc[c] = "send"
    /\ Goto(c, IF b \in closed THEN "unsent" ELSE "sent")
    /\ asked' = [asked EXCEPT ![c][b] = @ + 1]
    /\ UNCHANGED <<chain, connections, attempt, at, errs, cancelled, result,
                   taken, lost>>

\* After an answer of a backend the fan-out goes on, error or not.
Collected_Stops(c, E) ==
    /\ errs' = [errs EXCEPT ![c] = E]
    /\ at' = [at EXCEPT ![c] = @ + 1]
    /\ Goto(c, IF at[c] < N /\ E = {} THEN "send" ELSE "joined")
    /\ UNCHANGED <<attempt, result>>
Collected(c, E) ==
    /\ errs' = [errs EXCEPT ![c] = E]
    /\ at' = [at EXCEPT ![c] = @ + 1]
    /\ Goto(c, IF at[c] < N THEN "send" ELSE "joined")
    /\ UNCHANGED <<attempt, result>>

AnswerOk(c) ==
    LET b == order[at[c]] IN
    /\ pc[c] = "sent"
    /\ taken' = [taken EXCEPT ![c][b] = @ + 1]
    /\ \/ wiring # "fanout_retry" /\ Collected(c, errs[c])
       \/ wiring = "fanout_retry" /\ NextBackend(c, errs[c])
    /\ UNCHANGED <<chain, connections, cancelled, asked, lost>>

\* An error: what has been sent may have been taken all the same.
AnswerError(c) ==
    LET b == order[at[c]] IN
    /\ pc[c] \in {"sent", "unsent"}
    /\ \/ UNCHANGED <<taken, lost>>
       \/ /\ pc[c] = "sent"
          /\ taken' = [taken EXCEPT ![c][b] = @ + 1]
          /\ lost' = [lost EXCEPT ![c][b] = @ + 1]
    /\ \/ wiring # "fanout_retry" /\ Collected(c, errs[c] \cup {b})
       \/ /\ wiring = "fanout_retry"
          /\ Goto(c, "backoff")
          /\ UNCHANGED <<attempt, at, errs, result>>
    /\ UNCHANGED <<chain, connections, cancelled, asked>>

\* The retry around the fan-out sees the joined error of a pass.
PassDone(c) ==
    /\ pc[c] = "joined"
    /\ \/ /\ Joined(errs[c]) = "ok"
          /\ Return(c, "ok")
       \/ /\ Joined(errs[c]) = "error"
          /\ Goto(c, "backoff")
          /\ UNCHANGED result
    /\ UNCHANGED <<chain, connections, attempt, at, errs, cancelled, history>>
-----------------------------------------------------------------------------
(* Shutdown: every connection is closed in turn, whatever Close returns.   *)

Shutdown ==
    /\ closing = 0
    /\ closing' = 1
    /\ UNCHANGED <<chain, closed, locals, cancelled, history>>

Close ==
    /\ closing \in 1 .. N
    /\ closed' = closed \cup {order[closing]}
    /\ closing' = closing + 1
    /\ UNCHANGED <<chain, locals, cancelled, history>>
-----------------------------------------------------------------------------
Run(c) ==
    \/ Attempt(c)
    \/ CancelledBetween(c)
    \/ Exhausted(c)
    \/ Sleep(c)
    \/ CancelledInBackoff(c)
    \/ Send(c)
    \/ AnswerOk(c)
    \/ AnswerError(c)
    \/ PassDone(c)

\* All calls have returned and nobody is shutting down.
Rest ==
    /\ \A c \in Calls : pc[c] \in {"new", "done"}
    /\ closing \notin 1 .. N
    /\ UNCHANGED vars

Next ==
    \/ \E c \in Calls : Begin(c) \/ Run(c) \/ Cancel(c)
    \/ Shutdown
    \/ Close
    \/ Rest

Spec == Init /\ [][Next]_vars

\* Workers run, a client has a deadline for each call, sleeps end.
FairSpec == Spec /\ \A c \in Calls : WF_vars(Run(c))
-----------------------------------------------------------------------------
(* Properties.                                                             *)

got == [c \in Calls |-> {b \in Backends : taken[c][b] > 0}]

Once == INSTANCE AtLeastOnce WITH state <- result

\* A call that returns nil has brought the payload to every backend, whatever
\* failed and was repeated on the way, and sends nothing once it has returned
\* (fanout.go: errors do not prevent delivery to the others).
AtLeastOnceSpec == Once!Spec

\* No call gives up early and none goes on for ever: a backend is asked at
\* most MaxAttempts times; when a call returns an error every backend has been
\* asked, and the one to blame, or all of them if the whole fan-out is
\* repeated, MaxAttempts times.
Persistence ==
    \A c \in Calls :
        /\ \A b \in Backends : asked[c][b] <= MaxAttempts
        /\ result[c] = "error" =>
              \A b \in Backends :
                 /\ MaxAttempts > 0 => asked[c][b] > 0
                 /\ (wiring # "fanout_retry" \/ b \in errs[c])
                       => asked[c][b] = MaxAttempts

\* A backend takes a payload again only for a reason: with a retry around its
\* client, an answer of its own was lost; with a retry around the fan-out, an
\* earlier pass has failed somewhere.
DuplicatesExplained ==
    \A c \in Calls : \A b \in Backends :
        taken[c][b] <= 1 + (IF wiring = "fanout_retry" THEN lost[c][b]
                                                       ELSE attempt[c])
=============================================================================
