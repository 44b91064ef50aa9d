----------------------------- MODULE Benchmark ------------------------------
(***************************************************************************)
(* internal/benchmark against the gateway, as benchctl and the benchmark   *)
(* executor run it: a goroutine per request, of which at most Concurrency  *)
(* have a request under way, a list of samples, and their summary.         *)
(*                                                                         *)
(* Latencies are in ticks.  The values of percentile are multiplied by     *)
(* 100; latencies are whole milliseconds, so that the rounding to two      *)
(* digits loses nothing.                                                   *)
(***************************************************************************)
EXTENDS Gateway, FiniteSets

CONSTANTS
    Sent,          \* the requests of the benchmark; others are of others
    Concurrency,
    ClientTimeout  \* in ticks

ASSUME BenchmarkAssumption ==   \* validateConfig
    /\ Sent \subseteq Requests
    /\ IsFiniteSet(Sent)
    /\ Sent # {}
    /\ Concurrency \in Nat \ {0}
    /\ ClientTimeout \in Nat

VARIABLES
    client,   \* [Sent -> "spawned", "calling" or "finished"]
    start,    \* [Sent -> time of client.Do]
    samples,  \* set of [index, latency, success]: one append each
    exitCode  \* -1 until Run has returned

benchVars == <<client, start, samples, exitCode>>
allVars == <<vars, benchVars>>

BenchInit ==
    /\ Init
    /\ client = [r \in Sent |-> "spawned"]
    /\ start = [r \in Sent |-> 0]
    /\ samples = {}
    /\ exitCode = -1
-----------------------------------------------------------------------------
(* Run and executeRequest.                                                 *)

\* A place in the semaphore, then client.Do.
Slots == Cardinality({r \in Sent : client[r] = "calling"})

Call(r) ==
    /\ client[r] = "spawned"
    /\ Slots < Concurrency
    /\ client' = [client EXCEPT ![r] = "calling"]
    /\ start' = [start EXCEPT ![r] = now]
    /\ UNCHANGED <<vars, samples, exitCode>>

\* The sample is appended, the place given back.
Record(r, success) ==
    /\ client[r] = "calling"
    /\ client' = [client EXCEPT ![r] = "finished"]
    /\ samples' = samples \cup {[index |-> r, latency |-> now - start[r],
                                 success |-> success]}
    /\ UNCHANGED <<vars, start, exitCode>>

\* A status other than 200 is an error, and so is a body that is not JSON.
Succeeds(status) == IF status = "ok" THEN BOOLEAN ELSE {FALSE}

Answered(r) ==
    /\ answer[r] \notin {"none", "gone"}
    /\ \E success \in Succeeds(answer[r]) : Record(r, success)

\* Nobody listens, the connection breaks, or the client's timeout.
Unanswered(r) ==
    /\ answer[r] \in {"none", "gone"}
    /\ \/ stage # "serving"
       \/ answer[r] = "gone"
       \/ now - start[r] >= ClientTimeout
    /\ Record(r, FALSE)
-----------------------------------------------------------------------------
(* Summarize.                                                              *)

Total == Cardinality(samples)
Successes == {s \in samples : s.success}
SuccessCount == Cardinality(Successes)
ErrorCount == Total - SuccessCount

\* sort.Float64s: the samples in an order in which no latency decreases.
Ascending(f, n) ==
    \A i, j \in 1 .. n : i < j => f[i] # f[j] /\ f[i].latency <= f[j].latency

Latencies ==
    CHOOSE f \in [1 .. SuccessCount -> Successes] : Ascending(f, SuccessCount)

\* The value at place p/100 * (n - 1), from zero, between its neighbours.
Percentile_SwappedWeights(p) ==
    LET idx == p * (SuccessCount - 1)
        lower == idx \div 100
        frac == idx % 100
        upper == IF frac = 0 THEN lower ELSE lower + 1
    IN  IF SuccessCount = 0 THEN 0
        ELSE Latencies[lower + 1].latency * frac
             + Latencies[upper + 1].latency * (100 - frac)
Percentile(p) ==
    LET idx == p * (SuccessCount - 1)
        lower == idx \div 100
        frac == idx % 100
        upper == IF frac = 0 THEN lower ELSE lower + 1
    IN  IF SuccessCount = 0 THEN 0
        ELSE Latencies[lower + 1].latency * (100 - frac)
             + Latencies[upper + 1].latency * frac

ExitCode == IF ErrorCount > 0 THEN 1 ELSE 0

\* wg.Wait.
AllDone_Any == \E r \in Sent : client[r] = "finished"
AllDone == \A r \in Sent : client[r] = "finished"

\* Run returns, and its caller takes the exit code from the summary.
RunReturns ==
    /\ exitCode = -1
    /\ AllDone
    /\ exitCode' = ExitCode
    /\ UNCHANGED <<vars, client, start, samples>>
-----------------------------------------------------------------------------
\* The gateway accepts a request of the benchmark while its client waits.
Served ==
    /\ Next
    /\ \A r \in Sent : (pc[r] = "new" /\ pc'[r] # "new") => client[r] = "calling"
    /\ UNCHANGED benchVars

TimePasses == Tick /\ UNCHANGED benchVars

BenchNext ==
    \/ Served
    \/ TimePasses
    \/ \E r \in Sent : Call(r) \/ Answered(r) \/ Unanswered(r)
    \/ RunReturns

BenchSpec == BenchInit /\ [][BenchNext]_allVars
-----------------------------------------------------------------------------
(* Properties.                                                             *)

\* A benchmark that has returned has measured what it claims: every request
\* once, whatever timed out or was refused, and exit code 0 only if a live
\* backend has answered every one of them.
SummaryTruthful ==
    exitCode # -1 =>
        /\ {s.index : s \in samples} = Sent
        /\ Total = Cardinality(Sent)
        /\ \A s \in Successes : answer[s.index] = "ok"
        /\ exitCode = 0 => \A r \in Sent : answer[r] = "ok"

\* The percentiles are in order and each is where its name says: not above
\* more latencies, nor below more, than its place in the sorted list allows.
PercentilesRight ==
    (exitCode # -1 /\ SuccessCount > 0) =>
        /\ Percentile(50) <= Percentile(95)
        /\ Percentile(95) <= Percentile(99)
        /\ \A p \in {50, 95, 99} :
              LET below == {s \in Successes : 100 * s.latency < Percentile(p)}
                  above == {s \in Successes : 100 * s.latency > Percentile(p)}
              IN  /\ 100 * Cardinality(below) <= p * (SuccessCount - 1) + 99
                  /\ 100 * Cardinality(above) <= (100 - p) * (SuccessCount - 1) + 99
=============================================================================
