------------------------------ MODULE Gateway -------------------------------
(***************************************************************************)
(* The inference gateway of internal/gateway and cmd/gateway: requests for *)
(* a model pass the bucket of that model, take the backends that the       *)
(* health checker holds for healthy in a shuffled order, and try them one  *)
(* after the other; the checker probes all backends in rounds.             *)
(*                                                                         *)
(* A step is one critical section, one call of a backend or one probe.     *)
(* Time passes in ticks of 1/Grain seconds, tokens are counted in          *)
(* 1/Grain.  A backend that is alive answers its probe with 200 and a      *)
(* request with a status below 500; one that is not fails, times out or    *)
(* answers with a 5xx.                                                     *)
(***************************************************************************)
EXTENDS Integers, SequencesExt

CONSTANTS
    Backends,     \* Seq of backend ids: cfg.Backends
    Weight,       \* [backend -> Nat \ {0}]
    Serves,       \* [backend -> set of models]: Backend.Models
    Configured,   \* the backends whose JSON says "healthy": true
    Models,
    RPS,          \* [Models -> Nat]: RateLimits, or DefaultRPS
    Requests,
    ModelOf,      \* [Requests -> Models or NoModel]
    NoModel,      \* a body without a model, or that is not JSON
    Grain,
    MaxTime,      \* bound: the ticks
    MaxFlips      \* bound: how often backends die or recover

BackendIds == {Backends[i] : i \in DOMAIN Backends}

ASSUME GatewayAssumption ==
    /\ Backends \in Seq(BackendIds)
    /\ \A b \in BackendIds : Weight[b] \in Nat \ {0}
    /\ Configured \subseteq BackendIds
    /\ RPS \in [Models -> Nat]
    /\ ModelOf \in [Requests -> Models \cup {NoModel}]
    /\ NoModel \notin Models
    /\ Grain \in Nat \ {0}
    /\ MaxTime \in Nat
    /\ MaxFlips \in Nat

VARIABLES
    stage,     \* "new", "probing", "serving", "draining", "exited"
    now,       \* ticks since the start
    alive,     \* the backends that answer
    flips,     \* for the bound
    healthy,   \* the backends whose Healthy is set
    probe,     \* [BackendIds -> "idle", "ask", or the answer to be written]
    limiters,  \* [Models -> index of the model's bucket, 0 for none]
    buckets,   \* Seq of [tokens, lastRefill]
    pc,        \* [Requests -> step]
    bucket,    \* [Requests -> the bucket the request has found, or 0]
    left,      \* [Requests -> Seq of the candidates not yet tried]
    answer,    \* [Requests -> status sent to the client, or "none"]
    \* history
    age,       \* [BackendIds -> rounds begun since it died or recovered, to 2]
    proven,    \* the backends that have answered a probe
    steady,    \* [Requests -> its candidates that have been alive since]
    allowed    \* [Models -> requests that have passed the limiter]

backend == <<alive, flips>>
checker == <<healthy, probe, age, proven>>
limits == <<limiters, buckets, bucket, allowed>>
vars == <<stage, now, backend, checker, limits, pc, left, answer, steady>>

Init ==
    /\ stage = "new"
    /\ now = 0
    /\ alive \in SUBSET BackendIds
    /\ flips = 0
    /\ healthy = Configured
    /\ probe = [b \in BackendIds |-> "idle"]
    /\ limiters = [m \in Models |-> 0]
    /\ buckets = << >>
    /\ pc = [r \in Requests |-> "new"]
    /\ bucket = [r \in Requests |-> 0]
    /\ left = [r \in Requests |-> << >>]
    /\ answer = [r \in Requests |-> "none"]
    /\ age = [b \in BackendIds |-> 0]
    /\ proven = {}
    /\ steady = [r \in Requests |-> {}]
    /\ allowed = [m \in Models |-> 0]
-----------------------------------------------------------------------------
(* The environment.                                                        *)

Tick ==
    /\ now < MaxTime
    /\ now' = now + 1
    /\ UNCHANGED <<stage, backend, checker, limits, pc, left, answer, steady>>

\* A backend dies or recovers.
Flip(b) ==
    /\ flips < MaxFlips
    /\ flips' = flips + 1
    /\ alive' = IF b \in alive THEN alive \ {b} ELSE alive \cup {b}
    /\ age' = [age EXCEPT ![b] = 0]
    /\ steady' = [r \in Requests |-> steady[r] \ {b}]
    /\ UNCHANGED <<stage, now, healthy, probe, proven, limits, pc, left,
                   answer>>
-----------------------------------------------------------------------------
(* HealthChecker.                                                          *)

\* The initial probeAll, or one for a tick of the loop, which waits for the
\* probes of its last one.
RoundOver_NoWait == \E b \in BackendIds : probe[b] = "idle"
RoundOver == \A b \in BackendIds : probe[b] = "idle"

StartRound_NoLoop ==
    /\ stage = "new"
    /\ RoundOver
    /\ probe' = [b \in BackendIds |-> "ask"]
    /\ age' = [b \in BackendIds |-> IF age[b] = 2 THEN 2 ELSE age[b] + 1]
    /\ stage' = "probing"
    /\ UNCHANGED <<now, backend, healthy, proven, limits, pc, left, answer,
                   steady>>
StartRound ==
    /\ stage \in {"new", "serving", "draining"}
    /\ RoundOver
    /\ probe' = [b \in BackendIds |-> IF probe[b] = "idle" THEN "ask"
                                                           ELSE probe[b]]
    /\ age' = [b \in BackendIds |-> IF age[b] = 2 THEN 2 ELSE age[b] + 1]
    /\ stage' = IF stage = "new" THEN "probing" ELSE stage
    /\ UNCHANGED <<now, backend, healthy, proven, limits, pc, left, answer,
                   steady>>

Probe(b) ==
    /\ stage # "exited"
    /\ probe[b] = "ask"
    /\ probe' = [probe EXCEPT ![b] = IF b \in alive THEN "yes" ELSE "no"]
    /\ UNCHANGED <<stage, now, backend, healthy, age, proven, limits, pc, left,
                   answer, steady>>

Marked(b) == IF probe[b] = "yes" THEN healthy \cup {b} ELSE healthy \ {b}

SetHealthy(b) ==
    /\ stage # "exited"
    /\ probe[b] \in {"yes", "no"}
    /\ healthy' = Marked(b)
    /\ proven' = IF probe[b] = "yes" THEN proven \cup {b} ELSE proven
    /\ probe' = [probe EXCEPT ![b] = "idle"]
    /\ UNCHANGED <<stage, now, backend, age, limits, pc, left, answer, steady>>

\* main listens once Start has returned.
MayServe_AtOnce == TRUE
MayServe == RoundOver

Serve ==
    /\ stage = "probing"
    /\ MayServe
    /\ stage' = "serving"
    /\ UNCHANGED <<now, backend, checker, limits, pc, left, answer, steady>>
-----------------------------------------------------------------------------
(* proxyInference.                                                         *)

Reply(r, status) ==
    /\ answer' = [answer EXCEPT ![r] = status]
    /\ pc' = [pc EXCEPT ![r] = "done"]

Accept(r) ==
    /\ stage = "serving"
    /\ pc[r] = "new"
    /\ \/ /\ ModelOf[r] = NoModel
          /\ Reply(r, "bad_request")
       \/ /\ ModelOf[r] # NoModel
          /\ pc' = [pc EXCEPT ![r] = "lookup"]
          /\ UNCHANGED answer
    /\ UNCHANGED <<stage, now, backend, checker, limits, left, steady>>

\* RateLimiterRegistry.Allow, under the read lock.
Lookup(r) ==
    /\ stage # "exited"
    /\ pc[r] = "lookup"
    /\ bucket' = [bucket EXCEPT ![r] = limiters[ModelOf[r]]]
    /\ pc' = [pc EXCEPT ![r] = IF limiters[ModelOf[r]] = 0 THEN "create"
                                                           ELSE "allow"]
    /\ UNCHANGED <<stage, now, backend, checker, limiters, buckets, allowed,
                   left, answer, steady>>

\* NewTokenBucket.
Rate(m) == IF RPS[m] < 1 THEN 1 ELSE RPS[m]
Burst(m) == 2 * Rate(m) * Grain
NewTokenBucket(m) == [tokens |-> Rate(m) * Grain, lastRefill |-> now]

Found_NoSecondCheck(m) == FALSE
Found(m) == limiters[m] # 0

\* Under the write lock: somebody else may have created the bucket.
Create(r) ==
    LET m == ModelOf[r] IN
    /\ stage # "exited"
    /\ pc[r] = "create"
    /\ \/ Found(m) /\ UNCHANGED <<limiters, buckets>>
       \/ /\ ~Found(m)
          /\ buckets' = Append(buckets, NewTokenBucket(m))
          /\ limiters' = [limiters EXCEPT ![m] = Len(buckets')]
    /\ bucket' = [bucket EXCEPT ![r] = limiters'[m]]
    /\ pc' = [pc EXCEPT ![r] = "allow"]
    /\ UNCHANGED <<stage, now, backend, checker, allowed, left, answer, steady>>

\* refill.
Refilled_Uncapped(b, m) == b.tokens + (now - b.lastRefill) * Rate(m)
Refilled(b, m) ==
    LET sum == b.tokens + (now - b.lastRefill) * Rate(m)
    IN  IF sum > Burst(m) THEN Burst(m) ELSE sum

\* TokenBucket.Allow, under the bucket's mutex.
Allow(r) ==
    LET m == ModelOf[r]
        tokens == Refilled(buckets[bucket[r]], m)
        Left(n) == [buckets EXCEPT ![bucket[r]] =
                        [tokens |-> n, lastRefill |-> now]]
    IN
    /\ stage # "exited"
    /\ pc[r] = "allow"
    /\ \/ /\ tokens >= Grain
          /\ buckets' = Left(tokens - Grain)
          /\ allowed' = [allowed EXCEPT ![m] = @ + 1]
          /\ pc' = [pc EXCEPT ![r] = "find"]
          /\ UNCHANGED answer
       \/ /\ tokens < Grain
          /\ buckets' = Left(tokens)
          /\ Reply(r, "too_many")
          /\ UNCHANGED allowed
    /\ UNCHANGED <<stage, now, backend, checker, limiters, bucket, left,
                   steady>>

\* weightedShuffle, for the random indices in pick.
Swapped(s, i, j) == [s EXCEPT ![i] = s[j], ![j] = s[i]]

Picks(n) == {pick \in [1 .. n -> 1 .. n] : \A i \in 1 .. n : pick[i] >= i}

Turn(acc, i, j) == IF Weight[acc[j]] > Weight[acc[i]] THEN Swapped(acc, i, j)
                                                     ELSE acc

ShuffledBy(s, pick) ==
    LET after[i \in 0 .. Len(s)] ==
            IF i = 0 THEN s ELSE Turn(after[i - 1], i, pick[i])
    IN  after[Len(s)]

Shuffled(s) == {ShuffledBy(s, pick) : pick \in Picks(Len(s))}

\* GetHealthyBackends under the read lock: the loop over the backends.
Collect(acc, b, m) == IF b \in healthy /\ m \in Serves[b] THEN Append(acc, b)
                                                         ELSE acc

Matched(m) ==
    LET upto[i \in 0 .. Len(Backends)] ==
            IF i = 0 THEN << >> ELSE Collect(upto[i - 1], Backends[i], m)
    IN  upto[Len(Backends)]

\* The candidates, shuffled copies.
FindBackends(r) ==
    /\ stage # "exited"
    /\ pc[r] = "find"
    /\ \E s \in Shuffled(Matched(ModelOf[r])) :
          \/ /\ s = << >>
             /\ Reply(r, "unavailable")
             /\ UNCHANGED <<left, steady>>
          \/ /\ s # << >>
             /\ left' = [left EXCEPT ![r] = s]
             /\ steady' = [steady EXCEPT ![r] = Range(s) \cap alive]
             /\ pc' = [pc EXCEPT ![r] = "try"]
             /\ UNCHANGED answer
    /\ UNCHANGED <<stage, now, backend, checker, limits>>

\* i < len(candidates)-1.
HasNext_OffByOne(r) == Len(left[r]) > 2
HasNext(r) == Len(left[r]) > 1

Forward(r, status) ==
    /\ Reply(r, status)
    /\ UNCHANGED left

\* The next candidate, or "all backends failed".
Failover_Cycle(r) ==
    /\ left' = [left EXCEPT ![r] = Append(Tail(@), Head(@))]
    /\ UNCHANGED <<pc, answer>>
Failover(r) ==
    /\ left' = [left EXCEPT ![r] = Tail(@)]
    /\ \/ HasNext(r) /\ UNCHANGED <<pc, answer>>
       \/ ~HasNext(r) /\ Reply(r, "bad_gateway")

\* client.Do: an answer, a 5xx, or an error (a timeout is one).
Try(r) ==
    /\ stage # "exited"
    /\ pc[r] = "try"
    /\ \/ Head(left[r]) \in alive /\ Forward(r, "ok")
       \/ Head(left[r]) \notin alive /\ HasNext(r) /\ Failover(r)     \* 5xx
       \/ Head(left[r]) \notin alive /\ ~HasNext(r) /\ Forward(r, "5xx")
       \/ Head(left[r]) \notin alive /\ Failover(r)                   \* error
    /\ UNCHANGED <<stage, now, backend, checker, limits, steady>>

\* The client has gone: the request's context fails this call and all that
\* would follow it.
ClientGone(r) ==
    /\ stage # "exited"
    /\ pc[r] = "try"
    /\ Reply(r, "gone")
    /\ UNCHANGED <<stage, now, backend, checker, limits, left, steady>>

Handler(r) ==
    \/ Lookup(r)
    \/ Create(r)
    \/ Allow(r)
    \/ FindBackends(r)
    \/ Try(r)
-----------------------------------------------------------------------------
(* The shutdown of cmd/gateway.                                            *)

Signal ==
    /\ stage = "serving"
    /\ stage' = "draining"
    /\ UNCHANGED <<now, backend, checker, limits, pc, left, answer, steady>>

\* server.Shutdown returns when no request is active, or at its timeout with
\* some still active; the process ends either way.
Exit ==
    /\ stage = "draining"
    /\ stage' = "exited"
    /\ UNCHANGED <<now, backend, checker, limits, pc, left, answer, steady>>

Exited == stage = "exited" /\ UNCHANGED vars
-----------------------------------------------------------------------------
Checker ==
    \/ StartRound
    \/ \E b \in BackendIds : Probe(b) \/ SetHealthy(b)

\* Time passes (Tick) where the limits matter: see Benchmark.
Next ==
    \/ \E b \in BackendIds : Flip(b)
    \/ Checker
    \/ Serve
    \/ \E r \in Requests : Accept(r) \/ Handler(r) \/ ClientGone(r)
    \/ Signal
    \/ Exit
    \/ Exited

Spec == Init /\ [][Next]_vars

\* Handlers and the checker run; both HTTP clients have timeouts, so a call
\* of a backend ends.
FairSpec ==
    /\ Spec
    /\ WF_vars(StartRound)
    /\ WF_vars(Serve)
    /\ \A b \in BackendIds : WF_vars(Probe(b) \/ SetHealthy(b))
    /\ \A r \in Requests : WF_vars(Handler(r))
-----------------------------------------------------------------------------
(* Properties.                                                             *)

Answers == {"bad_request", "too_many", "unavailable", "ok", "5xx",
            "bad_gateway", "gone"}

\* Type correctness; a bucket never holds more than its burst.
GatewayTypeOK ==
    /\ stage \in {"new", "probing", "serving", "draining", "exited"}
    /\ now \in 0 .. MaxTime
    /\ alive \subseteq BackendIds
    /\ flips \in 0 .. MaxFlips
    /\ healthy \subseteq BackendIds
    /\ probe \in [BackendIds -> {"idle", "ask", "yes", "no"}]
    /\ buckets \in Seq([tokens : Nat, lastRefill : 0 .. MaxTime])
    /\ limiters \in [Models -> 0 .. Len(buckets)]
    /\ \A m \in Models : limiters[m] # 0 => buckets[limiters[m]].tokens <= Burst(m)
    /\ pc \in [Requests -> {"new", "lookup", "create", "allow", "find", "try",
                            "done"}]
    /\ bucket \in [Requests -> 0 .. Len(buckets)]
    /\ \A r \in Requests : pc[r] = "allow" => bucket[r] # 0
    /\ left \in [Requests -> Seq(BackendIds)]
    /\ answer \in [Requests -> Answers \cup {"none"}]
    /\ age \in [BackendIds -> 0 .. 2]
    /\ proven \subseteq BackendIds
    /\ steady \in [Requests -> SUBSET BackendIds]
    /\ allowed \in [Models -> Nat]

\* A model's limit holds for all requests together, also when the first ones
\* arrive at once and race to create the bucket: no more pass than the initial
\* tokens and what the time since the start has added.
RateRespected ==
    \A m \in Models : allowed[m] * Grain <= Rate(m) * Grain + Rate(m) * now

\* Failover is complete: a request is answered with a 5xx or "all backends
\* failed" only if none of its candidates has been alive since it found them.
NoNeedlessFailure ==
    \A r \in Requests : answer[r] \in {"5xx", "bad_gateway"} => steady[r] = {}

\* No request is sent to a backend that has never answered a probe, whatever
\* "healthy" its configuration claims.
OnlyProven == \A r \in Requests : Range(left[r]) \subseteq proven

\* Health is stale by less than two rounds: once a second round has begun
\* since a backend died or recovered, Healthy says so.
HealthConverges ==
    \A b \in BackendIds : age[b] = 2 => (b \in healthy <=> b \in alive)
=============================================================================
