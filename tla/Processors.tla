----------------------------- MODULE Processors -----------------------------
(***************************************************************************)
(* The processors of internal/otelgateway in a row, as the loop of a       *)
(* pipeline worker calls them: memory limiter, rate limiter, sampler and   *)
(* degradation, in any order.  A worker has one payload at a time; the     *)
(* monitor, supervisors and reloads of Pressure and Throttle run besides.  *)
(* The sampler is not in the chain of the metrics.                         *)
(*                                                                         *)
(* The spans of a payload are a set; the hash of a trace id has HashBits   *)
(* bits instead of 64, and sampling rates are multiples of 1/Half.         *)
(***************************************************************************)
EXTENDS Pressure, Throttle, FiniteSets

CONSTANTS
    Chains,      \* of [Signals -> sequence of names]: the processors in order
    Workers,     \* how many there are
    Payloads,
    SignalOf,    \* [Payloads -> Signals]
    SpansOf,     \* [Payloads -> finite set of spans or data points]
    HashOf,      \* [span -> hash of its trace id, or NoTrace if that is empty]
    NoTrace,
    Half,        \* 2^(HashBits - 1)
    Rates,       \* what SetRate is called with, in 1/Half
    MaxEvents    \* bound: moves of the heap, calls, reloads and ticks

Names == {"memlimit", "ratelimit", "sampler", "degrade"}

\* The configuration has each processor once; the sampler is for traces only.
ASSUME ProcessorsAssumption ==
    /\ \A ch \in Chains :
          /\ ch \in [Signals -> Seq(Names)]
          /\ \A s \in Signals : \A i, j \in 1 .. Len(ch[s]) :
                ch[s][i] = ch[s][j] => i = j
          /\ \A i \in 1 .. Len(ch["metric"]) : ch["metric"][i] # "sampler"
    /\ SignalOf \in [Payloads -> Signals]
    /\ SpansOf = [p \in Payloads |-> SpansOf[p]]
    /\ \A p \in Payloads :
          /\ IsFiniteSet(SpansOf[p])
          /\ \A x \in SpansOf[p] : HashOf[x] = NoTrace \/ HashOf[x] \in Nat
    /\ Workers \in Nat \ {0}
    /\ Half \in Nat \ {0}
    /\ Rates \subseteq Int
    /\ MaxEvents \in Nat

VARIABLES
    chain,
    rate,         \* the sampler's, in 1/Half
    setRates,     \* for the bound
    pos,          \* [Payloads -> position in its chain]
    fate,         \* [Payloads -> "new", "inside", "passed", "error", "dropped"]
    spans,        \* [Payloads -> what is left of Data]
    count,        \* [Payloads -> SpanCount or DataPointCount]
    held,         \* [Payloads -> bucket its worker has read, or 0]
    rejectedSpans, backpressureEvents,  \* counters
    \* history
    sampledAt,    \* [Payloads -> the rate it was sampled at, or -1]
    survived      \* [Payloads -> the spans that the sampler has kept]

payloadVars == <<pos, fate, spans, count, held>>
counterVars == <<rejectedSpans, backpressureEvents>>
samplerVars == <<rate, setRates>>
sampleVars == <<sampledAt, survived>>
vars == <<pressureVars, throttleVars, chain, samplerVars, payloadVars,
          counterVars, sampleVars>>

\* The clamp of New and SetRate.
Clamped(r) == IF r < 0 THEN 0 ELSE IF r > Half THEN Half ELSE r

Init ==
    /\ PressureInit
    /\ ThrottleInit
    /\ chain \in Chains
    /\ rate = Half   \* the default: 1.0
    /\ setRates = 0
    /\ pos = [p \in Payloads |-> 0]
    /\ fate = [p \in Payloads |-> "new"]
    /\ spans = SpansOf
    /\ count = [p \in Payloads |-> Cardinality(SpansOf[p])]
    /\ held = [p \in Payloads |-> 0]
    /\ rejectedSpans = 0
    /\ backpressureEvents = 0
    /\ sampledAt = [p \in Payloads |-> -1]
    /\ survived = SpansOf
-----------------------------------------------------------------------------
(* The worker's loop.                                                      *)

ChainOf(p) == chain[SignalOf[p]]

At(p, name) == fate[p] = "inside" /\ ChainOf(p)[pos[p]] = name

Receive(p) ==
    /\ fate[p] = "new"
    /\ Cardinality({q \in Payloads : fate[q] = "inside"}) < Workers
    /\ fate' = [fate EXCEPT ![p] = IF ChainOf(p) = <<>> THEN "passed"
                                                       ELSE "inside"]
    /\ pos' = [pos EXCEPT ![p] = 1]
    /\ UNCHANGED <<spans, count, held, counterVars, sampleVars>>

PassOn(p) ==
    /\ pos' = [pos EXCEPT ![p] = @ + 1]
    /\ fate' = IF pos[p] = Len(ChainOf(p)) THEN [fate EXCEPT ![p] = "passed"]
                                           ELSE fate

\* A processor has returned an error, or nil for the payload.
Break(p, f) ==
    /\ fate' = [fate EXCEPT ![p] = f]
    /\ UNCHANGED pos

\* RejectedSpansTotal counts spans, not data points.
CountRejected(p) ==
    rejectedSpans' = IF SignalOf[p] = "trace" THEN rejectedSpans + count[p]
                                              ELSE rejectedSpans
-----------------------------------------------------------------------------
(* The processors.                                                         *)

Overloaded == level = Critical

MemLimit(p) ==
    /\ At(p, "memlimit")
    /\ \/ /\ Overloaded
          /\ backpressureEvents' = backpressureEvents + 1
          /\ CountRejected(p)
          /\ Break(p, "error")
       \/ /\ ~Overloaded
          /\ PassOn(p)
          /\ UNCHANGED counterVars
    /\ UNCHANGED <<spans, count, held, sampleVars>>

\* The pointer to the bucket is read before the bucket's mutex is taken.
ReadBucket(p) ==
    /\ At(p, "ratelimit")
    /\ held[p] = 0
    /\ held' = [held EXCEPT ![p] = current[SignalOf[p]]]
    /\ UNCHANGED <<pos, fate, spans, count, counterVars, sampleVars>>

RateLimit(p) ==
    /\ At(p, "ratelimit")
    /\ held[p] # 0
    /\ \/ /\ TryConsume(held[p], count[p], TRUE)
          /\ PassOn(p)
          /\ UNCHANGED counterVars
       \/ /\ TryConsume(held[p], count[p], FALSE)
          /\ CountRejected(p)
          /\ Break(p, "error")
          /\ UNCHANGED backpressureEvents
    /\ UNCHANGED <<spans, count, held, sampleVars>>

\* shouldSample: the hash is shifted by one bit, the threshold is
\* rate * 2^(HashBits - 1).
ShouldSample_Unshifted(span, r) == HashOf[span] = NoTrace \/ HashOf[span] < r
ShouldSample(span, r) == HashOf[span] = NoTrace \/ HashOf[span] \div 2 < r

Kept_WholePayload(S, r) ==
    IF r > 0 /\ \A span \in S : ShouldSample(span, r) THEN S ELSE {}
Kept(S, r) == CASE r >= Half -> S
                [] r <= 0    -> {}
                [] OTHER     -> {span \in S : ShouldSample(span, r)}

Recount_Forgotten(p, S) == count[p]
Recount(p, S) == Cardinality(S)

Sample(p) ==
    LET S == Kept(spans[p], rate) IN
    /\ At(p, "sampler")
    /\ sampledAt' = [sampledAt EXCEPT ![p] = rate]
    /\ survived' = [survived EXCEPT ![p] = S]
    /\ \/ rate >= Half /\ PassOn(p) /\ UNCHANGED <<spans, count>>
       \/ /\ rate < Half
          /\ S # {}
          /\ spans' = [spans EXCEPT ![p] = S]
          /\ count' = [count EXCEPT ![p] = Recount(p, S)]
          /\ PassOn(p)
       \/ /\ rate < Half
          /\ S = {}
          /\ Break(p, "dropped")
          /\ UNCHANGED <<spans, count>>
    /\ UNCHANGED <<held, counterVars>>

\* In degraded mode a random number in [0, 1) decides; metrics always pass.
Degrade(p) ==
    /\ At(p, "degrade")
    /\ \/ /\ \/ SignalOf[p] = "metric"
             \/ mode = Normal
             \/ mode = Elevated /\ ratio > 0
          /\ PassOn(p)
          /\ UNCHANGED rejectedSpans
       \/ /\ SignalOf[p] = "trace"
          /\ mode = Critical \/ (mode = Elevated /\ ratio < 100)
          /\ CountRejected(p)
          /\ Break(p, "dropped")
    /\ UNCHANGED <<spans, count, held, backpressureEvents, sampleVars>>

SetRate(r) ==
    /\ rate' = Clamped(r)
    /\ setRates' = setRates + 1
-----------------------------------------------------------------------------
Worker(p) ==
    \/ RateLimit(p)
    \/ /\ Receive(p) \/ MemLimit(p) \/ ReadBucket(p) \/ Sample(p) \/ Degrade(p)
       /\ UNCHANGED throttleVars

\* All payloads have met their fate, and nothing else is under way.
Rest ==
    /\ \A p \in Payloads : fate[p] \notin {"new", "inside"}
    /\ UNCHANGED vars

\* The bound: one budget for all that happens besides the workers.
Events == moves + calls + reloads + now + updates + setRates
          + (IF stopped THEN 1 ELSE 0)

Elsewhere == UNCHANGED <<payloadVars, counterVars, sampleVars>>

MonitorRuns ==
    /\ MonitorStep
    /\ UNCHANGED <<throttleVars, samplerVars, chain>>
    /\ Elsewhere

Next ==
    \/ MonitorRuns
    \/ /\ \/ /\ \E p \in Payloads : Worker(p)
             /\ UNCHANGED <<pressureVars, samplerVars>>
          \/ PressureEvent /\ UNCHANGED <<throttleVars, samplerVars>> /\ Elsewhere
          \/ ThrottleNext /\ UNCHANGED <<pressureVars, samplerVars>> /\ Elsewhere
          \/ /\ \E r \in Rates : SetRate(r)
             /\ UNCHANGED <<pressureVars, throttleVars>>
             /\ Elsewhere
       /\ UNCHANGED chain
       /\ Events' <= MaxEvents
    \/ Rest

Spec == Init /\ [][Next]_vars

\* The monitor's ticker goes on; supervisors and workers run.
FairSpec ==
    /\ Spec
    /\ WF_vars(MonitorRuns)
-----------------------------------------------------------------------------
(* Properties.                                                             *)

\* Spans of the same trace in two payloads share their fate at the sampler:
\* what a rate keeps in one, the same or a higher rate keeps in the other,
\* however often the rate is set in between.
TracesWhole ==
    \A p, q \in Payloads :
        (0 <= sampledAt[p] /\ sampledAt[p] <= sampledAt[q]) =>
            \A x \in SpansOf[p], y \in SpansOf[q] :
                (HashOf[x] = HashOf[y] /\ x \in survived[p]) => y \in survived[q]

\* The spans of some payloads, those of different payloads told apart.
SpansIn(f, S) == UNION {{p} \X f[p] : p \in S}

Traces == {p \in Payloads : SignalOf[p] = "trace"}
OnWay == {p \in Traces : fate[p] \in {"new", "inside", "passed"}}
Removed == [p \in Payloads |-> SpansOf[p] \ survived[p]]

\* Every span that came in is accounted for: it is still on its way or has
\* passed, the sampler has removed it, or RejectedSpansTotal has counted it,
\* once.  In particular SpanCount, which the limiters charge and count, is the
\* true number of spans behind the sampler too.
SpansAccounted ==
    Cardinality(SpansIn(SpansOf, Traces))
        = Cardinality(SpansIn(Removed, Traces))
          + Cardinality(SpansIn(spans, OnWay)) + rejectedSpans

\* The hashes of the trace ids there are, and those that the sampler keeps.
Hashed == {x \in DOMAIN HashOf : HashOf[x] # NoTrace}
Hashes == {HashOf[x] : x \in Hashed}
KeptHashes == {HashOf[x] : x \in Kept(Hashed, rate)}

\* A rate is what it says: when the trace ids have every hash, the sampler
\* keeps that share of them, at the rates 0 and 1 too, for which it does not
\* look at the hash.
ShareExact ==
    Hashes = 0 .. 2 * Half - 1 =>
        Half * Cardinality(KeptHashes) = rate * Cardinality(Hashes)
=============================================================================
