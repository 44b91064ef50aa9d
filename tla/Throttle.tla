------------------------------ MODULE Throttle ------------------------------
(***************************************************************************)
(* processor/ratelimit: a token bucket per signal, and UpdateConfig, which *)
(* puts new buckets in the place of the old ones without a lock, while     *)
(* workers hold pointers to these.  Buckets are therefore numbered and     *)
(* stay.  Time passes in ticks; rates are tokens per tick.                 *)
(***************************************************************************)
EXTENDS Integers, Sequences

CONSTANTS
    Signals,
    Configs,      \* of records [rate : [Signals -> Nat], burst : Nat]
    MaxNow, MaxUpdates,   \* bounds
    None

ASSUME ThrottleAssumption ==
    /\ \A cfg \in Configs : /\ cfg.rate \in [Signals -> Nat]
                            /\ cfg.burst \in Nat
    /\ None \notin Configs
    /\ MaxNow \in Nat
    /\ MaxUpdates \in Nat
    /\ Signals = {"trace", "metric"}

VARIABLES
    now,
    buckets,    \* Seq of buckets, in the order of their creation
    current,    \* [Signals -> index]: traceBucket and metricBucket
    update,     \* the configuration whose metric bucket is still to come
    updates,    \* for the bound
    \* history: a window that an observer opens at any time
    since,      \* when it was opened
    spent       \* Seq: the tokens taken from each bucket in the window

window == <<since, spent>>
throttleVars == <<now, buckets, current, update, updates, window>>

NewBucket(cfg, s) ==
    LET max == cfg.rate[s] * cfg.burst
    IN  [tokens |-> max, maxTokens |-> max, rate |-> cfg.rate[s],
         lastTime |-> now]

ThrottleInit ==
    /\ now = 0
    /\ \E cfg \in Configs :
          buckets = <<NewBucket(cfg, "trace"), NewBucket(cfg, "metric")>>
    /\ current = [s \in Signals |-> IF s = "trace" THEN 1 ELSE 2]
    /\ update = None
    /\ updates = 0
    /\ since = 0
    /\ spent = <<0, 0>>
-----------------------------------------------------------------------------
TimePasses ==
    /\ now < MaxNow
    /\ now' = now + 1
    /\ UNCHANGED <<buckets, current, update, updates, window>>

OpenWindow ==
    /\ since < now
    /\ since' = now
    /\ spent' = [i \in DOMAIN spent |-> 0]
    /\ UNCHANGED <<now, buckets, current, update, updates>>

\* One assignment of UpdateConfig.
Replace(s, cfg) ==
    /\ buckets' = Append(buckets, NewBucket(cfg, s))
    /\ current' = [current EXCEPT ![s] = Len(buckets) + 1]
    /\ spent' = Append(spent, 0)
    /\ UNCHANGED <<now, since>>

UpdateTrace(cfg) ==
    /\ updates < MaxUpdates
    /\ update = None
    /\ Replace("trace", cfg)
    /\ update' = cfg
    /\ updates' = updates + 1

UpdateMetric ==
    /\ update # None
    /\ Replace("metric", update)
    /\ update' = None
    /\ UNCHANGED updates

\* tryConsume, under the bucket's mutex: the refill and the time are kept
\* whether or not the tokens suffice.
Refilled(b) ==
    LET sum == b.tokens + (now - b.lastTime) * b.rate
    IN  IF sum > b.maxTokens THEN b.maxTokens ELSE sum

Left_TimeKept(b, n) == [b EXCEPT !.tokens = n]
Left(b, n) == [b EXCEPT !.tokens = n, !.lastTime = now]

TryConsume(i, cost, ok) ==
    LET tokens == Refilled(buckets[i]) IN
    /\ ok = (tokens >= cost)
    /\ buckets' = [buckets EXCEPT ![i] =
                      Left(buckets[i], IF ok THEN tokens - cost ELSE tokens)]
    /\ spent' = IF ok THEN [spent EXCEPT ![i] = @ + cost] ELSE spent
    /\ UNCHANGED <<now, current, update, updates, since>>

\* What goes on besides the workers.
ThrottleNext ==
    \/ TimePasses
    \/ OpenWindow
    \/ \E cfg \in Configs : UpdateTrace(cfg)
    \/ UpdateMetric
-----------------------------------------------------------------------------
(* Properties.                                                             *)

\* The limit holds over every window of time, wherever it begins and whoever
\* still uses a bucket that has been replaced: no more tokens are taken from a
\* bucket than its burst and what the time in the window has added.
WindowBounded ==
    \A i \in DOMAIN buckets :
        spent[i] <= buckets[i].maxTokens + buckets[i].rate * (now - since)
=============================================================================
