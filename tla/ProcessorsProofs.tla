-------------------------- MODULE ProcessorsProofs --------------------------
(***************************************************************************)
(* Machine-checked proofs about Processors and the modules it composes,    *)
(* for any number of callers, payloads and buckets, any configuration and  *)
(* any order of the processors.  The three invariants concern separate     *)
(* parts of the state; each is preserved by every step.                    *)
(***************************************************************************)
EXTENDS Processors, TLAPS, FiniteSetTheorems

(***************************************************************************)
(* The gauges of Pressure.                                                 *)
(***************************************************************************)
GaugeTyped ==
    /\ mode \in Modes
    /\ reloads \in Nat
    /\ step \in [Callers -> {"idle", "exited", "level", "swap", "mode", "ratio"}]
    /\ arg \in [Callers -> Modes]
    /\ blurred \in BOOLEAN

\* The gauges show the mode, or a caller that has not been disturbed is about
\* to see to it: one that has just swapped the mode, or the monitor between
\* its own write of the gauge and its call of SetMode.
GaugeOwned ==
    /\ \A c \in Callers : step[c] \in {"mode", "ratio"} => arg[c] = mode
    /\ \/ modeGauge = mode
       \/ \E c \in Callers : step[c] = "mode"
       \/ step[Monitor] = "swap" /\ modeGauge = arg[Monitor]
    /\ \A c \in Callers : step[c] = "ratio" => modeGauge = mode
    /\ published =>
          \/ ratioGauge = RatioOf(mode)
          \/ mode = Elevated /\ reloads > 0
          \/ \E c \in Callers : step[c] \in {"mode", "ratio"}

GaugeInv == GaugeTyped /\ (~blurred => GaugeOwned)

(***************************************************************************)
(* The buckets of Throttle.  What has been spent in the window and what a  *)
(* refill would make available now stay below the bound together.          *)
(***************************************************************************)
Bucket == [tokens : Nat, maxTokens : Nat, rate : Nat, lastTime : Nat]

BucketOK(i) ==
    /\ buckets[i].tokens <= buckets[i].maxTokens
    /\ buckets[i].lastTime <= now
    /\ spent[i] + Refilled(buckets[i])
          <= buckets[i].maxTokens + buckets[i].rate * (now - since)

ThrottleTyped ==
    /\ now \in Nat
    /\ since \in Nat
    /\ since <= now
    /\ buckets \in Seq(Bucket)
    /\ spent \in Seq(Nat)
    /\ Len(spent) = Len(buckets)
    /\ current \in [Signals -> 1 .. Len(buckets)]
    /\ update \in Configs \cup {None}

ThrottleInv == ThrottleTyped /\ \A i \in 1 .. Len(buckets) : BucketOK(i)

(***************************************************************************)
(* The payloads.  Until its sampler is called a payload is whole.          *)
(***************************************************************************)
PayloadTyped ==
    /\ chain \in Chains
    /\ rate \in 0 .. Half
    /\ pos \in [Payloads -> Nat]
    /\ fate \in [Payloads -> {"new", "inside", "passed", "error", "dropped"}]
    /\ spans = [p \in Payloads |-> spans[p]]
    /\ \A p \in Payloads : spans[p] \subseteq SpansOf[p]
    /\ count \in [Payloads -> Nat]
    /\ held \in [Payloads -> Nat]
    /\ \A p \in Payloads : held[p] <= Len(buckets)
    /\ sampledAt \in [Payloads -> -1 .. Half]
    /\ survived = [p \in Payloads |-> survived[p]]

Unsampled(p) ==
    \/ fate[p] = "new"
    \/ /\ fate[p] = "inside"
       /\ \A i \in 1 .. pos[p] - 1 : ChainOf(p)[i] # "sampler"

PayloadOK(p) ==
    /\ fate[p] = "inside" => pos[p] \in 1 .. Len(ChainOf(p))
    /\ Unsampled(p) => spans[p] = SpansOf[p]
    /\ sampledAt[p] # -1 => survived[p] = Kept(SpansOf[p], sampledAt[p])

PayloadInv == PayloadTyped /\ \A p \in Payloads : PayloadOK(p)

ProcessorsInv == GaugeInv /\ ThrottleInv /\ PayloadInv

-----------------------------------------------------------------------------
(* Every step of Pressure preserves GaugeInv.                              *)

LEMMA MonitorCalls == Monitor \in Callers /\ Supervisors \subseteq Callers
  BY DEF Callers

LEMMA LevelType == \A h : LevelOf(h) \in Modes
  BY DEF LevelOf, Modes, Normal, Elevated, Critical

\* What a caller that is not disturbed finds.
LEMMA NobodyElse ==
  ASSUME GaugeInv, NEW c \in Callers, step[c] \notin {"idle", "exited"}, Alone(c), ~blurred
  PROVE  /\ GaugeTyped
         /\ GaugeOwned
         /\ \A d \in Callers : d # c => step[d] \in {"idle", "exited"}
  BY DEF GaugeInv, Alone

LEMMA HeapMovesGauges ==
  ASSUME GaugeInv, NEW h, HeapMoves(h)
  PROVE  GaugeInv'
<1> USE DEF HeapMoves, gauges, marks
<1>1. GaugeTyped'
  BY MonitorCalls, LevelType DEF GaugeInv, GaugeTyped
<1>2. ASSUME ~blurred'
      PROVE  GaugeOwned'
  BY <1>2, MonitorCalls, PressureAssumption DEF GaugeInv, GaugeTyped, GaugeOwned, RatioOf
<1> QED
  BY <1>1, <1>2 DEF GaugeInv

LEMMA PollGauges ==
  ASSUME GaugeInv, Poll
  PROVE  GaugeInv'
<1> USE DEF Poll, gauges, bounds, marks
<1>1. GaugeTyped'
  BY MonitorCalls, LevelType DEF GaugeInv, GaugeTyped
<1>2. ASSUME ~blurred'
      PROVE  GaugeOwned'
  BY <1>2, MonitorCalls, PressureAssumption DEF GaugeInv, GaugeTyped, GaugeOwned, RatioOf
<1> QED
  BY <1>1, <1>2 DEF GaugeInv

LEMMA StopMonitorGauges ==
  ASSUME GaugeInv, StopMonitor
  PROVE  GaugeInv'
<1> USE DEF StopMonitor, gauges, bounds, marks
<1>1. GaugeTyped'
  BY MonitorCalls, LevelType DEF GaugeInv, GaugeTyped
<1>2. ASSUME ~blurred'
      PROVE  GaugeOwned'
  BY <1>2, MonitorCalls, PressureAssumption DEF GaugeInv, GaugeTyped, GaugeOwned, RatioOf
<1> QED
  BY <1>1, <1>2 DEF GaugeInv

LEMMA MonitorExitsGauges ==
  ASSUME GaugeInv, MonitorExits
  PROVE  GaugeInv'
<1> USE DEF MonitorExits, gauges, bounds, marks
<1>1. GaugeTyped'
  BY MonitorCalls, LevelType DEF GaugeInv, GaugeTyped
<1>2. ASSUME ~blurred'
      PROVE  GaugeOwned'
  BY <1>2, MonitorCalls, PressureAssumption DEF GaugeInv, GaugeTyped, GaugeOwned, RatioOf
<1> QED
  BY <1>1, <1>2 DEF GaugeInv

LEMMA CallSetModeGauges ==
  ASSUME GaugeInv, NEW s \in Supervisors, NEW m \in Modes, CallSetMode(s, m)
  PROVE  GaugeInv'
<1> USE DEF CallSetMode, gauges, marks
<1>1. GaugeTyped'
  BY MonitorCalls, LevelType DEF GaugeInv, GaugeTyped
<1>2. ASSUME ~blurred'
      PROVE  GaugeOwned'
  BY <1>2, MonitorCalls, PressureAssumption DEF GaugeInv, GaugeTyped, GaugeOwned, RatioOf
<1> QED
  BY <1>1, <1>2 DEF GaugeInv

LEMMA UpdateDegradeGauges ==
  ASSUME GaugeInv, NEW r, UpdateDegrade(r)
  PROVE  GaugeInv'
<1> USE DEF UpdateDegrade, gauges, marks
<1>1. GaugeTyped' /\ reloads' > 0
  BY DEF GaugeInv, GaugeTyped
<1>2. ASSUME ~blurred'
      PROVE  GaugeOwned'
  <2>1. mode # Elevated => RatioOf(mode)' = RatioOf(mode)
    BY DEF RatioOf, GaugeInv, GaugeTyped, Modes
  <2> QED
    BY <1>1, <1>2, <2>1 DEF GaugeInv, GaugeOwned
<1> QED
  BY <1>1, <1>2 DEF GaugeInv

LEMMA LevelGaugeGauges ==
  ASSUME GaugeInv, LevelGauge
  PROVE  GaugeInv'
<1>0. Monitor \in Callers /\ GaugeTyped
  BY MonitorCalls DEF GaugeInv
<1>1. GaugeTyped'
  BY <1>0 DEF GaugeTyped, LevelGauge, Blur, gauges, bounds
<1>2. ASSUME ~blurred'
      PROVE  GaugeOwned'
  <2>1. ~blurred /\ Alone(Monitor)
    BY <1>0, <1>2 DEF LevelGauge, Blur, GaugeTyped
  <2>2. GaugeOwned /\ \A d \in Callers : d # Monitor => step[d] \in {"idle", "exited"}
    BY <1>0, <2>1, NobodyElse DEF LevelGauge, Blur
  <2>3. /\ step' = [step EXCEPT ![Monitor] = step'[Monitor]]
        /\ \A d \in Callers : d # Monitor => step'[d] = step[d]
    BY <1>0 DEF LevelGauge, Blur, GaugeTyped
  <2>4. /\ step[Monitor] = "level" /\ step'[Monitor] = "swap" /\ modeGauge' = arg'[Monitor]
        /\ UNCHANGED <<mode, arg, ratioGauge, reloads, published>>
        /\ RatioOf(mode)' = RatioOf(mode)
    BY <1>0 DEF LevelGauge, GaugeTyped, RatioOf, bounds
  <2>5. \A d \in Callers : /\ step[d] \notin {"mode", "ratio"}
                           /\ step'[d] \notin {"mode", "ratio"}
    BY <2>2, <2>3, <2>4
  <2> QED
    BY <2>2, <2>4, <2>5 DEF GaugeOwned
<1> QED
  BY <1>1, <1>2 DEF GaugeInv

LEMMA SetModeGaugeGauges ==
  ASSUME GaugeInv, NEW c \in Callers, SetModeGauge(c)
  PROVE  GaugeInv'
<1>0. c \in Callers /\ GaugeTyped
  BY MonitorCalls DEF GaugeInv
<1>1. GaugeTyped'
  BY <1>0 DEF GaugeTyped, SetModeGauge, Blur, gauges, bounds
<1>2. ASSUME ~blurred'
      PROVE  GaugeOwned'
  <2>1. ~blurred /\ Alone(c)
    BY <1>0, <1>2 DEF SetModeGauge, Blur, GaugeTyped
  <2>2. GaugeOwned /\ \A d \in Callers : d # c => step[d] \in {"idle", "exited"}
    BY <1>0, <2>1, NobodyElse DEF SetModeGauge, Blur
  <2>3. /\ step' = [step EXCEPT ![c] = step'[c]]
        /\ \A d \in Callers : d # c => step'[d] = step[d]
    BY <1>0 DEF SetModeGauge, Blur, GaugeTyped
  <2> QED
    BY <1>0, <2>2, <2>3, MonitorCalls DEF SetModeGauge, Blur, GaugeOwned, GaugeTyped, RatioOf, gauges
<1> QED
  BY <1>1, <1>2 DEF GaugeInv

LEMMA SetRatioGaugeGauges ==
  ASSUME GaugeInv, NEW c \in Callers, SetRatioGauge(c)
  PROVE  GaugeInv'
<1>0. c \in Callers /\ GaugeTyped
  BY MonitorCalls DEF GaugeInv
<1>1. GaugeTyped'
  BY <1>0 DEF GaugeTyped, SetRatioGauge, Blur, gauges, bounds
<1>2. ASSUME ~blurred'
      PROVE  GaugeOwned'
  <2>1. ~blurred /\ Alone(c)
    BY <1>0, <1>2 DEF SetRatioGauge, Blur, GaugeTyped
  <2>2. GaugeOwned /\ \A d \in Callers : d # c => step[d] \in {"idle", "exited"}
    BY <1>0, <2>1, NobodyElse DEF SetRatioGauge, Blur
  <2>3. /\ step' = [step EXCEPT ![c] = step'[c]]
        /\ \A d \in Callers : d # c => step'[d] = step[d]
    BY <1>0 DEF SetRatioGauge, Blur, GaugeTyped
  <2> QED
    BY <1>0, <2>2, <2>3, MonitorCalls DEF SetRatioGauge, Blur, GaugeOwned, GaugeTyped, RatioOf, gauges
<1> QED
  BY <1>1, <1>2 DEF GaugeInv

LEMMA SwapGauges ==
  ASSUME GaugeInv, NEW c \in Callers, Swap(c)
  PROVE  GaugeInv'
<1>0. c \in Callers /\ GaugeTyped
  BY MonitorCalls DEF GaugeInv
<1>1. GaugeTyped'
  BY <1>0 DEF GaugeTyped, Swap, Blur, gauges, bounds
<1>2. ASSUME ~blurred'
      PROVE  GaugeOwned'
  <2>1. CASE Publishes(c)
    <3>1. /\ Alone(c) /\ mode' = arg[c] /\ arg' = arg
          /\ step' = [step EXCEPT ![c] = "mode"]
      BY <1>2, <2>1 DEF Swap
    <3>2. /\ step'[c] = "mode"
          /\ \A d \in Callers : d # c => step'[d] \in {"idle", "exited"}
      BY <1>0, <3>1 DEF Alone, GaugeTyped
    <3> QED
      BY <1>0, <3>1, <3>2 DEF GaugeOwned
  <2>2. CASE ~Publishes(c)
    <3>1. ~blurred /\ Alone(c)
      BY <1>0, <1>2, <2>2 DEF Swap, Blur, GaugeTyped
    <3>2. GaugeOwned /\ \A d \in Callers : d # c => step[d] \in {"idle", "exited"}
      BY <1>0, <3>1, NobodyElse DEF Swap
    <3>3. /\ step' = [step EXCEPT ![c] = "idle"] /\ arg[c] = mode
          /\ UNCHANGED <<mode, arg, ratio, modeGauge, ratioGauge, reloads, published>>
      BY <2>2 DEF Swap, Publishes, gauges, bounds
    <3>4. RatioOf(mode)' = RatioOf(mode)
      BY <3>3 DEF RatioOf
    <3> QED
      BY <1>0, <3>2, <3>3, <3>4, MonitorCalls DEF GaugeOwned, GaugeTyped, Swap
  <2> QED
    BY <2>1, <2>2
<1> QED
  BY <1>1, <1>2 DEF GaugeInv

LEMMA GaugeStep ==
  ASSUME GaugeInv, MonitorStep \/ PressureEvent \/ UNCHANGED pressureVars
  PROVE  GaugeInv'
<1>1. CASE UNCHANGED pressureVars
  BY <1>1 DEF pressureVars, gauges, bounds, marks, GaugeInv, GaugeTyped, GaugeOwned, RatioOf
<1>2. CASE MonitorStep
  BY <1>2, MonitorCalls, PollGauges, LevelGaugeGauges, MonitorExitsGauges, SwapGauges,
     SetModeGaugeGauges, SetRatioGaugeGauges DEF MonitorStep, SetMode
<1>3. CASE PressureEvent
  BY <1>3, MonitorCalls, HeapMovesGauges, StopMonitorGauges, CallSetModeGauges, SwapGauges,
     SetModeGaugeGauges, SetRatioGaugeGauges, UpdateDegradeGauges
     DEF PressureEvent, SetMode
<1> QED
  BY <1>1, <1>2, <1>3

LEMMA GaugeStart ==
  ASSUME PressureInit
  PROVE  GaugeInv
  BY MonitorCalls DEF PressureInit, GaugeInv, GaugeTyped, GaugeOwned, Modes, Normal

LEMMA GaugesSettled ==
  ASSUME GaugeInv
  PROVE  GaugesSettle
  BY MonitorCalls DEF GaugeInv, GaugeTyped, GaugeOwned, GaugesSettle
-----------------------------------------------------------------------------
(* Every step of Throttle, and a worker's tryConsume, preserve             *)
(* ThrottleInv.                                                            *)

LEMMA OneTickMore ==
  ASSUME NEW r \in Nat, NEW a \in Nat
  PROVE  r * (a + 1) = r * a + r /\ (a + 1) * r = a * r + r /\ r * a \in Nat /\ a * r \in Nat
  OBVIOUS

LEMMA RefillBounds ==
  ASSUME NEW b \in Bucket, b.tokens <= b.maxTokens, b.lastTime <= now, now \in Nat
  PROVE  Refilled(b) \in 0 .. b.maxTokens
<1>1. now - b.lastTime \in Nat /\ b.rate \in Nat /\ b.tokens \in Nat /\ b.maxTokens \in Nat
  BY DEF Bucket
<1>2. (now - b.lastTime) * b.rate \in Nat
  BY <1>1, OneTickMore
<1> QED
  BY <1>1, <1>2 DEF Refilled

\* A bucket whose time is now gets no refill.
LEMMA NoRefill ==
  ASSUME NEW b \in Bucket, b.tokens <= b.maxTokens, b.lastTime = now, now \in Nat
  PROVE  Refilled(b) = b.tokens
<1>1. now - b.lastTime = 0 /\ b.rate \in Nat /\ b.tokens \in Nat /\ b.maxTokens \in Nat
  BY DEF Bucket
<1>2. 0 * b.rate = 0
  BY <1>1
<1> QED
  BY <1>1, <1>2 DEF Refilled

LEMMA BucketTypes ==
  ASSUME ThrottleInv, NEW i \in 1 .. Len(buckets)
  PROVE  /\ buckets[i] \in Bucket
         /\ buckets[i].tokens \in Nat /\ buckets[i].maxTokens \in Nat
         /\ buckets[i].rate \in Nat /\ buckets[i].lastTime \in Nat
         /\ buckets[i].lastTime <= now
         /\ spent[i] \in Nat
         /\ Refilled(buckets[i]) \in 0 .. buckets[i].maxTokens
         /\ BucketOK(i)
<1>1. buckets[i] \in Bucket /\ spent[i] \in Nat /\ BucketOK(i) /\ now \in Nat
  BY DEF ThrottleInv, ThrottleTyped
<1>2. Refilled(buckets[i]) \in 0 .. buckets[i].maxTokens
  BY <1>1, RefillBounds DEF BucketOK
<1> QED
  BY <1>1, <1>2 DEF Bucket, BucketOK

\* A tick adds at most the rate to what a bucket can give.
LEMMA TickArithmetic ==
  ASSUME NEW s \in Nat, NEW t \in Nat, NEW m \in Nat, NEW r \in Nat, NEW x \in Nat,
         NEW y \in Nat, s + (IF t + x > m THEN m ELSE t + x) <= m + y
  PROVE  s + (IF t + (x + r) > m THEN m ELSE t + (x + r)) <= m + (y + r)
  OBVIOUS

LEMMA TimePassesInv ==
  ASSUME ThrottleInv, TimePasses
  PROVE  ThrottleInv'
<1>0. /\ now \in Nat /\ since \in Nat /\ since <= now /\ now' = now + 1
      /\ UNCHANGED <<buckets, current, update, since, spent>>
  BY DEF ThrottleInv, ThrottleTyped, TimePasses, window
<1>1. ThrottleTyped'
  BY <1>0 DEF ThrottleInv, ThrottleTyped
<1>2. ASSUME NEW i \in 1 .. Len(buckets)
      PROVE  BucketOK(i)'
  <2> DEFINE b == buckets[i]
  <2>1. /\ b \in Bucket /\ b.tokens \in Nat /\ b.maxTokens \in Nat /\ b.rate \in Nat
        /\ b.lastTime \in Nat /\ spent[i] \in Nat /\ Refilled(b) \in 0 .. b.maxTokens
        /\ BucketOK(i) /\ b.lastTime <= now
    BY <1>2, BucketTypes
  <2>2. now - b.lastTime \in Nat /\ now - since \in Nat
    BY <1>0, <2>1
  <2>3. /\ (now + 1 - b.lastTime) * b.rate = (now - b.lastTime) * b.rate + b.rate
        /\ b.rate * (now + 1 - since) = b.rate * (now - since) + b.rate
        /\ (now - b.lastTime) * b.rate \in Nat /\ b.rate * (now - since) \in Nat
    <3>1. now + 1 - b.lastTime = (now - b.lastTime) + 1 /\ now + 1 - since = (now - since) + 1
      BY <1>0, <2>1
    <3> QED
      BY <2>1, <2>2, <3>1, OneTickMore
  <2> DEFINE x == (now - b.lastTime) * b.rate
             y == b.rate * (now - since)
  <2>4. /\ Refilled(b) = IF b.tokens + x > b.maxTokens THEN b.maxTokens ELSE b.tokens + x
        /\ Refilled(b)' = IF b.tokens + (now + 1 - b.lastTime) * b.rate > b.maxTokens
                          THEN b.maxTokens ELSE b.tokens + (now + 1 - b.lastTime) * b.rate
    <3>1. buckets' = buckets /\ now' = now + 1
      BY <1>0
    <3>2. Refilled(b) = IF b.tokens + x > b.maxTokens THEN b.maxTokens ELSE b.tokens + x
      BY DEF Refilled
    <3>3. Refilled(b)' = IF b.tokens + (now' - b.lastTime) * b.rate > b.maxTokens
                         THEN b.maxTokens ELSE b.tokens + (now' - b.lastTime) * b.rate
      BY <3>1 DEF Refilled
    <3>4. (now' - b.lastTime) * b.rate = (now + 1 - b.lastTime) * b.rate
      <4> DEFINE t == b.lastTime
      <4>1. t \in Nat /\ now \in Nat /\ now' = now + 1
        BY <1>0, <2>1
      <4>2. now' - b.lastTime = now + 1 - b.lastTime
        <5> HIDE DEF t
        <5>1. now' - t = now + 1 - t
          BY <4>1
        <5> QED
          BY <5>1 DEF t
      <4> QED
        BY <4>2, Zenon
    <3> QED
      BY <3>2, <3>3, <3>4, Zenon
  <2>5. spent[i] + Refilled(b) <= b.maxTokens + y
    BY <2>1 DEF BucketOK
  <2>6. spent[i] + (IF b.tokens + (x + b.rate) > b.maxTokens THEN b.maxTokens
                    ELSE b.tokens + (x + b.rate)) <= b.maxTokens + (y + b.rate)
    <3>1. x \in Nat /\ y \in Nat
      BY <2>3
    <3>2. spent[i] + (IF b.tokens + x > b.maxTokens THEN b.maxTokens ELSE b.tokens + x)
             <= b.maxTokens + y
      BY <2>4, <2>5
    <3> HIDE DEF x, y, b
    <3> QED
      BY <2>1, <3>1, <3>2, TickArithmetic
  <2>7. spent[i] + Refilled(b)' <= b.maxTokens + b.rate * (now + 1 - since)
    BY <2>3, <2>4, <2>6
  <2> QED
    BY <1>0, <2>1, <2>7 DEF BucketOK
<1> QED
  BY <1>0, <1>1, <1>2 DEF ThrottleInv

LEMMA OpenWindowInv ==
  ASSUME ThrottleInv, OpenWindow
  PROVE  ThrottleInv'
<1>0. /\ now \in Nat /\ since' = now /\ UNCHANGED <<now, buckets, current, update>>
      /\ spent' = [i \in 1 .. Len(spent) |-> 0]
  BY DEF ThrottleInv, ThrottleTyped, OpenWindow
<1>1. ThrottleTyped' /\ Len(spent') = Len(spent) /\ \A i \in 1 .. Len(spent) : spent'[i] = 0
  BY <1>0 DEF ThrottleInv, ThrottleTyped
<1>2. ASSUME NEW i \in 1 .. Len(buckets)
      PROVE  BucketOK(i)'
  <2>1. spent'[i] = 0
    BY <1>1, <1>2 DEF ThrottleInv, ThrottleTyped
  <2>2. Refilled(buckets[i])' = Refilled(buckets[i])
    BY <1>0 DEF Refilled
  <2>3. buckets[i].rate * 0 = 0
    BY BucketTypes
  <2> QED
    BY <1>0, <2>1, <2>2, <2>3, BucketTypes DEF BucketOK
<1> QED
  BY <1>0, <1>1, <1>2 DEF ThrottleInv

LEMMA NewBucketOK ==
  ASSUME NEW cfg \in Configs, NEW s \in Signals, now \in Nat
  PROVE  /\ NewBucket(cfg, s) \in Bucket
         /\ NewBucket(cfg, s).tokens = NewBucket(cfg, s).maxTokens
         /\ NewBucket(cfg, s).lastTime = now
<1>1. cfg.rate[s] \in Nat /\ cfg.burst \in Nat
  BY ThrottleAssumption
<1>2. cfg.rate[s] * cfg.burst \in Nat
  BY <1>1, OneTickMore
<1> QED
  BY <1>1, <1>2 DEF NewBucket, Bucket

LEMMA ReplaceInv ==
  ASSUME ThrottleInv, NEW s \in Signals, NEW cfg \in Configs, Replace(s, cfg),
         update' \in Configs \cup {None}
  PROVE  ThrottleInv'
<1> DEFINE b == NewBucket(cfg, s)
<1>0. /\ now \in Nat /\ since \in Nat /\ since <= now /\ UNCHANGED <<now, since>>
      /\ b \in Bucket /\ b.tokens = b.maxTokens /\ b.lastTime = now
      /\ buckets' = Append(buckets, b) /\ spent' = Append(spent, 0)
      /\ buckets \in Seq(Bucket) /\ spent \in Seq(Nat) /\ Len(spent) = Len(buckets)
  BY NewBucketOK DEF ThrottleInv, ThrottleTyped, Replace
<1> HIDE DEF b
<1>1. /\ buckets' \in Seq(Bucket) /\ spent' \in Seq(Nat)
      /\ Len(buckets') = Len(buckets) + 1 /\ Len(spent') = Len(buckets')
      /\ \A i \in 1 .. Len(buckets) : buckets'[i] = buckets[i] /\ spent'[i] = spent[i]
      /\ buckets'[Len(buckets) + 1] = b /\ spent'[Len(buckets) + 1] = 0
  BY <1>0
<1>2. ThrottleTyped'
  <2>1. current' \in [Signals -> 1 .. Len(buckets')]
    BY <1>0, <1>1 DEF Replace, ThrottleInv, ThrottleTyped
  <2> QED
    BY <1>0, <1>1, <2>1 DEF ThrottleTyped
<1>3. ASSUME NEW i \in 1 .. Len(buckets')
      PROVE  BucketOK(i)'
  <2>1. CASE i \in 1 .. Len(buckets)
    <3>1. buckets'[i] = buckets[i] /\ spent'[i] = spent[i] /\ BucketOK(i)
      BY <1>1, <2>1 DEF ThrottleInv
    <3>2. Refilled(buckets[i])' = Refilled(buckets[i])
      BY <1>0, <3>1 DEF Refilled
    <3> QED
      BY <1>0, <3>1, <3>2 DEF BucketOK
  <2>2. CASE i = Len(buckets) + 1
    <3>1. buckets'[i] = b /\ spent'[i] = 0
      BY <1>1, <2>2
    <3>2. /\ Refilled(b) = b.tokens
          /\ b.tokens \in Nat /\ b.maxTokens \in Nat /\ b.rate \in Nat
      <4>1. /\ b.tokens \in Nat /\ b.maxTokens \in Nat /\ b.rate \in Nat
            /\ b.tokens <= b.maxTokens
        BY <1>0 DEF Bucket
      <4> QED
        BY <1>0, <4>1, NoRefill
    <3>3. Refilled(buckets[i])' = b.tokens
      BY <1>0, <3>1, <3>2 DEF Refilled
    <3>4. b.rate * (now - since) \in Nat
      <4>1. now - since \in Nat
        BY <1>0
      <4> QED
        BY <3>2, <4>1, OneTickMore
    <3> QED
      BY <1>0, <3>1, <3>2, <3>3, <3>4 DEF BucketOK
  <2> QED
    BY <1>1, <1>3, <2>1, <2>2, <1>0
<1> QED
  BY <1>2, <1>3 DEF ThrottleInv

LEMMA TryConsumeInv ==
  ASSUME ThrottleInv, NEW k \in 1 .. Len(buckets), NEW cost \in Nat,
         NEW ok \in BOOLEAN, TryConsume(k, cost, ok)
  PROVE  ThrottleInv'
<1> DEFINE t == Refilled(buckets[k])
           n == IF ok THEN t - cost ELSE t
           b == Left(buckets[k], n)
<1>0. /\ now \in Nat /\ since \in Nat /\ since <= now
      /\ UNCHANGED <<now, current, update, since>>
      /\ ok = (t >= cost) /\ buckets' = [buckets EXCEPT ![k] = b]
      /\ spent' = IF ok THEN [spent EXCEPT ![k] = @ + cost] ELSE spent
      /\ buckets \in Seq(Bucket) /\ spent \in Seq(Nat) /\ Len(spent) = Len(buckets)
  BY DEF ThrottleInv, ThrottleTyped, TryConsume
<1>1. /\ buckets[k] \in Bucket /\ buckets[k].maxTokens \in Nat /\ spent[k] \in Nat
      /\ t \in 0 .. buckets[k].maxTokens /\ BucketOK(k) /\ buckets[k].rate \in Nat
  BY BucketTypes
<1>2. n \in Nat /\ n <= t /\ (ok => n = t - cost) /\ (~ok => n = t)
  <2>1. CASE ok
    <3>0. t >= cost
      BY <2>1 DEF TryConsume
    <3>1. t >= cost /\ n = t - cost /\ t \in Nat
      BY <1>1, <2>1, <3>0
    <3> HIDE DEF t, n
    <3> QED
      BY <2>1, <3>1
  <2>2. CASE ~ok
    BY <1>1, <2>2
  <2> QED
    BY <2>1, <2>2
<1>3. /\ b \in Bucket /\ b.tokens = n /\ b.maxTokens = buckets[k].maxTokens
      /\ b.rate = buckets[k].rate /\ b.lastTime = now
  BY <1>0, <1>1, <1>2 DEF Left, Bucket
<1>4. spent[k] + t <= buckets[k].maxTokens + buckets[k].rate * (now - since)
  BY <1>1 DEF BucketOK
<1> HIDE DEF t, n, b
<1>5. /\ buckets' \in Seq(Bucket) /\ Len(buckets') = Len(buckets)
      /\ buckets'[k] = b
      /\ \A i \in 1 .. Len(buckets) : i # k => buckets'[i] = buckets[i]
  BY <1>0, <1>3
<1>6. /\ spent' \in Seq(Nat) /\ Len(spent') = Len(spent)
      /\ spent'[k] = IF ok THEN spent[k] + cost ELSE spent[k]
      /\ \A i \in 1 .. Len(buckets) : i # k => spent'[i] = spent[i]
  BY <1>0, <1>1
<1>7. ThrottleTyped'
  BY <1>0, <1>5, <1>6 DEF ThrottleInv, ThrottleTyped
<1>8. ASSUME NEW i \in 1 .. Len(buckets)
      PROVE  BucketOK(i)'
  <2>1. CASE i # k
    <3>1. buckets'[i] = buckets[i] /\ spent'[i] = spent[i] /\ BucketOK(i)
      BY <1>5, <1>6, <1>8, <2>1 DEF ThrottleInv
    <3>2. Refilled(buckets[i])' = Refilled(buckets[i])
      BY <1>0, <3>1 DEF Refilled
    <3> QED
      BY <1>0, <3>1, <3>2 DEF BucketOK
  <2>2. CASE i = k
    <3>1. Refilled(b) = n /\ Refilled(buckets[i])' = Refilled(b)
      BY <1>0, <1>1, <1>2, <1>3, <1>5, <2>2, NoRefill DEF Refilled
    <3>2. spent'[k] + n = spent[k] + t
      <4>1. t \in Nat
        BY <1>1
      <4> QED
        BY <1>1, <1>2, <1>6, <4>1
    <3>3. n <= buckets[k].maxTokens
      BY <1>1, <1>2
    <3>4. spent'[k] + n <= buckets[k].maxTokens + buckets[k].rate * (now - since)
      BY <1>4, <3>2
    <3> QED
      BY <1>0, <1>3, <1>5, <2>2, <3>1, <3>3, <3>4 DEF BucketOK
  <2> QED
    BY <2>1, <2>2
<1> QED
  BY <1>5, <1>7, <1>8 DEF ThrottleInv

LEMMA ThrottleStep ==
  ASSUME ThrottleInv, ThrottleNext \/ UNCHANGED throttleVars
  PROVE  ThrottleInv'
<1>1. CASE UNCHANGED throttleVars
  BY <1>1 DEF throttleVars, window, ThrottleInv, ThrottleTyped, BucketOK, Refilled
<1>2. ASSUME NEW cfg \in Configs, UpdateTrace(cfg)
      PROVE  ThrottleInv'
  BY <1>2, ReplaceInv, ThrottleAssumption DEF UpdateTrace
<1>3. CASE UpdateMetric
  <2>1. update \in Configs /\ update' \in Configs \cup {None} /\ "metric" \in Signals
    BY <1>3, ThrottleAssumption DEF UpdateMetric, ThrottleInv, ThrottleTyped
  <2> QED
    BY <1>3, <2>1, ReplaceInv DEF UpdateMetric
<1> QED
  BY <1>1, <1>2, <1>3, TimePassesInv, OpenWindowInv DEF ThrottleNext

LEMMA ThrottleStart ==
  ASSUME ThrottleInit
  PROVE  ThrottleInv
<1>1. PICK cfg \in Configs : buckets = <<NewBucket(cfg, "trace"), NewBucket(cfg, "metric")>>
  BY DEF ThrottleInit
<1>2. /\ now = 0 /\ since = 0 /\ spent = <<0, 0>> /\ now \in Nat
      /\ "trace" \in Signals /\ "metric" \in Signals
  BY ThrottleAssumption DEF ThrottleInit
<1>3. /\ buckets \in Seq(Bucket) /\ Len(buckets) = 2 /\ Len(spent) = 2
      /\ \A i \in 1 .. 2 : /\ buckets[i] \in Bucket /\ spent[i] = 0
                            /\ buckets[i].tokens = buckets[i].maxTokens
                            /\ buckets[i].lastTime = now
  <2> DEFINE x == NewBucket(cfg, "trace")
             y == NewBucket(cfg, "metric")
  <2>1. /\ x \in Bucket /\ x.tokens = x.maxTokens /\ x.lastTime = now
        /\ y \in Bucket /\ y.tokens = y.maxTokens /\ y.lastTime = now
    BY <1>2, NewBucketOK
  <2>2. buckets = <<x, y>>
    BY <1>1
  <2> HIDE DEF x, y
  <2> QED
    BY <1>2, <2>1, <2>2
<1>4. ThrottleTyped
  BY <1>2, <1>3 DEF ThrottleInit, ThrottleTyped
<1>5. ASSUME NEW i \in 1 .. 2
      PROVE  BucketOK(i)
  <2>1. /\ Refilled(buckets[i]) = buckets[i].tokens /\ buckets[i].tokens \in Nat
        /\ buckets[i].maxTokens \in Nat /\ buckets[i].rate \in Nat
    BY <1>2, <1>3, NoRefill DEF Bucket
  <2>2. buckets[i].rate * 0 = 0
    BY <2>1
  <2> QED
    BY <1>2, <1>3, <2>1, <2>2 DEF BucketOK
<1> QED
  BY <1>3, <1>4, <1>5 DEF ThrottleInv

LEMMA WindowIsBounded ==
  ASSUME ThrottleInv
  PROVE  WindowBounded
<1> SUFFICES ASSUME NEW i \in 1 .. Len(buckets)
             PROVE  spent[i] <= buckets[i].maxTokens + buckets[i].rate * (now - since)
  BY DEF ThrottleInv, ThrottleTyped, WindowBounded
<1>1. now - since \in Nat
  BY DEF ThrottleInv, ThrottleTyped
<1>2. buckets[i].rate * (now - since) \in Nat
  BY <1>1, BucketTypes, OneTickMore
<1> QED
  BY <1>2, BucketTypes DEF BucketOK
-----------------------------------------------------------------------------
(* Every step of a worker preserves PayloadInv.                            *)

SamePayload(q) ==
    /\ pos'[q] = pos[q]
    /\ fate'[q] = fate[q]
    /\ spans'[q] = spans[q]
    /\ sampledAt'[q] = sampledAt[q]
    /\ survived'[q] = survived[q]

LEMMA SamePayloadOK ==
  ASSUME NEW q \in Payloads, PayloadOK(q), SamePayload(q), chain' = chain
  PROVE  PayloadOK(q)'
  BY DEF SamePayload, PayloadOK, Unsampled, ChainOf

LEMMA PlaceType ==
  ASSUME PayloadTyped, NEW p \in Payloads,
         PassOn(p) \/ (\E f \in {"error", "dropped"} : Break(p, f))
  PROVE  /\ pos' \in [Payloads -> Nat]
         /\ fate' \in [Payloads -> {"new", "inside", "passed", "error", "dropped"}]
<1>1. CASE PassOn(p)
  <2>1. fate' = [fate EXCEPT ![p] = "passed"] \/ fate' = fate
    BY <1>1 DEF PassOn
  <2>2. pos' = [pos EXCEPT ![p] = pos[p] + 1] /\ pos[p] + 1 \in Nat
    BY <1>1 DEF PassOn, PayloadTyped
  <2> QED
    BY <2>1, <2>2 DEF PayloadTyped
<1>2. ASSUME NEW f \in {"error", "dropped"}, Break(p, f)
      PROVE  /\ pos' \in [Payloads -> Nat]
             /\ fate' \in [Payloads -> {"new", "inside", "passed", "error", "dropped"}]
  BY <1>2 DEF Break, PayloadTyped
<1> QED
  BY <1>1, <1>2

LEMMA ChainType ==
  ASSUME PayloadTyped, NEW p \in Payloads
  PROVE  /\ ChainOf(p) \in Seq(Names)
         /\ Len(ChainOf(p)) \in Nat
         /\ \A i, j \in 1 .. Len(ChainOf(p)) : ChainOf(p)[i] = ChainOf(p)[j] => i = j
<1>1. chain \in Chains /\ SignalOf[p] \in Signals
  BY ProcessorsAssumption DEF PayloadTyped
<1>2. chain \in [Signals -> Seq(Names)]
  BY <1>1, ProcessorsAssumption
<1>3. ChainOf(p) \in Seq(Names)
  BY <1>1, <1>2 DEF ChainOf
<1> QED
  BY <1>1, <1>3, ProcessorsAssumption DEF ChainOf

\* A step of p that changes neither its spans nor the sampler's marks.
LEMMA MovesOn ==
  ASSUME PayloadInv, NEW p \in Payloads, fate[p] = "inside",
         ChainOf(p)[pos[p]] # "sampler", PassOn(p) \/ (\E f \in {"error", "dropped"} : Break(p, f)),
         UNCHANGED <<chain, spans, count, held, rate, sampledAt, survived>>,
         Len(buckets') >= Len(buckets), Len(buckets) \in Nat, Len(buckets') \in Nat
  PROVE  PayloadInv'
<1>0. PayloadTyped /\ PayloadOK(p) /\ pos[p] \in Nat /\ ChainOf(p)' = ChainOf(p)
  BY DEF PayloadInv, PayloadTyped, ChainOf
<1>1. PayloadTyped'
  <2>1. pos' \in [Payloads -> Nat]
    BY <1>0, PlaceType
  <2>2. fate' \in [Payloads -> {"new", "inside", "passed", "error", "dropped"}]
    BY <1>0, PlaceType
  <2>3. \A q \in Payloads : held'[q] <= Len(buckets')
    BY <1>0 DEF PayloadTyped
  <2> QED
    BY <1>0, <2>1, <2>2, <2>3 DEF PayloadTyped
<1>2. ASSUME NEW q \in Payloads, q # p
      PROVE  PayloadOK(q)'
  <2>1. SamePayload(q)
    BY <1>0, <1>2 DEF SamePayload, PayloadTyped, PassOn, Break
  <2> QED
    BY <1>2, <2>1, SamePayloadOK DEF PayloadInv
<1>3. PayloadOK(p)'
  <2>0. pos[p] \in 1 .. Len(ChainOf(p)) /\ Len(ChainOf(p)) \in Nat
    BY <1>0, ChainType DEF PayloadOK
  <2>1. CASE pos[p] < Len(ChainOf(p)) /\ PassOn(p)
    <3>1. fate'[p] = "inside" /\ pos'[p] = pos[p] + 1
      BY <1>0, <2>0, <2>1 DEF PassOn, PayloadTyped
    <3>2. Unsampled(p)' => Unsampled(p)
      BY <1>0, <2>0, <3>1 DEF Unsampled
    <3> QED
      BY <1>0, <2>0, <2>1, <3>1, <3>2 DEF PayloadOK
  <2>2. CASE fate'[p] \in {"passed", "error", "dropped"}
    BY <1>0, <2>2 DEF PayloadOK, Unsampled
  <2>3. \/ pos[p] < Len(ChainOf(p)) /\ PassOn(p)
        \/ fate'[p] \in {"passed", "error", "dropped"}
    BY <1>0, <2>0 DEF PassOn, Break, PayloadTyped
  <2> QED
    BY <2>1, <2>2, <2>3
<1> QED
  BY <1>1, <1>2, <1>3 DEF PayloadInv

LEMMA ReceivePayload ==
  ASSUME PayloadInv, NEW p \in Payloads, Receive(p), UNCHANGED <<chain, rate, buckets>>
  PROVE  PayloadInv'
<1>0. /\ PayloadTyped /\ PayloadOK(p) /\ ChainOf(p)' = ChainOf(p)
      /\ ChainOf(p) \in Seq(Names) /\ Len(ChainOf(p)) \in Nat
  BY ChainType DEF PayloadInv, ChainOf
<1>1. PayloadTyped'
  BY <1>0 DEF PayloadTyped, Receive, sampleVars
<1>2. ASSUME NEW q \in Payloads, q # p
      PROVE  PayloadOK(q)'
  <2>1. SamePayload(q)
    BY <1>0, <1>2 DEF SamePayload, PayloadTyped, Receive, sampleVars
  <2> QED
    BY <1>2, <2>1, SamePayloadOK DEF PayloadInv
<1>3. PayloadOK(p)'
  <2>1. /\ pos'[p] = 1 /\ fate[p] = "new" /\ UNCHANGED <<spans, sampledAt, survived>>
        /\ fate'[p] = IF ChainOf(p) = <<>> THEN "passed" ELSE "inside"
    BY <1>0 DEF Receive, PayloadTyped, sampleVars
  <2>2. ChainOf(p) # <<>> => 1 \in 1 .. Len(ChainOf(p))
    BY <1>0
  <2> QED
    BY <1>0, <2>1, <2>2 DEF PayloadOK, Unsampled
<1> QED
  BY <1>1, <1>2, <1>3 DEF PayloadInv

LEMMA ReadBucketPayload ==
  ASSUME PayloadInv, ThrottleInv, NEW p \in Payloads, ReadBucket(p),
         UNCHANGED <<chain, rate, buckets>>
  PROVE  PayloadInv'
<1>0. /\ PayloadTyped /\ current[SignalOf[p]] \in 1 .. Len(buckets) /\ Len(buckets) \in Nat
  BY ProcessorsAssumption DEF PayloadInv, ThrottleInv, ThrottleTyped
<1>1. PayloadTyped'
  <2>1. held' \in [Payloads -> Nat] /\ \A q \in Payloads : held'[q] <= Len(buckets)
    BY <1>0 DEF PayloadTyped, ReadBucket
  <2> QED
    BY <1>0, <2>1 DEF PayloadTyped, ReadBucket, sampleVars
<1>2. ASSUME NEW q \in Payloads
      PROVE  PayloadOK(q)'
  BY SamePayloadOK DEF PayloadInv, SamePayload, ReadBucket, sampleVars
<1> QED
  BY <1>1, <1>2 DEF PayloadInv

LEMMA KeptSubset ==
  ASSUME NEW S, NEW r \in Int
  PROVE  Kept(S, r) \subseteq S
<1>1. Half \in Nat /\ Half > 0
  BY ProcessorsAssumption
<1>2. CASE r >= Half
  BY <1>1, <1>2 DEF Kept
<1>3. CASE r <= 0
  BY <1>1, <1>3 DEF Kept
<1>4. CASE 0 < r /\ r < Half
  BY <1>1, <1>4 DEF Kept
<1> QED
  BY <1>1, <1>2, <1>3, <1>4

LEMMA SamplePayload ==
  ASSUME PayloadInv, NEW p \in Payloads, Sample(p), UNCHANGED <<chain, rate, buckets>>
  PROVE  PayloadInv'
<1> DEFINE S == Kept(spans[p], rate)
<1>0. /\ PayloadTyped /\ PayloadOK(p) /\ ChainOf(p)' = ChainOf(p)
      /\ fate[p] = "inside" /\ ChainOf(p)[pos[p]] = "sampler"
      /\ pos[p] \in 1 .. Len(ChainOf(p)) /\ Len(ChainOf(p)) \in Nat
      /\ rate \in 0 .. Half /\ Half \in Nat
  BY ChainType, ProcessorsAssumption
     DEF PayloadInv, PayloadOK, PayloadTyped, ChainOf, Sample, At
<1>1. spans[p] = SpansOf[p]
  <2>1. ASSUME NEW i \in 1 .. pos[p] - 1
        PROVE  ChainOf(p)[i] # "sampler"
    <3>1. i \in 1 .. Len(ChainOf(p)) /\ i # pos[p]
      BY <1>0, <2>1
    <3> QED
      BY <1>0, <3>1, ChainType
  <2> QED
    BY <1>0, <2>1 DEF PayloadOK, Unsampled
<1>2. /\ S \subseteq SpansOf[p] /\ S \subseteq spans[p] /\ IsFiniteSet(S)
      /\ Cardinality(S) \in Nat
  <2>1. S \subseteq SpansOf[p]
    BY <1>0, <1>1, KeptSubset
  <2>2. IsFiniteSet(S)
    BY <2>1, ProcessorsAssumption, FS_Subset
  <2> QED
    BY <1>1, <2>1, <2>2, FS_CardinalityType
<1> HIDE DEF S
<1>3. /\ sampledAt' = [sampledAt EXCEPT ![p] = rate]
      /\ survived' = [survived EXCEPT ![p] = S]
      /\ held' = held
      /\ \/ PassOn(p)
         \/ Break(p, "dropped")
      /\ \/ spans' = spans /\ count' = count
         \/ spans' = [spans EXCEPT ![p] = S] /\ count' = [count EXCEPT ![p] = Cardinality(S)]
  BY DEF Sample, S, Recount
<1>4. PayloadTyped'
  <2>1. pos' \in [Payloads -> Nat]
    BY <1>0, <1>3, PlaceType
  <2>2. fate' \in [Payloads -> {"new", "inside", "passed", "error", "dropped"}]
    BY <1>0, <1>3, PlaceType
  <2>3. /\ spans' = [q \in Payloads |-> spans'[q]]
        /\ \A q \in Payloads : spans'[q] \subseteq SpansOf[q]
    BY <1>0, <1>2, <1>3 DEF PayloadTyped
  <2>4. count' \in [Payloads -> Nat]
    BY <1>0, <1>2, <1>3 DEF PayloadTyped
  <2>5. sampledAt' \in [Payloads -> -1 .. Half]
    BY <1>0, <1>3 DEF PayloadTyped
  <2>6. survived' = [q \in Payloads |-> survived'[q]]
    BY <1>0, <1>3 DEF PayloadTyped
  <2> QED
    BY <1>0, <1>3, <2>1, <2>2, <2>3, <2>4, <2>5, <2>6 DEF PayloadTyped
<1>5. ASSUME NEW q \in Payloads, q # p
      PROVE  PayloadOK(q)'
  <2>1. SamePayload(q)
    <3>1. pos'[q] = pos[q] /\ fate'[q] = fate[q]
      BY <1>0, <1>3, <1>5 DEF PayloadTyped, PassOn, Break
    <3>2. spans'[q] = spans[q]
      BY <1>0, <1>3, <1>5 DEF PayloadTyped
    <3>3. sampledAt'[q] = sampledAt[q] /\ survived'[q] = survived[q]
      BY <1>0, <1>3, <1>5 DEF PayloadTyped
    <3> QED
      BY <3>1, <3>2, <3>3 DEF SamePayload
  <2> QED
    BY <1>5, <2>1, SamePayloadOK DEF PayloadInv
<1>6. PayloadOK(p)'
  <2>1. sampledAt'[p] = rate /\ survived'[p] = Kept(SpansOf[p], rate)
    <3>1. sampledAt'[p] = rate /\ survived'[p] = S
      BY <1>0, <1>3 DEF PayloadTyped
    <3> QED
      BY <1>1, <3>1 DEF S
  <2>2. \/ fate'[p] \in {"passed", "dropped"}
        \/ fate'[p] = "inside" /\ pos'[p] = pos[p] + 1 /\ pos[p] < Len(ChainOf(p))
    BY <1>0, <1>3 DEF PayloadTyped, PassOn, Break
  <2>3. ~Unsampled(p)'
    BY <1>0, <2>2 DEF Unsampled
  <2>4. fate'[p] = "inside" => pos'[p] \in 1 .. Len(ChainOf(p)')
    BY <1>0, <2>2
  <2> QED
    BY <2>1, <2>3, <2>4 DEF PayloadOK
<1> QED
  BY <1>4, <1>5, <1>6 DEF PayloadInv

\* What happens besides the workers only adds buckets.
LEMMA ElsewherePayload ==
  ASSUME PayloadInv, Elsewhere, chain' = chain, rate' \in 0 .. Half,
         Len(buckets') >= Len(buckets), Len(buckets) \in Nat, Len(buckets') \in Nat
  PROVE  PayloadInv'
<1>0. PayloadTyped /\ UNCHANGED <<pos, fate, spans, count, held, sampledAt, survived>>
  BY DEF PayloadInv, Elsewhere, payloadVars, sampleVars
<1>1. \A q \in Payloads : held'[q] <= Len(buckets')
  BY <1>0 DEF PayloadTyped
<1>2. PayloadTyped'
  BY <1>0, <1>1 DEF PayloadTyped
<1>3. ASSUME NEW q \in Payloads
      PROVE  PayloadOK(q)'
  BY <1>0, SamePayloadOK DEF PayloadInv, SamePayload
<1> QED
  BY <1>2, <1>3 DEF PayloadInv
-----------------------------------------------------------------------------
(* The invariant of the whole, and the properties.                         *)

LEMMA WorkerInv ==
  ASSUME ProcessorsInv, NEW p \in Payloads, Worker(p),
         UNCHANGED <<pressureVars, samplerVars, chain>>
  PROVE  ProcessorsInv'
<1>0. /\ GaugeInv /\ ThrottleInv /\ PayloadInv /\ PayloadTyped /\ Len(buckets) \in Nat
      /\ rate' = rate /\ chain' = chain
  BY DEF ProcessorsInv, PayloadInv, samplerVars, ThrottleInv, ThrottleTyped
<1>1. GaugeInv'
  BY <1>0, GaugeStep
<1>2. CASE RateLimit(p)
  <2>1. PICK ok \in BOOLEAN : TryConsume(held[p], count[p], ok)
    BY <1>2 DEF RateLimit
  <2>2. held[p] \in 1 .. Len(buckets) /\ count[p] \in Nat
    BY <1>0, <1>2 DEF RateLimit, PayloadTyped
  <2>3. ThrottleInv'
    BY <1>0, <2>1, <2>2, TryConsumeInv
  <2>4. Len(buckets') \in Nat /\ Len(buckets') >= Len(buckets)
    <3>1. buckets \in Seq(Bucket) /\ buckets' \in Seq(Bucket)
      BY <1>0, <2>3 DEF ThrottleInv, ThrottleTyped
    <3>2. DOMAIN buckets' = DOMAIN buckets
      BY <2>1 DEF TryConsume
    <3> QED
      BY <3>1, <3>2
  <2>5. /\ fate[p] = "inside" /\ ChainOf(p)[pos[p]] = "ratelimit"
        /\ PassOn(p) \/ (\E f \in {"error", "dropped"} : Break(p, f))
        /\ UNCHANGED <<spans, count, held, sampledAt, survived>>
    BY <1>2 DEF RateLimit, At, sampleVars
  <2>6. PayloadInv'
    BY <1>0, <2>4, <2>5, MovesOn
  <2> QED
    BY <1>1, <2>3, <2>6 DEF ProcessorsInv
<1>3. CASE /\ Receive(p) \/ MemLimit(p) \/ ReadBucket(p) \/ Sample(p) \/ Degrade(p)
           /\ UNCHANGED throttleVars
  <2>1. ThrottleInv' /\ buckets' = buckets
    BY <1>0, <1>3, ThrottleStep DEF throttleVars
  <2>2. CASE MemLimit(p) \/ Degrade(p)
    <3>1. /\ fate[p] = "inside" /\ ChainOf(p)[pos[p]] # "sampler"
          /\ PassOn(p) \/ (\E f \in {"error", "dropped"} : Break(p, f))
          /\ UNCHANGED <<spans, count, held, sampledAt, survived>>
      BY <2>2 DEF MemLimit, Degrade, At, sampleVars
    <3> QED
      BY <1>0, <1>1, <2>1, <3>1, MovesOn DEF ProcessorsInv
  <2> QED
    BY <1>0, <1>1, <1>3, <2>1, <2>2, ReceivePayload, ReadBucketPayload, SamplePayload
       DEF ProcessorsInv
<1> QED
  BY <1>2, <1>3 DEF Worker

LEMMA BucketsGrow ==
  ASSUME ThrottleInv, ThrottleNext
  PROVE  Len(buckets') >= Len(buckets) /\ Len(buckets) \in Nat /\ Len(buckets') \in Nat
<1>1. buckets \in Seq(Bucket) /\ buckets' \in Seq(Bucket)
  BY ThrottleStep DEF ThrottleInv, ThrottleTyped
<1>2. buckets' = buckets \/ \E b : buckets' = Append(buckets, b)
  BY DEF ThrottleNext, TimePasses, OpenWindow, UpdateTrace, UpdateMetric, Replace
<1> QED
  BY <1>1, <1>2

LEMMA ProcessorsStep ==
  ASSUME ProcessorsInv, [Next]_vars
  PROVE  ProcessorsInv'
<1>0. /\ GaugeInv /\ ThrottleInv /\ PayloadInv /\ Len(buckets) \in Nat
      /\ rate \in 0 .. Half
  BY DEF ProcessorsInv, PayloadInv, PayloadTyped, ThrottleInv, ThrottleTyped
<1>1. CASE MonitorRuns
  <2>1. /\ UNCHANGED throttleVars /\ buckets' = buckets /\ rate' = rate /\ chain' = chain
        /\ Elsewhere /\ MonitorStep
    BY <1>1 DEF MonitorRuns, throttleVars, samplerVars
  <2> QED
    BY <1>0, <2>1, GaugeStep, ThrottleStep, ElsewherePayload DEF ProcessorsInv
<1>2. ASSUME NEW p \in Payloads, Worker(p), UNCHANGED <<pressureVars, samplerVars, chain>>
      PROVE  ProcessorsInv'
  BY <1>2, WorkerInv
<1>3. CASE PressureEvent /\ UNCHANGED <<throttleVars, samplerVars, chain>> /\ Elsewhere
  <2>1. buckets' = buckets /\ rate' = rate
    BY <1>3 DEF throttleVars, samplerVars
  <2> QED
    BY <1>0, <1>3, <2>1, GaugeStep, ThrottleStep, ElsewherePayload DEF ProcessorsInv
<1>4. CASE ThrottleNext /\ UNCHANGED <<pressureVars, samplerVars, chain>> /\ Elsewhere
  <2>1. rate' = rate
    BY <1>4 DEF samplerVars
  <2> QED
    BY <1>0, <1>4, <2>1, BucketsGrow, GaugeStep, ThrottleStep, ElsewherePayload
       DEF ProcessorsInv
<1>5. ASSUME NEW r \in Rates, SetRate(r), UNCHANGED <<pressureVars, throttleVars, chain>>,
             Elsewhere
      PROVE  ProcessorsInv'
  <2>1. rate' \in 0 .. Half /\ buckets' = buckets
    BY <1>5, ProcessorsAssumption DEF SetRate, Clamped, throttleVars
  <2> QED
    BY <1>0, <1>5, <2>1, GaugeStep, ThrottleStep, ElsewherePayload DEF ProcessorsInv
<1>6. CASE UNCHANGED vars
  <2>1. /\ UNCHANGED <<pressureVars, throttleVars, chain>> /\ Elsewhere
        /\ buckets' = buckets /\ rate' = rate
    BY <1>6 DEF vars, throttleVars, samplerVars, Elsewhere
  <2> QED
    BY <1>0, <2>1, GaugeStep, ThrottleStep, ElsewherePayload DEF ProcessorsInv
<1> QED
  BY <1>1, <1>2, <1>3, <1>4, <1>5, <1>6 DEF Next, Rest

LEMMA ProcessorsStart == Init => ProcessorsInv
<1> SUFFICES ASSUME Init PROVE ProcessorsInv
  OBVIOUS
<1>1. GaugeInv /\ ThrottleInv
  BY GaugeStart, ThrottleStart DEF Init
<1>2. \A p \in Payloads : Cardinality(SpansOf[p]) \in Nat
  BY ProcessorsAssumption, FS_CardinalityType
<1>3. PayloadTyped
  <2>1. Len(buckets) \in Nat /\ Half \in Nat
    BY <1>1, ProcessorsAssumption DEF ThrottleInv, ThrottleTyped
  <2>2. count \in [Payloads -> Nat]
    BY <1>2 DEF Init
  <2> QED
    BY <2>1, <2>2, ProcessorsAssumption DEF Init, PayloadTyped
<1>4. ASSUME NEW p \in Payloads
      PROVE  PayloadOK(p)
  BY DEF Init, PayloadOK, Unsampled
<1> QED
  BY <1>1, <1>3, <1>4 DEF ProcessorsInv, PayloadInv

LEMMA ProcessorsAlways == Spec => []ProcessorsInv
  BY ProcessorsStart, ProcessorsStep, PTL DEF Spec

\* The sampler's decision is monotone in the rate.
LEMMA KeptMonotone ==
  ASSUME NEW p \in Payloads, NEW q \in Payloads, NEW x \in SpansOf[p], NEW y \in SpansOf[q],
         HashOf[x] = HashOf[y], NEW r \in Int, NEW t \in Int, r <= t,
         x \in Kept(SpansOf[p], r)
  PROVE  y \in Kept(SpansOf[q], t)
<1>0. Half \in Nat /\ Half > 0 /\ (HashOf[x] = NoTrace \/ HashOf[x] \in Nat)
  BY ProcessorsAssumption
<1>1. ~(r <= 0)
  BY <1>0 DEF Kept
<1>2. CASE t >= Half
  BY <1>0, <1>2 DEF Kept
<1>3. CASE t < Half
  <2>1. ShouldSample(x, r)
    BY <1>0, <1>1, <1>3 DEF Kept
  <2>2. HashOf[x] \in Nat => HashOf[x] \div 2 \in Int
    OBVIOUS
  <2>3. ShouldSample(y, t)
    BY <1>0, <2>1, <2>2 DEF ShouldSample
  <2> QED
    BY <1>0, <1>1, <1>3, <2>3 DEF Kept
<1> QED
  BY <1>0, <1>2, <1>3

LEMMA TracesStayWhole ==
  ASSUME ProcessorsInv
  PROVE  TracesWhole
<1> SUFFICES ASSUME NEW p \in Payloads, NEW q \in Payloads,
                    0 <= sampledAt[p], sampledAt[p] <= sampledAt[q],
                    NEW x \in SpansOf[p], NEW y \in SpansOf[q],
                    HashOf[x] = HashOf[y], x \in survived[p]
             PROVE  y \in survived[q]
  BY DEF TracesWhole
<1>1. sampledAt[p] \in Int /\ sampledAt[q] \in Int
  BY ProcessorsAssumption DEF ProcessorsInv, PayloadInv, PayloadTyped
<1>2. /\ survived[p] = Kept(SpansOf[p], sampledAt[p])
      /\ survived[q] = Kept(SpansOf[q], sampledAt[q])
  BY <1>1 DEF ProcessorsInv, PayloadInv, PayloadOK
<1> QED
  BY <1>1, <1>2, KeptMonotone

\* At rest the gauges show the mode, for any number of supervisors beside the
\* monitor: memlimit's and degrade's writes of the same gauge do not hurt,
\* unless two callers have overlapped since the last change.
THEOREM GaugesHold == Spec => []GaugesSettle
<1>1. ProcessorsInv => GaugesSettle
  BY GaugesSettled DEF ProcessorsInv
<1> QED
  BY <1>1, ProcessorsAlways, PTL

\* The rate limit holds in every window of time, for every configuration and
\* every number of replaced buckets that workers still hold.
THEOREM WindowHolds == Spec => []WindowBounded
<1>1. ProcessorsInv => WindowBounded
  BY WindowIsBounded DEF ProcessorsInv
<1> QED
  BY <1>1, ProcessorsAlways, PTL

\* The sampler decides alike for all spans of a trace, in whatever payload they
\* come and whatever order the processors have.
THEOREM TracesHold == Spec => []TracesWhole
  BY TracesStayWhole, ProcessorsAlways, PTL
-----------------------------------------------------------------------------
(* The account of the spans.                                               *)

Settled == {"error", "dropped"}

\* The spans of the traces that a processor has refused, as far as the sampler
\* had not removed them before.
Refused == SpansIn(survived, {p \in Traces : fate[p] \in Settled})

\* SpanCount is right, and what is on its way is what the sampler left.
AccountOK(p) ==
    /\ count[p] = Cardinality(spans[p])
    /\ survived[p] \subseteq SpansOf[p]
    /\ fate[p] \notin Settled => survived[p] = spans[p]

AccountInv ==
    /\ \A p \in Payloads : AccountOK(p)
    /\ rejectedSpans = Cardinality(Refused)

LEMMA InSpans ==
  ASSUME NEW f, NEW S, NEW z
  PROVE  z \in SpansIn(f, S) <=> \E p \in S : \E x \in f[p] : z = <<p, x>>
  BY DEF SpansIn

LEMMA FiniteSpans ==
  ASSUME NEW f, NEW S, IsFiniteSet(S), \A p \in S : IsFiniteSet(f[p])
  PROVE  IsFiniteSet(SpansIn(f, S))
<1> DEFINE T == {{p} \X f[p] : p \in S}
           g == [p \in S |-> {p} \X f[p]]
<1>1. g \in Surjection(S, T)
  BY DEF Surjection
<1>2. IsFiniteSet(T)
  <2> HIDE DEF T, g
  <2> QED
    BY <1>1, FS_Surjection
<1>3. ASSUME NEW p \in S PROVE IsFiniteSet({p} \X f[p])
  <2>1. IsFiniteSet({p}) /\ IsFiniteSet(f[p])
    BY FS_Singleton
  <2> QED
    BY <2>1, FS_Product
<1>4. \A U \in T : IsFiniteSet(U)
  BY <1>3
<1> HIDE DEF T
<1>5. IsFiniteSet(UNION T)
  BY <1>2, <1>4, FS_UNION
<1> QED
  BY <1>5 DEF SpansIn, T

LEMMA DisjointSum ==
  ASSUME NEW S, NEW T, IsFiniteSet(S), IsFiniteSet(T), S \cap T = {}
  PROVE  /\ IsFiniteSet(S \cup T)
         /\ Cardinality(S \cup T) = Cardinality(S) + Cardinality(T)
         /\ Cardinality(S) \in Nat /\ Cardinality(T) \in Nat
<1>1. Cardinality(S) \in Nat /\ Cardinality(T) \in Nat
  BY FS_CardinalityType
<1>2. Cardinality(S \cap T) = 0
  BY FS_EmptySet
<1>3. /\ IsFiniteSet(S \cup T)
      /\ Cardinality(S \cup T) = Cardinality(S) + Cardinality(T) - Cardinality(S \cap T)
  BY FS_Union
<1> QED
  BY <1>1, <1>2, <1>3

LEMMA InRefused ==
  ASSUME NEW z
  PROVE  z \in Refused <=> \E p \in Payloads :
            /\ SignalOf[p] = "trace"
            /\ fate[p] \in Settled
            /\ \E x \in survived[p] : z = <<p, x>>
  BY InSpans DEF Refused, Traces

LEMMA InRefusedNext ==
  ASSUME NEW z
  PROVE  z \in Refused' <=> \E p \in Payloads :
            /\ SignalOf[p] = "trace"
            /\ fate'[p] \in Settled
            /\ \E x \in survived'[p] : z = <<p, x>>
<1>1. Refused' = SpansIn(survived', {p \in Traces : fate'[p] \in Settled})
  BY DEF Refused, SpansIn, Traces
<1> QED
  BY <1>1, InSpans DEF Traces

LEMMA RefusedFinite ==
  ASSUME IsFiniteSet(Payloads), AccountInv
  PROVE  IsFiniteSet(Refused)
<1>1. \A p \in Payloads : IsFiniteSet(survived[p])
  BY ProcessorsAssumption, FS_Subset DEF AccountInv, AccountOK
<1>2. IsFiniteSet({p \in Traces : fate[p] \in Settled})
  BY FS_Subset DEF Traces
<1> QED
  BY <1>1, <1>2, FiniteSpans DEF Refused, Traces

\* Steps that refuse nothing.
LEMMA NothingRefused ==
  ASSUME AccountInv, UNCHANGED <<spans, count, survived, rejectedSpans>>,
         \A q \in Payloads : fate'[q] = fate[q]
                             \/ (fate[q] \notin Settled /\ fate'[q] \notin Settled)
  PROVE  AccountInv'
<1>1. ASSUME NEW q \in Payloads PROVE AccountOK(q)'
  BY DEF AccountInv, AccountOK
<1>2. \A z : z \in Refused' <=> z \in Refused
  BY InRefused, InRefusedNext
<1>3. Refused' = Refused
  BY <1>2
<1> QED
  BY <1>1, <1>3 DEF AccountInv

\* A processor refuses a payload and counts what is left of its spans.
LEMMA PayloadRefused ==
  ASSUME IsFiniteSet(Payloads), AccountInv, PayloadTyped, NEW p \in Payloads,
         fate[p] \notin Settled, NEW f \in Settled, fate' = [fate EXCEPT ![p] = f],
         CountRejected(p), UNCHANGED <<spans, count, survived>>
  PROVE  AccountInv'
<1>0. \A q \in Payloads : fate'[q] = IF q = p THEN f ELSE fate[q]
  BY DEF PayloadTyped
<1>1. ASSUME NEW q \in Payloads PROVE AccountOK(q)'
  BY <1>0 DEF AccountInv, AccountOK
<1>2. CASE SignalOf[p] # "trace"
  <2>1. rejectedSpans' = rejectedSpans
    BY <1>2 DEF CountRejected
  <2>2. \A z : z \in Refused' <=> z \in Refused
    BY <1>0, <1>2, InRefused, InRefusedNext
  <2>3. Refused' = Refused
    BY <2>2
  <2> QED
    BY <1>1, <2>1, <2>3 DEF AccountInv
<1>3. CASE SignalOf[p] = "trace"
  <2> DEFINE New == {p} \X survived[p]
  <2>1. \A z : z \in Refused' <=> (z \in Refused \/ z \in New)
    <3>1. \A z : z \in New <=> \E x \in survived[p] : z = <<p, x>>
      OBVIOUS
    <3> HIDE DEF New
    <3> QED
      BY <1>0, <1>3, <3>1, InRefused, InRefusedNext
  <2>2. Refused' = Refused \cup New
    BY <2>1
  <2>3. Refused \cap New = {}
    BY InRefused
  <2>4. /\ IsFiniteSet(survived[p])
        /\ Cardinality(survived[p]) \in Nat
        /\ Cardinality(survived[p]) = count[p]
    BY ProcessorsAssumption, FS_Subset, FS_CardinalityType DEF AccountInv, AccountOK
  <2>5. IsFiniteSet(New) /\ Cardinality(New) = count[p]
    <3>1. IsFiniteSet({p}) /\ Cardinality({p}) = 1
      BY FS_Singleton
    <3>2. IsFiniteSet(New) /\ Cardinality(New) = 1 * Cardinality(survived[p])
      BY <2>4, <3>1, FS_Product
    <3> QED
      BY <2>4, <3>2
  <2>6. IsFiniteSet(Refused)
    BY RefusedFinite
  <2>7. Cardinality(Refused \cup New) = Cardinality(Refused) + Cardinality(New)
    <3> HIDE DEF New
    <3> QED
      BY <2>3, <2>5, <2>6, DisjointSum
  <2>8. rejectedSpans' = rejectedSpans + count[p]
    BY <1>3 DEF CountRejected
  <2> HIDE DEF New
  <2>9. rejectedSpans' = Cardinality(Refused')
    BY <2>2, <2>5, <2>7, <2>8 DEF AccountInv
  <2> QED
    BY <1>1, <2>9 DEF AccountInv
<1> QED
  BY <1>2, <1>3

\* The sampler removes spans and recounts; what it removes is not refused.
LEMMA SampleAccount ==
  ASSUME AccountInv, PayloadInv, NEW p \in Payloads, Sample(p)
  PROVE  AccountInv'
<1> DEFINE S == Kept(spans[p], rate)
<1>0. /\ PayloadTyped /\ fate[p] = "inside" /\ rate \in Int /\ Half \in Int /\ Half > 0
      /\ spans[p] \subseteq SpansOf[p] /\ survived[p] = spans[p]
      /\ count[p] = Cardinality(spans[p])
  <2>1. PayloadTyped /\ fate[p] = "inside" /\ spans[p] \subseteq SpansOf[p]
    BY DEF PayloadInv, PayloadTyped, Sample, At
  <2>2. Half \in Int /\ Half > 0 /\ rate \in Int
    BY <2>1, ProcessorsAssumption DEF PayloadTyped
  <2>3. AccountOK(p)
    BY DEF AccountInv
  <2> QED
    BY <2>1, <2>2, <2>3 DEF AccountOK, Settled
<1>1. S \subseteq spans[p] /\ S \subseteq SpansOf[p]
  BY <1>0, KeptSubset
<1>2. rejectedSpans' = rejectedSpans /\ survived' = [survived EXCEPT ![p] = S]
  BY DEF Sample, counterVars
<1>3. \A q \in Payloads : survived'[q] = IF q = p THEN S ELSE survived[q]
  BY <1>0, <1>2 DEF PayloadTyped
<1>4. \A q \in Payloads : q # p => fate'[q] = fate[q]
  BY <1>0 DEF PayloadTyped, Sample, PassOn, Break
<1>5. \/ fate'[p] \notin Settled
      \/ fate'[p] \in Settled /\ S = {}
  <2>1. CASE PassOn(p)
    BY <1>0, <2>1 DEF PassOn, Settled, PayloadTyped
  <2>2. CASE S = {}
    BY <2>2
  <2> QED
    BY <2>1, <2>2 DEF Sample
<1>6. /\ spans'[p] = S \/ fate'[p] \in Settled
      /\ count'[p] = Cardinality(spans'[p])
      /\ \A q \in Payloads : q # p => spans'[q] = spans[q] /\ count'[q] = count[q]
  <2>1. CASE rate >= Half /\ PassOn(p) /\ UNCHANGED <<spans, count>>
    <3>1. S = spans[p]
      BY <1>0, <2>1 DEF Kept
    <3> QED
      BY <1>0, <2>1, <3>1
  <2>2. CASE spans' = [spans EXCEPT ![p] = S] /\ count' = [count EXCEPT ![p] = Recount(p, S)]
    <3> HIDE DEF S
    <3>1. spans'[p] = S /\ \A q \in Payloads : q # p => spans'[q] = spans[q]
      BY <1>0, <2>2 DEF PayloadTyped
    <3>2. count'[p] = Cardinality(S) /\ \A q \in Payloads : q # p => count'[q] = count[q]
      BY <1>0, <2>2 DEF PayloadTyped, Recount
    <3> QED
      BY <3>1, <3>2
  <2>3. CASE Break(p, "dropped") /\ UNCHANGED <<spans, count>>
    BY <1>0, <2>3 DEF Break, Settled, PayloadTyped
  <2> QED
    BY <2>1, <2>2, <2>3 DEF Sample
<1> HIDE DEF S
<1>7. ASSUME NEW q \in Payloads PROVE AccountOK(q)'
  <2>1. CASE q = p
    BY <1>1, <1>3, <1>6, <2>1 DEF AccountOK
  <2>2. CASE q # p
    BY <1>3, <1>4, <1>6, <2>2 DEF AccountInv, AccountOK
  <2> QED
    BY <2>1, <2>2
<1>8. Refused' = Refused
  <2>1. fate[p] \notin Settled
    BY <1>0 DEF Settled
  <2>2. \A z : z \in Refused' <=> z \in Refused
    BY <1>3, <1>4, <1>5, <2>1, InRefused, InRefusedNext
  <2> QED
    BY <2>2
<1> QED
  BY <1>2, <1>7, <1>8 DEF AccountInv

LEMMA WorkerAccount ==
  ASSUME IsFiniteSet(Payloads), AccountInv, PayloadInv, NEW p \in Payloads, Worker(p)
  PROVE  AccountInv'
<1>0. PayloadTyped
  BY DEF PayloadInv
<1>1. CASE Sample(p)
  BY <1>1, SampleAccount
<1>2. CASE Receive(p) \/ ReadBucket(p)
  <2>1. UNCHANGED <<spans, count, survived, rejectedSpans>>
    BY <1>2 DEF Receive, ReadBucket, counterVars, sampleVars
  <2>2. ASSUME NEW q \in Payloads
        PROVE  fate'[q] = fate[q] \/ (fate[q] \notin Settled /\ fate'[q] \notin Settled)
    BY <1>0, <1>2 DEF Receive, ReadBucket, PayloadTyped, Settled
  <2> QED
    BY <2>1, <2>2, NothingRefused
<1>3. CASE MemLimit(p) \/ RateLimit(p) \/ Degrade(p)
  <2>1. /\ fate[p] = "inside"
        /\ UNCHANGED <<spans, count, survived>>
        /\ \/ PassOn(p) /\ rejectedSpans' = rejectedSpans
           \/ CountRejected(p) /\ \E f \in Settled : Break(p, f)
    BY <1>3 DEF MemLimit, RateLimit, Degrade, At, counterVars, sampleVars, Settled
  <2>2. CASE PassOn(p) /\ rejectedSpans' = rejectedSpans
    <3>1. ASSUME NEW q \in Payloads
          PROVE  fate'[q] = fate[q] \/ (fate[q] \notin Settled /\ fate'[q] \notin Settled)
      BY <1>0, <2>1, <2>2 DEF PassOn, PayloadTyped, Settled
    <3> QED
      BY <2>1, <2>2, <3>1, NothingRefused
  <2>3. ASSUME CountRejected(p), NEW f \in Settled, Break(p, f)
        PROVE  AccountInv'
    <3>1. fate[p] \notin Settled /\ fate' = [fate EXCEPT ![p] = f]
      BY <2>1, <2>3 DEF Settled, Break
    <3> QED
      BY <1>0, <2>1, <2>3, <3>1, PayloadRefused
  <2> QED
    BY <2>1, <2>2, <2>3
<1> QED
  BY <1>1, <1>2, <1>3 DEF Worker

LEMMA AccountStep ==
  ASSUME IsFiniteSet(Payloads), AccountInv, ProcessorsInv, [Next]_vars
  PROVE  AccountInv'
<1>1. ASSUME NEW p \in Payloads, Worker(p) PROVE AccountInv'
  BY <1>1, WorkerAccount DEF ProcessorsInv
<1>2. CASE Elsewhere
  BY <1>2, NothingRefused DEF Elsewhere, payloadVars, counterVars, sampleVars
<1>3. CASE UNCHANGED vars
  BY <1>2, <1>3 DEF vars, Elsewhere
<1> QED
  BY <1>1, <1>2, <1>3 DEF Next, MonitorRuns, Rest

LEMMA AccountStart == Init => AccountInv
<1> SUFFICES ASSUME Init PROVE AccountInv
  OBVIOUS
<1>1. ASSUME NEW p \in Payloads PROVE AccountOK(p)
  BY <1>1 DEF Init, AccountOK
<1>2. \A z : z \notin Refused
  BY InRefused DEF Init, Settled
<1>3. Refused = {}
  BY <1>2
<1> QED
  BY <1>1, <1>3, FS_EmptySet DEF Init, AccountInv

\* The spans that came in are the disjoint union of the three sets.
LEMMA AccountAddsUp ==
  ASSUME IsFiniteSet(Payloads), AccountInv, PayloadInv
  PROVE  SpansAccounted
<1> DEFINE All == SpansIn(SpansOf, Traces)
           A == SpansIn(Removed, Traces)
           B == SpansIn(spans, OnWay)
<1>0. /\ \A p \in Traces : p \in Payloads /\ SignalOf[p] = "trace"
      /\ \A p \in Payloads : SignalOf[p] = "trace" => p \in Traces
      /\ \A p : p \in OnWay <=> p \in Traces /\ fate[p] \notin Settled
      /\ \A p \in Payloads : /\ survived[p] \subseteq SpansOf[p]
                             /\ fate[p] \notin Settled => survived[p] = spans[p]
                             /\ Removed[p] = SpansOf[p] \ survived[p]
                             /\ IsFiniteSet(SpansOf[p])
  <2>1. \A p : p \in OnWay <=> p \in Traces /\ fate[p] \notin Settled
    BY DEF OnWay, Settled, Traces, PayloadInv, PayloadTyped
  <2> QED
    BY <2>1, ProcessorsAssumption DEF Traces, Removed, AccountInv, AccountOK
<1>1. IsFiniteSet(All)
  <2>1. IsFiniteSet(Traces)
    BY FS_Subset DEF Traces
  <2> QED
    BY <1>0, <2>1, FiniteSpans
<1> HIDE DEF All, A, B
<1>2. /\ \A z : z \in All <=> \E p \in Traces : \E x \in SpansOf[p] : z = <<p, x>>
      /\ \A z : z \in A <=> \E p \in Traces : \E x \in Removed[p] : z = <<p, x>>
      /\ \A z : z \in B <=> \E p \in OnWay : \E x \in spans[p] : z = <<p, x>>
  BY InSpans DEF All, A, B
<1>3. \A z : z \in B <=> \E p \in Traces : /\ fate[p] \notin Settled
                                           /\ \E x \in survived[p] : z = <<p, x>>
  BY <1>0, <1>2
<1>4. \A z : z \in Refused <=> \E p \in Traces : /\ fate[p] \in Settled
                                                 /\ \E x \in survived[p] : z = <<p, x>>
  BY <1>0, InRefused
<1>5. \A z : z \in A <=> \E p \in Traces : \E x \in SpansOf[p] :
                            x \notin survived[p] /\ z = <<p, x>>
  BY <1>0, <1>2
<1>6. A \cap B = {} /\ (A \cup B) \cap Refused = {}
  BY <1>3, <1>4, <1>5
<1>7. All = (A \cup B) \cup Refused
  <2>1. \A z \in All : z \in (A \cup B) \cup Refused
    BY <1>2, <1>3, <1>4, <1>5
  <2>2. \A z \in (A \cup B) \cup Refused : z \in All
    BY <1>0, <1>2, <1>3, <1>4, <1>5
  <2> QED
    BY <2>1, <2>2
<1>8. IsFiniteSet(A) /\ IsFiniteSet(B) /\ IsFiniteSet(Refused)
  BY <1>1, <1>7, FS_Subset
<1>9. /\ IsFiniteSet(A \cup B)
      /\ Cardinality(A \cup B) = Cardinality(A) + Cardinality(B)
  BY <1>6, <1>8, DisjointSum
<1>10. Cardinality(All) = Cardinality(A \cup B) + Cardinality(Refused)
  BY <1>6, <1>7, <1>8, <1>9, DisjointSum
<1> QED
  BY <1>9, <1>10 DEF SpansAccounted, AccountInv, All, A, B

\* Every span is accounted for, for any finite number of payloads, any order
\* of the processors and any interleaving with reloads and changes of mode.
THEOREM SpansHold ==
  ASSUME IsFiniteSet(Payloads)
  PROVE  Spec => []SpansAccounted
<1>1. AccountInv /\ ProcessorsInv /\ [Next]_vars => AccountInv'
  BY AccountStep
<1>2. AccountInv /\ ProcessorsInv => SpansAccounted
  BY AccountAddsUp DEF ProcessorsInv
<1> QED
  BY <1>1, <1>2, AccountStart, ProcessorsAlways, PTL DEF Spec
-----------------------------------------------------------------------------
(* The share that the sampler keeps.                                       *)

LEMMA HalfDivides ==
  ASSUME NEW h \in Nat, NEW r \in Nat
  PROVE  h \div 2 < r <=> h <= 2 * r - 1
<1>1. PICK d \in Nat, m \in 0 .. 1 : h \div 2 = d /\ h = 2 * d + m
  <2>1. h \div 2 \in Nat /\ h % 2 \in 0 .. 1 /\ h = 2 * (h \div 2) + (h % 2)
    OBVIOUS
  <2> QED
    BY <2>1
<1> QED
  BY <1>1

\* A rate of r/Half keeps r of every Half hashes: the shift by one bit and the
\* comparison with the threshold lose nothing.
THEOREM ShareHolds == Spec => []ShareExact
<1>1. ProcessorsInv => ShareExact
  <2> SUFFICES ASSUME ProcessorsInv, Hashes = 0 .. 2 * Half - 1
               PROVE  Half * Cardinality(KeptHashes) = rate * Cardinality(Hashes)
    BY DEF ShareExact
  <2>0. rate \in Nat /\ rate <= Half /\ Half \in Nat
    BY ProcessorsAssumption DEF ProcessorsInv, PayloadInv, PayloadTyped
  <2>1. \A x \in Hashed : HashOf[x] \in 0 .. 2 * Half - 1 /\ HashOf[x] # NoTrace
    BY DEF Hashes, Hashed
  <2>2. /\ Kept(Hashed, rate) \subseteq Hashed
        /\ \A x \in Hashed : x \in Kept(Hashed, rate) <=> HashOf[x] <= 2 * rate - 1
    <3>1. CASE rate >= Half
      BY <2>0, <2>1, <3>1 DEF Kept
    <3>2. CASE rate <= 0 /\ rate < Half
      BY <2>0, <2>1, <3>2 DEF Kept
    <3>3. CASE 0 < rate /\ rate < Half
      <4>1. Kept(Hashed, rate) = {x \in Hashed : ShouldSample(x, rate)}
        BY <2>0, <3>3 DEF Kept
      <4>2. \A x \in Hashed : ShouldSample(x, rate) <=> HashOf[x] <= 2 * rate - 1
        BY <2>0, <2>1, HalfDivides DEF ShouldSample
      <4> QED
        BY <4>1, <4>2
    <3> QED
      BY <2>0, <3>1, <3>2, <3>3
  <2>3. KeptHashes = {h \in Hashes : h <= 2 * rate - 1}
    BY <2>2 DEF KeptHashes, Hashes
  <2>4. KeptHashes = 0 .. 2 * rate - 1
    BY <2>0, <2>3
  <2>5. Cardinality(KeptHashes) = 2 * rate /\ Cardinality(Hashes) = 2 * Half
    <3>1. 2 * rate - 1 \in Int /\ 2 * Half - 1 \in Int /\ 0 \in Int
      BY <2>0
    <3>2. /\ Cardinality(0 .. 2 * rate - 1)
               = IF 0 > 2 * rate - 1 THEN 0 ELSE (2 * rate - 1) - 0 + 1
          /\ Cardinality(0 .. 2 * Half - 1)
               = IF 0 > 2 * Half - 1 THEN 0 ELSE (2 * Half - 1) - 0 + 1
      BY <3>1, FS_Interval, Zenon
    <3> QED
      BY <2>0, <2>4, <3>2
  <2>6. Half * (2 * rate) = rate * (2 * Half)
    BY <2>0
  <2> QED
    BY <2>5, <2>6
<1> QED
  BY <1>1, ProcessorsAlways, PTL
=============================================================================
