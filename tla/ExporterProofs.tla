--------------------------- MODULE ExporterProofs ---------------------------
(***************************************************************************)
(* Machine-checked proofs about Exporter, for any number of calls,         *)
(* backends and attempts, in every wiring of retry and fan-out.            *)
(***************************************************************************)
EXTENDS Exporter, TLAPS, FiniteSetTheorems

Labels == {"new", "loop", "send", "sent", "unsent", "joined", "backoff", "done"}
Results == {"none", "ok", "error", "cancelled"}

Typed ==
    /\ wiring \in Wirings
    /\ order \in [1 .. N -> Backends]
    /\ \A b \in Backends : \E i \in 1 .. N : order[i] = b
    /\ pc \in [Calls -> Labels]
    /\ attempt \in [Calls -> 0 .. MaxAttempts]
    /\ at \in [Calls -> 1 .. N + 1]
    /\ errs \in [Calls -> SUBSET Backends]
    /\ result \in [Calls -> Results]
    /\ asked \in [Calls -> [Backends -> Nat]]
    /\ taken \in [Calls -> [Backends -> Nat]]
    /\ lost \in [Calls -> [Backends -> Nat]]

\* What the step of a call says of its locals.
ControlOK(c) ==
    /\ result[c] = "none" <=> pc[c] # "done"
    /\ pc[c] \in {"send", "sent", "unsent", "joined", "backoff"} =>
          attempt[c] < MaxAttempts
    /\ pc[c] \in {"send", "sent", "unsent"} => at[c] <= N
    /\ pc[c] = "joined" => wiring # "fanout_retry" /\ at[c] = N + 1
    /\ pc[c] = "new" => attempt[c] = 0 /\ at[c] = 1 /\ errs[c] = {}
    /\ wiring = "fanout_retry" => (pc[c] = "done" <=> at[c] = N + 1)

\* The i-th backend, when the whole fan-out is repeated: every pass asks it
\* once, in its turn.
PassOK(c, i) ==
    LET b == order[i] IN
    /\ pc[c] \in {"new", "loop"} => asked[c][b] = attempt[c]
    /\ pc[c] = "send" =>
          asked[c][b] = attempt[c] + (IF i < at[c] THEN 1 ELSE 0)
    /\ pc[c] \in {"sent", "unsent"} =>
          asked[c][b] = attempt[c] + (IF i <= at[c] THEN 1 ELSE 0)
    /\ pc[c] \in {"joined", "backoff"} => asked[c][b] = attempt[c] + 1
    /\ pc[c] = "done" => /\ asked[c][b] <= MaxAttempts
                         /\ asked[c][b] <= attempt[c] + 1
    /\ result[c] = "error" => asked[c][b] = MaxAttempts
    /\ taken[c][b] <= asked[c][b]
    /\ (pc[c] \in {"sent", "unsent"} /\ i = at[c]) => taken[c][b] < asked[c][b]
    /\ (pc[c] \in {"send", "sent", "unsent", "joined"} /\ i < at[c]) =>
          taken[c][b] > 0 \/ b \in errs[c]
    /\ result[c] = "ok" => taken[c][b] > 0

\* The i-th backend, when each has its own retry: those before the current one
\* are settled, those behind it untouched.
TurnOK(c, i) ==
    LET b == order[i] IN
    /\ i < at[c] =>
          /\ asked[c][b] <= MaxAttempts
          /\ MaxAttempts > 0 => asked[c][b] > 0
          /\ b \in errs[c] => asked[c][b] = MaxAttempts
          /\ b \notin errs[c] => taken[c][b] > 0
          /\ taken[c][b] <= 1 + lost[c][b]
    /\ i = at[c] =>
          /\ asked[c][b] = attempt[c] + (IF pc[c] \in {"sent", "unsent", "backoff"}
                                         THEN 1 ELSE 0)
          /\ taken[c][b] = lost[c][b]
    /\ i > at[c] => asked[c][b] = 0 /\ taken[c][b] = 0 /\ lost[c][b] = 0
    /\ i >= at[c] => b \notin errs[c]
    /\ result[c] = "ok" => errs[c] = {}

CallOK(c) ==
    /\ ControlOK(c)
    /\ wiring # "fanout_retry" => \A i \in 1 .. N : PassOK(c, i)
    /\ wiring = "fanout_retry" => \A i \in 1 .. N : TurnOK(c, i)

ExporterInv == Typed /\ \A c \in Calls : CallOK(c)
-----------------------------------------------------------------------------
(* The order of the backends.                                              *)

LEMMA NType == N \in Nat /\ N > 0
  BY ExporterAssumption, FS_CardinalityType, FS_EmptySet DEF N

\* No backend has two places.
LEMMA OnePlaceEach ==
  ASSUME Typed, NEW i \in 1 .. N, NEW j \in 1 .. N, order[i] = order[j]
  PROVE  i = j
<1>1. IsFiniteSet(1 .. N) /\ Cardinality(1 .. N) = N
  BY NType, FS_Interval
<1>2. order \in Surjection(1 .. N, Backends)
  BY DEF Typed, Labels, Results, Surjection
<1>3. order \in Injection(1 .. N, Backends)
  BY <1>1, <1>2, FS_SurjSameCardinalityImpliesInj DEF N
<1> QED
  BY <1>3 DEF Injection, IsInjective

\* A counter of a backend goes up by one, the other backends' stay.
LEMMA Bump ==
  ASSUME Typed, NEW c \in Calls, NEW k \in 1 .. N,
         NEW f \in [Calls -> [Backends -> Nat]]
  PROVE  LET g == [f EXCEPT ![c][order[k]] = @ + 1] IN
         /\ g \in [Calls -> [Backends -> Nat]]
         /\ \A i \in 1 .. N : g[c][order[i]] =
               f[c][order[i]] + (IF i = k THEN 1 ELSE 0)
         /\ \A d \in Calls \ {c} : g[d] = f[d]
<1> DEFINE g == [f EXCEPT ![c][order[k]] = @ + 1]
<1>1. order[k] \in Backends /\ \A i \in 1 .. N : order[i] \in Backends
  BY NType DEF Typed, Labels, Results
<1>2. g[c] = [f[c] EXCEPT ![order[k]] = @ + 1] /\ f[c] \in [Backends -> Nat]
  OBVIOUS
<1>3. g[c] \in [Backends -> Nat]
  BY <1>1, <1>2
<1>4. \A d \in Calls \ {c} : g[d] = f[d]
  OBVIOUS
<1>5. g \in [Calls -> [Backends -> Nat]]
  BY <1>3, <1>4
<1>6. ASSUME NEW i \in 1 .. N
      PROVE  g[c][order[i]] = f[c][order[i]] + (IF i = k THEN 1 ELSE 0)
  <2>1. CASE i = k
    BY <2>1, <1>1, <1>2
  <2>2. CASE i # k
    <3>1. order[i] # order[k]
      BY <2>2, OnePlaceEach
    <3> QED
      BY <3>1, <2>2, <1>1, <1>2
  <2> QED
    BY <2>1, <2>2
<1> QED
  BY <1>4, <1>5, <1>6
-----------------------------------------------------------------------------
(* A step of one call leaves the others alone.                             *)

Same(d) ==
    /\ pc'[d] = pc[d]
    /\ attempt'[d] = attempt[d]
    /\ at'[d] = at[d]
    /\ errs'[d] = errs[d]
    /\ result'[d] = result[d]
    /\ asked'[d] = asked[d]
    /\ taken'[d] = taken[d]
    /\ lost'[d] = lost[d]

LEMMA OthersKeep ==
  ASSUME NEW d \in Calls, CallOK(d), Same(d), UNCHANGED chain
  PROVE  CallOK(d)'
<1> USE DEF Same, chain
<1>1. ControlOK(d)'
  BY DEF CallOK, ControlOK
<1>2. ASSUME wiring # "fanout_retry", NEW i \in 1 .. N
      PROVE  PassOK(d, i)'
  BY <1>2 DEF CallOK, PassOK
<1>3. ASSUME wiring = "fanout_retry", NEW i \in 1 .. N
      PROVE  TurnOK(d, i)'
  BY <1>3 DEF CallOK, TurnOK
<1> QED
  BY <1>1, <1>2, <1>3 DEF CallOK

\* What has to be shown of a step of c.
Kept(c) ==
    /\ Typed'
    /\ CallOK(c)'
    /\ UNCHANGED chain
    /\ \A d \in Calls \ {c} : Same(d)

LEMMA KeptInv ==
  ASSUME ExporterInv, NEW c \in Calls, Kept(c)
  PROVE  ExporterInv'
  BY OthersKeep DEF ExporterInv, Kept

(* The control state of c after a step, and what follows from it.          *)

Moved(c, p, a, k, E, r) ==
    /\ UNCHANGED chain
    /\ pc' = [pc EXCEPT ![c] = p]
    /\ attempt' = [attempt EXCEPT ![c] = a]
    /\ at' = [at EXCEPT ![c] = k]
    /\ errs' = [errs EXCEPT ![c] = E]
    /\ result' = [result EXCEPT ![c] = r]

Counted(c) ==
    /\ asked' \in [Calls -> [Backends -> Nat]]
    /\ taken' \in [Calls -> [Backends -> Nat]]
    /\ lost' \in [Calls -> [Backends -> Nat]]
    /\ \A d \in Calls \ {c} : /\ asked'[d] = asked[d] /\ taken'[d] = taken[d]
                             /\ lost'[d] = lost[d]

Landed(c, p, a, k, E, r) ==
    /\ Typed' /\ UNCHANGED <<wiring, order>>
    /\ pc'[c] = p /\ attempt'[c] = a /\ at'[c] = k /\ errs'[c] = E /\ result'[c] = r
    /\ \A d \in Calls \ {c} : Same(d)

LEMMA Still ==
  ASSUME Typed, NEW c \in Calls
  PROVE  /\ attempt = [attempt EXCEPT ![c] = attempt[c]]
         /\ at = [at EXCEPT ![c] = at[c]]
         /\ errs = [errs EXCEPT ![c] = errs[c]]
         /\ result = [result EXCEPT ![c] = result[c]]
  BY DEF Typed

LEMMA Landing ==
  ASSUME Typed, NEW c \in Calls, NEW p \in Labels, NEW a \in 0 .. MaxAttempts,
         NEW k \in 1 .. N + 1, NEW E \in SUBSET Backends, NEW r \in Results,
         Moved(c, p, a, k, E, r), Counted(c)
  PROVE  Landed(c, p, a, k, E, r)
<1>1. /\ pc' \in [Calls -> Labels] /\ pc'[c] = p
      /\ \A d \in Calls \ {c} : pc'[d] = pc[d]
  BY DEF Typed, Moved
<1>2. /\ attempt' \in [Calls -> 0 .. MaxAttempts] /\ attempt'[c] = a
      /\ \A d \in Calls \ {c} : attempt'[d] = attempt[d]
  BY DEF Typed, Moved
<1>3. /\ at' \in [Calls -> 1 .. N + 1] /\ at'[c] = k
      /\ \A d \in Calls \ {c} : at'[d] = at[d]
  BY DEF Typed, Moved
<1>4. /\ errs' \in [Calls -> SUBSET Backends] /\ errs'[c] = E
      /\ \A d \in Calls \ {c} : errs'[d] = errs[d]
  BY DEF Typed, Moved
<1>5. /\ result' \in [Calls -> Results] /\ result'[c] = r
      /\ \A d \in Calls \ {c} : result'[d] = result[d]
  BY DEF Typed, Moved
<1>6. wiring' = wiring /\ order' = order
  BY DEF Moved, chain
<1>7. Typed'
  BY <1>1, <1>2, <1>3, <1>4, <1>5, <1>6 DEF Typed, Counted
<1> QED
  BY <1>1, <1>2, <1>3, <1>4, <1>5, <1>6, <1>7 DEF Landed, Same, Counted

LEMMA LandedKept ==
  ASSUME NEW c \in Calls, NEW p, NEW a, NEW k, NEW E, NEW r, Landed(c, p, a, k, E, r),
         ControlOK(c)',
         wiring # "fanout_retry" => \A i \in 1 .. N : PassOK(c, i)',
         wiring = "fanout_retry" => \A i \in 1 .. N : TurnOK(c, i)'
  PROVE  Kept(c)
  BY DEF Landed, Kept, CallOK, chain

\* The counters of c are numbers.
LEMMA Numbers ==
  ASSUME Typed, NEW c \in Calls, NEW i \in 1 .. N
  PROVE  /\ asked[c][order[i]] \in Nat /\ taken[c][order[i]] \in Nat
         /\ lost[c][order[i]] \in Nat /\ order[i] \in Backends
  BY NType DEF Typed
-----------------------------------------------------------------------------
(* The steps of the retry.                                                 *)

LEMMA BeginKeeps ==
  ASSUME ExporterInv, NEW c \in Calls, Begin(c)
  PROVE  Kept(c)
<1> USE NType DEF Begin, Goto, Return, history, chain
<1>0. Typed /\ CallOK(c) /\ ControlOK(c)
  BY DEF ExporterInv, CallOK
<1>1. Typed'
  BY <1>0, ExporterAssumption DEF Typed, Labels, Results, ControlOK
<1>2. ControlOK(c)'
  BY <1>0 DEF Typed, Labels, Results, ControlOK
<1>3. ASSUME wiring # "fanout_retry", NEW i \in 1 .. N
      PROVE  PassOK(c, i)'
  BY <1>0, <1>3, ExporterAssumption DEF Typed, Labels, Results, ControlOK, CallOK, PassOK
<1>4. ASSUME wiring = "fanout_retry", NEW i \in 1 .. N
      PROVE  TurnOK(c, i)'
  BY <1>0, <1>4, ExporterAssumption DEF Typed, Labels, Results, ControlOK, CallOK, TurnOK
<1>5. UNCHANGED chain /\ \A d \in Calls \ {c} : Same(d)
  BY <1>0 DEF Typed, Labels, Results, Same
<1> QED
  BY <1>1, <1>2, <1>3, <1>4, <1>5 DEF Kept, CallOK, chain

LEMMA AttemptKeeps ==
  ASSUME ExporterInv, NEW c \in Calls, Attempt(c)
  PROVE  Kept(c)
<1> USE NType
<1>0. Typed /\ CallOK(c) /\ ControlOK(c)
  BY DEF ExporterInv, CallOK
<1> USE DEF Attempt, MayAttempt, Stopped, Goto, Return, history, chain
<1>1. Typed'
  <2>1. at' \in [Calls -> 1 .. N + 1] /\ errs' \in [Calls -> SUBSET Backends]
    <3>1. CASE wiring = "fanout_retry"
      BY <1>0, <3>1 DEF Typed, Labels, Results
    <3>2. CASE wiring # "fanout_retry"
      <4>1. 1 \in 1 .. N + 1 /\ {} \in SUBSET Backends
        OBVIOUS
      <4> QED
        BY <1>0, <3>2, <4>1 DEF Typed, Labels, Results
    <3> QED
      BY <3>1, <3>2
  <2> QED
    BY <1>0, <2>1, ExporterAssumption DEF Typed, Labels, Results, ControlOK
<1>2. ControlOK(c)'
  BY <1>0 DEF Typed, Labels, Results, ControlOK
<1>3. ASSUME wiring # "fanout_retry", NEW i \in 1 .. N
      PROVE  PassOK(c, i)'
  BY <1>0, <1>3, ExporterAssumption DEF Typed, Labels, Results, ControlOK, CallOK, PassOK
<1>4. ASSUME wiring = "fanout_retry", NEW i \in 1 .. N
      PROVE  TurnOK(c, i)'
  BY <1>0, <1>4, ExporterAssumption DEF Typed, Labels, Results, ControlOK, CallOK, TurnOK
<1>5. UNCHANGED chain /\ \A d \in Calls \ {c} : Same(d)
  BY <1>0 DEF Typed, Labels, Results, Same
<1> QED
  BY <1>1, <1>2, <1>3, <1>4, <1>5 DEF Kept, CallOK, chain

LEMMA CancelledBetweenKeeps ==
  ASSUME ExporterInv, NEW c \in Calls, CancelledBetween(c)
  PROVE  Kept(c)
<1> USE NType DEF CancelledBetween, MayAttempt, Stopped, Goto, Return, history, chain
<1>0. Typed /\ CallOK(c) /\ ControlOK(c)
  BY DEF ExporterInv, CallOK
<1>1. Typed'
  BY <1>0, ExporterAssumption DEF Typed, Labels, Results, ControlOK
<1>2. ControlOK(c)'
  BY <1>0 DEF Typed, Labels, Results, ControlOK
<1>3. ASSUME wiring # "fanout_retry", NEW i \in 1 .. N
      PROVE  PassOK(c, i)'
  BY <1>0, <1>3, ExporterAssumption DEF Typed, Labels, Results, ControlOK, CallOK, PassOK
<1>4. ASSUME wiring = "fanout_retry", NEW i \in 1 .. N
      PROVE  TurnOK(c, i)'
  BY <1>0, <1>4, ExporterAssumption DEF Typed, Labels, Results, ControlOK, CallOK, TurnOK
<1>5. UNCHANGED chain /\ \A d \in Calls \ {c} : Same(d)
  BY <1>0 DEF Typed, Labels, Results, Same
<1> QED
  BY <1>1, <1>2, <1>3, <1>4, <1>5 DEF Kept, CallOK, chain

LEMMA ExhaustedKeeps ==
  ASSUME ExporterInv, NEW c \in Calls, Exhausted(c)
  PROVE  Kept(c)
<1> USE NType
<1>0. Typed /\ CallOK(c) /\ ControlOK(c)
  BY DEF ExporterInv, CallOK
<1>b. /\ pc[c] = "loop" /\ result[c] = "none" /\ at[c] \in 1 .. N + 1
      /\ attempt[c] = MaxAttempts /\ MaxAttempts \in Nat /\ errs[c] \in SUBSET Backends
      /\ wiring = "fanout_retry" => at[c] \in 1 .. N /\ order[at[c]] \in Backends
  BY <1>0, ExporterAssumption DEF Typed, ControlOK, Exhausted, MayAttempt
<1>c. Counted(c) /\ UNCHANGED <<asked, taken, lost>>
  BY <1>0 DEF Counted, Typed, Exhausted, history
<1>1. CASE wiring # "fanout_retry"
  <2>1. Moved(c, "done", attempt[c], at[c], errs[c], "error")
    BY <1>0, <1>b, <1>1, Still DEF Moved, chain, Exhausted, NextBackend, Joined, Goto, Return
  <2>2. Landed(c, "done", attempt[c], at[c], errs[c], "error")
    <3>1. /\ "done" \in Labels /\ attempt[c] \in 0 .. MaxAttempts /\ at[c] \in 1 .. N + 1
          /\ errs[c] \in SUBSET Backends /\ "error" \in Results
      BY <1>b, <1>1 DEF Labels, Results
    <3> QED
      BY <1>0, <1>c, <2>1, <3>1, Landing
  <2>3. ControlOK(c)'
    BY <1>0, <1>b, <1>1, <2>2 DEF ControlOK, Landed
  <2>4. ASSUME NEW i \in 1 .. N
        PROVE  PassOK(c, i)'
    <3>1. PassOK(c, i)
      BY <1>0, <1>1 DEF CallOK
    <3> QED
      BY <1>0, <1>b, <1>c, <1>1, <2>2, <3>1, Numbers DEF PassOK, Landed
  <2> QED
    BY <1>1, <2>2, <2>3, <2>4, LandedKept
<1>2. CASE wiring = "fanout_retry" /\ at[c] < N
  <2>1. Moved(c, "loop", 0, at[c] + 1, errs[c] \cup {order[at[c]]}, "none")
    BY <1>0, <1>b, <1>2, Still DEF Moved, chain, Exhausted, NextBackend, Joined, Goto, Return
  <2>2. Landed(c, "loop", 0, at[c] + 1, errs[c] \cup {order[at[c]]}, "none")
    <3>1. /\ "loop" \in Labels /\ 0 \in 0 .. MaxAttempts /\ at[c] + 1 \in 1 .. N + 1
          /\ errs[c] \cup {order[at[c]]} \in SUBSET Backends /\ "none" \in Results
      BY <1>b, <1>2 DEF Labels, Results
    <3> QED
      BY <1>0, <1>c, <2>1, <3>1, Landing
  <2>3. ControlOK(c)'
    BY <1>0, <1>b, <1>2, <2>2 DEF ControlOK, Landed
  <2>4. ASSUME NEW i \in 1 .. N
        PROVE  TurnOK(c, i)'
    <3>1. TurnOK(c, i)
      BY <1>0, <1>2 DEF CallOK
    <3>2. order[i] \in errs[c] \cup {order[at[c]]} <=> order[i] \in errs[c] \/ i = at[c]
      BY <1>0, <1>b, <1>2, OnePlaceEach
    <3> QED
      BY <1>0, <1>b, <1>c, <1>2, <2>2, <3>1, Numbers, <3>2 DEF TurnOK, Landed
  <2> QED
    BY <1>2, <2>2, <2>3, <2>4, LandedKept
<1>3. CASE wiring = "fanout_retry" /\ at[c] = N
  <2>1. Moved(c, "done", attempt[c], at[c] + 1, errs[c] \cup {order[at[c]]}, "error")
    BY <1>0, <1>b, <1>3, Still DEF Moved, chain, Exhausted, NextBackend, Joined, Goto, Return
  <2>2. Landed(c, "done", attempt[c], at[c] + 1, errs[c] \cup {order[at[c]]}, "error")
    <3>1. /\ "done" \in Labels /\ attempt[c] \in 0 .. MaxAttempts /\ at[c] + 1 \in 1 .. N + 1
          /\ errs[c] \cup {order[at[c]]} \in SUBSET Backends /\ "error" \in Results
      BY <1>b, <1>3 DEF Labels, Results
    <3> QED
      BY <1>0, <1>c, <2>1, <3>1, Landing
  <2>3. ControlOK(c)'
    BY <1>0, <1>b, <1>3, <2>2 DEF ControlOK, Landed
  <2>4. ASSUME NEW i \in 1 .. N
        PROVE  TurnOK(c, i)'
    <3>1. TurnOK(c, i)
      BY <1>0, <1>3 DEF CallOK
    <3>2. order[i] \in errs[c] \cup {order[at[c]]} <=> order[i] \in errs[c] \/ i = at[c]
      BY <1>0, <1>b, <1>3, OnePlaceEach
    <3> QED
      BY <1>0, <1>b, <1>c, <1>3, <2>2, <3>1, Numbers, <3>2 DEF TurnOK, Landed
  <2> QED
    BY <1>3, <2>2, <2>3, <2>4, LandedKept
<1> QED
  BY <1>b, <1>1, <1>2, <1>3

LEMMA SleepKeeps ==
  ASSUME ExporterInv, NEW c \in Calls, Sleep(c)
  PROVE  Kept(c)
<1> USE NType
<1>0. Typed /\ CallOK(c) /\ ControlOK(c)
  BY DEF ExporterInv, CallOK
<1>a. /\ UNCHANGED <<wiring, order, at, errs, result, asked, taken, lost>>
      /\ pc[c] = "backoff" /\ pc' = [pc EXCEPT ![c] = "loop"]
      /\ attempt' = [attempt EXCEPT ![c] = @ + 1]
  BY DEF Sleep, Goto, chain, history
<1>b. /\ attempt[c] \in Nat /\ attempt[c] < MaxAttempts /\ MaxAttempts \in Nat
      /\ pc'[c] = "loop" /\ attempt'[c] = attempt[c] + 1
  BY <1>0, <1>a, ExporterAssumption DEF Typed, Labels, Results, ControlOK
<1>1. Typed'
  <2>1. attempt[c] + 1 \in 0 .. MaxAttempts
    BY <1>b
  <2>2. attempt' \in [Calls -> 0 .. MaxAttempts]
    BY <1>0, <1>a, <2>1 DEF Typed, Labels, Results
  <2>3. pc' \in [Calls -> {"new", "loop", "send", "sent", "unsent", "joined",
                         "backoff", "done"}]
    BY <1>0, <1>a DEF Typed, Labels, Results
  <2> QED
    BY <1>0, <1>a, <2>2, <2>3 DEF Typed, Labels, Results
<1>2. ControlOK(c)'
  BY <1>0, <1>a, <1>b DEF ControlOK
<1>3. ASSUME wiring # "fanout_retry", NEW i \in 1 .. N
      PROVE  PassOK(c, i)'
  BY <1>0, <1>a, <1>b, <1>3 DEF ControlOK, CallOK, PassOK
<1>4. ASSUME wiring = "fanout_retry", NEW i \in 1 .. N
      PROVE  TurnOK(c, i)'
  <2>1. TurnOK(c, i)
    BY <1>0, <1>4 DEF CallOK
  <2>2. at[c] \in Nat /\ i \in Nat
    BY <1>0 DEF Typed, Labels, Results
  <2> QED
    BY <1>a, <1>b, <2>1, <2>2 DEF TurnOK
<1>5. UNCHANGED chain /\ \A d \in Calls \ {c} : Same(d)
  BY <1>0, <1>a DEF Typed, Labels, Results, Same, chain
<1> QED
  BY <1>1, <1>2, <1>3, <1>4, <1>5 DEF Kept, CallOK, chain

LEMMA CancelledInBackoffKeeps ==
  ASSUME ExporterInv, NEW c \in Calls, CancelledInBackoff(c)
  PROVE  Kept(c)
<1> USE NType DEF CancelledInBackoff, Goto, Return, history, chain
<1>0. Typed /\ CallOK(c) /\ ControlOK(c)
  BY DEF ExporterInv, CallOK
<1>1. Typed'
  BY <1>0, ExporterAssumption DEF Typed, Labels, Results, ControlOK
<1>2. ControlOK(c)'
  BY <1>0 DEF Typed, Labels, Results, ControlOK
<1>3. ASSUME wiring # "fanout_retry", NEW i \in 1 .. N
      PROVE  PassOK(c, i)'
  BY <1>0, <1>3, ExporterAssumption DEF Typed, Labels, Results, ControlOK, CallOK, PassOK
<1>4. ASSUME wiring = "fanout_retry", NEW i \in 1 .. N
      PROVE  TurnOK(c, i)'
  BY <1>0, <1>4, ExporterAssumption DEF Typed, Labels, Results, ControlOK, CallOK, TurnOK
<1>5. UNCHANGED chain /\ \A d \in Calls \ {c} : Same(d)
  BY <1>0 DEF Typed, Labels, Results, Same
<1> QED
  BY <1>1, <1>2, <1>3, <1>4, <1>5 DEF Kept, CallOK, chain

-----------------------------------------------------------------------------
(* The steps of the client and the fan-out.                                *)

LEMMA SendKeeps ==
  ASSUME ExporterInv, NEW c \in Calls, Send(c)
  PROVE  Kept(c)
<1> USE NType
<1>0. Typed /\ CallOK(c) /\ ControlOK(c)
  BY DEF ExporterInv, CallOK
<1>b. /\ pc[c] = "send" /\ result[c] = "none" /\ at[c] \in 1 .. N
      /\ attempt[c] \in Nat /\ attempt[c] < MaxAttempts /\ MaxAttempts \in Nat
      /\ errs[c] \in SUBSET Backends /\ order[at[c]] \in Backends
  BY <1>0, ExporterAssumption DEF Typed, ControlOK, Send
<1>c. /\ Counted(c)
      /\ taken' = taken
      /\ lost' = lost
      /\ \A i \in 1 .. N : asked'[c][order[i]] =
            asked[c][order[i]] + (IF i = at[c] THEN 1 ELSE 0)
  <2>1. asked' = [asked EXCEPT ![c][order[at[c]]] = @ + 1]
    BY DEF Send
  <2>2. asked \in [Calls -> [Backends -> Nat]]
    BY <1>0 DEF Typed
  <2>3. /\ asked' \in [Calls -> [Backends -> Nat]]
        /\ \A i \in 1 .. N : asked'[c][order[i]] =
              asked[c][order[i]] + (IF i = at[c] THEN 1 ELSE 0)
        /\ \A d \in Calls \ {c} : asked'[d] = asked[d]
    BY <1>0, <1>b, <2>1, <2>2, Bump
  <2> QED
    BY <1>0, <2>3 DEF Counted, Typed, Send
<1> DEFINE p == IF order[at[c]] \in closed THEN "unsent" ELSE "sent"
<1>1. Moved(c, p, attempt[c], at[c], errs[c], "none")
  BY <1>0, <1>b, Still DEF Moved, Send, Goto, chain
<1>2. Landed(c, p, attempt[c], at[c], errs[c], "none")
  <2>1. p \in Labels /\ "none" \in Results /\ attempt[c] \in 0 .. MaxAttempts /\ at[c] \in 1 .. N + 1
    BY <1>b DEF Labels, Results
  <2> HIDE DEF p
  <2> QED
    BY <1>0, <1>b, <1>c, <1>1, <2>1, Landing
<1>3. p \in {"sent", "unsent"}
  OBVIOUS
<1> HIDE DEF p
<1>4. ControlOK(c)'
  BY <1>0, <1>b, <1>2, <1>3 DEF ControlOK, Landed
<1>5. ASSUME wiring # "fanout_retry", NEW i \in 1 .. N
      PROVE  PassOK(c, i)'
  <2>1. PassOK(c, i)
    BY <1>0, <1>5 DEF CallOK
  <2> QED
    BY <1>0, <1>b, <1>c, <1>2, <1>3, <2>1, Numbers DEF PassOK, Landed
<1>6. ASSUME wiring = "fanout_retry", NEW i \in 1 .. N
      PROVE  TurnOK(c, i)'
  <2>1. TurnOK(c, i)
    BY <1>0, <1>6 DEF CallOK
  <2> QED
    BY <1>0, <1>b, <1>c, <1>2, <1>3, <2>1, Numbers DEF TurnOK, Landed
<1> QED
  BY <1>2, <1>4, <1>5, <1>6, LandedKept

LEMMA AnswerOkKeeps ==
  ASSUME ExporterInv, NEW c \in Calls, AnswerOk(c)
  PROVE  Kept(c)
<1> USE NType
<1>0. Typed /\ CallOK(c) /\ ControlOK(c)
  BY DEF ExporterInv, CallOK
<1>b. /\ pc[c] = "sent" /\ result[c] = "none" /\ at[c] \in 1 .. N
      /\ attempt[c] \in Nat /\ attempt[c] < MaxAttempts /\ MaxAttempts \in Nat
      /\ errs[c] \in SUBSET Backends /\ order[at[c]] \in Backends
  BY <1>0, ExporterAssumption DEF Typed, ControlOK, AnswerOk
<1>c. /\ Counted(c)
      /\ asked' = asked
      /\ lost' = lost
      /\ \A i \in 1 .. N : taken'[c][order[i]] =
            taken[c][order[i]] + (IF i = at[c] THEN 1 ELSE 0)
  <2>1. taken' = [taken EXCEPT ![c][order[at[c]]] = @ + 1]
    BY DEF AnswerOk
  <2>2. taken \in [Calls -> [Backends -> Nat]]
    BY <1>0 DEF Typed
  <2>3. /\ taken' \in [Calls -> [Backends -> Nat]]
        /\ \A i \in 1 .. N : taken'[c][order[i]] =
              taken[c][order[i]] + (IF i = at[c] THEN 1 ELSE 0)
        /\ \A d \in Calls \ {c} : taken'[d] = taken[d]
    BY <1>0, <1>b, <2>1, <2>2, Bump
  <2> QED
    BY <1>0, <2>3 DEF Counted, Typed, AnswerOk
<1>1. CASE wiring # "fanout_retry" /\ at[c] < N
  <2>1. Moved(c, "send", attempt[c], at[c] + 1, errs[c], "none")
    BY <1>0, <1>b, <1>1, Still DEF Moved, chain, AnswerOk, Collected, NextBackend, Goto, Return
  <2>2. Landed(c, "send", attempt[c], at[c] + 1, errs[c], "none")
    <3>1. /\ "send" \in Labels /\ attempt[c] \in 0 .. MaxAttempts /\ at[c] + 1 \in 1 .. N + 1
          /\ errs[c] \in SUBSET Backends /\ "none" \in Results
      BY <1>b, <1>1 DEF Labels, Results
    <3> QED
      BY <1>0, <1>c, <2>1, <3>1, Landing
  <2>3. ControlOK(c)'
    BY <1>0, <1>b, <1>1, <2>2 DEF ControlOK, Landed
  <2>4. ASSUME NEW i \in 1 .. N
        PROVE  PassOK(c, i)'
    <3>1. PassOK(c, i)
      BY <1>0, <1>1 DEF CallOK
    <3> QED
      BY <1>0, <1>b, <1>c, <1>1, <2>2, <3>1, Numbers DEF PassOK, Landed
  <2> QED
    BY <1>1, <2>2, <2>3, <2>4, LandedKept
<1>2. CASE wiring # "fanout_retry" /\ at[c] = N
  <2>1. Moved(c, "joined", attempt[c], at[c] + 1, errs[c], "none")
    BY <1>0, <1>b, <1>2, Still DEF Moved, chain, AnswerOk, Collected, NextBackend, Goto, Return
  <2>2. Landed(c, "joined", attempt[c], at[c] + 1, errs[c], "none")
    <3>1. /\ "joined" \in Labels /\ attempt[c] \in 0 .. MaxAttempts /\ at[c] + 1 \in 1 .. N + 1
          /\ errs[c] \in SUBSET Backends /\ "none" \in Results
      BY <1>b, <1>2 DEF Labels, Results
    <3> QED
      BY <1>0, <1>c, <2>1, <3>1, Landing
  <2>3. ControlOK(c)'
    BY <1>0, <1>b, <1>2, <2>2 DEF ControlOK, Landed
  <2>4. ASSUME NEW i \in 1 .. N
        PROVE  PassOK(c, i)'
    <3>1. PassOK(c, i)
      BY <1>0, <1>2 DEF CallOK
    <3> QED
      BY <1>0, <1>b, <1>c, <1>2, <2>2, <3>1, Numbers DEF PassOK, Landed
  <2> QED
    BY <1>2, <2>2, <2>3, <2>4, LandedKept
<1>3. CASE wiring = "fanout_retry" /\ at[c] < N
  <2>1. Moved(c, "loop", 0, at[c] + 1, errs[c], "none")
    BY <1>0, <1>b, <1>3, Still DEF Moved, chain, AnswerOk, Collected, NextBackend, Goto, Return
  <2>2. Landed(c, "loop", 0, at[c] + 1, errs[c], "none")
    <3>1. /\ "loop" \in Labels /\ 0 \in 0 .. MaxAttempts /\ at[c] + 1 \in 1 .. N + 1
          /\ errs[c] \in SUBSET Backends /\ "none" \in Results
      BY <1>b, <1>3 DEF Labels, Results
    <3> QED
      BY <1>0, <1>c, <2>1, <3>1, Landing
  <2>3. ControlOK(c)'
    BY <1>0, <1>b, <1>3, <2>2 DEF ControlOK, Landed
  <2>4. ASSUME NEW i \in 1 .. N
        PROVE  TurnOK(c, i)'
    <3>1. TurnOK(c, i)
      BY <1>0, <1>3 DEF CallOK
    <3> QED
      BY <1>0, <1>b, <1>c, <1>3, <2>2, <3>1, Numbers DEF TurnOK, Landed
  <2> QED
    BY <1>3, <2>2, <2>3, <2>4, LandedKept
<1>4. CASE wiring = "fanout_retry" /\ at[c] = N
  <2>1. Moved(c, "done", attempt[c], at[c] + 1, errs[c], Joined(errs[c]))
    BY <1>0, <1>b, <1>4, Still DEF Moved, chain, AnswerOk, Collected, NextBackend, Goto, Return
  <2>2. Landed(c, "done", attempt[c], at[c] + 1, errs[c], Joined(errs[c]))
    <3>1. /\ "done" \in Labels /\ attempt[c] \in 0 .. MaxAttempts /\ at[c] + 1 \in 1 .. N + 1
          /\ errs[c] \in SUBSET Backends /\ Joined(errs[c]) \in Results
      BY <1>b, <1>4 DEF Labels, Results, Joined
    <3> QED
      BY <1>0, <1>c, <2>1, <3>1, Landing
  <2>3. ControlOK(c)'
    BY <1>0, <1>b, <1>4, <2>2 DEF ControlOK, Landed, Joined
  <2>4. ASSUME NEW i \in 1 .. N
        PROVE  TurnOK(c, i)'
    <3>1. TurnOK(c, i)
      BY <1>0, <1>4 DEF CallOK
    <3> QED
      BY <1>0, <1>b, <1>c, <1>4, <2>2, <3>1, Numbers DEF TurnOK, Landed, Joined
  <2> QED
    BY <1>4, <2>2, <2>3, <2>4, LandedKept
<1> QED
  BY <1>b, <1>1, <1>2, <1>3, <1>4

LEMMA AnswerErrorKeeps ==
  ASSUME ExporterInv, NEW c \in Calls, AnswerError(c)
  PROVE  Kept(c)
<1> USE NType
<1>0. Typed /\ CallOK(c) /\ ControlOK(c)
  BY DEF ExporterInv, CallOK
<1>b. /\ pc[c] \in {"sent", "unsent"} /\ result[c] = "none" /\ at[c] \in 1 .. N
      /\ attempt[c] \in Nat /\ attempt[c] < MaxAttempts /\ MaxAttempts \in Nat
      /\ errs[c] \in SUBSET Backends /\ order[at[c]] \in Backends
  <2>1. pc[c] \in {"sent", "unsent"}
    BY DEF AnswerError
  <2>2. result[c] = "none" /\ attempt[c] < MaxAttempts /\ at[c] <= N
    BY <1>0, <2>1 DEF ControlOK
  <2>3. /\ at[c] \in 1 .. N + 1 /\ attempt[c] \in 0 .. MaxAttempts
        /\ errs[c] \in SUBSET Backends
    BY <1>0 DEF Typed
  <2>4. at[c] \in 1 .. N
    BY <2>2, <2>3
  <2> QED
    BY <1>0, <2>1, <2>2, <2>3, <2>4, Numbers, ExporterAssumption
<1>c. /\ Counted(c)
      /\ asked' = asked
      /\ \E n \in {0, 1} : \A i \in 1 .. N :
            /\ taken'[c][order[i]] = taken[c][order[i]] + (IF i = at[c] THEN n ELSE 0)
            /\ lost'[c][order[i]] = lost[c][order[i]] + (IF i = at[c] THEN n ELSE 0)
  <2>0. /\ taken \in [Calls -> [Backends -> Nat]]
        /\ lost \in [Calls -> [Backends -> Nat]]
        /\ asked' = asked /\ asked \in [Calls -> [Backends -> Nat]]
    BY <1>0 DEF Typed, AnswerError
  <2>1. CASE UNCHANGED <<taken, lost>>
    <3>1. \A i \in 1 .. N : /\ taken'[c][order[i]] = taken[c][order[i]] + (IF i = at[c] THEN 0 ELSE 0)
                           /\ lost'[c][order[i]] = lost[c][order[i]] + (IF i = at[c] THEN 0 ELSE 0)
      BY <1>0, <2>1, Numbers
    <3> QED
      BY <2>0, <2>1, <3>1 DEF Counted
  <2>2. CASE /\ taken' = [taken EXCEPT ![c][order[at[c]]] = @ + 1]
             /\ lost' = [lost EXCEPT ![c][order[at[c]]] = @ + 1]
    <3>1. /\ taken' \in [Calls -> [Backends -> Nat]]
          /\ \A i \in 1 .. N : taken'[c][order[i]] =
                taken[c][order[i]] + (IF i = at[c] THEN 1 ELSE 0)
          /\ \A d \in Calls \ {c} : taken'[d] = taken[d]
      <4>1. taken \in [Calls -> [Backends -> Nat]] /\ at[c] \in 1 .. N
        BY <1>b, <2>0
      <4>2. taken' = [taken EXCEPT ![c][order[at[c]]] = @ + 1]
        BY <2>2
      <4> QED
        BY <1>0, <4>1, <4>2, Bump
    <3>2. /\ lost' \in [Calls -> [Backends -> Nat]]
          /\ \A i \in 1 .. N : lost'[c][order[i]] =
                lost[c][order[i]] + (IF i = at[c] THEN 1 ELSE 0)
          /\ \A d \in Calls \ {c} : lost'[d] = lost[d]
      <4>1. lost \in [Calls -> [Backends -> Nat]] /\ at[c] \in 1 .. N
        BY <1>b, <2>0
      <4>2. lost' = [lost EXCEPT ![c][order[at[c]]] = @ + 1]
        BY <2>2
      <4> QED
        BY <1>0, <4>1, <4>2, Bump
    <3> QED
      BY <2>0, <3>1, <3>2 DEF Counted
  <2> QED
    BY <2>1, <2>2 DEF AnswerError
<1>1. CASE wiring # "fanout_retry" /\ at[c] < N
  <2>1. Moved(c, "send", attempt[c], at[c] + 1, errs[c] \cup {order[at[c]]}, "none")
    BY <1>0, <1>b, <1>1, Still DEF Moved, chain, AnswerError, Collected, Goto, Return
  <2>2. Landed(c, "send", attempt[c], at[c] + 1, errs[c] \cup {order[at[c]]}, "none")
    <3>1. /\ "send" \in Labels /\ attempt[c] \in 0 .. MaxAttempts /\ at[c] + 1 \in 1 .. N + 1
          /\ errs[c] \cup {order[at[c]]} \in SUBSET Backends /\ "none" \in Results
      BY <1>b, <1>1 DEF Labels, Results
    <3> QED
      BY <1>0, <1>c, <2>1, <3>1, Landing
  <2>3. ControlOK(c)'
    BY <1>0, <1>b, <1>1, <2>2 DEF ControlOK, Landed
  <2>4. ASSUME NEW i \in 1 .. N
        PROVE  PassOK(c, i)'
    <3>1. PassOK(c, i)
      BY <1>0, <1>1 DEF CallOK
    <3>2. PICK n \in {0, 1} : \A j \in 1 .. N :
            /\ taken'[c][order[j]] = taken[c][order[j]] + (IF j = at[c] THEN n ELSE 0)
            /\ lost'[c][order[j]] = lost[c][order[j]] + (IF j = at[c] THEN n ELSE 0)
      BY <1>c
    <3> QED
      BY <1>0, <1>b, <1>c, <1>1, <2>2, <3>1, Numbers, <3>2 DEF PassOK, Landed
  <2> QED
    BY <1>1, <2>2, <2>3, <2>4, LandedKept
<1>2. CASE wiring # "fanout_retry" /\ at[c] = N
  <2>1. Moved(c, "joined", attempt[c], at[c] + 1, errs[c] \cup {order[at[c]]}, "none")
    BY <1>0, <1>b, <1>2, Still DEF Moved, chain, AnswerError, Collected, Goto, Return
  <2>2. Landed(c, "joined", attempt[c], at[c] + 1, errs[c] \cup {order[at[c]]}, "none")
    <3>1. /\ "joined" \in Labels /\ attempt[c] \in 0 .. MaxAttempts /\ at[c] + 1 \in 1 .. N + 1
          /\ errs[c] \cup {order[at[c]]} \in SUBSET Backends /\ "none" \in Results
      BY <1>b, <1>2 DEF Labels, Results
    <3> QED
      BY <1>0, <1>c, <2>1, <3>1, Landing
  <2>3. ControlOK(c)'
    BY <1>0, <1>b, <1>2, <2>2 DEF ControlOK, Landed
  <2>4. ASSUME NEW i \in 1 .. N
        PROVE  PassOK(c, i)'
    <3>1. PassOK(c, i)
      BY <1>0, <1>2 DEF CallOK
    <3>2. PICK n \in {0, 1} : \A j \in 1 .. N :
            /\ taken'[c][order[j]] = taken[c][order[j]] + (IF j = at[c] THEN n ELSE 0)
            /\ lost'[c][order[j]] = lost[c][order[j]] + (IF j = at[c] THEN n ELSE 0)
      BY <1>c
    <3> QED
      BY <1>0, <1>b, <1>c, <1>2, <2>2, <3>1, Numbers, <3>2 DEF PassOK, Landed
  <2> QED
    BY <1>2, <2>2, <2>3, <2>4, LandedKept
<1>3. CASE wiring = "fanout_retry"
  <2>1. Moved(c, "backoff", attempt[c], at[c], errs[c], "none")
    BY <1>0, <1>b, <1>3, Still DEF Moved, chain, AnswerError, Collected, Goto, Return
  <2>2. Landed(c, "backoff", attempt[c], at[c], errs[c], "none")
    <3>1. /\ "backoff" \in Labels /\ attempt[c] \in 0 .. MaxAttempts /\ at[c] \in 1 .. N + 1
          /\ errs[c] \in SUBSET Backends /\ "none" \in Results
      BY <1>b, <1>3 DEF Labels, Results
    <3> QED
      BY <1>0, <1>c, <2>1, <3>1, Landing
  <2>3. ControlOK(c)'
    BY <1>0, <1>b, <1>3, <2>2 DEF ControlOK, Landed
  <2>4. ASSUME NEW i \in 1 .. N
        PROVE  TurnOK(c, i)'
    <3>1. TurnOK(c, i)
      BY <1>0, <1>3 DEF CallOK
    <3>2. PICK n \in {0, 1} : \A j \in 1 .. N :
            /\ taken'[c][order[j]] = taken[c][order[j]] + (IF j = at[c] THEN n ELSE 0)
            /\ lost'[c][order[j]] = lost[c][order[j]] + (IF j = at[c] THEN n ELSE 0)
      BY <1>c
    <3> QED
      BY <1>0, <1>b, <1>c, <1>3, <2>2, <3>1, Numbers, <3>2 DEF TurnOK, Landed
  <2> QED
    BY <1>3, <2>2, <2>3, <2>4, LandedKept
<1> QED
  BY <1>b, <1>1, <1>2, <1>3

LEMMA PassDoneKeeps ==
  ASSUME ExporterInv, NEW c \in Calls, PassDone(c)
  PROVE  Kept(c)
<1> USE NType
<1>0. Typed /\ CallOK(c) /\ ControlOK(c)
  BY DEF ExporterInv, CallOK
<1>a. /\ UNCHANGED <<wiring, order, attempt, at, errs, asked, taken, lost>>
      /\ pc[c] = "joined"
      /\ \/ /\ errs[c] = {}
            /\ pc' = [pc EXCEPT ![c] = "done"]
            /\ result' = [result EXCEPT ![c] = "ok"]
         \/ /\ pc' = [pc EXCEPT ![c] = "backoff"]
            /\ UNCHANGED result
  BY DEF PassDone, Joined, Return, Goto, chain, history
<1>b. /\ at[c] = N + 1 /\ attempt[c] \in Nat /\ attempt[c] < MaxAttempts
      /\ MaxAttempts \in Nat /\ result[c] = "none" /\ wiring # "fanout_retry"
  BY <1>0, <1>a, ExporterAssumption DEF Typed, Labels, Results, ControlOK
<1>d. \A i \in 1 .. N : /\ asked[c][order[i]] \in Nat /\ taken[c][order[i]] \in Nat
                       /\ lost[c][order[i]] \in Nat /\ order[i] \in Backends
  BY <1>0 DEF Typed, Labels, Results
<1>1. Typed'
  BY <1>0, <1>a DEF Typed, Labels, Results
<1>2. ControlOK(c)'
  BY <1>0, <1>a, <1>b DEF ControlOK, Typed
<1>3. ASSUME wiring # "fanout_retry", NEW i \in 1 .. N
      PROVE  PassOK(c, i)'
  <2>1. PassOK(c, i) /\ i < at[c]
    BY <1>0, <1>b, <1>3 DEF CallOK
  <2>2. \/ pc'[c] = "done" /\ result'[c] = "ok" /\ errs[c] = {}
        \/ pc'[c] = "backoff" /\ result'[c] = "none"
    BY <1>0, <1>a, <1>b DEF Typed, Labels, Results
  <2> QED
    BY <1>a, <1>b, <1>d, <2>1, <2>2 DEF PassOK
<1>4. ASSUME wiring = "fanout_retry", NEW i \in 1 .. N
      PROVE  TurnOK(c, i)'
  BY <1>b, <1>4
<1>5. UNCHANGED chain /\ \A d \in Calls \ {c} : Same(d)
  BY <1>0, <1>a DEF Typed, Labels, Results, Same, chain
<1> QED
  BY <1>1, <1>2, <1>3, <1>4, <1>5 DEF Kept, CallOK, chain
-----------------------------------------------------------------------------
(* The inductive invariant and the properties.                             *)

\* What a step that leaves the calls alone does.
LEMMA IdleKeeps ==
  ASSUME ExporterInv, UNCHANGED <<chain, locals, history>>
  PROVE  ExporterInv'
<1>1. UNCHANGED chain /\ Typed' /\ \A d \in Calls : Same(d)
  BY DEF ExporterInv, Typed, Same, chain, locals, history
<1> QED
  BY <1>1, OthersKeep DEF ExporterInv

LEMMA InitInv == Init => ExporterInv
<1> SUFFICES ASSUME Init PROVE ExporterInv
  OBVIOUS
<1> USE NType, ExporterAssumption
<1>1. Typed
  BY DEF Init, Typed, Zero, Labels, Results
<1>2. ASSUME NEW c \in Calls
      PROVE  ControlOK(c)
  BY DEF Init, ControlOK
<1>3. ASSUME NEW c \in Calls, NEW i \in 1 .. N
      PROVE  /\ pc[c] = "new" /\ result[c] = "none" /\ attempt[c] = 0 /\ at[c] = 1
             /\ errs[c] = {} /\ order[i] \in Backends
             /\ asked[c][order[i]] = 0 /\ taken[c][order[i]] = 0 /\ lost[c][order[i]] = 0
  BY DEF Init, Zero
<1>4. ASSUME NEW c \in Calls, NEW i \in 1 .. N
      PROVE  PassOK(c, i) /\ TurnOK(c, i)
  BY <1>3 DEF PassOK, TurnOK
<1> QED
  BY <1>1, <1>2, <1>4 DEF ExporterInv, CallOK

LEMMA RunKeeps ==
  ASSUME ExporterInv, NEW c \in Calls, Begin(c) \/ Run(c)
  PROVE  Kept(c)
  BY BeginKeeps, AttemptKeeps, CancelledBetweenKeeps, ExhaustedKeeps, SleepKeeps,
     CancelledInBackoffKeeps, SendKeeps, AnswerOkKeeps, AnswerErrorKeeps, PassDoneKeeps
     DEF Run

LEMMA NextInv ==
  ASSUME ExporterInv, [Next]_vars
  PROVE  ExporterInv'
<1>1. ASSUME NEW c \in Calls, Begin(c) \/ Run(c)
      PROVE  ExporterInv'
  BY <1>1, RunKeeps, KeptInv
<1>2. ASSUME NEW c \in Calls, Cancel(c)
      PROVE  ExporterInv'
  BY <1>2, IdleKeeps DEF Cancel
<1>3. CASE Shutdown \/ Close
  BY <1>3, IdleKeeps DEF Shutdown, Close
<1>4. CASE Rest \/ UNCHANGED vars
  BY <1>4, IdleKeeps DEF Rest, vars
<1> QED
  BY <1>1, <1>2, <1>3, <1>4 DEF Next

LEMMA InvAlways == Spec => []ExporterInv
  BY InitInv, NextInv, PTL DEF Spec

LEMMA PersistenceNow ==
  ASSUME ExporterInv
  PROVE  Persistence
<1> SUFFICES ASSUME NEW c \in Calls, NEW b \in Backends
             PROVE  /\ asked[c][b] <= MaxAttempts
                    /\ result[c] = "error" =>
                          /\ MaxAttempts > 0 => asked[c][b] > 0
                          /\ (wiring # "fanout_retry" \/ b \in errs[c])
                                => asked[c][b] = MaxAttempts
  BY DEF Persistence
<1>1. PICK i \in 1 .. N : order[i] = b
  BY DEF ExporterInv, Typed
<1>2. /\ Typed /\ ControlOK(c) /\ CallOK(c)
      /\ asked[c][b] \in Nat /\ attempt[c] \in 0 .. MaxAttempts /\ at[c] \in 1 .. N + 1
      /\ pc[c] \in Labels /\ MaxAttempts \in Nat
  BY ExporterAssumption DEF ExporterInv, CallOK, Typed
<1>3. CASE wiring # "fanout_retry"
  <2>1. PassOK(c, i)
    BY <1>2, <1>3 DEF CallOK
  <2> QED
    BY <1>1, <1>2, <1>3, <2>1 DEF PassOK, ControlOK, Labels
<1>4. CASE wiring = "fanout_retry"
  <2>1. TurnOK(c, i)
    BY <1>2, <1>4 DEF CallOK
  <2>2. result[c] = "error" => i < at[c]
    BY <1>2, <1>4, NType DEF ControlOK
  <2> QED
    BY <1>1, <1>2, <1>4, <2>1, <2>2, NType DEF TurnOK, ControlOK, Labels
<1> QED
  BY <1>3, <1>4

LEMMA DuplicatesNow ==
  ASSUME ExporterInv
  PROVE  DuplicatesExplained
<1> SUFFICES ASSUME NEW c \in Calls, NEW b \in Backends
             PROVE  taken[c][b] <= 1 + (IF wiring = "fanout_retry" THEN lost[c][b]
                                                                  ELSE attempt[c])
  BY DEF DuplicatesExplained
<1>1. PICK i \in 1 .. N : order[i] = b
  BY DEF ExporterInv, Typed
<1>2. /\ Typed /\ ControlOK(c) /\ CallOK(c)
      /\ asked[c][b] \in Nat /\ taken[c][b] \in Nat /\ lost[c][b] \in Nat
      /\ attempt[c] \in 0 .. MaxAttempts /\ at[c] \in 1 .. N + 1
      /\ pc[c] \in Labels /\ MaxAttempts \in Nat
  BY ExporterAssumption DEF ExporterInv, CallOK, Typed
<1>3. CASE wiring # "fanout_retry"
  <2>1. PassOK(c, i)
    BY <1>2, <1>3 DEF CallOK
  <2> QED
    BY <1>1, <1>2, <1>3, <2>1 DEF PassOK, Labels
<1>4. CASE wiring = "fanout_retry"
  <2>1. TurnOK(c, i)
    BY <1>2, <1>4 DEF CallOK
  <2> QED
    BY <1>1, <1>2, <1>4, <2>1, NType DEF TurnOK
<1> QED
  BY <1>3, <1>4

\* No call gives up early and none goes on for ever: every backend is asked at
\* most MaxAttempts times, and as often as that before a call blames it
\* (retry.go's loops, fanout.go's collection of errors).
THEOREM PersistenceHolds == Spec => []Persistence
  BY InvAlways, PersistenceNow, PTL

\* A backend takes a payload twice only after an answer was lost or a pass has
\* failed elsewhere, in every wiring of retry and fan-out.
THEOREM DuplicatesHold == Spec => []DuplicatesExplained
  BY InvAlways, DuplicatesNow, PTL
-----------------------------------------------------------------------------
(* The calls implement AtLeastOnce.                                        *)

OkReached == \A c \in Calls : result[c] = "ok" => got[c] = Backends

LEMMA OkReachesAll ==
  ASSUME ExporterInv
  PROVE  OkReached
<1> SUFFICES ASSUME NEW c \in Calls, result[c] = "ok", NEW b \in Backends
             PROVE  taken[c][b] > 0
  BY DEF got, OkReached
<1>1. PICK i \in 1 .. N : order[i] = b
  BY DEF ExporterInv, Typed
<1>2. Typed /\ ControlOK(c) /\ CallOK(c) /\ at[c] \in 1 .. N + 1
  BY DEF ExporterInv, CallOK, Typed
<1>3. CASE wiring # "fanout_retry"
  BY <1>1, <1>2, <1>3 DEF CallOK, PassOK
<1>4. CASE wiring = "fanout_retry"
  <2>1. TurnOK(c, i)
    BY <1>2, <1>4 DEF CallOK
  <2>2. i < at[c]
    BY <1>2, <1>4, NType DEF ControlOK
  <2> QED
    BY <1>1, <2>1, <2>2 DEF TurnOK
<1> QED
  BY <1>3, <1>4

\* Before it has returned, a call only adds to what the backends have taken.
LEMMA RunDelivers ==
  ASSUME ExporterInv, NEW c \in Calls, Begin(c) \/ Run(c)
  PROVE  /\ result[c] = "none"
         /\ \A b \in Backends : taken[c][b] > 0 => taken'[c][b] > 0
<1>0. Typed /\ ControlOK(c)
  BY DEF ExporterInv, CallOK
<1>1. pc[c] # "done"
  BY DEF Begin, Run, Attempt, CancelledBetween, Exhausted, Sleep, CancelledInBackoff,
         Send, AnswerOk, AnswerError, PassDone
<1>2. \/ taken' = taken
      \/ pc[c] = "sent" /\ taken' = [taken EXCEPT ![c][order[at[c]]] = @ + 1]
  BY DEF Begin, Run, Attempt, CancelledBetween, Exhausted, Sleep, CancelledInBackoff,
         Send, AnswerOk, AnswerError, PassDone, history
<1>3. CASE pc[c] = "sent" /\ taken' = [taken EXCEPT ![c][order[at[c]]] = @ + 1]
  <2>1. at[c] \in 1 .. N
    BY <1>0, <1>3, NType DEF ControlOK, Typed
  <2>2. order[at[c]] \in Backends /\ taken \in [Calls -> [Backends -> Nat]]
    BY <1>0, <2>1 DEF Typed
  <2>3. taken'[c] = [taken[c] EXCEPT ![order[at[c]]] = @ + 1]
    BY <1>3, <2>2
  <2>4. \A b \in Backends : taken[c][b] > 0 => taken'[c][b] > 0
    BY <2>2, <2>3
  <2> QED
    BY <1>0, <1>1, <2>4 DEF ControlOK
<1> QED
  BY <1>0, <1>1, <1>2, <1>3 DEF ControlOK

LEMMA OnceStep ==
  ASSUME ExporterInv, OkReached', [Next]_vars
  PROVE  [Once!Next]_<<got, result>>
<1>1. ASSUME NEW c \in Calls, Begin(c) \/ Run(c)
      PROVE  Once!Step(c)
  <2>1. /\ result[c] = "none"
        /\ \A b \in Backends : taken[c][b] > 0 => taken'[c][b] > 0
    BY <1>1, RunDelivers
  <2>2. Typed' /\ \A d \in Calls \ {c} : result'[d] = result[d] /\ taken'[d] = taken[d]
    BY <1>1, RunKeeps DEF Kept, Same
  <2>3. result' = [result EXCEPT ![c] = result'[c]] /\ result'[c] \in Results
    BY <2>2 DEF Typed, ExporterInv
  <2>4. got'[c] = got[c] \cup got'[c] /\ got'[c] \in SUBSET Backends
    BY <2>1 DEF got
  <2>5. \A d \in Calls \ {c} : got'[d] = got[d]
    BY <2>2 DEF got
  <2>6. got' = [got EXCEPT ![c] = got[c] \cup got'[c]]
    BY <2>4, <2>5 DEF got
  <2>7. result'[c] = "ok" => got'[c] = Backends
    BY DEF OkReached
  <2> QED
    BY <2>1, <2>3, <2>4, <2>6, <2>7 DEF Once!Step, Results
<1>2. ASSUME UNCHANGED <<result, taken>>
      PROVE  UNCHANGED <<got, result>>
  BY <1>2 DEF got
<1>3. ASSUME NEW c \in Calls, Cancel(c)
      PROVE  UNCHANGED <<result, taken>>
  BY <1>3 DEF Cancel, locals, history
<1>4. CASE Shutdown \/ Close \/ Rest \/ UNCHANGED vars
  BY <1>2, <1>4 DEF Shutdown, Close, Rest, vars, locals, history
<1> QED
  BY <1>1, <1>2, <1>3, <1>4 DEF Next, Once!Next

\* The exporter chain implements AtLeastOnce in each of its wirings: a call
\* returns nil only when every backend has taken the payload, and nothing is
\* sent for it afterwards.
THEOREM AtLeastOnceHolds == Spec => AtLeastOnceSpec
<1>1. Init => Once!Init
  <2> SUFFICES ASSUME Init PROVE Once!Init
    OBVIOUS
  <2>1. got = [c \in Calls |-> {}]
    BY DEF Init, Zero, got
  <2> QED
    BY <2>1 DEF Init, Once!Init
<1>2. ExporterInv /\ OkReached' /\ [Next]_vars => [Once!Next]_<<got, result>>
  BY OnceStep
<1> QED
  BY <1>1, <1>2, InvAlways, OkReachesAll, PTL DEF Spec, AtLeastOnceSpec, Once!Spec
=============================================================================
