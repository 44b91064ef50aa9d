---------------------------- MODULE GatewayProofs ---------------------------
(***************************************************************************)
(* Machine-checked proofs about Gateway and Benchmark, for any number of   *)
(* backends, models, requests and probes, and for every random choice of   *)
(* the shuffle.                                                            *)
(***************************************************************************)
EXTENDS Benchmark, Induction, FiniteSetTheorems

(***************************************************************************)
(* The candidates of a request.                                            *)
(***************************************************************************)
LEMMA BackendsType ==
    /\ Len(Backends) \in Nat
    /\ \A i \in 1 .. Len(Backends) : Backends[i] \in BackendIds
    /\ BackendIds = {Backends[i] : i \in 1 .. Len(Backends)}
<1>1. Backends \in Seq(BackendIds)
  BY GatewayAssumption
<1> QED
  BY <1>1 DEF BackendIds

Candidate(b, m) == b \in healthy /\ m \in Serves[b]

\* The loop of GetHealthyBackends collects the healthy backends of a model and
\* no others.
LEMMA MatchedType ==
  ASSUME NEW m
  PROVE  Matched(m) \in Seq({b \in BackendIds : Candidate(b, m)})
<1> DEFINE n == Len(Backends)
           V == Seq({b \in BackendIds : Candidate(b, m)})
           G == [i \in 1 .. n |-> [v \in V |-> Collect(v, Backends[i], m)]]
           Value(f) == [i \in 0 .. n |-> IF i = 0 THEN << >>
                                         ELSE Collect(f[i - 1], Backends[i], m)]
           upto[i \in 0 .. n] == IF i = 0 THEN << >>
                                 ELSE Collect(upto[i - 1], Backends[i], m)
<1>0. n \in Nat /\ << >> \in V
  BY BackendsType
<1>1. ASSUME NEW i \in 1 .. n, NEW v \in V
      PROVE  Collect(v, Backends[i], m) \in V
  BY BackendsType DEF Collect, Candidate
<1>2. Turns(G, 1 .. n, V)
  <2> HIDE DEF V
  <2> QED
    BY <1>1 DEF Turns
<1>3. PICK f : Loops(f, n, V, << >>, G)
  <2> HIDE DEF V, G
  <2> QED
    BY <1>0, <1>2, LoopExists
<1>4. f = Value(f)
  <2>1. f \in [0 .. n -> V] /\ f[0] = << >> /\ \A i \in 1 .. n : f[i] = G[i][f[i - 1]]
    BY <1>3 DEF Loops
  <2>2. ASSUME NEW i \in 1 .. n
        PROVE  f[i] = Collect(f[i - 1], Backends[i], m)
    <3>1. f[i - 1] \in V
      <4>1. i - 1 \in 0 .. n
        BY <1>0
      <4> HIDE DEF V
      <4> QED
        BY <2>1, <4>1
    <3> HIDE DEF V
    <3> QED
      BY <2>1, <3>1
  <2> HIDE DEF V, G
  <2> QED
    BY <1>0, <2>1, <2>2
<1>5. \E g : g = Value(g)
  <2> HIDE DEF Value
  <2> QED
    BY <1>4
<1>6. upto = Value(upto)
  BY <1>5
<1> HIDE DEF upto
<1>7. \A i \in 0 .. n : upto[i] \in V
  <2>1. upto[0] \in V
    <3> HIDE DEF V
    <3> QED
      BY <1>0, <1>6
  <2>2. ASSUME NEW i \in 1 .. n, upto[i - 1] \in V
        PROVE  upto[i] \in V
    <3> HIDE DEF V
    <3> QED
      BY <1>0, <1>1, <1>6, <2>2
  <2> HIDE DEF V
  <2> QED
    BY <1>0, <2>1, <2>2, LoopKeeps
<1>8. Matched(m) = upto[n]
  BY DEF Matched, upto
<1> QED
  BY <1>0, <1>7, <1>8

\* The shuffle loses no candidate and invents none.
LEMMA ShuffledType ==
  ASSUME NEW X, NEW s \in Seq(X), NEW pick \in Picks(Len(s))
  PROVE  /\ ShuffledBy(s, pick) \in Seq(X)
         /\ Range(ShuffledBy(s, pick)) = Range(s)
         /\ Len(ShuffledBy(s, pick)) = Len(s)
<1> DEFINE n == Len(s)
           V == {t \in [1 .. n -> X] : {t[i] : i \in 1 .. n} = {s[i] : i \in 1 .. n}}
           G == [i \in 1 .. n |-> [v \in V |-> Turn(v, i, pick[i])]]
           Value(f) == [i \in 0 .. n |-> IF i = 0 THEN s ELSE Turn(f[i - 1], i, pick[i])]
           after[i \in 0 .. n] == IF i = 0 THEN s ELSE Turn(after[i - 1], i, pick[i])
<1>0. n \in Nat /\ s \in V
  OBVIOUS
<1>1. ASSUME NEW i \in 1 .. n, NEW v \in V
      PROVE  Turn(v, i, pick[i]) \in V
  <2>1. pick[i] \in 1 .. n
    BY DEF Picks
  <2>2. Swapped(v, i, pick[i]) \in V
    <3> DEFINE j == pick[i]
               w == Swapped(v, i, j)
    <3>1. w \in [1 .. n -> X]
      BY <2>1 DEF Swapped
    <3>2. w[i] = v[j] /\ w[j] = v[i] /\ \A k \in 1 .. n : k # i /\ k # j => w[k] = v[k]
      BY <2>1 DEF Swapped
    <3>3. {w[k] : k \in 1 .. n} = {v[k] : k \in 1 .. n}
      <4> HIDE DEF w, j
      <4>1. j \in 1 .. n
        BY <2>1 DEF j
      <4>2. ASSUME NEW k \in 1 .. n
            PROVE  /\ \E l \in 1 .. n : v[k] = w[l]
                   /\ \E l \in 1 .. n : w[k] = v[l]
        BY <3>2, <4>1
      <4>3. {w[k] : k \in 1 .. n} \subseteq {v[k] : k \in 1 .. n}
        BY <4>2
      <4>4. ASSUME NEW x \in {v[k] : k \in 1 .. n}
            PROVE  x \in {w[k] : k \in 1 .. n}
        <5>1. PICK k \in 1 .. n : x = v[k]
          OBVIOUS
        <5>2. PICK l \in 1 .. n : v[k] = w[l]
          BY <4>2
        <5> QED
          BY <5>1, <5>2
      <4> QED
        BY <4>3, <4>4
    <3> QED
      BY <3>1, <3>3
  <2> HIDE DEF V
  <2> QED
    BY <2>2 DEF Turn
<1>2. Turns(G, 1 .. n, V)
  <2> HIDE DEF V
  <2> QED
    BY <1>1 DEF Turns
<1>3. PICK f : Loops(f, n, V, s, G)
  <2> HIDE DEF V, G
  <2> QED
    BY <1>0, <1>2, LoopExists
<1>4. f = Value(f)
  <2>1. f \in [0 .. n -> V] /\ f[0] = s /\ \A i \in 1 .. n : f[i] = G[i][f[i - 1]]
    BY <1>3 DEF Loops
  <2>2. ASSUME NEW i \in 1 .. n
        PROVE  f[i] = Turn(f[i - 1], i, pick[i])
    <3>1. f[i - 1] \in V
      <4>1. i - 1 \in 0 .. n
        BY <1>0
      <4> HIDE DEF V
      <4> QED
        BY <2>1, <4>1
    <3> HIDE DEF V
    <3> QED
      BY <2>1, <3>1
  <2> HIDE DEF V, G
  <2> QED
    BY <1>0, <2>1, <2>2
<1>5. \E g : g = Value(g)
  <2> HIDE DEF Value
  <2> QED
    BY <1>4
<1>6. after = Value(after)
  BY <1>5
<1> HIDE DEF after
<1>7. \A i \in 0 .. n : after[i] \in V
  <2>1. after[0] \in V
    <3>1. after[0] = s
      BY <1>0, <1>6
    <3> HIDE DEF V
    <3> QED
      BY <1>0, <3>1
  <2>2. ASSUME NEW i \in 1 .. n, after[i - 1] \in V
        PROVE  after[i] \in V
    <3>1. i \in 0 .. n /\ i # 0
      BY <1>0
    <3>2. after[i] = Turn(after[i - 1], i, pick[i])
      BY <1>6, <3>1
    <3> HIDE DEF V
    <3> QED
      BY <1>1, <2>2, <3>2
  <2> HIDE DEF V
  <2> QED
    BY <1>0, <2>1, <2>2, LoopKeeps
<1>8. ShuffledBy(s, pick) = after[n]
  BY DEF ShuffledBy, after
<1>9. ShuffledBy(s, pick) \in V
  <2>1. n \in 0 .. n
    BY <1>0
  <2> HIDE DEF V, n
  <2> QED
    BY <2>1, <1>7, <1>8
<1> DEFINE t == ShuffledBy(s, pick)
<1> HIDE DEF t, after
<1>10. t \in [1 .. n -> X] /\ {t[i] : i \in 1 .. n} = {s[i] : i \in 1 .. n}
  BY <1>9 DEF t
<1>11. t \in Seq(X) /\ DOMAIN t = 1 .. n /\ Len(t) = n
  BY <1>0, <1>10
<1>12. DOMAIN s = 1 .. n
  OBVIOUS
<1>13. Range(t) = Range(s)
  BY <1>10, <1>11, <1>12 DEF Range
<1> QED
  BY <1>11, <1>13 DEF t
-----------------------------------------------------------------------------
(* The inductive invariant.                                                *)

Stages == {"new", "probing", "serving", "draining", "exited"}
Handling == {"lookup", "create", "allow", "find", "try"}

\* The type invariant without what it says of the limits.
Typed ==
    /\ stage \in Stages
    /\ now \in 0 .. MaxTime
    /\ alive \subseteq BackendIds
    /\ flips \in 0 .. MaxFlips
    /\ healthy \subseteq BackendIds
    /\ probe \in [BackendIds -> {"idle", "ask", "yes", "no"}]
    /\ pc \in [Requests -> {"new", "done"} \cup Handling]
    /\ left \in [Requests -> Seq(BackendIds)]
    /\ answer \in [Requests -> Answers \cup {"none"}]
    /\ age \in [BackendIds -> 0 .. 2]
    /\ proven \subseteq BackendIds
    /\ steady \in [Requests -> SUBSET BackendIds]

\* A round that began after the last change of a backend has seen it as it is.
HealthOK(b) ==
    /\ age[b] # 0 => /\ probe[b] = "yes" => b \in alive
                     /\ probe[b] = "no" => b \notin alive
                     /\ probe[b] = "idle" => (b \in healthy <=> b \in alive)
    /\ age[b] = 2 => (b \in healthy <=> b \in alive)

\* Once the first round is over, Healthy is an answer to some probe.
ProvenOK ==
    /\ stage = "new" => \A b \in BackendIds : probe[b] = "idle"
    /\ stage = "probing" => \A b \in healthy : probe[b] = "idle" => b \in proven
    /\ stage \notin {"new", "probing"} => healthy \subseteq proven

\* A handler has answered at its end; until then every candidate that has
\* been alive since it found them is still to be tried.
RequestOK(r) ==
    /\ pc[r] # "new" => stage \notin {"new", "probing"}
    /\ pc[r] \in Handling => ModelOf[r] \in Models
    /\ pc[r] # "done" => answer[r] = "none"
    /\ Range(left[r]) \subseteq proven
    /\ pc[r] = "try" => /\ left[r] # << >>
                        /\ steady[r] \subseteq Range(left[r])
                        /\ steady[r] \subseteq alive
    /\ answer[r] \in {"5xx", "bad_gateway"} => steady[r] = {}

RouteInv ==
    /\ Typed
    /\ ProvenOK
    /\ \A b \in BackendIds : HealthOK(b)
    /\ \A r \in Requests : RequestOK(r)

LimitTyped ==
    /\ buckets \in Seq([tokens : Nat, lastRefill : 0 .. MaxTime])
    /\ limiters \in [Models -> 0 .. Len(buckets)]
    /\ bucket \in [Requests -> 0 .. Len(buckets)]
    /\ allowed \in [Models -> Nat]

\* What has passed, what is left, and what will be refilled are together no
\* more than was there and has been added; no bucket, nothing has passed.
BucketOK(m) ==
    IF limiters[m] = 0 THEN allowed[m] = 0
    ELSE LET b == buckets[limiters[m]] IN
         /\ b.tokens <= Burst(m)
         /\ b.lastRefill <= now
         /\ allowed[m] * Grain + b.tokens + (now - b.lastRefill) * Rate(m)
              <= Rate(m) * Grain + Rate(m) * now

\* A bucket belongs to one model, and every request that has one has its
\* model's.
LimitInv ==
    /\ LimitTyped
    /\ \A m \in Models : BucketOK(m)
    /\ \A m, k \in Models : limiters[m] # 0 /\ limiters[m] = limiters[k] => m = k
    /\ \A r \in Requests :
          /\ pc[r] = "allow" => bucket[r] # 0
          /\ bucket[r] # 0 => /\ ModelOf[r] \in Models
                              /\ bucket[r] = limiters[ModelOf[r]]

GatewayInv == RouteInv /\ LimitInv
-----------------------------------------------------------------------------
(* Requests and backends.                                                  *)

LEMMA RouteInit == Init => RouteInv
<1> SUFFICES ASSUME Init PROVE RouteInv
  OBVIOUS
<1>1. Typed
  BY GatewayAssumption DEF Init, Typed, Stages, Handling, Answers
<1>2. ProvenOK /\ \A b \in BackendIds : HealthOK(b)
  BY DEF Init, ProvenOK, HealthOK
<1>3. ASSUME NEW r \in Requests PROVE RequestOK(r)
  <2>1. Range(left[r]) = {}
    BY DEF Init, Range
  <2> QED
    BY <2>1 DEF Init, RequestOK, Handling
<1> QED
  BY <1>1, <1>2, <1>3 DEF RouteInv

\* A step of one handler: the new step p, answer a, candidates l and steady
\* ones d of its request keep RequestOK, and nothing else changes.
LEMMA RequestStep ==
  ASSUME RouteInv, NEW r \in Requests, NEW p, NEW a, NEW l, NEW d,
         UNCHANGED <<stage, now, backend, checker>>,
         pc' = [pc EXCEPT ![r] = p],
         answer' = [answer EXCEPT ![r] = a],
         left' = [left EXCEPT ![r] = l],
         steady' = [steady EXCEPT ![r] = d],
         stage \notin {"new", "probing"},
         p \in Handling \cup {"done"},
         p \in Handling => ModelOf[r] \in Models,
         a \in Answers \cup {"none"},
         p # "done" => a = "none",
         l \in Seq(BackendIds),
         Range(l) \subseteq proven,
         d \subseteq BackendIds,
         p = "try" => l # << >> /\ d \subseteq Range(l) /\ d \subseteq alive,
         a \in {"5xx", "bad_gateway"} => d = {}
  PROVE  RouteInv'
<1> USE DEF backend, checker
<1>0. Typed /\ ProvenOK /\ (\A b \in BackendIds : HealthOK(b)) /\ \A q \in Requests : RequestOK(q)
  BY DEF RouteInv
<1>1. Typed'
  BY <1>0 DEF Typed
<1>2. ProvenOK'
  BY <1>0 DEF ProvenOK
<1>3. ASSUME NEW b \in BackendIds PROVE HealthOK(b)'
  BY <1>0 DEF HealthOK
<1>4. ASSUME NEW q \in Requests PROVE RequestOK(q)'
  <2>1. CASE q = r
    <3>1. pc'[r] = p /\ answer'[r] = a /\ left'[r] = l /\ steady'[r] = d
      BY <1>0 DEF Typed
    <3> QED
      BY <2>1, <3>1 DEF RequestOK
  <2>2. CASE q # r
    <3>1. pc'[q] = pc[q] /\ answer'[q] = answer[q] /\ left'[q] = left[q] /\ steady'[q] = steady[q]
      BY <1>0, <2>2 DEF Typed
    <3>2. RequestOK(q)
      BY <1>0
    <3> QED
      BY <3>1, <3>2 DEF RequestOK
  <2> QED
    BY <2>1, <2>2
<1> QED
  BY <1>1, <1>2, <1>3, <1>4 DEF RouteInv

\* What is known of a request that is being handled.
LEMMA Handled ==
  ASSUME RouteInv, NEW r \in Requests, pc[r] # "new"
  PROVE  /\ stage \notin {"new", "probing"}
         /\ healthy \subseteq proven
         /\ pc[r] \in Handling => ModelOf[r] \in Models
         /\ pc[r] # "done" => answer[r] = "none"
         /\ Range(left[r]) \subseteq proven
         /\ left[r] \in Seq(BackendIds)
         /\ steady[r] \subseteq BackendIds
<1>1. Typed /\ ProvenOK /\ RequestOK(r)
  BY DEF RouteInv
<1> QED
  BY <1>1 DEF Typed, ProvenOK, RequestOK

\* A handler moves on, or answers, without a look at the backends.
LEMMA RequestMoves ==
  ASSUME RouteInv, NEW r \in Requests, NEW p, NEW a,
         UNCHANGED <<stage, now, backend, checker, left, steady>>,
         pc' = [pc EXCEPT ![r] = p],
         answer' = [answer EXCEPT ![r] = a],
         stage \notin {"new", "probing"},
         p \in (Handling \ {"try"}) \cup {"done"},
         p \in Handling => ModelOf[r] \in Models,
         a \in Answers \cup {"none"},
         p # "done" => a = "none",
         a \in {"5xx", "bad_gateway"} => steady[r] = {}
  PROVE  RouteInv'
<1>1. Typed /\ RequestOK(r)
  BY DEF RouteInv
<1>2. /\ left' = [left EXCEPT ![r] = left[r]]
      /\ steady' = [steady EXCEPT ![r] = steady[r]]
      /\ left[r] \in Seq(BackendIds) /\ steady[r] \subseteq BackendIds
  BY <1>1 DEF Typed
<1>3. Range(left[r]) \subseteq proven
  BY <1>1 DEF RequestOK
<1> QED
  BY <1>2, <1>3, RequestStep DEF Handling

LEMMA AcceptRoute ==
  ASSUME RouteInv, NEW r \in Requests, Accept(r)
  PROVE  RouteInv'
<1>1. Typed /\ RequestOK(r)
  BY DEF RouteInv
<1>2. stage \notin {"new", "probing"} /\ answer[r] = "none"
  BY <1>1 DEF Accept, RequestOK
<1>3. CASE ModelOf[r] = NoModel
  <2>1. answer' = [answer EXCEPT ![r] = "bad_request"] /\ pc' = [pc EXCEPT ![r] = "done"]
    BY <1>3 DEF Accept, Reply
  <2> QED
    BY <1>2, <2>1, RequestMoves DEF Accept, Handling, Answers
<1>4. CASE ModelOf[r] # NoModel
  <2>1. ModelOf[r] \in Models
    BY <1>4, GatewayAssumption
  <2>2. pc' = [pc EXCEPT ![r] = "lookup"] /\ answer' = answer
    BY <1>4 DEF Accept
  <2>3. answer' = [answer EXCEPT ![r] = "none"]
    BY <1>1, <1>2, <2>2 DEF Typed
  <2> QED
    BY <1>2, <2>1, <2>2, <2>3, RequestMoves DEF Accept, Handling
<1> QED
  BY <1>3, <1>4

LEMMA LookupRoute ==
  ASSUME RouteInv, NEW r \in Requests, Lookup(r)
  PROVE  RouteInv'
<1>1. pc[r] = "lookup" /\ Typed
  BY DEF Lookup, RouteInv
<1>2. answer[r] = "none" /\ ModelOf[r] \in Models /\ stage \notin {"new", "probing"}
  BY <1>1, Handled DEF Handling
<1>3. PICK p \in {"create", "allow"} : pc' = [pc EXCEPT ![r] = p]
  BY DEF Lookup
<1>4. answer' = [answer EXCEPT ![r] = "none"]
  BY <1>1, <1>2 DEF Lookup, Typed
<1> QED
  BY <1>2, <1>3, <1>4, RequestMoves DEF Lookup, Handling

LEMMA CreateRoute ==
  ASSUME RouteInv, NEW r \in Requests, Create(r)
  PROVE  RouteInv'
<1>1. pc[r] = "create" /\ Typed
  BY DEF Create, RouteInv
<1>2. answer[r] = "none" /\ ModelOf[r] \in Models /\ stage \notin {"new", "probing"}
  BY <1>1, Handled DEF Handling
<1>3. pc' = [pc EXCEPT ![r] = "allow"]
  BY DEF Create
<1>4. answer' = [answer EXCEPT ![r] = "none"]
  BY <1>1, <1>2 DEF Create, Typed
<1> QED
  BY <1>2, <1>3, <1>4, RequestMoves DEF Create, Handling

LEMMA AllowRoute ==
  ASSUME RouteInv, NEW r \in Requests, Allow(r)
  PROVE  RouteInv'
<1>1. pc[r] = "allow" /\ Typed
  BY DEF Allow, RouteInv
<1>2. answer[r] = "none" /\ ModelOf[r] \in Models /\ stage \notin {"new", "probing"}
  BY <1>1, Handled DEF Handling
<1>3. \/ pc' = [pc EXCEPT ![r] = "find"] /\ answer' = answer
      \/ pc' = [pc EXCEPT ![r] = "done"] /\ answer' = [answer EXCEPT ![r] = "too_many"]
  BY DEF Allow, Reply
<1>4. UNCHANGED <<stage, now, backend, checker, left, steady>>
  BY DEF Allow
<1>5. CASE pc' = [pc EXCEPT ![r] = "find"] /\ answer' = answer
  <2>1. answer' = [answer EXCEPT ![r] = "none"]
    BY <1>1, <1>2, <1>5 DEF Typed
  <2> QED
    BY <1>2, <1>4, <1>5, <2>1, RequestMoves DEF Handling
<1>6. CASE pc' = [pc EXCEPT ![r] = "done"] /\ answer' = [answer EXCEPT ![r] = "too_many"]
  BY <1>2, <1>4, <1>6, RequestMoves DEF Handling, Answers
<1> QED
  BY <1>3, <1>5, <1>6

\* The candidates of a request are healthy, whatever the shuffle does.
LEMMA Candidates ==
  ASSUME NEW m, NEW s \in Shuffled(Matched(m))
  PROVE  s \in Seq(BackendIds) /\ Range(s) \subseteq healthy
<1> DEFINE X == {b \in BackendIds : Candidate(b, m)}
<1>1. Matched(m) \in Seq(X)
  BY MatchedType
<1>2. PICK pick \in Picks(Len(Matched(m))) : s = ShuffledBy(Matched(m), pick)
  BY DEF Shuffled
<1>3. s \in Seq(X)
  <2> HIDE DEF X
  <2> QED
    BY <1>1, <1>2, ShuffledType
<1>4. Range(s) \subseteq X
  <2> HIDE DEF X
  <2> QED
    BY <1>3 DEF Range
<1>5. X \subseteq healthy /\ X \subseteq BackendIds
  BY DEF Candidate
<1>6. \A i \in 1 .. Len(s) : s[i] \in BackendIds
  BY <1>3, <1>5
<1>7. s \in Seq(BackendIds)
  BY <1>3, <1>6
<1> QED
  BY <1>4, <1>5, <1>7

LEMMA FindRoute ==
  ASSUME RouteInv, NEW r \in Requests, FindBackends(r)
  PROVE  RouteInv'
<1>1. pc[r] = "find" /\ Typed
  BY DEF FindBackends, RouteInv
<1>2. /\ answer[r] = "none" /\ ModelOf[r] \in Models
      /\ stage \notin {"new", "probing"} /\ healthy \subseteq proven
  BY <1>1, Handled DEF Handling
<1>3. UNCHANGED <<stage, now, backend, checker>>
  BY DEF FindBackends
<1>4. PICK s \in Shuffled(Matched(ModelOf[r])) :
          \/ /\ s = << >>
             /\ Reply(r, "unavailable")
             /\ UNCHANGED <<left, steady>>
          \/ /\ s # << >>
             /\ left' = [left EXCEPT ![r] = s]
             /\ steady' = [steady EXCEPT ![r] = Range(s) \cap alive]
             /\ pc' = [pc EXCEPT ![r] = "try"]
             /\ UNCHANGED answer
  BY DEF FindBackends
<1>5. CASE s = << >>
  <2>1. /\ answer' = [answer EXCEPT ![r] = "unavailable"]
        /\ pc' = [pc EXCEPT ![r] = "done"]
        /\ UNCHANGED <<left, steady>>
    BY <1>4, <1>5 DEF Reply
  <2> QED
    BY <1>2, <1>3, <2>1, RequestMoves DEF Handling, Answers
<1>6. CASE s # << >>
  <2>1. /\ left' = [left EXCEPT ![r] = s]
        /\ steady' = [steady EXCEPT ![r] = Range(s) \cap alive]
        /\ pc' = [pc EXCEPT ![r] = "try"]
        /\ answer' = answer
    BY <1>4, <1>6
  <2>2. answer' = [answer EXCEPT ![r] = "none"]
    BY <1>1, <1>2, <2>1 DEF Typed
  <2>3. s \in Seq(BackendIds) /\ Range(s) \subseteq proven
    BY <1>2, Candidates
  <2>4. Range(s) \cap alive \subseteq BackendIds
    BY <1>1 DEF Typed
  <2> DEFINE d == Range(s) \cap alive
  <2>5. d \subseteq Range(s) /\ d \subseteq alive
    OBVIOUS
  <2> HIDE DEF d
  <2> QED
    BY <1>2, <1>3, <1>6, <2>1, <2>2, <2>3, <2>4, <2>5, RequestStep DEF Handling, d
<1> QED
  BY <1>5, <1>6

\* The rest of the candidates: what the first one was not, is there.
LEMMA TailRange ==
  ASSUME NEW s \in Seq(BackendIds), s # << >>
  PROVE  /\ Head(s) \in BackendIds /\ Head(s) \in Range(s)
         /\ Tail(s) \in Seq(BackendIds) /\ Len(Tail(s)) = Len(s) - 1
         /\ Range(Tail(s)) \subseteq Range(s)
         /\ Range(s) \subseteq Range(Tail(s)) \cup {Head(s)}
<1>1. /\ Len(s) \in Nat \ {0} /\ DOMAIN s = 1 .. Len(s) /\ Head(s) = s[1]
      /\ Tail(s) \in Seq(BackendIds) /\ Len(Tail(s)) = Len(s) - 1
      /\ DOMAIN Tail(s) = 1 .. Len(s) - 1
      /\ \A i \in 1 .. Len(s) - 1 : Tail(s)[i] = s[i + 1]
  OBVIOUS
<1>2. Head(s) \in BackendIds /\ Head(s) \in Range(s)
  BY <1>1 DEF Range
<1>3. ASSUME NEW x \in Range(Tail(s)) PROVE x \in Range(s)
  <2>1. PICK i \in 1 .. Len(s) - 1 : x = s[i + 1]
    BY <1>1 DEF Range
  <2>2. i + 1 \in 1 .. Len(s)
    BY <1>1
  <2> QED
    BY <1>1, <2>1, <2>2 DEF Range
<1>4. ASSUME NEW x \in Range(s), x # Head(s) PROVE x \in Range(Tail(s))
  <2>1. PICK i \in 1 .. Len(s) : x = s[i]
    BY <1>1 DEF Range
  <2>2. i - 1 \in 1 .. Len(s) - 1 /\ i = (i - 1) + 1
    BY <1>1, <1>4, <2>1
  <2>3. Tail(s)[i - 1] = x
    BY <1>1, <2>1, <2>2
  <2> QED
    BY <1>1, <2>2, <2>3 DEF Range
<1> QED
  BY <1>1, <1>2, <1>3, <1>4

LEMMA TryRoute ==
  ASSUME RouteInv, NEW r \in Requests, Try(r)
  PROVE  RouteInv'
<1> DEFINE s == left[r]
<1>1. pc[r] = "try" /\ Typed /\ RequestOK(r)
  BY DEF Try, RouteInv
<1>2. /\ answer[r] = "none" /\ ModelOf[r] \in Models
      /\ stage \notin {"new", "probing"}
      /\ s \in Seq(BackendIds) /\ Range(s) \subseteq proven
      /\ steady[r] \subseteq BackendIds
  BY <1>1, Handled DEF Handling
<1>3. s # << >> /\ steady[r] \subseteq Range(s) /\ steady[r] \subseteq alive
  BY <1>1 DEF RequestOK
<1>4. UNCHANGED <<stage, now, backend, checker, steady>>
  BY DEF Try
<1>5. /\ Tail(s) \in Seq(BackendIds) /\ Len(Tail(s)) = Len(s) - 1 /\ Len(s) \in Nat
      /\ Range(Tail(s)) \subseteq proven
      /\ Range(s) \subseteq Range(Tail(s)) \cup {Head(s)}
  BY <1>2, <1>3, TailRange
<1>6. ASSUME Head(s) \notin alive PROVE steady[r] \subseteq Range(Tail(s))
  BY <1>3, <1>5, <1>6
<1>7. ASSUME Head(s) \notin alive, ~HasNext(r) PROVE steady[r] = {}
  <2>1. Len(Tail(s)) = 0
    <3>1. Len(s) <= 1 /\ Len(s) # 0
      BY <1>2, <1>3, <1>7 DEF HasNext
    <3> HIDE DEF s
    <3> QED
      BY <1>5, <3>1
  <2>2. Range(Tail(s)) = {}
    <3> DEFINE t == Tail(s)
    <3>1. t \in Seq(BackendIds) /\ Len(t) = 0
      BY <1>5, <2>1
    <3> HIDE DEF t
    <3>2. DOMAIN t = {}
      BY <3>1
    <3> QED
      BY <3>2 DEF Range, t
  <2> QED
    BY <1>6, <1>7, <2>2
<1>8. ASSUME NEW a \in Answers, Forward(r, a), a \in {"5xx", "bad_gateway"} => steady[r] = {}
      PROVE  RouteInv'
  <2>1. answer' = [answer EXCEPT ![r] = a] /\ pc' = [pc EXCEPT ![r] = "done"] /\ left' = left
    BY <1>8 DEF Forward, Reply
  <2> HIDE DEF s
  <2> QED
    BY <1>2, <1>4, <1>8, <2>1, RequestMoves DEF Handling
<1>9. ASSUME Head(s) \notin alive, Failover(r)
      PROVE  RouteInv'
  <2>1. left' = [left EXCEPT ![r] = Tail(s)]
    BY <1>1, <1>9 DEF Failover, Typed
  <2>2. steady' = [steady EXCEPT ![r] = steady[r]]
    BY <1>1, <1>4 DEF Typed
  <2>3. CASE HasNext(r)
    <3>1. pc' = pc /\ answer' = answer
      BY <1>9, <2>3 DEF Failover
    <3>2. pc' = [pc EXCEPT ![r] = "try"] /\ answer' = [answer EXCEPT ![r] = "none"]
      BY <1>1, <1>2, <3>1 DEF Typed
    <3>3. Tail(s) # << >>
      <4>1. Len(s) > 1
        BY <2>3 DEF HasNext
      <4>2. Len(Tail(s)) # 0
        <5> HIDE DEF s
        <5> QED
          BY <1>5, <4>1
      <4> DEFINE t == Tail(s)
      <4> HIDE DEF t
      <4>3. Len(t) # 0
        BY <4>2 DEF t
      <4>4. t # << >>
        BY <4>3
      <4> QED
        BY <4>4 DEF t
    <3> DEFINE t == Tail(s)
    <3> HIDE DEF s, t
    <3> QED
      BY <1>2, <1>3, <1>4, <1>5, <1>6, <1>9, <2>1, <2>2, <3>2, <3>3, RequestStep DEF Handling, t
  <2>4. CASE ~HasNext(r)
    <3>1. answer' = [answer EXCEPT ![r] = "bad_gateway"] /\ pc' = [pc EXCEPT ![r] = "done"]
      BY <1>9, <2>4 DEF Failover, Reply
    <3>2. steady[r] = {}
      BY <1>7, <1>9, <2>4
    <3> HIDE DEF s
    <3> QED
      BY <1>2, <1>4, <1>5, <2>1, <2>2, <3>1, <3>2, RequestStep DEF Handling, Answers
  <2> QED
    BY <2>3, <2>4
<1>10. \/ Head(s) \in alive /\ Forward(r, "ok")
       \/ Head(s) \notin alive /\ HasNext(r) /\ Failover(r)
       \/ Head(s) \notin alive /\ ~HasNext(r) /\ Forward(r, "5xx")
       \/ Head(s) \notin alive /\ Failover(r)
  BY DEF Try
<1> HIDE DEF s
<1>11. {"ok", "5xx"} \subseteq Answers
  BY DEF Answers
<1> QED
  BY <1>7, <1>8, <1>9, <1>10, <1>11

LEMMA GoneRoute ==
  ASSUME RouteInv, NEW r \in Requests, ClientGone(r)
  PROVE  RouteInv'
<1>1. pc[r] = "try"
  BY DEF ClientGone
<1>2. stage \notin {"new", "probing"}
  BY <1>1, Handled
<1>3. answer' = [answer EXCEPT ![r] = "gone"] /\ pc' = [pc EXCEPT ![r] = "done"]
  BY DEF ClientGone, Reply
<1> QED
  BY <1>2, <1>3, RequestMoves DEF ClientGone, Handling, Answers

\* A backend dies or recovers: no older probe is right about it any more, and
\* it has not been alive all the time.
LEMMA FlipRoute ==
  ASSUME RouteInv, NEW b \in BackendIds, Flip(b)
  PROVE  RouteInv'
<1>0. Typed /\ ProvenOK /\ (\A c \in BackendIds : HealthOK(c)) /\ \A q \in Requests : RequestOK(q)
  BY DEF RouteInv
<1>1. UNCHANGED <<stage, now, healthy, probe, proven, pc, left, answer>>
  BY DEF Flip
<1>2. /\ flips < MaxFlips /\ flips' = flips + 1
      /\ alive' = IF b \in alive THEN alive \ {b} ELSE alive \cup {b}
      /\ age' = [age EXCEPT ![b] = 0]
      /\ steady' = [q \in Requests |-> steady[q] \ {b}]
  BY DEF Flip
<1>3. Typed'
  <2>1. flips' \in 0 .. MaxFlips
    BY <1>0, <1>2, GatewayAssumption DEF Typed
  <2>2. alive' \subseteq BackendIds
    BY <1>0, <1>2 DEF Typed
  <2>3. age' \in [BackendIds -> 0 .. 2]
    BY <1>0, <1>2 DEF Typed
  <2>4. steady' \in [Requests -> SUBSET BackendIds]
    BY <1>0, <1>2 DEF Typed
  <2> QED
    BY <1>0, <1>1, <2>1, <2>2, <2>3, <2>4 DEF Typed
<1>4. ProvenOK'
  BY <1>0, <1>1 DEF ProvenOK
<1>5. ASSUME NEW c \in BackendIds PROVE HealthOK(c)'
  <2>1. CASE c = b
    <3>1. age'[c] = 0
      BY <1>0, <1>2, <2>1 DEF Typed
    <3> QED
      BY <3>1 DEF HealthOK
  <2>2. CASE c # b
    <3>1. age'[c] = age[c] /\ (c \in alive' <=> c \in alive) /\ HealthOK(c)
      BY <1>0, <1>2, <2>2 DEF Typed
    <3> QED
      BY <1>1, <3>1 DEF HealthOK
  <2> QED
    BY <2>1, <2>2
<1>6. ASSUME NEW q \in Requests PROVE RequestOK(q)'
  <2>1. RequestOK(q) /\ steady'[q] = steady[q] \ {b}
    BY <1>0, <1>2
  <2>2. steady[q] \subseteq alive => steady'[q] \subseteq alive'
    BY <1>2, <2>1
  <2> QED
    BY <1>1, <2>1, <2>2 DEF RequestOK
<1> QED
  BY <1>3, <1>4, <1>5, <1>6 DEF RouteInv

\* A round begins: what the last one found of a backend that has not changed
\* since is what it is.
LEMMA StartRoute ==
  ASSUME RouteInv, StartRound
  PROVE  RouteInv'
<1>0. Typed /\ ProvenOK /\ (\A b \in BackendIds : HealthOK(b)) /\ \A q \in Requests : RequestOK(q)
  BY DEF RouteInv
<1>1. /\ stage \in {"new", "serving", "draining"}
      /\ \A b \in BackendIds : probe[b] = "idle"
      /\ probe' = [b \in BackendIds |-> IF probe[b] = "idle" THEN "ask" ELSE probe[b]]
      /\ age' = [b \in BackendIds |-> IF age[b] = 2 THEN 2 ELSE age[b] + 1]
      /\ stage' = IF stage = "new" THEN "probing" ELSE stage
      /\ UNCHANGED <<now, alive, flips, healthy, proven, pc, left, answer, steady>>
  BY DEF StartRound, RoundOver, backend
<1>2. \A b \in BackendIds : probe'[b] = "ask"
  BY <1>1
<1>3. Typed'
  <2>1. probe' \in [BackendIds -> {"idle", "ask", "yes", "no"}]
    BY <1>0, <1>1 DEF Typed
  <2>2. age' \in [BackendIds -> 0 .. 2]
    <3>1. \A b \in BackendIds : age[b] \in 0 .. 2
      BY <1>0 DEF Typed
    <3>2. \A b \in BackendIds : (IF age[b] = 2 THEN 2 ELSE age[b] + 1) \in 0 .. 2
      BY <3>1
    <3> QED
      BY <1>1, <3>2
  <2>3. stage' \in Stages
    BY <1>1 DEF Stages
  <2> QED
    BY <1>0, <1>1, <2>1, <2>2, <2>3 DEF Typed
<1>4. ProvenOK'
  <2>1. \A b \in healthy : b \in BackendIds
    BY <1>0 DEF Typed
  <2> QED
    BY <1>0, <1>1, <1>2, <2>1 DEF ProvenOK
<1>5. ASSUME NEW b \in BackendIds PROVE HealthOK(b)'
  <2>1. HealthOK(b) /\ probe[b] = "idle" /\ probe'[b] = "ask"
    BY <1>0, <1>1, <1>2
  <2>2. age'[b] = 2 => age[b] # 0
    BY <1>0, <1>1 DEF Typed
  <2> QED
    BY <1>1, <2>1, <2>2 DEF HealthOK
<1>6. ASSUME NEW q \in Requests PROVE RequestOK(q)'
  <2>1. RequestOK(q)
    BY <1>0
  <2> QED
    BY <1>1, <2>1 DEF RequestOK
<1> QED
  BY <1>3, <1>4, <1>5, <1>6 DEF RouteInv

LEMMA ProbeRoute ==
  ASSUME RouteInv, NEW b \in BackendIds, Probe(b)
  PROVE  RouteInv'
<1>0. Typed /\ ProvenOK /\ (\A c \in BackendIds : HealthOK(c)) /\ \A q \in Requests : RequestOK(q)
  BY DEF RouteInv
<1>1. /\ probe[b] = "ask"
      /\ probe' = [probe EXCEPT ![b] = IF b \in alive THEN "yes" ELSE "no"]
      /\ UNCHANGED <<stage, now, alive, flips, healthy, age, proven, pc, left, answer, steady>>
  BY DEF Probe, backend
<1>2. Typed'
  <2>1. probe' \in [BackendIds -> {"idle", "ask", "yes", "no"}]
    BY <1>0, <1>1 DEF Typed
  <2> QED
    BY <1>0, <1>1, <2>1 DEF Typed
<1>3. /\ probe'[b] = IF b \in alive THEN "yes" ELSE "no"
      /\ \A c \in BackendIds : c # b => probe'[c] = probe[c]
  BY <1>0, <1>1 DEF Typed
<1>4. ProvenOK'
  <2>1. stage # "new"
    BY <1>0, <1>1 DEF ProvenOK
  <2>2. \A c \in healthy : c \in BackendIds /\ (probe'[c] = "idle" => probe[c] = "idle")
    BY <1>0, <1>3 DEF Typed
  <2> QED
    BY <1>0, <1>1, <2>1, <2>2 DEF ProvenOK
<1>5. ASSUME NEW c \in BackendIds PROVE HealthOK(c)'
  <2>1. HealthOK(c)
    BY <1>0
  <2>2. CASE c = b
    BY <1>1, <1>3, <2>1, <2>2 DEF HealthOK
  <2>3. CASE c # b
    BY <1>1, <1>3, <2>1, <2>3 DEF HealthOK
  <2> QED
    BY <2>2, <2>3
<1>6. ASSUME NEW q \in Requests PROVE RequestOK(q)'
  <2>1. RequestOK(q)
    BY <1>0
  <2> QED
    BY <1>1, <2>1 DEF RequestOK
<1> QED
  BY <1>2, <1>4, <1>5, <1>6 DEF RouteInv

LEMMA SetHealthyRoute ==
  ASSUME RouteInv, NEW b \in BackendIds, SetHealthy(b)
  PROVE  RouteInv'
<1>0. Typed /\ ProvenOK /\ (\A c \in BackendIds : HealthOK(c)) /\ \A q \in Requests : RequestOK(q)
  BY DEF RouteInv
<1>1. /\ probe[b] \in {"yes", "no"}
      /\ healthy' = IF probe[b] = "yes" THEN healthy \cup {b} ELSE healthy \ {b}
      /\ proven' = IF probe[b] = "yes" THEN proven \cup {b} ELSE proven
      /\ probe' = [probe EXCEPT ![b] = "idle"]
      /\ UNCHANGED <<stage, now, alive, flips, age, pc, left, answer, steady>>
  BY DEF SetHealthy, Marked, backend
<1>2. Typed'
  <2>1. probe' \in [BackendIds -> {"idle", "ask", "yes", "no"}]
    BY <1>0, <1>1 DEF Typed
  <2>2. healthy' \subseteq BackendIds /\ proven' \subseteq BackendIds
    BY <1>0, <1>1 DEF Typed
  <2> QED
    BY <1>0, <1>1, <2>1, <2>2 DEF Typed
<1>3. /\ probe'[b] = "idle"
      /\ \A c \in BackendIds : c # b => probe'[c] = probe[c] /\ (c \in healthy' <=> c \in healthy)
      /\ proven \subseteq proven'
      /\ b \in healthy' <=> probe[b] = "yes"
      /\ probe[b] = "yes" => b \in proven'
  BY <1>0, <1>1 DEF Typed
<1>4. ProvenOK'
  <2>1. stage # "new"
    BY <1>0, <1>1 DEF ProvenOK
  <2>2. \A c \in healthy' : c \in BackendIds /\ (c # b => c \in healthy /\ probe'[c] = probe[c])
    BY <1>2, <1>3 DEF Typed
  <2> QED
    BY <1>0, <1>1, <1>3, <2>1, <2>2 DEF ProvenOK
<1>5. ASSUME NEW c \in BackendIds PROVE HealthOK(c)'
  <2>1. HealthOK(c)
    BY <1>0
  <2>2. CASE c = b
    <3>1. age'[c] = age[c] /\ (c \in alive' <=> c \in alive) /\ (age[c] = 2 => age[c] # 0)
      BY <1>1
    <3> QED
      BY <1>1, <1>3, <2>1, <2>2, <3>1 DEF HealthOK
  <2>3. CASE c # b
    BY <1>1, <1>3, <2>1, <2>3 DEF HealthOK
  <2> QED
    BY <2>2, <2>3
<1>6. ASSUME NEW q \in Requests PROVE RequestOK(q)'
  <2>1. RequestOK(q)
    BY <1>0
  <2> QED
    BY <1>1, <1>3, <2>1 DEF RequestOK
<1> QED
  BY <1>2, <1>4, <1>5, <1>6 DEF RouteInv

\* Serve, Signal and Exit; the first waits for the first round.
LEMMA StageRoute ==
  ASSUME RouteInv, Serve \/ Signal \/ Exit
  PROVE  RouteInv'
<1>0. Typed /\ ProvenOK /\ (\A c \in BackendIds : HealthOK(c)) /\ \A q \in Requests : RequestOK(q)
  BY DEF RouteInv
<1>1. /\ stage' \in {"serving", "draining", "exited"}
      /\ stage = "probing" => \A b \in BackendIds : probe[b] = "idle"
      /\ stage # "new"
      /\ UNCHANGED <<now, alive, flips, healthy, probe, age, proven, pc, left, answer, steady>>
  BY DEF Serve, MayServe, RoundOver, Signal, Exit, backend, checker
<1>2. Typed'
  BY <1>0, <1>1 DEF Typed, Stages
<1>3. healthy \subseteq proven
  BY <1>0, <1>1 DEF ProvenOK, Typed
<1>4. ProvenOK'
  BY <1>1, <1>3 DEF ProvenOK
<1>5. ASSUME NEW c \in BackendIds PROVE HealthOK(c)'
  BY <1>0, <1>1 DEF HealthOK
<1>6. ASSUME NEW q \in Requests PROVE RequestOK(q)'
  BY <1>0, <1>1 DEF RequestOK
<1> QED
  BY <1>2, <1>4, <1>5, <1>6 DEF RouteInv

\* What the clients of the gateway and its clock leave alone.
LEMMA RouteFrame ==
  ASSUME RouteInv, now' \in 0 .. MaxTime,
         UNCHANGED <<stage, backend, checker, pc, left, answer, steady>>
  PROVE  RouteInv'
<1>0. Typed /\ ProvenOK /\ (\A c \in BackendIds : HealthOK(c)) /\ \A q \in Requests : RequestOK(q)
  BY DEF RouteInv
<1> USE DEF backend, checker
<1>1. Typed' /\ ProvenOK'
  BY <1>0 DEF Typed, ProvenOK
<1>2. \A c \in BackendIds : HealthOK(c)'
  BY <1>0 DEF HealthOK
<1>3. \A q \in Requests : RequestOK(q)'
  BY <1>0 DEF RequestOK
<1> QED
  BY <1>1, <1>2, <1>3 DEF RouteInv

LEMMA RouteStep ==
  ASSUME RouteInv, Next \/ Tick \/ UNCHANGED vars
  PROVE  RouteInv'
<1>1. now \in 0 .. MaxTime
  BY DEF RouteInv, Typed
<1>2. CASE Next
  <2>1. ASSUME NEW r \in Requests, Accept(r) \/ Handler(r) \/ ClientGone(r)
        PROVE  RouteInv'
    BY <2>1, AcceptRoute, LookupRoute, CreateRoute, AllowRoute, FindRoute, TryRoute,
       GoneRoute DEF Handler
  <2>2. CASE Checker
    BY <2>2, StartRoute, ProbeRoute, SetHealthyRoute DEF Checker
  <2>3. CASE Exited
    BY <1>1, <2>3, RouteFrame DEF Exited, vars
  <2>4. CASE \E b \in BackendIds : Flip(b)
    BY <2>4, FlipRoute
  <2> QED
    BY <1>2, <2>1, <2>2, <2>3, <2>4, StageRoute DEF Next
<1>3. CASE Tick
  <2>1. now' \in 0 .. MaxTime
    BY <1>1, <1>3, GatewayAssumption DEF Tick
  <2> QED
    BY <1>3, <2>1, RouteFrame DEF Tick
<1>4. CASE UNCHANGED vars
  BY <1>1, <1>4, RouteFrame DEF vars
<1> QED
  BY <1>2, <1>3, <1>4

-----------------------------------------------------------------------------
(* The limits.                                                             *)

LEMMA RateType ==
  ASSUME NEW m \in Models
  PROVE  /\ Rate(m) \in Nat \ {0} /\ Burst(m) \in Nat
         /\ Rate(m) * Grain \in Nat /\ Rate(m) * Grain <= Burst(m)
<1>1. Rate(m) \in Nat \ {0} /\ Grain \in Nat \ {0}
  BY GatewayAssumption DEF Rate
<1>2. Rate(m) * Grain \in Nat
  BY <1>1
<1>3. Burst(m) = Rate(m) * Grain + Rate(m) * Grain
  BY <1>1 DEF Burst
<1> QED
  BY <1>1, <1>2, <1>3

LEMMA LimitInit == Init => LimitInv
<1> SUFFICES ASSUME Init PROVE LimitInv
  OBVIOUS
<1>1. LimitTyped
  BY DEF Init, LimitTyped
<1>2. \A m \in Models : BucketOK(m)
  BY DEF Init, BucketOK
<1> QED
  BY <1>1, <1>2 DEF Init, LimitInv

LEMMA BucketType ==
  ASSUME LimitTyped, NEW i \in 1 .. Len(buckets)
  PROVE  buckets[i] \in [tokens : Nat, lastRefill : 0 .. MaxTime]
<1> DEFINE S == [tokens : Nat, lastRefill : 0 .. MaxTime]
<1>1. buckets \in Seq(S)
  BY DEF LimitTyped
<1>2. buckets[i] \in S
  <2> HIDE DEF S
  <2> QED
    BY <1>1
<1> QED
  BY <1>2

LEMMA LimitFrame ==
  ASSUME LimitInv, UNCHANGED <<now, limits>>,
         \A r \in Requests : pc'[r] = "allow" => pc[r] = "allow"
  PROVE  LimitInv'
<1> USE DEF limits
<1>1. LimitTyped'
  BY DEF LimitInv, LimitTyped
<1>2. \A m \in Models : BucketOK(m)'
  BY DEF LimitInv, BucketOK
<1> QED
  BY <1>1, <1>2 DEF LimitInv

LEMMA LookupLimit ==
  ASSUME RouteInv, LimitInv, NEW r \in Requests, Lookup(r)
  PROVE  LimitInv'
<1> DEFINE m == ModelOf[r]
<1>1. /\ UNCHANGED <<now, limiters, buckets, allowed>>
      /\ bucket' = [bucket EXCEPT ![r] = limiters[m]]
      /\ pc' = [pc EXCEPT ![r] = IF limiters[m] = 0 THEN "create" ELSE "allow"]
      /\ pc[r] = "lookup"
  BY DEF Lookup
<1>2. Typed /\ LimitTyped /\ m \in Models
  BY <1>1, Handled DEF RouteInv, LimitInv, Handling
<1> HIDE DEF m
<1>3. LimitTyped'
  BY <1>1, <1>2 DEF LimitTyped
<1>4. \A k \in Models : BucketOK(k)'
  BY <1>1 DEF LimitInv, BucketOK
<1>5. ASSUME NEW q \in Requests
      PROVE  /\ pc'[q] = "allow" => bucket'[q] # 0
             /\ bucket'[q] # 0 => ModelOf[q] \in Models /\ bucket'[q] = limiters'[ModelOf[q]]
  <2>1. CASE q = r
    BY <1>1, <1>2, <2>1 DEF Typed, LimitTyped, m
  <2>2. CASE q # r
    <3>1. pc'[q] = pc[q] /\ bucket'[q] = bucket[q]
      BY <1>1, <1>2, <2>2 DEF Typed, LimitTyped
    <3> QED
      BY <1>1, <3>1 DEF LimitInv
  <2> QED
    BY <2>1, <2>2
<1> QED
  BY <1>1, <1>3, <1>4, <1>5 DEF LimitInv

\* A new bucket: the model's first, with its initial tokens.
LEMMA CreateLimit ==
  ASSUME RouteInv, LimitInv, NEW r \in Requests, Create(r)
  PROVE  LimitInv'
<1> DEFINE m == ModelOf[r]
<1>1. /\ UNCHANGED <<now, allowed>>
      /\ bucket' = [bucket EXCEPT ![r] = limiters'[m]]
      /\ pc' = [pc EXCEPT ![r] = "allow"]
      /\ pc[r] = "create"
  BY DEF Create
<1>2. Typed /\ LimitTyped /\ m \in Models
  BY <1>1, Handled DEF RouteInv, LimitInv, Handling
<1>3. \/ limiters[m] # 0 /\ UNCHANGED <<limiters, buckets>>
      \/ /\ limiters[m] = 0
         /\ buckets' = Append(buckets, NewTokenBucket(m))
         /\ limiters' = [limiters EXCEPT ![m] = Len(buckets')]
  BY DEF Create, Found
<1> HIDE DEF m
<1>4. CASE limiters[m] # 0 /\ UNCHANGED <<limiters, buckets>>
  <2>1. LimitTyped'
    BY <1>1, <1>2, <1>4 DEF LimitTyped
  <2>2. \A k \in Models : BucketOK(k)'
    BY <1>1, <1>4 DEF LimitInv, BucketOK
  <2>3. ASSUME NEW q \in Requests
        PROVE  /\ pc'[q] = "allow" => bucket'[q] # 0
               /\ bucket'[q] # 0 => ModelOf[q] \in Models /\ bucket'[q] = limiters'[ModelOf[q]]
    <3>1. CASE q = r
      BY <1>1, <1>2, <1>4, <3>1 DEF Typed, LimitTyped, m
    <3>2. CASE q # r
      <4>1. pc'[q] = pc[q] /\ bucket'[q] = bucket[q]
        BY <1>1, <1>2, <3>2 DEF Typed, LimitTyped
      <4> QED
        BY <1>4, <4>1 DEF LimitInv
    <3> QED
      BY <3>1, <3>2
  <2> QED
    BY <1>4, <2>1, <2>2, <2>3 DEF LimitInv
<1>5. CASE /\ limiters[m] = 0
           /\ buckets' = Append(buckets, NewTokenBucket(m))
           /\ limiters' = [limiters EXCEPT ![m] = Len(buckets')]
  <2> DEFINE n == Len(buckets)
             new == NewTokenBucket(m)
  <2>0. now \in 0 .. MaxTime /\ MaxTime \in Nat
    BY <1>2, GatewayAssumption DEF Typed
  <2>1. new \in [tokens : Nat, lastRefill : 0 .. MaxTime] /\ new.tokens = Rate(m) * Grain
        /\ new.lastRefill = now
    BY <1>2, <2>0, RateType DEF NewTokenBucket
  <2> HIDE DEF new
  <2>2. /\ n \in Nat /\ buckets' \in Seq([tokens : Nat, lastRefill : 0 .. MaxTime])
        /\ Len(buckets') = n + 1 /\ buckets'[n + 1] = new
        /\ \A i \in 1 .. n : buckets'[i] = buckets[i]
    BY <1>2, <1>5, <2>1 DEF LimitTyped, new
  <2>3. /\ limiters \in [Models -> 0 .. n] /\ bucket \in [Requests -> 0 .. n]
        /\ allowed \in [Models -> Nat]
    BY <1>2 DEF LimitTyped
  <2> HIDE DEF n
  <2>4. /\ limiters'[m] = n + 1
        /\ \A k \in Models : k # m => limiters'[k] = limiters[k] /\ limiters[k] \in 0 .. n
    BY <1>2, <1>5, <2>2, <2>3
  <2>5. LimitTyped'
    <3>1. limiters' \in [Models -> 0 .. n + 1]
      <4>1. 0 .. n \subseteq 0 .. n + 1 /\ n + 1 \in 0 .. n + 1
        BY <2>2
      <4>2. limiters \in [Models -> 0 .. n + 1]
        BY <2>3, <4>1
      <4> QED
        BY <1>5, <2>2, <4>1, <4>2
    <3>2. bucket' \in [Requests -> 0 .. n + 1]
      BY <1>1, <1>2, <2>2, <2>3, <2>4
    <3> QED
      BY <1>1, <2>2, <2>3, <3>1, <3>2 DEF LimitTyped
  <2>6. ASSUME NEW k \in Models PROVE BucketOK(k)'
    <3>0. BucketOK(k)
      BY DEF LimitInv
    <3>1. CASE k = m
      <4>1. allowed'[m] = 0
        BY <1>1, <1>5, <3>0, <3>1 DEF BucketOK
      <4>2. Grain \in Nat /\ Rate(m) \in Nat /\ Rate(m) * Grain \in Nat /\ Rate(m) * Grain <= Burst(m)
        BY <1>2, RateType, GatewayAssumption
      <4>3. Rate(m) * now >= 0 /\ Rate(m) * now \in Nat
        BY <2>0, <4>2
      <4>4. now - now = 0 /\ 0 * Rate(m) = 0 /\ 0 * Grain = 0
        BY <2>0, <4>2
      <4>5. /\ new.tokens <= Burst(m)
            /\ new.lastRefill <= now
            /\ allowed'[m] * Grain + new.tokens + (now - new.lastRefill) * Rate(m)
                  <= Rate(m) * Grain + Rate(m) * now
        <5>1. allowed'[m] * Grain + new.tokens + (now - new.lastRefill) * Rate(m)
                = 0 + Rate(m) * Grain + 0
          BY <2>1, <4>1, <4>4
        <5> QED
          BY <2>0, <2>1, <4>2, <4>3, <5>1
      <4>6. limiters'[m] # 0 /\ buckets'[limiters'[m]] = new /\ now' = now
        BY <1>1, <2>2, <2>4
      <4>7. Rate(m)' = Rate(m) /\ Burst(m)' = Burst(m)
        BY DEF Rate, Burst
      <4> QED
        BY <3>1, <4>5, <4>6, <4>7 DEF BucketOK
    <3>2. CASE k # m
      <4>1. limiters'[k] = limiters[k] /\ limiters[k] \in 0 .. n
        BY <2>4, <3>2
      <4>2. limiters[k] # 0 => buckets'[limiters[k]] = buckets[limiters[k]]
        BY <2>2, <4>1
      <4> QED
        BY <1>1, <3>0, <4>1, <4>2 DEF BucketOK
    <3> QED
      BY <3>1, <3>2
  <2>7. ASSUME NEW k \in Models, NEW l \in Models, limiters'[k] # 0, limiters'[k] = limiters'[l]
        PROVE  k = l
    BY <2>2, <2>4, <2>7 DEF LimitInv
  <2>8. ASSUME NEW q \in Requests
        PROVE  /\ pc'[q] = "allow" => bucket'[q] # 0
               /\ bucket'[q] # 0 => ModelOf[q] \in Models /\ bucket'[q] = limiters'[ModelOf[q]]
    <3>1. CASE q = r
      BY <1>1, <1>2, <2>2, <2>3, <2>4, <3>1 DEF m
    <3>2. CASE q # r
      <4>1. pc'[q] = pc[q] /\ bucket'[q] = bucket[q]
        BY <1>1, <1>2, <2>3, <3>2 DEF Typed
      <4>2. /\ pc[q] = "allow" => bucket[q] # 0
            /\ bucket[q] # 0 => ModelOf[q] \in Models /\ bucket[q] = limiters[ModelOf[q]]
        BY DEF LimitInv
      <4> QED
        BY <1>5, <2>4, <4>1, <4>2
    <3> QED
      BY <3>1, <3>2
  <2> QED
    BY <2>5, <2>6, <2>7, <2>8 DEF LimitInv
<1> QED
  BY <1>3, <1>4, <1>5

\* A request takes a token or is refused: what it takes was there, and the
\* refill only adds what the time since the last one allows.
LEMMA AllowLimit ==
  ASSUME RouteInv, LimitInv, NEW r \in Requests, Allow(r)
  PROVE  LimitInv'
<1> DEFINE m == ModelOf[r]
           k == bucket[r]
           tokens == Refilled(buckets[k], m)
           sum == buckets[k].tokens + (now - buckets[k].lastRefill) * Rate(m)
           Left(n) == [buckets EXCEPT ![k] = [tokens |-> n, lastRefill |-> now]]
<1>1. /\ UNCHANGED <<now, limiters, bucket>>
      /\ pc[r] = "allow"
      /\ \A q \in Requests : pc'[q] = "allow" => pc[q] = "allow"
  <2>1. \/ pc' = [pc EXCEPT ![r] = "find"]
        \/ pc' = [pc EXCEPT ![r] = "done"]
    BY DEF Allow, Reply
  <2>2. Typed
    BY DEF RouteInv
  <2> QED
    BY <2>1, <2>2 DEF Typed, Allow
<1>2. /\ LimitTyped /\ m \in Models /\ now \in 0 .. MaxTime
      /\ k # 0 /\ k = limiters[m] /\ k \in 1 .. Len(buckets)
  <2>1. LimitTyped /\ m \in Models /\ now \in 0 .. MaxTime /\ k # 0 /\ k = limiters[m]
    BY <1>1, Handled DEF RouteInv, Typed, LimitInv, Handling
  <2> QED
    BY <2>1 DEF LimitTyped
<1>3. \/ /\ tokens >= Grain
         /\ buckets' = Left(tokens - Grain)
         /\ allowed' = [allowed EXCEPT ![m] = @ + 1]
      \/ /\ tokens < Grain
         /\ buckets' = Left(tokens)
         /\ allowed' = allowed
  BY DEF Allow
<1> DEFINE b == buckets[k]
<1>4. /\ b.tokens \in Nat /\ b.lastRefill \in Nat /\ b.lastRefill <= now
      /\ allowed[m] * Grain + b.tokens + (now - b.lastRefill) * Rate(m)
            <= Rate(m) * Grain + Rate(m) * now
  <2>1. b \in [tokens : Nat, lastRefill : 0 .. MaxTime]
    <3> HIDE DEF k
    <3> QED
      BY <1>2, BucketType
  <2>2. BucketOK(m)
    BY <1>2 DEF LimitInv
  <2> QED
    BY <1>2, <2>1, <2>2 DEF BucketOK
<1>5. /\ Rate(m) \in Nat /\ Burst(m) \in Nat /\ Grain \in Nat /\ allowed[m] \in Nat
      /\ MaxTime \in Nat /\ now \in Nat
  BY <1>2, RateType, GatewayAssumption DEF LimitTyped
<1>6. /\ (now - b.lastRefill) * Rate(m) \in Nat /\ allowed[m] * Grain \in Nat
      /\ Rate(m) * Grain \in Nat /\ Rate(m) * now \in Nat
  <2>1. now - b.lastRefill \in Nat
    BY <1>4, <1>5
  <2> HIDE DEF b
  <2> QED
    BY <1>5, <2>1
<1>7. tokens \in Nat /\ tokens <= Burst(m) /\ tokens <= sum
  <2>1. sum \in Nat
    BY <1>4, <1>6
  <2>2. tokens = IF sum > Burst(m) THEN Burst(m) ELSE sum
    BY DEF Refilled
  <2> HIDE DEF sum, tokens
  <2> QED
    BY <1>5, <2>1, <2>2
<1>8. allowed[m] * Grain + tokens <= Rate(m) * Grain + Rate(m) * now
  <2> HIDE DEF tokens
  <2> QED
    BY <1>4, <1>5, <1>6, <1>7
<1>9. PICK n \in Nat : /\ n <= Burst(m)
                       /\ buckets' = Left(n)
                       /\ allowed' \in [Models -> Nat]
                       /\ \A c \in Models : c # m => allowed'[c] = allowed[c]
                       /\ allowed'[m] * Grain + n <= Rate(m) * Grain + Rate(m) * now
  <2> HIDE DEF tokens, Left
  <2>1. allowed \in [Models -> Nat]
    BY <1>2 DEF LimitTyped
  <2>2. CASE /\ tokens >= Grain
             /\ buckets' = Left(tokens - Grain)
             /\ allowed' = [allowed EXCEPT ![m] = @ + 1]
    <3>1. tokens - Grain \in Nat /\ tokens - Grain <= Burst(m)
      BY <1>5, <1>7, <2>2
    <3>2. allowed'[m] = allowed[m] + 1 /\ allowed' \in [Models -> Nat]
          /\ \A c \in Models : c # m => allowed'[c] = allowed[c]
      BY <1>2, <2>1, <2>2
    <3>3. (allowed[m] + 1) * Grain = allowed[m] * Grain + Grain
      BY <1>5
    <3>4. allowed'[m] * Grain + (tokens - Grain) <= Rate(m) * Grain + Rate(m) * now
      BY <1>5, <1>6, <1>7, <1>8, <3>2, <3>3
    <3> QED
      BY <2>2, <3>1, <3>2, <3>4
  <2>3. CASE /\ tokens < Grain
             /\ buckets' = Left(tokens)
             /\ allowed' = allowed
    BY <1>7, <1>8, <2>1, <2>3
  <2> QED
    BY <1>3, <2>2, <2>3
<1>10. LimitTyped'
  <2>1. [tokens |-> n, lastRefill |-> now] \in [tokens : Nat, lastRefill : 0 .. MaxTime]
    BY <1>2, <1>9
  <2>2. /\ buckets' \in Seq([tokens : Nat, lastRefill : 0 .. MaxTime])
        /\ Len(buckets') = Len(buckets)
    BY <1>2, <1>9, <2>1 DEF LimitTyped
  <2> QED
    BY <1>1, <1>2, <1>9, <2>2 DEF LimitTyped
<1>11. /\ buckets'[k] = [tokens |-> n, lastRefill |-> now]
       /\ \A i \in 1 .. Len(buckets) : i # k => buckets'[i] = buckets[i]
  BY <1>2, <1>9 DEF LimitTyped
<1> HIDE DEF k, b, tokens, sum, Left
<1>12. ASSUME NEW c \in Models PROVE BucketOK(c)'
  <2>0. BucketOK(c) /\ limiters'[c] = limiters[c] /\ now' = now
    BY <1>1 DEF LimitInv
  <2>1. CASE c = m
    <3>1. buckets'[limiters'[m]].tokens = n /\ buckets'[limiters'[m]].lastRefill = now /\ limiters'[m] # 0
      BY <1>1, <1>2, <1>11
    <3>2. (now - now) * Rate(m) = 0
      BY <1>5
    <3>3. allowed'[m] * Grain + n + (now - now) * Rate(m) <= Rate(m) * Grain + Rate(m) * now
      <4>1. allowed'[m] * Grain + n \in Int
        BY <1>5, <1>9, <1>2
      <4> HIDE DEF m
      <4> QED
        BY <1>9, <3>2, <4>1
    <3>4. Rate(m)' = Rate(m) /\ Burst(m)' = Burst(m)
      BY DEF Rate, Burst
    <3> HIDE DEF m
    <3> QED
      BY <1>5, <1>9, <2>0, <2>1, <3>1, <3>3, <3>4 DEF BucketOK
  <2>2. CASE c # m
    <3>1. limiters[c] # k /\ limiters[c] \in 0 .. Len(buckets)
      BY <1>2, <2>2 DEF LimitInv, LimitTyped
    <3>2. limiters[c] # 0 => buckets'[limiters[c]] = buckets[limiters[c]]
      BY <1>11, <3>1, <1>2 DEF LimitTyped
    <3>3. allowed'[c] = allowed[c]
      BY <1>9, <2>2
    <3> HIDE DEF m
    <3> QED
      BY <2>0, <3>2, <3>3 DEF BucketOK
  <2> QED
    BY <2>1, <2>2
<1> QED
  BY <1>1, <1>10, <1>12 DEF LimitInv

LEMMA TickLimit ==
  ASSUME RouteInv, LimitInv, Tick
  PROVE  LimitInv'
<1>1. /\ now' = now + 1 /\ now \in Nat
      /\ UNCHANGED <<limiters, buckets, bucket, allowed, pc>>
  BY GatewayAssumption DEF Tick, limits, RouteInv, Typed
<1>2. LimitTyped'
  BY <1>1 DEF LimitInv, LimitTyped
<1>3. ASSUME NEW m \in Models PROVE BucketOK(m)'
  <2>0. BucketOK(m) /\ LimitTyped
    BY DEF LimitInv
  <2>1. CASE limiters[m] = 0
    BY <1>1, <2>0, <2>1 DEF BucketOK
  <2>2. CASE limiters[m] # 0
    <3> DEFINE b == buckets[limiters[m]]
    <3>1. b.tokens \in Nat /\ b.lastRefill \in Nat
      <4>1. b \in [tokens : Nat, lastRefill : 0 .. MaxTime]
        <5>1. limiters[m] \in 1 .. Len(buckets)
          BY <2>0, <2>2 DEF LimitTyped
        <5> QED
          BY <2>0, <5>1, BucketType
      <4> QED
        BY <4>1, GatewayAssumption
    <3>2. /\ b.tokens <= Burst(m) /\ b.lastRefill <= now
          /\ allowed[m] * Grain + b.tokens + (now - b.lastRefill) * Rate(m)
                <= Rate(m) * Grain + Rate(m) * now
      BY <2>0, <2>2 DEF BucketOK
    <3>3. b' = b /\ Rate(m)' = Rate(m) /\ Burst(m)' = Burst(m) /\ allowed' = allowed
          /\ limiters' = limiters
      BY <1>1 DEF Rate, Burst
    <3>4. Rate(m) \in Nat /\ Grain \in Nat /\ allowed[m] \in Nat
      BY <2>0, RateType, GatewayAssumption DEF LimitTyped
    <3>5. /\ ((now + 1) - b.lastRefill) * Rate(m) = (now - b.lastRefill) * Rate(m) + Rate(m)
          /\ Rate(m) * (now + 1) = Rate(m) * now + Rate(m)
      <4>1. \A x \in Int : (x + 1) * Rate(m) = x * Rate(m) + Rate(m)
        BY <3>4
      <4>2. (now + 1) - b.lastRefill = (now - b.lastRefill) + 1 /\ now - b.lastRefill \in Int
        BY <1>1, <3>1
      <4>3. Rate(m) * (now + 1) = (now + 1) * Rate(m) /\ Rate(m) * now = now * Rate(m)
        BY <1>1, <3>4
      <4> HIDE DEF b
      <4> QED
        BY <1>1, <4>1, <4>2, <4>3
    <3>6. /\ (now - b.lastRefill) * Rate(m) \in Int /\ allowed[m] * Grain \in Int
          /\ Rate(m) * Grain \in Int /\ Rate(m) * now \in Int
      BY <1>1, <3>1, <3>4
    <3>7. allowed[m] * Grain + b.tokens + ((now + 1) - b.lastRefill) * Rate(m)
                <= Rate(m) * Grain + Rate(m) * (now + 1)
      <4> HIDE DEF b
      <4> QED
        BY <3>1, <3>2, <3>4, <3>5, <3>6
    <3>8. b.lastRefill <= now + 1
      BY <1>1, <3>1, <3>2
    <3> DEFINE R == Rate(m)
               l == b.lastRefill
               x == allowed[m] * Grain + b.tokens
               y == R * Grain
    <3>9. x + (now' - l) * R <= y + R * now'
      <4>1. x + ((now + 1) - l) * R <= y + R * (now + 1)
        BY <3>7
      <4> HIDE DEF x, y, l, R
      <4> QED
        BY <1>1, <4>1, Zenon
    <3> QED
      BY <1>1, <2>2, <3>2, <3>3, <3>8, <3>9 DEF BucketOK
  <2> QED
    BY <2>1, <2>2
<1> QED
  BY <1>1, <1>2, <1>3 DEF LimitInv

LEMMA LimitStep ==
  ASSUME RouteInv, LimitInv, Next \/ Tick \/ UNCHANGED vars
  PROVE  LimitInv'
<1>0. Typed
  BY DEF RouteInv
<1>1. ASSUME NEW r \in Requests, Accept(r) PROVE LimitInv'
  <2>1. pc' = [pc EXCEPT ![r] = "done"] \/ pc' = [pc EXCEPT ![r] = "lookup"]
    BY <1>1 DEF Accept, Reply
  <2>2. \A q \in Requests : pc'[q] = "allow" => pc[q] = "allow"
    BY <1>0, <2>1 DEF Typed
  <2> QED
    BY <1>1, <2>2, LimitFrame DEF Accept
<1>2. ASSUME NEW r \in Requests, FindBackends(r) PROVE LimitInv'
  <2>1. pc' = [pc EXCEPT ![r] = "done"] \/ pc' = [pc EXCEPT ![r] = "try"]
    BY <1>2 DEF FindBackends, Reply
  <2>2. \A q \in Requests : pc'[q] = "allow" => pc[q] = "allow"
    BY <1>0, <2>1 DEF Typed
  <2> QED
    BY <1>2, <2>2, LimitFrame DEF FindBackends
<1>3. ASSUME NEW r \in Requests, Try(r) \/ ClientGone(r) PROVE LimitInv'
  <2>1. pc' = [pc EXCEPT ![r] = "done"] \/ pc' = pc
    BY <1>3 DEF Try, ClientGone, Forward, Failover, Reply
  <2>2. \A q \in Requests : pc'[q] = "allow" => pc[q] = "allow"
    BY <1>0, <2>1 DEF Typed
  <2>3. UNCHANGED <<now, limits>>
    BY <1>3 DEF Try, ClientGone
  <2> QED
    BY <2>2, <2>3, LimitFrame
<1>4. ASSUME NEW r \in Requests, Accept(r) \/ Handler(r) \/ ClientGone(r)
      PROVE  LimitInv'
  BY <1>1, <1>2, <1>3, <1>4, LookupLimit, CreateLimit, AllowLimit DEF Handler
<1>5. CASE \/ \E b \in BackendIds : Flip(b)
           \/ Checker
           \/ Serve \/ Signal \/ Exit \/ Exited \/ UNCHANGED vars
  <2>1. UNCHANGED <<now, limits, pc>>
    BY <1>5 DEF Flip, Checker, StartRound, Probe, SetHealthy, Serve, Signal, Exit, Exited, vars
  <2> QED
    BY <2>1, LimitFrame
<1> QED
  BY <1>4, <1>5, TickLimit DEF Next
-----------------------------------------------------------------------------
(* What the gateway promises.                                              *)

LEMMA GatewayInductive == Spec => []GatewayInv
<1>1. Init => GatewayInv
  BY RouteInit, LimitInit DEF GatewayInv
<1>2. GatewayInv /\ [Next]_vars => GatewayInv'
  BY RouteStep, LimitStep DEF GatewayInv
<1> QED
  BY <1>1, <1>2, PTL DEF Spec

\* Failover is complete: a client is told that a backend has failed only when
\* none of the candidates has been alive since the request found them.
THEOREM FailoverComplete == Spec => []NoNeedlessFailure
<1>1. GatewayInv => NoNeedlessFailure
  BY DEF GatewayInv, RouteInv, RequestOK, NoNeedlessFailure
<1> QED
  BY <1>1, GatewayInductive, PTL

\* A request goes only to backends that have answered a probe: the server
\* listens after the first round, and the candidates are those it has left.
THEOREM OnlyProvenTried == Spec => []OnlyProven
<1>1. GatewayInv => OnlyProven
  BY DEF GatewayInv, RouteInv, RequestOK, OnlyProven
<1> QED
  BY <1>1, GatewayInductive, PTL

\* Two rounds after a backend has died or recovered the checker has noticed.
THEOREM HealthSettles == Spec => []HealthConverges
<1>1. GatewayInv => HealthConverges
  BY DEF GatewayInv, RouteInv, HealthOK, HealthConverges
<1> QED
  BY <1>1, GatewayInductive, PTL

-----------------------------------------------------------------------------
(* The benchmark.                                                          *)

\* An answer stays.
LEMMA AnswersStay ==
  ASSUME RouteInv, Next \/ Tick \/ UNCHANGED vars,
         NEW q \in Requests, answer[q] # "none"
  PROVE  answer'[q] = answer[q]
<1>1. Typed /\ pc[q] = "done"
  BY DEF RouteInv, RequestOK
<1>2. ASSUME NEW r \in Requests, Accept(r) \/ Handler(r) \/ ClientGone(r)
      PROVE  answer'[q] = answer[q]
  <2>1. pc[r] # "done"
    BY <1>2 DEF Accept, Handler, ClientGone, Lookup, Create, Allow, FindBackends, Try
  <2>2. answer' = answer \/ \E a : answer' = [answer EXCEPT ![r] = a]
    <3>1. CASE Accept(r) \/ ClientGone(r)
      BY <3>1 DEF Accept, ClientGone, Reply
    <3>2. CASE Lookup(r) \/ Create(r)
      BY <3>2 DEF Lookup, Create
    <3>3. CASE Allow(r)
      BY <3>3 DEF Allow, Reply
    <3>4. CASE FindBackends(r)
      BY <3>4 DEF FindBackends, Reply
    <3>5. CASE Try(r)
      BY <3>5 DEF Try, Forward, Failover, Reply
    <3> QED
      BY <1>2, <3>1, <3>2, <3>3, <3>4, <3>5 DEF Handler
  <2> QED
    BY <1>1, <2>1, <2>2 DEF Typed
<1>3. CASE \/ \E b \in BackendIds : Flip(b)
           \/ Checker
           \/ Serve \/ Signal \/ Exit \/ Exited \/ Tick \/ UNCHANGED vars
  BY <1>3 DEF Flip, Checker, StartRound, Probe, SetHealthy, Serve, Signal, Exit, Exited, Tick, vars
<1> QED
  BY <1>2, <1>3 DEF Next

LEMMA TimeForward ==
  ASSUME RouteInv, Next \/ Tick \/ UNCHANGED vars
  PROVE  now \in Nat /\ now' \in Nat /\ now <= now'
<1>1. now \in Nat
  BY GatewayAssumption DEF RouteInv, Typed
<1>2. now' = now \/ now' = now + 1
  <2>1. ASSUME NEW r \in Requests, Accept(r) \/ Handler(r) \/ ClientGone(r)
        PROVE  now' = now
    BY <2>1 DEF Accept, Handler, ClientGone, Lookup, Create, Allow, FindBackends, Try
  <2>2. CASE \/ \E b \in BackendIds : Flip(b)
             \/ Checker
             \/ Serve \/ Signal \/ Exit \/ Exited \/ Tick \/ UNCHANGED vars
    BY <2>2 DEF Flip, Checker, StartRound, Probe, SetHealthy, Serve, Signal, Exit, Exited,
       Tick, vars
  <2> QED
    BY <2>1, <2>2 DEF Next
<1> QED
  BY <1>1, <1>2

BenchTyped ==
    /\ client \in [Sent -> {"spawned", "calling", "finished"}]
    /\ start \in [Sent -> 0 .. MaxTime]
    /\ \A r \in Sent : start[r] <= now
    /\ samples \subseteq [index : Sent, latency : Nat, success : BOOLEAN]
    /\ exitCode \in {-1, 0, 1}

\* One sample for each request that is finished, and a success only for an
\* answer that stays.
BenchInv ==
    /\ BenchTyped
    /\ \A r \in Sent : client[r] = "finished" <=> \E s \in samples : s.index = r
    /\ \A s, t \in samples : s.index = t.index => s = t
    /\ \A s \in samples : s.success => answer[s.index] = "ok"
    /\ exitCode # -1 => AllDone /\ exitCode = ExitCode

LEMMA BenchStart == BenchInit => BenchInv
<1> SUFFICES ASSUME BenchInit PROVE BenchInv
  OBVIOUS
<1>1. BenchTyped
  <2>1. now = 0
    BY DEF BenchInit, Init
  <2> QED
    BY <2>1, GatewayAssumption DEF BenchInit, BenchTyped
<1> QED
  BY <1>1 DEF BenchInit, BenchInv

\* A sample is appended: the first one of its request.
LEMMA RecordKeeps ==
  ASSUME RouteInv, BenchInv, NEW r \in Sent, NEW ok \in BOOLEAN, Record(r, ok),
         ok => answer[r] = "ok"
  PROVE  BenchInv'
<1> DEFINE new == [index |-> r, latency |-> now - start[r], success |-> ok]
<1>1. /\ client[r] = "calling"
      /\ client' = [client EXCEPT ![r] = "finished"]
      /\ samples' = samples \cup {new}
      /\ UNCHANGED <<answer, now, start, exitCode>>
  BY DEF Record, vars
<1>2. BenchTyped /\ \A q \in Sent : client[q] = "finished" <=> \E s \in samples : s.index = q
  BY DEF BenchInv
<1>3. /\ client'[r] = "finished"
      /\ \A q \in Sent : q # r => client'[q] = client[q]
      /\ client' \in [Sent -> {"spawned", "calling", "finished"}]
  BY <1>1, <1>2 DEF BenchTyped
<1>4. now - start[r] \in Nat
  BY <1>2, GatewayAssumption DEF RouteInv, Typed, BenchTyped
<1>5. new \in [index : Sent, latency : Nat, success : BOOLEAN]
  BY <1>4
<1>6. new.index = r /\ new.success = ok
  OBVIOUS
<1> HIDE DEF new
<1>7. BenchTyped'
  BY <1>1, <1>2, <1>3, <1>5 DEF BenchTyped
<1>8. \A s \in samples : s.index # r
  BY <1>1, <1>2
<1>9. ASSUME NEW q \in Sent
      PROVE  client'[q] = "finished" <=> \E s \in samples' : s.index = q
  <2>1. CASE q = r
    BY <1>1, <1>3, <1>6, <2>1
  <2>2. CASE q # r
    BY <1>1, <1>2, <1>3, <1>6, <2>2
  <2> QED
    BY <2>1, <2>2
<1>10. ASSUME NEW s \in samples', NEW t \in samples', s.index = t.index
       PROVE  s = t
  BY <1>1, <1>6, <1>8, <1>10 DEF BenchInv
<1>11. ASSUME NEW s \in samples', s.success
       PROVE  answer'[s.index] = "ok"
  BY <1>1, <1>6, <1>11 DEF BenchInv
<1>12. exitCode = -1
  BY <1>1 DEF BenchInv, AllDone
<1> QED
  BY <1>1, <1>7, <1>9, <1>10, <1>11, <1>12 DEF BenchInv

LEMMA BenchStep ==
  ASSUME RouteInv, BenchInv, BenchNext \/ UNCHANGED allVars
  PROVE  BenchInv'
<1>0. BenchTyped
  BY DEF BenchInv
<1>1. ASSUME UNCHANGED benchVars, Next \/ Tick \/ UNCHANGED vars
      PROVE  BenchInv'
  <2>0. now \in Nat /\ now' \in Nat /\ now <= now'
    BY <1>1, TimeForward
  <2>1. BenchTyped' /\ AllDone' = AllDone /\ ExitCode' = ExitCode
    <3>1. \A r \in Sent : start'[r] <= now'
      BY <1>0, <1>1, <2>0, GatewayAssumption DEF BenchTyped, benchVars
    <3> QED
      BY <1>0, <1>1, <3>1 DEF BenchTyped, benchVars, AllDone, ExitCode, ErrorCount, Total,
         SuccessCount, Successes
  <2>2. ASSUME NEW s \in samples, s.success PROVE answer'[s.index] = "ok"
    <3>1. answer[s.index] = "ok" /\ s.index \in Requests
      BY <1>0, <2>2, BenchmarkAssumption DEF BenchInv, BenchTyped
    <3> QED
      BY <1>1, <3>1, AnswersStay
  <2>3. client' = client /\ samples' = samples /\ exitCode' = exitCode
    BY <1>1 DEF benchVars
  <2> QED
    BY <2>1, <2>2, <2>3 DEF BenchInv
<1>2. ASSUME NEW r \in Sent, Call(r) PROVE BenchInv'
  <2>1. /\ client[r] = "spawned" /\ client' = [client EXCEPT ![r] = "calling"]
        /\ start' = [start EXCEPT ![r] = now]
        /\ UNCHANGED <<answer, now, samples, exitCode>>
    BY <1>2 DEF Call, vars
  <2>2. BenchTyped'
    <3>1. now \in 0 .. MaxTime /\ MaxTime \in Nat
      BY GatewayAssumption DEF RouteInv, Typed
    <3>2. start' \in [Sent -> 0 .. MaxTime] /\ \A q \in Sent : start'[q] <= now'
      BY <1>0, <2>1, <3>1 DEF BenchTyped
    <3> QED
      BY <1>0, <2>1, <3>2 DEF BenchTyped
  <2>3. \A q \in Sent : client'[q] = "finished" <=> client[q] = "finished"
    BY <1>0, <2>1 DEF BenchTyped
  <2>4. exitCode = -1
    BY <2>1 DEF BenchInv, AllDone
  <2> QED
    BY <2>1, <2>2, <2>3, <2>4 DEF BenchInv
<1>3. ASSUME NEW r \in Sent, Answered(r) PROVE BenchInv'
  <2>1. PICK ok \in Succeeds(answer[r]) : Record(r, ok)
    BY <1>3 DEF Answered
  <2>2. ok \in BOOLEAN /\ (ok => answer[r] = "ok")
    BY <2>1 DEF Succeeds
  <2> QED
    BY <2>1, <2>2, RecordKeeps
<1>4. ASSUME NEW r \in Sent, Unanswered(r) PROVE BenchInv'
  BY <1>4, RecordKeeps DEF Unanswered
<1>5. CASE RunReturns
  <2>1. AllDone /\ exitCode' = ExitCode /\ UNCHANGED <<answer, now, client, start, samples>>
    BY <1>5 DEF RunReturns, vars
  <2>2. AllDone' /\ ExitCode' = ExitCode
    BY <2>1 DEF AllDone, ExitCode, ErrorCount, Total, SuccessCount, Successes
  <2>3. ExitCode \in {0, 1}
    BY DEF ExitCode
  <2>4. BenchTyped'
    BY <1>0, <2>1, <2>3 DEF BenchTyped
  <2> QED
    BY <2>1, <2>2, <2>4 DEF BenchInv
<1>6. CASE Served \/ TimePasses \/ UNCHANGED allVars
  BY <1>1, <1>6 DEF Served, TimePasses, allVars
<1> QED
  BY <1>2, <1>3, <1>4, <1>5, <1>6 DEF BenchNext

LEMMA BenchInductive == BenchSpec => [](GatewayInv /\ BenchInv)
<1>1. BenchInit => GatewayInv /\ BenchInv
  BY RouteInit, LimitInit, BenchStart DEF BenchInit, GatewayInv
<1>2. GatewayInv /\ BenchInv /\ [BenchNext]_allVars => GatewayInv' /\ BenchInv'
  <2> SUFFICES ASSUME GatewayInv, BenchInv, [BenchNext]_allVars
               PROVE  GatewayInv' /\ BenchInv'
    OBVIOUS
  <2>1. Next \/ Tick \/ UNCHANGED vars
    BY DEF BenchNext, Served, TimePasses, Call, Answered, Unanswered, Record, RunReturns, allVars
  <2>2. GatewayInv'
    BY <2>1, RouteStep, LimitStep DEF GatewayInv
  <2> QED
    BY <2>2, BenchStep DEF GatewayInv
<1> QED
  BY <1>1, <1>2, PTL DEF BenchSpec

\* The type invariant of the gateway while time passes; no bucket holds more
\* than its burst.
THEOREM GatewayTypeHolds == BenchSpec => []GatewayTypeOK
<1>1. GatewayInv => GatewayTypeOK
  <2> SUFFICES ASSUME GatewayInv PROVE GatewayTypeOK
    OBVIOUS
  <2>1. \A m \in Models : limiters[m] # 0 => buckets[limiters[m]].tokens <= Burst(m)
    BY DEF GatewayInv, LimitInv, BucketOK
  <2> QED
    BY <2>1 DEF GatewayInv, RouteInv, LimitInv, LimitTyped, Typed, Stages, Handling, GatewayTypeOK
<1> QED
  BY <1>1, BenchInductive, PTL

\* The limit of a model holds for all its requests together, whoever creates
\* the bucket and however the refills fall.
THEOREM RateHolds == BenchSpec => []RateRespected
<1>1. GatewayInv => RateRespected
  <2> SUFFICES ASSUME GatewayInv, NEW m \in Models
               PROVE  allowed[m] * Grain <= Rate(m) * Grain + Rate(m) * now
    BY DEF RateRespected
  <2>0. BucketOK(m) /\ LimitTyped /\ Typed
    BY DEF GatewayInv, LimitInv, RouteInv
  <2>1. Rate(m) \in Nat /\ Grain \in Nat /\ now \in Nat /\ allowed[m] \in Nat
    BY <2>0, RateType, GatewayAssumption DEF Typed, LimitTyped
  <2>2. Rate(m) * Grain \in Nat /\ Rate(m) * now \in Nat /\ allowed[m] * Grain \in Nat
    BY <2>1
  <2>3. CASE limiters[m] = 0
    <3>1. allowed[m] * Grain = 0
      BY <2>0, <2>1, <2>3 DEF BucketOK
    <3> QED
      BY <2>2, <3>1
  <2>4. CASE limiters[m] # 0
    <3> DEFINE b == buckets[limiters[m]]
    <3>1. limiters[m] \in 1 .. Len(buckets)
      BY <2>0, <2>4 DEF LimitTyped
    <3>2. b \in [tokens : Nat, lastRefill : 0 .. MaxTime]
      BY <2>0, <3>1, BucketType
    <3>3. b.tokens \in Nat /\ now - b.lastRefill \in Nat
      <4>1. b.tokens \in Nat /\ b.lastRefill \in Nat
        BY <3>2, GatewayAssumption
      <4>2. b.lastRefill <= now
        BY <2>0, <2>4 DEF BucketOK
      <4> HIDE DEF b
      <4> QED
        BY <2>1, <4>1, <4>2
    <3>4. allowed[m] * Grain + b.tokens + (now - b.lastRefill) * Rate(m)
            <= Rate(m) * Grain + Rate(m) * now
      BY <2>0, <2>4 DEF BucketOK
    <3> HIDE DEF b
    <3>5. (now - b.lastRefill) * Rate(m) \in Nat
      BY <2>1, <3>3
    <3> QED
      BY <2>2, <3>3, <3>4, <3>5
  <2> QED
    BY <2>3, <2>4
<1> QED
  BY <1>1, BenchInductive, PTL

\* A benchmark that has returned has one sample of every request, and says 0
\* only when every one was answered by a live backend.
THEOREM SummaryHolds == BenchSpec => []SummaryTruthful
<1>1. BenchInv => SummaryTruthful
  <2> SUFFICES ASSUME BenchInv, exitCode # -1
               PROVE  /\ {s.index : s \in samples} = Sent
                      /\ Total = Cardinality(Sent)
                      /\ \A s \in Successes : answer[s.index] = "ok"
                      /\ exitCode = 0 => \A r \in Sent : answer[r] = "ok"
    BY DEF SummaryTruthful
  <2>0. /\ AllDone /\ exitCode = ExitCode
        /\ \A s, t \in samples : s.index = t.index => s = t
        /\ \A s \in samples : s.index \in Sent
        /\ \A s \in Successes : answer[s.index] = "ok"
    BY DEF BenchInv, BenchTyped, Successes
  <2>1. \A r \in Sent : \E s \in samples : s.index = r
    BY <2>0 DEF BenchInv, AllDone
  <2>2. {s.index : s \in samples} = Sent
    BY <2>0, <2>1
  <2> DEFINE f == [s \in samples |-> s.index]
  <2>3. f \in Injection(samples, Sent) /\ f \in Surjection(samples, Sent)
    BY <2>0, <2>1 DEF Injection, IsInjective, Surjection
  <2>4. IsFiniteSet(samples) /\ Cardinality(samples) = Cardinality(Sent)
    <3> HIDE DEF f
    <3> QED
      BY <2>3, FS_Injection, BenchmarkAssumption
  <2>5. ASSUME exitCode = 0, NEW r \in Sent PROVE answer[r] = "ok"
    <3>1. /\ Successes \in SUBSET samples
          /\ Cardinality(Successes) <= Cardinality(samples)
          /\ Cardinality(samples) = Cardinality(Successes) => samples = Successes
          /\ Cardinality(samples) \in Nat /\ Cardinality(Successes) \in Nat
      <4>1. Successes \in SUBSET samples
        BY DEF Successes
      <4>2. IsFiniteSet(Successes)
        BY <2>4, <4>1, FS_Subset
      <4> QED
        BY <2>4, <4>1, <4>2, FS_Subset, FS_CardinalityType
    <3>2. Cardinality(samples) - Cardinality(Successes) <= 0
      BY <2>0, <2>5, <3>1 DEF ExitCode, ErrorCount, Total, SuccessCount
    <3>3. samples = Successes
      BY <3>1, <3>2
    <3> QED
      BY <2>0, <2>1, <3>3
  <2> QED
    BY <2>0, <2>2, <2>4, <2>5 DEF Total
<1> QED
  BY <1>1, BenchInductive, PTL
-----------------------------------------------------------------------------
(* The percentiles.                                                        *)

\* A finite set of samples can be sorted: the least first, then the others.
LEMMA Sortable ==
  ASSUME NEW U, \A s \in U : s.latency \in Nat
  PROVE  \A S \in SUBSET U : IsFiniteSet(S) =>
            \E f \in [1 .. Cardinality(S) -> S] : Ascending(f, Cardinality(S))
<1> DEFINE P(n) == \A S \in SUBSET U : (IsFiniteSet(S) /\ Cardinality(S) = n) =>
                      \E f \in [1 .. n -> S] : Ascending(f, n)
           T == {n \in Nat : P(n)}
<1>1. 0 \in T
  <2> SUFFICES ASSUME NEW S \in SUBSET U
               PROVE  \E f \in [1 .. 0 -> S] : Ascending(f, 0)
    OBVIOUS
  <2> DEFINE f == [i \in 1 .. 0 |-> i]
  <2>1. f \in [1 .. 0 -> S] /\ Ascending(f, 0)
    BY DEF Ascending
  <2> QED
    BY <2>1
<1>2. ASSUME NEW n \in Nat, n \in T PROVE n + 1 \in T
  <2> SUFFICES ASSUME NEW S \in SUBSET U, IsFiniteSet(S), Cardinality(S) = n + 1
               PROVE  \E f \in [1 .. n + 1 -> S] : Ascending(f, n + 1)
    OBVIOUS
  <2> DEFINE L == {s.latency : s \in S}
  <2>1. S # {}
    BY FS_EmptySet
  <2>2. L \in SUBSET Nat /\ L # {}
    BY <2>1
  <2>3. PICK l \in L : \A k \in L : l <= k
    <3> HIDE DEF L
    <3> QED
      BY <2>2, NatMin
  <2>4. PICK x \in S : \A s \in S : x.latency <= s.latency
    BY <2>3
  <2> DEFINE R == S \ {x}
  <2>5. IsFiniteSet(R) /\ Cardinality(R) = n /\ R \in SUBSET U
    <3>1. IsFiniteSet(R) /\ Cardinality(R) = Cardinality(S) - 1
      BY FS_RemoveElement, Zenon
    <3> QED
      BY <3>1
  <2>6. PICK g \in [1 .. n -> R] : Ascending(g, n)
    <3> HIDE DEF R
    <3> QED
      BY <1>2, <2>5
  <2> DEFINE f == [i \in 1 .. n + 1 |-> IF i = 1 THEN x ELSE g[i - 1]]
  <2>7. \A i \in 1 .. n + 1 : i # 1 => i - 1 \in 1 .. n
    OBVIOUS
  <2>8. f \in [1 .. n + 1 -> S]
    BY <2>6, <2>7
  <2>9. ASSUME NEW i \in 1 .. n + 1, NEW j \in 1 .. n + 1, i < j
        PROVE  f[i] # f[j] /\ f[i].latency <= f[j].latency
    <3>1. j - 1 \in 1 .. n /\ f[j] = g[j - 1] /\ g[j - 1] \in R
      BY <2>6, <2>9
    <3>2. CASE i = 1
      BY <2>4, <3>1, <3>2
    <3>3. CASE i # 1
      <4>1. i - 1 \in 1 .. n /\ f[i] = g[i - 1] /\ i - 1 < j - 1
        BY <2>9, <3>3
      <4> HIDE DEF f
      <4> QED
        BY <2>6, <3>1, <4>1 DEF Ascending
    <3> QED
      BY <3>2, <3>3
  <2>10. Ascending(f, n + 1)
    <3> HIDE DEF f
    <3> QED
      BY <2>9 DEF Ascending
  <2> QED
    BY <2>8, <2>10
<1>3. Nat \subseteq T
  <2> HIDE DEF T
  <2> QED
    BY <1>1, <1>2, Induct
<1> QED
  BY <1>3, FS_CardinalityType

\* Latencies is the list that the code sorts: every success, once, in order.
LEMMA SortedLatencies ==
  ASSUME BenchInv, exitCode # -1
  PROVE  /\ IsFiniteSet(Successes)
         /\ SuccessCount \in Nat
         /\ Latencies \in [1 .. SuccessCount -> Successes]
         /\ \A s \in Successes : \E i \in 1 .. SuccessCount : Latencies[i] = s
         /\ \A s \in Successes : s.latency \in Nat
         /\ \A i, j \in 1 .. SuccessCount :
               i <= j => Latencies[i].latency <= Latencies[j].latency
<1>1. \A s \in Successes : s.latency \in Nat
  BY DEF BenchInv, BenchTyped, Successes
<1>2. IsFiniteSet(Successes)
  <2> DEFINE f == [s \in Successes |-> s.index]
  <2>1. f \in Injection(Successes, Sent)
    BY DEF BenchInv, BenchTyped, Successes, Injection, IsInjective
  <2> HIDE DEF f
  <2> QED
    BY <2>1, FS_Injection, BenchmarkAssumption
<1>3. SuccessCount \in Nat
  BY <1>2, FS_CardinalityType DEF SuccessCount
<1>4. \E f \in [1 .. SuccessCount -> Successes] : Ascending(f, SuccessCount)
  BY <1>1, <1>2, Sortable DEF SuccessCount
<1>5. /\ Latencies \in [1 .. SuccessCount -> Successes]
      /\ Ascending(Latencies, SuccessCount)
  BY <1>4 DEF Latencies
<1>6. \A s \in Successes : \E i \in 1 .. SuccessCount : Latencies[i] = s
  <2>1. Latencies \in Injection(1 .. SuccessCount, Successes)
    BY <1>3, <1>5 DEF Ascending, Injection, IsInjective
  <2>2. Cardinality(1 .. SuccessCount) = Cardinality(Successes)
    BY <1>3, FS_Interval DEF SuccessCount
  <2>3. Latencies \in Surjection(1 .. SuccessCount, Successes)
    BY <1>2, <2>1, <2>2, FS_Injection
  <2> QED
    BY <2>3 DEF Surjection
<1>7. ASSUME NEW i \in 1 .. SuccessCount, NEW j \in 1 .. SuccessCount, i <= j
      PROVE  Latencies[i].latency <= Latencies[j].latency
  <2>1. CASE i = j
    BY <1>1, <1>5, <2>1
  <2>2. CASE i < j
    BY <1>5, <2>2 DEF Ascending
  <2> QED
    BY <1>3, <1>7, <2>1, <2>2
<1> QED
  BY <1>1, <1>2, <1>3, <1>5, <1>6, <1>7

\* A weighted mean lies between its values and follows the weight.
Mean(a, b, w) == a * (100 - w) + b * w

LEMMA MeanBetween ==
  ASSUME NEW a \in Nat, NEW b \in Nat, a <= b, NEW w \in 0 .. 99
  PROVE  Mean(a, b, w) \in Nat /\ 100 * a <= Mean(a, b, w) /\ Mean(a, b, w) <= 100 * b
<1>1. PICK d \in Nat : b = a + d
  <2>1. b - a \in Nat /\ b = a + (b - a)
    OBVIOUS
  <2> QED
    BY <2>1
<1>2. PICK v \in Nat : 100 = w + v
  <2>1. 100 - w \in Nat /\ 100 = w + (100 - w)
    OBVIOUS
  <2> QED
    BY <2>1
<1>3. d * w \in Nat /\ d * v \in Nat
  BY <1>1, <1>2
<1>4. Mean(a, b, w) = 100 * a + d * w
  BY <1>1 DEF Mean
<1>5. d * w + d * v = 100 * d
  BY <1>2
<1> QED
  BY <1>1, <1>3, <1>4, <1>5

LEMMA MeanFollows ==
  ASSUME NEW a \in Nat, NEW b \in Nat, a <= b, NEW w \in 0 .. 99, NEW u \in 0 .. 99, w <= u
  PROVE  Mean(a, b, w) <= Mean(a, b, u)
<1>1. PICK d \in Nat : b = a + d
  <2>1. b - a \in Nat /\ b = a + (b - a)
    OBVIOUS
  <2> QED
    BY <2>1
<1>2. PICK e \in Nat : u = w + e
  <2>1. u - w \in Nat /\ u = w + (u - w)
    OBVIOUS
  <2> QED
    BY <2>1
<1>3. d * w \in Nat /\ d * e \in Nat
  BY <1>1, <1>2
<1>4. Mean(a, b, w) = 100 * a + d * w /\ Mean(a, b, u) = 100 * a + d * u
  BY <1>1 DEF Mean
<1>5. d * u = d * w + d * e
  BY <1>2
<1> QED
  BY <1>3, <1>4, <1>5

\* The neighbours of a place in the list, in hundredths.
Lower(k) == k \div 100
Frac(k) == k % 100
Upper(k) == IF Frac(k) = 0 THEN Lower(k) ELSE Lower(k) + 1

LEMMA Neighbours ==
  ASSUME NEW n \in Nat, n > 0, NEW k \in 0 .. 100 * (n - 1)
  PROVE  /\ Lower(k) \in Nat /\ Upper(k) \in Nat /\ Frac(k) \in 0 .. 99
         /\ k = 100 * Lower(k) + Frac(k)
         /\ Lower(k) <= Upper(k) /\ Upper(k) <= n - 1
         /\ 100 * Upper(k) <= k + 99
<1>1. k \in Nat
  OBVIOUS
<1>2. Lower(k) \in Nat /\ Frac(k) \in 0 .. 99 /\ k = 100 * Lower(k) + Frac(k)
  BY <1>1 DEF Lower, Frac
<1>3. Frac(k) # 0 => Lower(k) + 1 <= n - 1
  BY <1>2
<1>4. CASE Frac(k) = 0
  BY <1>2, <1>4 DEF Upper
<1>5. CASE Frac(k) # 0
  BY <1>2, <1>3, <1>5 DEF Upper
<1> QED
  BY <1>4, <1>5

Place(k) == Mean(Latencies[Lower(k) + 1].latency, Latencies[Upper(k) + 1].latency, Frac(k))

LEMMA PercentileIsPlace ==
  ASSUME NEW p, SuccessCount # 0
  PROVE  Percentile(p) = Place(p * (SuccessCount - 1))
  BY DEF Percentile, Place, Mean, Lower, Upper, Frac

\* The value at a place lies between those of its neighbours, and the values
\* of later places are not less.
LEMMA PlaceBetween ==
  ASSUME BenchInv, exitCode # -1, SuccessCount > 0,
         NEW k \in 0 .. 100 * (SuccessCount - 1)
  PROVE  /\ Lower(k) + 1 \in 1 .. SuccessCount
         /\ Upper(k) + 1 \in 1 .. SuccessCount
         /\ Latencies[Lower(k) + 1].latency \in Nat
         /\ Latencies[Upper(k) + 1].latency \in Nat
         /\ Latencies[Lower(k) + 1].latency <= Latencies[Upper(k) + 1].latency
         /\ Place(k) \in Nat
         /\ 100 * Latencies[Lower(k) + 1].latency <= Place(k)
         /\ Place(k) <= 100 * Latencies[Upper(k) + 1].latency
<1>0. SuccessCount \in Nat
  BY SortedLatencies
<1>1. /\ Lower(k) + 1 \in 1 .. SuccessCount /\ Upper(k) + 1 \in 1 .. SuccessCount
      /\ Lower(k) + 1 <= Upper(k) + 1 /\ Frac(k) \in 0 .. 99
  <2>1. /\ Lower(k) \in Nat /\ Upper(k) \in Nat /\ Frac(k) \in 0 .. 99
        /\ Lower(k) <= Upper(k) /\ Upper(k) <= SuccessCount - 1
    BY <1>0, Neighbours, Zenon
  <2> QED
    BY <1>0, <2>1
<1>2. /\ Latencies[Lower(k) + 1].latency \in Nat
      /\ Latencies[Upper(k) + 1].latency \in Nat
      /\ Latencies[Lower(k) + 1].latency <= Latencies[Upper(k) + 1].latency
  BY <1>1, SortedLatencies
<1> QED
  BY <1>1, <1>2, MeanBetween DEF Place

LEMMA PlacesInOrder ==
  ASSUME BenchInv, exitCode # -1, SuccessCount > 0,
         NEW k \in 0 .. 100 * (SuccessCount - 1),
         NEW m \in 0 .. 100 * (SuccessCount - 1), k <= m
  PROVE  Place(k) <= Place(m)
<1>0. SuccessCount \in Nat
  BY SortedLatencies
<1>1. /\ Lower(k) \in Nat /\ Upper(k) \in Nat /\ Frac(k) \in 0 .. 99
      /\ Lower(m) \in Nat /\ Upper(m) \in Nat /\ Frac(m) \in 0 .. 99
      /\ k = 100 * Lower(k) + Frac(k) /\ m = 100 * Lower(m) + Frac(m)
      /\ 100 * Upper(k) <= k + 99
  <2>1. SuccessCount \in Nat /\ SuccessCount > 0
    BY <1>0
  <2>2. /\ Lower(k) \in Nat /\ Upper(k) \in Nat /\ Frac(k) \in 0 .. 99
        /\ k = 100 * Lower(k) + Frac(k) /\ 100 * Upper(k) <= k + 99
    BY <2>1, Neighbours, Zenon
  <2>3. /\ Lower(m) \in Nat /\ Upper(m) \in Nat /\ Frac(m) \in 0 .. 99
        /\ m = 100 * Lower(m) + Frac(m)
    BY <2>1, Neighbours, Zenon
  <2> QED
    BY <2>2, <2>3
<1>2. /\ Upper(k) + 1 \in 1 .. SuccessCount /\ Lower(m) + 1 \in 1 .. SuccessCount
      /\ Latencies[Upper(k) + 1].latency \in Nat /\ Latencies[Lower(m) + 1].latency \in Nat
      /\ Place(k) \in Nat /\ Place(m) \in Nat
      /\ Place(k) <= 100 * Latencies[Upper(k) + 1].latency
      /\ 100 * Latencies[Lower(m) + 1].latency <= Place(m)
  BY PlaceBetween
<1>3. CASE Upper(k) <= Lower(m)
  <2>1. Latencies[Upper(k) + 1].latency <= Latencies[Lower(m) + 1].latency
    <3>1. Upper(k) + 1 <= Lower(m) + 1
      BY <1>1, <1>3
    <3> QED
      BY <1>2, <3>1, SortedLatencies, Zenon
  <2> QED
    BY <1>2, <2>1
<1>4. CASE Upper(k) > Lower(m)
  <2>1. Lower(k) = Lower(m) /\ Frac(k) <= Frac(m) /\ Frac(k) # 0 /\ Frac(m) # 0
    <3>1. Upper(k) = IF Frac(k) = 0 THEN Lower(k) ELSE Lower(k) + 1
      BY DEF Upper
    <3> QED
      BY <1>1, <1>4, <3>1
  <2>2. Upper(k) = Upper(m)
    BY <2>1 DEF Upper
  <2> QED
    BY <1>1, <2>1, <2>2, PlaceBetween, MeanFollows DEF Place
<1> QED
  BY <1>1, <1>3, <1>4

\* The samples at the places from i to j are at most as many as the places.
LEMMA SamplesAt ==
  ASSUME NEW n \in Nat, NEW f, NEW i \in Int, NEW j \in Int, i <= j + 1,
         NEW S, \A s \in S : \E k \in i .. j : f[k] = s
  PROVE  Cardinality(S) \in Nat /\ Cardinality(S) <= j - i + 1
<1> DEFINE g == [k \in i .. j |-> f[k]]
           T == {f[k] : k \in i .. j}
<1>1. g \in Surjection(i .. j, T)
  BY DEF Surjection
<1>2. IsFiniteSet(i .. j) /\ Cardinality(i .. j) = j - i + 1
  BY FS_Interval
<1>3. S \in SUBSET T
  OBVIOUS
<1> HIDE DEF g, T
<1>4. IsFiniteSet(T) /\ Cardinality(T) <= j - i + 1
  BY <1>1, <1>2, FS_Surjection
<1>5. IsFiniteSet(S) /\ Cardinality(S) <= Cardinality(T)
  BY <1>3, <1>4, FS_Subset
<1>6. Cardinality(S) \in Nat /\ Cardinality(T) \in Nat
  BY <1>4, <1>5, FS_CardinalityType
<1> QED
  BY <1>4, <1>5, <1>6

LEMMA PlaceSplits ==
  ASSUME BenchInv, exitCode # -1, SuccessCount > 0,
         NEW k \in 0 .. 100 * (SuccessCount - 1)
  PROVE  /\ 100 * Cardinality({s \in Successes : 100 * s.latency < Place(k)}) <= k + 99
         /\ 100 * Cardinality({s \in Successes : 100 * s.latency > Place(k)})
               <= 100 * (SuccessCount - 1) - k + 99
<1> DEFINE Below == {s \in Successes : 100 * s.latency < Place(k)}
           Above == {s \in Successes : 100 * s.latency > Place(k)}
           n == SuccessCount
<1>0. /\ n \in Nat
      /\ \A s \in Successes : \E i \in 1 .. n : Latencies[i] = s
      /\ \A s \in Successes : s.latency \in Nat
      /\ \A i, j \in 1 .. n : i <= j => Latencies[i].latency <= Latencies[j].latency
  BY SortedLatencies
<1>1. /\ Lower(k) \in Nat /\ Upper(k) \in Nat /\ Frac(k) \in 0 .. 99
      /\ k = 100 * Lower(k) + Frac(k) /\ 100 * Upper(k) <= k + 99
      /\ Upper(k) <= n - 1
  BY <1>0, Neighbours
<1>2. /\ Lower(k) + 1 \in 1 .. n /\ Upper(k) + 1 \in 1 .. n
      /\ Latencies[Lower(k) + 1].latency \in Nat
      /\ Latencies[Upper(k) + 1].latency \in Nat
      /\ Place(k) \in Nat
      /\ 100 * Latencies[Lower(k) + 1].latency <= Place(k)
      /\ Place(k) <= 100 * Latencies[Upper(k) + 1].latency
  BY PlaceBetween
<1>3. ASSUME NEW s \in Below PROVE \E i \in 1 .. Upper(k) : Latencies[i] = s
  <2>1. PICK i \in 1 .. n : Latencies[i] = s
    BY <1>0
  <2>2. s.latency \in Nat /\ 100 * s.latency < Place(k)
    BY <1>0
  <2>3. s.latency < Latencies[Upper(k) + 1].latency
    BY <1>2, <2>2
  <2>4. ~(Upper(k) + 1 <= i)
    BY <1>0, <1>2, <2>1, <2>2, <2>3
  <2>5. i \in 1 .. Upper(k)
    BY <1>0, <1>1, <2>4
  <2> QED
    BY <2>1, <2>5
<1>4. ASSUME NEW s \in Above PROVE \E i \in Lower(k) + 2 .. n : Latencies[i] = s
  <2>1. PICK i \in 1 .. n : Latencies[i] = s
    BY <1>0
  <2>2. s.latency \in Nat /\ 100 * s.latency > Place(k)
    BY <1>0
  <2>3. s.latency > Latencies[Lower(k) + 1].latency
    BY <1>2, <2>2
  <2>4. ~(i <= Lower(k) + 1)
    BY <1>0, <1>2, <2>1, <2>2, <2>3
  <2>5. i \in Lower(k) + 2 .. n
    BY <1>0, <1>1, <2>4
  <2> QED
    BY <2>1, <2>5
<1> HIDE DEF Below, Above, n
<1>5. Cardinality(Below) \in Nat /\ Cardinality(Below) <= Upper(k)
  <2>1. Upper(k) \in Int /\ 1 \in Int /\ 1 <= Upper(k) + 1
    BY <1>1
  <2>2. Cardinality(Below) \in Nat /\ Cardinality(Below) <= Upper(k) - 1 + 1
    BY <1>0, <1>3, <2>1, SamplesAt
  <2> QED
    BY <1>1, <2>2
<1>6. Cardinality(Above) \in Nat /\ Cardinality(Above) <= n - Lower(k) - 1
  <2>1. Lower(k) + 2 \in Int /\ n \in Int /\ Lower(k) + 2 <= n + 1
    BY <1>0, <1>1, <1>2
  <2>2. Cardinality(Above) \in Nat /\ Cardinality(Above) <= n - (Lower(k) + 2) + 1
    BY <1>0, <1>4, <2>1, SamplesAt
  <2> QED
    BY <1>0, <1>1, <2>2
<1>7. /\ 100 * Cardinality(Below) <= k + 99
      /\ 100 * Cardinality(Above) <= 100 * (n - 1) - k + 99
  <2> DEFINE a == Cardinality(Above)
             b == Cardinality(Below)
             l == Lower(k)
             u == Upper(k)
             w == Frac(k)
  <2>1. /\ a \in Nat /\ a <= n - l - 1 /\ b \in Nat /\ b <= u
        /\ l \in Nat /\ u \in Nat /\ w \in 0 .. 99 /\ n \in Nat
        /\ k = 100 * l + w /\ 100 * u <= k + 99
    BY <1>0, <1>1, <1>5, <1>6
  <2> HIDE DEF a, b, l, u, w
  <2>2. 100 * b <= k + 99 /\ 100 * a <= 100 * (n - 1) - k + 99
    BY <2>1
  <2> QED
    BY <2>2 DEF a, b
<1> QED
  BY <1>7 DEF Below, Above, n

\* The summary's percentiles, for any number of requests and any latencies.
THEOREM PercentilesHold == BenchSpec => []PercentilesRight
<1>1. BenchInv => PercentilesRight
  <2> SUFFICES ASSUME BenchInv, exitCode # -1, SuccessCount > 0
               PROVE  PercentilesRight
    BY DEF PercentilesRight
  <2>0. SuccessCount \in Nat
    BY SortedLatencies
  <2> DEFINE K(p) == p * (SuccessCount - 1)
  <2>1. /\ K(50) \in 0 .. 100 * (SuccessCount - 1)
        /\ K(95) \in 0 .. 100 * (SuccessCount - 1)
        /\ K(99) \in 0 .. 100 * (SuccessCount - 1)
        /\ K(50) <= K(95) /\ K(95) <= K(99)
    BY <2>0
  <2>2. \A p : Percentile(p) = Place(K(p))
    BY <2>0, PercentileIsPlace
  <2>3. \A p \in {50, 95, 99} :
          100 * (SuccessCount - 1) - K(p) = (100 - p) * (SuccessCount - 1)
    BY <2>0
  <2> HIDE DEF K
  <2>4. Percentile(50) <= Percentile(95) /\ Percentile(95) <= Percentile(99)
    BY <2>1, <2>2, PlacesInOrder
  <2>5. ASSUME NEW p \in {50, 95, 99}
        PROVE  /\ 100 * Cardinality({s \in Successes : 100 * s.latency < Percentile(p)})
                     <= p * (SuccessCount - 1) + 99
               /\ 100 * Cardinality({s \in Successes : 100 * s.latency > Percentile(p)})
                     <= (100 - p) * (SuccessCount - 1) + 99
    <3>1. K(p) \in 0 .. 100 * (SuccessCount - 1)
      BY <2>1
    <3>2. /\ 100 * Cardinality({s \in Successes : 100 * s.latency < Place(K(p))}) <= K(p) + 99
          /\ 100 * Cardinality({s \in Successes : 100 * s.latency > Place(K(p))})
                <= 100 * (SuccessCount - 1) - K(p) + 99
      BY <3>1, PlaceSplits
    <3>3. K(p) = p * (SuccessCount - 1)
      BY DEF K
    <3> QED
      BY <2>2, <2>3, <3>2, <3>3
  <2> QED
    BY <2>4, <2>5 DEF PercentilesRight
<1> QED
  BY <1>1, BenchInductive, PTL
=============================================================================
