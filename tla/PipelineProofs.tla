--------------------------- MODULE PipelineProofs ---------------------------
(***************************************************************************)
(* Machine-checked proofs about Pipeline, for any payloads, hash, number   *)
(* of shards and workers and queue sizes.                                  *)
(***************************************************************************)
EXTENDS Pipeline, SequenceTheorems, Induction

\* Types, except for the depths and the bound on the channels, which no other
\* part of the invariant needs.
Typed ==
    /\ queue \in [Lanes -> Seq(Payloads)]
    /\ closed \subseteq Lanes
    /\ open \subseteq Signals
    /\ manager \in {"new", "running", "closing", "hooks", "exporters", "done"}
    /\ hooked \in BOOLEAN
    /\ spc \in [Payloads -> {"new", "total", "gauge", "accepted", "dropped"}]
    /\ wpc \in [WorkerIds -> {"none", "receive", "total", "gauge", "process",
                              "export", "exited"}]
    /\ held \in [WorkerIds -> Payloads \cup {NoPayload}]
    /\ fate \in [Payloads -> Fates \cup {"none"}]

\* A worker holds a payload exactly between the channel and the settlement.
HeldAtWork ==
    \A w \in WorkerIds :
        held[w] # NoPayload <=> wpc[w] \in {"total", "gauge", "process", "export"}

\* What is in the pipeline, or has left it, was accepted.
OnlyAccepted ==
    /\ \A l \in Lanes : \A i \in 1 .. Len(queue[l]) : Accepted(queue[l][i])
    /\ \A w \in WorkerIds : held[w] # NoPayload => Accepted(held[w])
    /\ \A p \in Payloads : fate[p] # "none" => Accepted(p)

\* What was accepted is in the pipeline until it has met its fate.
NothingLost ==
    \A p \in Payloads : (Accepted(p) /\ fate[p] = "none") =>
        \/ \E i \in 1 .. Len(queue[LaneOf(p)]) : queue[LaneOf(p)][i] = p
        \/ \E w \in WorkerIds : held[w] = p

\* Start launches all workers at once; they end when their channel is closed and
\* drained, and the stages after wg.Wait find all that were launched ended.
ShutdownOrder ==
    /\ \A w \in WorkerIds :
          wpc[w] = "exited" => w[1] \in closed /\ queue[w[1]] = << >>
    /\ \A v, w \in WorkerIds : wpc[v] = "none" => wpc[w] = "none"
    /\ manager = "new" => \A w \in WorkerIds : wpc[w] = "none"
    /\ manager \in {"hooks", "exporters", "done"} =>
          closed = Lanes /\ WorkersDone
    /\ hooked <=> manager \in {"exporters", "done"}
    /\ open # Signals => hooked

\* Where the payloads are, and what the workers and the manager do.
Places == OnlyAccepted /\ NothingLost /\ OnePlace
Control == HeldAtWork /\ ShutdownOrder

PipelineInv == Typed /\ Control /\ Places
-----------------------------------------------------------------------------
(* Lanes and channels.                                                     *)

LEMMA LaneTyped == \A p \in Payloads : LaneOf(p) \in Lanes
<1> SUFFICES ASSUME NEW p \in Payloads PROVE LaneOf(p) \in Lanes
  OBVIOUS
<1>1. SignalOf[p] \in Signals
  BY PipelineAssumption
<1>2. ShardIndex(p) \in Shards
  <2>1. CASE ShardCount <= 1 \/ ServiceOf[p] = NoService
    BY <2>1, PipelineAssumption DEF ShardIndex, Shards, AtLeastOne
  <2>2. CASE ~(ShardCount <= 1 \/ ServiceOf[p] = NoService)
    <3>1. Hash[ServiceOf[p]] \in Nat /\ ShardCount \in Nat /\ ShardCount > 1
      BY <2>2, PipelineAssumption
    <3>2. Hash[ServiceOf[p]] % ShardCount \in 0 .. ShardCount - 1
      BY <3>1
    <3> QED
      BY <2>2, <3>1, <3>2 DEF ShardIndex, Shards, AtLeastOne
  <2> QED
    BY <2>1, <2>2
<1> QED
  BY <1>1, <1>2 DEF LaneOf, Lanes

LEMMA WorkerTyped ==
  /\ \A w \in WorkerIds : w[1] \in Lanes
  /\ \A l \in Lanes : \E w \in WorkerIds : w[1] = l
<1>1. 1 \in 1 .. AtLeastOne(Workers)
  BY PipelineAssumption DEF AtLeastOne
<1>2. \A l \in Lanes : <<l, 1>> \in WorkerIds /\ <<l, 1>>[1] = l
  BY <1>1 DEF WorkerIds
<1> QED
  BY <1>2 DEF WorkerIds

LEMMA SomeWorker == \E w \in WorkerIds : TRUE
<1>1. <<"trace", 0>> \in Lanes
  BY PipelineAssumption DEF Lanes, Signals, Shards, AtLeastOne
<1> QED
  BY <1>1, WorkerTyped

LEMMA QueueTyped ==
  ASSUME Typed, NEW l \in Lanes
  PROVE  /\ queue[l] \in Seq(Payloads)
         /\ Len(queue[l]) \in Nat
         /\ DOMAIN queue[l] = 1 .. Len(queue[l])
         /\ \A i \in 1 .. Len(queue[l]) : queue[l][i] \in Payloads
  BY LenProperties, ElementOfSeq DEF Typed

\* A send and a receive, position by position.
LEMMA Sent ==
  ASSUME Typed, NEW l \in Lanes, NEW p \in Payloads,
         queue' = [queue EXCEPT ![l] = Append(@, p)]
  PROVE  /\ queue' \in [Lanes -> Seq(Payloads)]
         /\ \A m \in Lanes : m # l => queue'[m] = queue[m]
         /\ Len(queue'[l]) = Len(queue[l]) + 1
         /\ \A i \in 1 .. Len(queue[l]) : queue'[l][i] = queue[l][i]
         /\ queue'[l][Len(queue[l]) + 1] = p
<1>1. /\ queue'[l] = Append(queue[l], p)
      /\ \A m \in Lanes : m # l => queue'[m] = queue[m]
      /\ queue' \in [Lanes -> Seq(Payloads)]
  BY QueueTyped, AppendProperties DEF Typed
<1> QED
  BY <1>1, QueueTyped, AppendProperties

LEMMA Received ==
  ASSUME Typed, NEW l \in Lanes, queue[l] # << >>,
         queue' = [queue EXCEPT ![l] = Tail(@)]
  PROVE  /\ queue' \in [Lanes -> Seq(Payloads)]
         /\ \A m \in Lanes : m # l => queue'[m] = queue[m]
         /\ Len(queue[l]) \in Nat \ {0}
         /\ Len(queue'[l]) = Len(queue[l]) - 1
         /\ \A i \in 1 .. (Len(queue[l]) - 1) : queue'[l][i] = queue[l][i + 1]
         /\ Head(queue[l]) = queue[l][1]
         /\ Head(queue[l]) \in Payloads
<1>1. /\ queue'[l] = Tail(queue[l])
      /\ \A m \in Lanes : m # l => queue'[m] = queue[m]
      /\ queue' \in [Lanes -> Seq(Payloads)]
  BY QueueTyped, HeadTailProperties DEF Typed
<1>2. Len(queue[l]) \in Nat \ {0}
  BY QueueTyped, EmptySeq
<1> QED
  BY <1>1, <1>2, QueueTyped, HeadTailProperties
-----------------------------------------------------------------------------
(* Where the payloads are.                                                 *)

LEMMA PlacesFrame ==
  ASSUME Places, UNCHANGED <<queue, held, fate>>,
         \A p \in Payloads : Accepted(p)' = Accepted(p), Typed
  PROVE  Places'
<1>1. \A l \in Lanes : \A i \in 1 .. Len(queue[l]) : queue[l][i] \in Payloads
  BY QueueTyped
<1>2. \A w \in WorkerIds : held[w] # NoPayload => held[w] \in Payloads
  BY DEF Typed
<1>3. OnlyAccepted'
  BY <1>1, <1>2 DEF Places, OnlyAccepted
<1>4. NothingLost'
  BY DEF Places, NothingLost
<1>5. OnePlace'
  BY DEF Places, OnePlace
<1> QED
  BY <1>3, <1>4, <1>5 DEF Places

\* An accepted payload is new to the pipeline.
LEMMA PlacesSend ==
  ASSUME Typed, Places, NEW p \in Payloads, spc[p] = "new",
         queue' = [queue EXCEPT ![LaneOf(p)] = Append(@, p)],
         spc' = [spc EXCEPT ![p] = "total"],
         UNCHANGED <<held, fate>>
  PROVE  Places'
<1> DEFINE l == LaneOf(p)
           n == Len(queue[l])
<1>0. l \in Lanes
  BY LaneTyped
<1> HIDE DEF l
<1>1. /\ queue' \in [Lanes -> Seq(Payloads)]
      /\ \A m \in Lanes : m # l => queue'[m] = queue[m]
      /\ Len(queue'[l]) = n + 1
      /\ \A i \in 1 .. n : queue'[l][i] = queue[l][i]
      /\ queue'[l][n + 1] = p
      /\ n \in Nat
  BY <1>0, Sent, QueueTyped DEF l
<1>2. \A m \in Lanes : /\ DOMAIN queue[m] = 1 .. Len(queue[m])
                       /\ DOMAIN queue'[m] = 1 .. Len(queue'[m])
                       /\ Len(queue[m]) \in Nat
                       /\ \A i \in 1 .. Len(queue[m]) : queue[m][i] \in Payloads
  BY <1>1, QueueTyped, LenProperties
<1>3. ~Accepted(p) /\ \A q \in Payloads : Accepted(q)' <=> (Accepted(q) \/ q = p)
  BY DEF Accepted, Typed
<1>4. /\ fate[p] = "none"
      /\ \A w \in WorkerIds : held[w] # p
      /\ \A m \in Lanes : \A i \in 1 .. Len(queue[m]) : queue[m][i] # p
  BY <1>3, PipelineAssumption DEF Places, OnlyAccepted
<1> HIDE DEF n
<1>5. OnlyAccepted'
  <2>1. ASSUME NEW m \in Lanes, NEW i \in 1 .. Len(queue'[m])
        PROVE  spc'[queue'[m][i]] \in {"total", "gauge", "accepted"}
    <3>1. \/ queue'[m][i] = p
          \/ i \in 1 .. Len(queue[m]) /\ queue'[m][i] = queue[m][i]
      BY <1>1, <1>2, <2>1 DEF n
    <3> QED
      BY <1>2, <3>1 DEF Places, OnlyAccepted, Accepted, Typed
  <2>2. ASSUME NEW w \in WorkerIds, held'[w] # NoPayload
        PROVE  spc'[held'[w]] \in {"total", "gauge", "accepted"}
    BY <2>2 DEF Places, OnlyAccepted, Accepted, Typed
  <2>3. ASSUME NEW q \in Payloads, fate'[q] # "none" PROVE Accepted(q)'
    BY <1>3, <2>3 DEF Places, OnlyAccepted
  <2> QED
    BY <2>1, <2>2, <2>3 DEF OnlyAccepted, Accepted
<1>6. NothingLost'
  <2> SUFFICES ASSUME NEW q \in Payloads, Accepted(q)', fate'[q] = "none"
               PROVE  \/ \E i \in 1 .. Len(queue'[LaneOf(q)]) :
                            queue'[LaneOf(q)][i] = q
                      \/ \E w \in WorkerIds : held'[w] = q
    BY DEF NothingLost, LaneOf, ShardIndex
  <2>1. CASE q = p
    <3>1. n + 1 \in 1 .. Len(queue'[l])
      BY <1>1
    <3> QED
      BY <1>1, <2>1, <3>1 DEF l
  <2>2. CASE q # p
    <3>1. \/ \E i \in 1 .. Len(queue[LaneOf(q)]) : queue[LaneOf(q)][i] = q
          \/ \E w \in WorkerIds : held[w] = q
      BY <1>3, <2>2 DEF Places, NothingLost
    <3>2. LaneOf(q) \in Lanes
      BY LaneTyped
    <3> HIDE DEF LaneOf
    <3>3. \A i \in 1 .. Len(queue[LaneOf(q)]) :
            /\ i \in 1 .. Len(queue'[LaneOf(q)])
            /\ queue'[LaneOf(q)][i] = queue[LaneOf(q)][i]
      BY <1>1, <1>2, <3>2 DEF n
    <3> QED
      BY <3>1, <3>3
  <2> QED
    BY <2>1, <2>2
<1>7. OnePlace'
  <2>1. ASSUME NEW w \in WorkerIds, held'[w] # NoPayload
        PROVE  /\ LaneOf(held'[w]) = w[1]
               /\ fate'[held'[w]] = "none"
               /\ \A v \in WorkerIds : held'[v] = held'[w] => v = w
               /\ \A i \in DOMAIN queue'[w[1]] : queue'[w[1]][i] # held'[w]
    <3>1. w[1] \in Lanes
      BY WorkerTyped
    <3>2. /\ LaneOf(held[w]) = w[1]
          /\ fate[held[w]] = "none"
          /\ \A v \in WorkerIds : held[v] = held[w] => v = w
          /\ \A i \in DOMAIN queue[w[1]] : queue[w[1]][i] # held[w]
      BY <2>1 DEF Places, OnePlace
    <3>3. \A i \in DOMAIN queue'[w[1]] : queue'[w[1]][i] # held'[w]
      BY <1>1, <1>2, <1>4, <3>1, <3>2 DEF n
    <3> QED
      BY <3>2, <3>3
  <2>2. ASSUME NEW m \in Lanes, NEW i \in DOMAIN queue'[m]
        PROVE  /\ LaneOf(queue'[m][i]) = m
               /\ fate'[queue'[m][i]] = "none"
               /\ \A k \in DOMAIN queue'[m] : queue'[m][k] = queue'[m][i] => k = i
    <3>1. ASSUME NEW k \in DOMAIN queue[m]
          PROVE  /\ LaneOf(queue[m][k]) = m
                 /\ fate[queue[m][k]] = "none"
                 /\ \A j \in DOMAIN queue[m] : queue[m][j] = queue[m][k] => j = k
      BY DEF Places, OnePlace
    <3>2. CASE m # l
      BY <1>1, <3>1, <3>2
    <3>3. CASE m = l
      BY <1>1, <1>2, <1>4, <3>1, <3>3 DEF n, l
    <3> QED
      BY <3>2, <3>3
  <2> QED
    BY <2>1, <2>2 DEF OnePlace, LaneOf, ShardIndex
<1> QED
  BY <1>5, <1>6, <1>7 DEF Places

\* A payload moves from the head of a channel to a worker that holds none.
LEMMA PlacesReceive ==
  ASSUME Typed, Places, NEW w \in WorkerIds, held[w] = NoPayload,
         queue[w[1]] # << >>,
         held' = [held EXCEPT ![w] = Head(queue[w[1]])],
         queue' = [queue EXCEPT ![w[1]] = Tail(@)],
         UNCHANGED <<spc, fate>>
  PROVE  Places'
<1> DEFINE l == w[1]
           n == Len(queue[l])
           h == queue[l][1]
<1>0. l \in Lanes
  BY WorkerTyped
<1> HIDE DEF l
<1>1. /\ queue' \in [Lanes -> Seq(Payloads)]
      /\ \A m \in Lanes : m # l => queue'[m] = queue[m]
      /\ n \in Nat \ {0}
      /\ Len(queue'[l]) = n - 1
      /\ \A i \in 1 .. (n - 1) : queue'[l][i] = queue[l][i + 1]
      /\ Head(queue[l]) = h
      /\ h \in Payloads
  BY <1>0, Received DEF l
<1>2. \A m \in Lanes : /\ DOMAIN queue[m] = 1 .. Len(queue[m])
                       /\ DOMAIN queue'[m] = 1 .. Len(queue'[m])
                       /\ Len(queue[m]) \in Nat
                       /\ \A i \in 1 .. Len(queue[m]) : queue[m][i] \in Payloads
  BY <1>1, QueueTyped, LenProperties
<1>3. /\ held'[w] = h
      /\ \A v \in WorkerIds : v # w => held'[v] = held[v]
  BY <1>1 DEF Typed, l
<1> HIDE DEF n, h
<1>4. \A m \in Lanes : \A i \in 1 .. Len(queue'[m]) :
        \/ m # l /\ i \in 1 .. Len(queue[m]) /\ queue'[m][i] = queue[m][i]
        \/ /\ m = l
           /\ i + 1 \in 1 .. Len(queue[m])
           /\ i + 1 # 1
           /\ queue'[m][i] = queue[m][i + 1]
  BY <1>0, <1>1, <1>2 DEF n
<1>5. 1 \in 1 .. Len(queue[l])
  BY <1>1 DEF n
<1>6. /\ LaneOf(h) = l
      /\ fate[h] = "none"
      /\ \A i \in 1 .. Len(queue[l]) : queue[l][i] = h => i = 1
      /\ \A m \in Lanes : \A i \in 1 .. Len(queue[m]) : LaneOf(queue[m][i]) = m
      /\ \A v \in WorkerIds : held[v] # h
  <2>1. /\ LaneOf(h) = l
        /\ fate[h] = "none"
        /\ \A i \in 1 .. Len(queue[l]) : queue[l][i] = h => i = 1
        /\ \A m \in Lanes : \A i \in 1 .. Len(queue[m]) : LaneOf(queue[m][i]) = m
    BY <1>0, <1>2, <1>5 DEF Places, OnePlace, h
  <2>2. ASSUME NEW v \in WorkerIds, held[v] = h PROVE FALSE
    <3>1. held[v] # NoPayload
      BY <1>1, <2>2, PipelineAssumption
    <3>2. /\ LaneOf(held[v]) = v[1]
          /\ \A i \in DOMAIN queue[v[1]] : queue[v[1]][i] # held[v]
      BY <3>1 DEF Places, OnePlace
    <3> QED
      BY <1>0, <1>2, <1>5, <2>1, <2>2, <3>2 DEF h
  <2> QED
    BY <2>1, <2>2
<1>7. OnlyAccepted'
  <2>1. ASSUME NEW m \in Lanes, NEW i \in 1 .. Len(queue'[m])
        PROVE  spc'[queue'[m][i]] \in {"total", "gauge", "accepted"}
    BY <1>4, <2>1 DEF Places, OnlyAccepted, Accepted
  <2>2. ASSUME NEW v \in WorkerIds, held'[v] # NoPayload
        PROVE  spc'[held'[v]] \in {"total", "gauge", "accepted"}
    <3>1. spc[h] \in {"total", "gauge", "accepted"}
      BY <1>0, <1>5 DEF Places, OnlyAccepted, Accepted, h
    <3> QED
      BY <1>3, <2>2, <3>1 DEF Places, OnlyAccepted, Accepted
  <2>3. ASSUME NEW q \in Payloads, fate'[q] # "none" PROVE Accepted(q)'
    BY <2>3 DEF Places, OnlyAccepted, Accepted
  <2> QED
    BY <2>1, <2>2, <2>3 DEF OnlyAccepted, Accepted
<1>8. NothingLost'
  <2> SUFFICES ASSUME NEW q \in Payloads, Accepted(q)', fate'[q] = "none"
               PROVE  \/ \E i \in 1 .. Len(queue'[LaneOf(q)]) :
                            queue'[LaneOf(q)][i] = q
                      \/ \E v \in WorkerIds : held'[v] = q
    BY DEF NothingLost, LaneOf, ShardIndex
  <2>1. LaneOf(q) \in Lanes
    BY LaneTyped
  <2> HIDE DEF LaneOf
  <2>2. CASE \E v \in WorkerIds : held[v] = q
    BY <1>3, <2>2, PipelineAssumption
  <2>3. CASE \E i \in 1 .. Len(queue[LaneOf(q)]) : queue[LaneOf(q)][i] = q
    <3>1. PICK i \in 1 .. Len(queue[LaneOf(q)]) : queue[LaneOf(q)][i] = q
      BY <2>3
    <3>2. CASE LaneOf(q) # l
      BY <1>1, <2>1, <3>1, <3>2
    <3>3. CASE LaneOf(q) = l /\ i = 1
      BY <1>3, <3>1, <3>3 DEF h
    <3>4. CASE LaneOf(q) = l /\ i # 1
      <4>1. i - 1 \in 1 .. Len(queue'[l]) /\ queue'[l][i - 1] = q
        BY <1>1, <3>1, <3>4 DEF n
      <4> QED
        BY <3>4, <4>1
    <3> QED
      BY <3>2, <3>3, <3>4
  <2> QED
    BY <2>2, <2>3 DEF Places, NothingLost, Accepted
<1>9. OnePlace'
  <2>1. ASSUME NEW v \in WorkerIds, held'[v] # NoPayload
        PROVE  /\ LaneOf(held'[v]) = v[1]
               /\ fate'[held'[v]] = "none"
               /\ \A u \in WorkerIds : held'[u] = held'[v] => u = v
               /\ \A i \in DOMAIN queue'[v[1]] : queue'[v[1]][i] # held'[v]
    <3>0. v[1] \in Lanes
      BY WorkerTyped
    <3>1. CASE v = w
      <4>1. \A i \in 1 .. Len(queue'[l]) : queue'[l][i] # h
        BY <1>0, <1>4, <1>6
      <4> QED
        BY <1>0, <1>2, <1>3, <1>6, <3>1, <4>1 DEF l
    <3>2. CASE v # w
      <4>1. /\ held'[v] = held[v] /\ held[v] # h
            /\ LaneOf(held[v]) = v[1]
            /\ fate[held[v]] = "none"
            /\ \A u \in WorkerIds : held[u] = held[v] => u = v
            /\ \A i \in 1 .. Len(queue[v[1]]) : queue[v[1]][i] # held[v]
        BY <1>2, <1>3, <1>6, <2>1, <3>0, <3>2 DEF Places, OnePlace
      <4>2. \A u \in WorkerIds : held'[u] = held'[v] => u = v
        BY <1>3, <4>1
      <4>3. \A i \in DOMAIN queue'[v[1]] : queue'[v[1]][i] # held'[v]
        BY <1>2, <1>4, <3>0, <4>1
      <4> QED
        BY <4>1, <4>2, <4>3
    <3> QED
      BY <3>1, <3>2
  <2>2. ASSUME NEW m \in Lanes, NEW i \in DOMAIN queue'[m]
        PROVE  /\ LaneOf(queue'[m][i]) = m
               /\ fate'[queue'[m][i]] = "none"
               /\ \A k \in DOMAIN queue'[m] : queue'[m][k] = queue'[m][i] => k = i
    <3>1. ASSUME NEW k \in 1 .. Len(queue[m])
          PROVE  /\ LaneOf(queue[m][k]) = m
                 /\ fate[queue[m][k]] = "none"
                 /\ \A j \in 1 .. Len(queue[m]) : queue[m][j] = queue[m][k] => j = k
      BY <1>2 DEF Places, OnePlace
    <3>2. CASE m # l
      BY <1>1, <1>2, <3>1, <3>2
    <3>3. CASE m = l
      BY <1>1, <1>2, <1>4, <3>1, <3>3
    <3> QED
      BY <3>2, <3>3
  <2> QED
    BY <2>1, <2>2 DEF OnePlace, LaneOf, ShardIndex
<1> QED
  BY <1>7, <1>8, <1>9 DEF Places

\* A payload leaves the worker that holds it and meets its fate.
LEMMA PlacesSettle ==
  ASSUME Typed, Places, NEW w \in WorkerIds, held[w] # NoPayload,
         NEW f \in Fates, Settle(w, f),
         UNCHANGED <<queue, spc>>
  PROVE  Places'
<1> DEFINE h == held[w]
<1>1. /\ h \in Payloads
      /\ held'[w] = NoPayload
      /\ \A v \in WorkerIds : v # w => held'[v] = held[v]
      /\ fate'[h] = f
      /\ \A q \in Payloads : q # h => fate'[q] = fate[q]
      /\ f # "none"
  BY DEF Typed, Settle, Fates
<1>2. \A m \in Lanes : /\ DOMAIN queue[m] = 1 .. Len(queue[m])
                       /\ \A i \in 1 .. Len(queue[m]) : queue[m][i] \in Payloads
  BY QueueTyped
<1>3. /\ LaneOf(h) = w[1]
      /\ \A v \in WorkerIds : held[v] = h => v = w
      /\ \A i \in DOMAIN queue[w[1]] : queue[w[1]][i] # h
      /\ w[1] \in Lanes
  BY WorkerTyped DEF Places, OnePlace
<1>4. \A m \in Lanes : \A i \in 1 .. Len(queue[m]) : queue[m][i] # h
  <2> SUFFICES ASSUME NEW m \in Lanes, NEW i \in 1 .. Len(queue[m]),
                      queue[m][i] = h
               PROVE  FALSE
    OBVIOUS
  <2>1. LaneOf(queue[m][i]) = m
    BY <1>2 DEF Places, OnePlace
  <2> QED
    BY <1>2, <1>3, <2>1
<1>5. spc[h] \in {"total", "gauge", "accepted"}
  BY DEF Places, OnlyAccepted, Accepted
<1> HIDE DEF h
<1>6. OnlyAccepted'
  <2>1. ASSUME NEW m \in Lanes, NEW i \in 1 .. Len(queue'[m])
        PROVE  spc'[queue'[m][i]] \in {"total", "gauge", "accepted"}
    BY DEF Places, OnlyAccepted, Accepted
  <2>2. ASSUME NEW v \in WorkerIds, held'[v] # NoPayload
        PROVE  spc'[held'[v]] \in {"total", "gauge", "accepted"}
    BY <1>1, <2>2 DEF Places, OnlyAccepted, Accepted
  <2>3. ASSUME NEW q \in Payloads, fate'[q] # "none" PROVE Accepted(q)'
    BY <1>1, <1>5, <2>3 DEF Places, OnlyAccepted, Accepted
  <2> QED
    BY <2>1, <2>2, <2>3 DEF OnlyAccepted, Accepted
<1>7. NothingLost'
  <2> SUFFICES ASSUME NEW q \in Payloads, Accepted(q)', fate'[q] = "none"
               PROVE  \/ \E i \in 1 .. Len(queue'[LaneOf(q)]) :
                            queue'[LaneOf(q)][i] = q
                      \/ \E v \in WorkerIds : held'[v] = q
    BY DEF NothingLost, LaneOf, ShardIndex
  <2>1. q # h /\ fate[q] = "none" /\ Accepted(q)
    BY <1>1 DEF Accepted
  <2>2. \A v \in WorkerIds : held[v] = q => held'[v] = q
    BY <1>1, <2>1 DEF h
  <2> QED
    BY <2>1, <2>2 DEF Places, NothingLost
<1>8. OnePlace'
  <2>1. ASSUME NEW v \in WorkerIds, held'[v] # NoPayload
        PROVE  /\ LaneOf(held'[v]) = v[1]
               /\ fate'[held'[v]] = "none"
               /\ \A u \in WorkerIds : held'[u] = held'[v] => u = v
               /\ \A i \in DOMAIN queue'[v[1]] : queue'[v[1]][i] # held'[v]
    <3>1. v # w /\ held'[v] = held[v] /\ held[v] # h /\ held[v] \in Payloads
      BY <1>1, <1>3, <2>1 DEF Typed
    <3>2. /\ LaneOf(held[v]) = v[1]
          /\ fate[held[v]] = "none"
          /\ \A u \in WorkerIds : held[u] = held[v] => u = v
          /\ \A i \in DOMAIN queue[v[1]] : queue[v[1]][i] # held[v]
      BY <2>1, <3>1 DEF Places, OnePlace
    <3>3. \A u \in WorkerIds : held'[u] = held'[v] => u = v
      BY <1>1, <2>1, <3>1, <3>2
    <3> QED
      BY <1>1, <3>1, <3>2, <3>3
  <2>2. ASSUME NEW m \in Lanes, NEW i \in DOMAIN queue'[m]
        PROVE  /\ LaneOf(queue'[m][i]) = m
               /\ fate'[queue'[m][i]] = "none"
               /\ \A k \in DOMAIN queue'[m] : queue'[m][k] = queue'[m][i] => k = i
    <3>1. /\ LaneOf(queue[m][i]) = m
          /\ fate[queue[m][i]] = "none"
          /\ \A k \in DOMAIN queue[m] : queue[m][k] = queue[m][i] => k = i
      BY <2>2 DEF Places, OnePlace
    <3>2. queue[m][i] # h /\ queue[m][i] \in Payloads
      BY <1>2, <1>4, <2>2
    <3> QED
      BY <1>1, <3>1, <3>2
  <2> QED
    BY <2>1, <2>2 DEF OnePlace, LaneOf, ShardIndex
<1> QED
  BY <1>6, <1>7, <1>8 DEF Places
-----------------------------------------------------------------------------
(* The invariant.                                                          *)

LEMMA PipelineInvInit == Init => PipelineInv
<1> SUFFICES ASSUME Init PROVE PipelineInv
  OBVIOUS
<1>1. Typed
  <2>1. << >> \in Seq(Payloads)
    BY EmptySeq
  <2> QED
    BY <2>1 DEF Init, Typed
<1>2. Control
  BY DEF Init, Control, HeldAtWork, ShutdownOrder
<1>3. \A l \in Lanes : queue[l] = << >> /\ Len(queue[l]) = 0 /\ DOMAIN queue[l] = {}
  BY EmptySeq DEF Init
<1>4. OnlyAccepted /\ OnePlace
  BY <1>3 DEF Init, OnlyAccepted, OnePlace
<1>5. NothingLost
  BY DEF Init, NothingLost, Accepted
<1> QED
  BY <1>1, <1>2, <1>4, <1>5 DEF PipelineInv, Places

\* A step of one worker that stays at work, or takes work or leaves it.
LEMMA WorkerControl ==
  ASSUME Typed, Control, NEW w \in WorkerIds,
         wpc[w] \notin {"none", "exited"},
         NEW s \in {"receive", "total", "gauge", "process", "export"},
         wpc' = [wpc EXCEPT ![w] = s],
         \A v \in WorkerIds : v # w => held'[v] = held[v],
         held'[w] # NoPayload <=> s # "receive",
         \A l \in Lanes : queue[l] = << >> => queue'[l] = << >>,
         UNCHANGED <<closed, control>>
  PROVE  Control'
<1>1. \A v \in WorkerIds : wpc'[v] = IF v = w THEN s ELSE wpc[v]
  BY DEF Typed
<1>2. HeldAtWork'
  BY <1>1 DEF Control, HeldAtWork
<1>3. ShutdownOrder'
  <2>1. manager \notin {"new", "hooks", "exporters", "done"}
    BY DEF Control, ShutdownOrder, WorkersDone
  <2>2. ASSUME NEW v \in WorkerIds, wpc'[v] = "exited"
        PROVE  v[1] \in closed' /\ queue'[v[1]] = << >>
    BY <1>1, <2>2, WorkerTyped DEF Control, ShutdownOrder, control
  <2>3. \A v \in WorkerIds : wpc'[v] # "none"
    BY <1>1 DEF Control, ShutdownOrder
  <2> QED
    BY <2>1, <2>2, <2>3 DEF Control, ShutdownOrder, control
<1> QED
  BY <1>2, <1>3 DEF Control

LEMMA SubmitInv ==
  ASSUME PipelineInv, NEW p \in Payloads, Submit(p)
  PROVE  PipelineInv'
<1>0. LaneOf(p) \in Lanes
  BY LaneTyped
<1>1. CASE /\ queue' = [queue EXCEPT ![LaneOf(p)] = Append(@, p)]
           /\ spc' = [spc EXCEPT ![p] = "total"]
  <2>1. /\ queue' \in [Lanes -> Seq(Payloads)]
        /\ \A m \in Lanes : m # LaneOf(p) => queue'[m] = queue[m]
    BY <1>0, <1>1, Sent DEF PipelineInv
  <2>2. Typed'
    BY <1>1, <2>1 DEF PipelineInv, Typed, Submit, control, workers
  <2>3. Control'
    <3>1. HeldAtWork'
      BY DEF PipelineInv, Control, HeldAtWork, Submit, workers
    <3>2. ASSUME NEW w \in WorkerIds, wpc'[w] = "exited"
          PROVE  w[1] \in closed' /\ queue'[w[1]] = << >>
      <4>1. w[1] \in closed /\ queue[w[1]] = << >> /\ w[1] \in Lanes
        BY <3>2, WorkerTyped DEF PipelineInv, Control, ShutdownOrder, Submit, workers
      <4> QED
        BY <2>1, <4>1 DEF Submit
    <3>3. ShutdownOrder'
      BY <3>2 DEF PipelineInv, Control, ShutdownOrder, WorkersDone, Submit, control, workers
    <3> QED
      BY <3>1, <3>3 DEF Control
  <2>4. Places'
    BY <1>1, PlacesSend DEF PipelineInv, Submit, workers
  <2> QED
    BY <2>2, <2>3, <2>4 DEF PipelineInv
<1>2. CASE spc' = [spc EXCEPT ![p] = "dropped"] /\ UNCHANGED queue
  <2>1. Typed'
    BY <1>2 DEF PipelineInv, Typed, Submit, control, workers
  <2>2. Control'
    BY <1>2 DEF PipelineInv, Control, HeldAtWork, ShutdownOrder, WorkersDone,
                Submit, control, workers
  <2>3. \A q \in Payloads : Accepted(q)' = Accepted(q)
    BY <1>2 DEF PipelineInv, Typed, Accepted, Submit
  <2>4. Places'
    BY <1>2, <2>3, PlacesFrame DEF PipelineInv, Submit, workers
  <2> QED
    BY <2>1, <2>2, <2>4 DEF PipelineInv
<1> QED
  BY <1>1, <1>2 DEF Submit

\* The steps that move no payload: they touch a gauge, a program counter or
\* the manager.
LEMMA GaugesInv ==
  ASSUME PipelineInv, NEW p \in Payloads, SubmitClosed(p) \/ Gauges(p)
  PROVE  PipelineInv'
<1> USE DEF SubmitClosed, Gauges, SubmitTotal, SubmitGauge, submitters,
            control, workers
<1>1. Typed'
  BY DEF PipelineInv, Typed
<1>2. Control'
  BY DEF PipelineInv, Control, HeldAtWork, ShutdownOrder, WorkersDone
<1>3. \A q \in Payloads : Accepted(q)' = Accepted(q)
  BY DEF PipelineInv, Typed, Accepted
<1>4. Places'
  BY <1>3, PlacesFrame DEF PipelineInv
<1> QED
  BY <1>1, <1>2, <1>4 DEF PipelineInv

LEMMA ReceiveInv ==
  ASSUME PipelineInv, NEW w \in WorkerIds, Receive(w)
  PROVE  PipelineInv'
<1>0. w[1] \in Lanes /\ held[w] = NoPayload
  BY WorkerTyped DEF PipelineInv, Control, HeldAtWork, Receive
<1>1. /\ queue' \in [Lanes -> Seq(Payloads)]
      /\ \A m \in Lanes : m # w[1] => queue'[m] = queue[m]
      /\ Head(queue[w[1]]) \in Payloads
  BY <1>0, Received DEF PipelineInv, Receive
<1>2. Typed'
  BY <1>1 DEF PipelineInv, Typed, Receive, control, submitters
<1>3. Control'
  <2>1. /\ held'[w] # NoPayload
        /\ \A v \in WorkerIds : v # w => held'[v] = held[v]
    BY <1>1, PipelineAssumption DEF PipelineInv, Typed, Receive
  <2>2. \A l \in Lanes : queue[l] = << >> => queue'[l] = << >>
    BY <1>1 DEF Receive
  <2> QED
    BY <2>1, <2>2, WorkerControl DEF PipelineInv, Receive
<1>4. Places'
  BY <1>0, PlacesReceive DEF PipelineInv, Receive, submitters
<1> QED
  BY <1>2, <1>3, <1>4 DEF PipelineInv

\* What a worker does with the payload it holds, short of settling it.
LEMMA WorkInv ==
  ASSUME PipelineInv, NEW w \in WorkerIds,
         \/ WorkerTotal(w)
         \/ WorkerGauge(w)
         \/ Process(w) /\ UNCHANGED held
  PROVE  PipelineInv'
<1> DEFINE s == wpc'[w]
<1>0. /\ wpc[w] \in {"total", "gauge", "process"}
      /\ s \in {"gauge", "process", "export"}
      /\ wpc' = [wpc EXCEPT ![w] = s]
      /\ UNCHANGED <<queue, closed, control, submitters, held, fate>>
  <2>1. held[w] # NoPayload \/ ~Process(w)
    BY DEF PipelineInv, Control, HeldAtWork, Process
  <2>2. CASE WorkerTotal(w)
    BY <2>2 DEF PipelineInv, Typed, WorkerTotal
  <2>3. CASE WorkerGauge(w)
    BY <2>3 DEF PipelineInv, Typed, WorkerGauge
  <2>4. CASE Process(w) /\ UNCHANGED held
    BY <2>1, <2>4 DEF PipelineInv, Typed, Process, Settle
  <2> QED
    BY <2>2, <2>3, <2>4
<1>1. Typed'
  BY <1>0 DEF PipelineInv, Typed, submitters, control
<1>2. Control'
  <2>1. held'[w] # NoPayload
    BY <1>0 DEF PipelineInv, Control, HeldAtWork
  <2> HIDE DEF s
  <2> QED
    BY <1>0, <2>1, WorkerControl DEF PipelineInv
<1>3. Places'
  BY <1>0, PlacesFrame DEF PipelineInv, Accepted, submitters
<1> QED
  BY <1>1, <1>2, <1>3 DEF PipelineInv

\* The fate of a payload: from the processors or from the exporter.
LEMMA SettleInv ==
  ASSUME PipelineInv, NEW w \in WorkerIds, NEW f \in Fates,
         wpc[w] \in {"process", "export"}, Settle(w, f),
         UNCHANGED <<queue, closed, control, submitters>>
  PROVE  PipelineInv'
<1>0. held[w] # NoPayload /\ held[w] \in Payloads
  BY DEF PipelineInv, Control, HeldAtWork, Typed
<1>1. Typed'
  BY <1>0 DEF PipelineInv, Typed, Settle, submitters, control
<1>2. Control'
  <2>1. /\ held'[w] = NoPayload
        /\ \A v \in WorkerIds : v # w => held'[v] = held[v]
    BY DEF PipelineInv, Typed, Settle
  <2> QED
    BY <2>1, WorkerControl DEF PipelineInv, Settle
<1>3. Places'
  BY <1>0, PlacesSettle DEF PipelineInv, submitters
<1> QED
  BY <1>1, <1>2, <1>3 DEF PipelineInv

LEMMA ExitInv ==
  ASSUME PipelineInv, NEW w \in WorkerIds, Exit(w)
  PROVE  PipelineInv'
<1>1. Typed'
  BY DEF PipelineInv, Typed, Exit, submitters, control
<1>2. \A v \in WorkerIds : wpc'[v] = IF v = w THEN "exited" ELSE wpc[v]
  BY DEF PipelineInv, Typed, Exit
<1>3. Control'
  <2>1. HeldAtWork'
    BY <1>2 DEF PipelineInv, Control, HeldAtWork, Exit
  <2>2. manager \notin {"new", "hooks", "exporters", "done"}
    BY DEF PipelineInv, Control, ShutdownOrder, WorkersDone, Exit
  <2>3. \A v \in WorkerIds : wpc'[v] # "none"
    BY <1>2 DEF PipelineInv, Control, ShutdownOrder, Exit
  <2>4. ShutdownOrder'
    BY <1>2, <2>2, <2>3 DEF PipelineInv, Control, ShutdownOrder, Exit, MayExit,
                            control
  <2> QED
    BY <2>1, <2>4 DEF Control
<1>4. Places'
  BY PlacesFrame DEF PipelineInv, Exit, Accepted, submitters
<1> QED
  BY <1>1, <1>3, <1>4 DEF PipelineInv

\* Start and the steps of Shutdown.
LEMMA ManagerInv ==
  ASSUME PipelineInv, Start \/ Shutdown \/ Stopping
  PROVE  PipelineInv'
<1>0. UNCHANGED <<queue, held, spc, fate>>
  BY DEF Start, Shutdown, Stopping, CloseChannel, Wait, RunHooks, CloseExporter,
         submitters, workers
<1>1. CASE Start
  <2>1. Typed'
    BY <1>0, <1>1 DEF PipelineInv, Typed, Start
  <2>2. Control'
    BY <1>0, <1>1 DEF PipelineInv, Typed, Control, HeldAtWork, ShutdownOrder, Start
  <2> QED
    BY <1>0, <2>1, <2>2, PlacesFrame DEF PipelineInv, Accepted
<1>2. CASE Shutdown
  <2>1. Typed'
    BY <1>0, <1>2 DEF PipelineInv, Typed, Shutdown, workers
  <2>2. Control'
    BY <1>0, <1>2 DEF PipelineInv, Control, HeldAtWork, ShutdownOrder, Shutdown,
                      workers
  <2> QED
    BY <1>0, <2>1, <2>2, PlacesFrame DEF PipelineInv, Accepted
<1>3. CASE \E l \in Lanes : CloseChannel(l)
  <2>1. Typed'
    BY <1>0, <1>3 DEF PipelineInv, Typed, CloseChannel, control, workers
  <2>2. Control'
    BY <1>0, <1>3 DEF PipelineInv, Control, HeldAtWork, ShutdownOrder,
                      CloseChannel, control, workers
  <2> QED
    BY <1>0, <2>1, <2>2, PlacesFrame DEF PipelineInv, Accepted
<1>4. CASE Wait \/ RunHooks \/ CloseExporter
  <2> USE DEF Wait, RunHooks, CloseExporter, workers
  <2>1. Typed'
    BY <1>0, <1>4 DEF PipelineInv, Typed
  <2>2. Control'
    BY <1>0, <1>4 DEF PipelineInv, Control, HeldAtWork, ShutdownOrder, WorkersDone
  <2> QED
    BY <1>0, <2>1, <2>2, PlacesFrame DEF PipelineInv, Accepted
<1> QED
  BY <1>1, <1>2, <1>3, <1>4 DEF Stopping

LEMMA PipelineInvNext == PipelineInv /\ [Next]_vars => PipelineInv'
<1> SUFFICES ASSUME PipelineInv, [Next]_vars PROVE PipelineInv'
  OBVIOUS
<1>1. ASSUME NEW p \in Payloads, Receiver(p) \/ Gauges(p) PROVE PipelineInv'
  BY <1>1, SubmitInv, GaugesInv DEF Receiver
<1>2. ASSUME NEW w \in WorkerIds, Worker(w) PROVE PipelineInv'
  <2>1. CASE Receive(w) \/ Exit(w)
    BY <2>1, ReceiveInv, ExitInv
  <2>2. CASE WorkerTotal(w) \/ WorkerGauge(w)
    BY <2>2, WorkInv
  <2>3. CASE Process(w)
    <3>1. CASE UNCHANGED held
      BY <2>3, <3>1, WorkInv
    <3>2. CASE Settle(w, "filtered") \/ Settle(w, "rejected")
      BY <2>3, <3>2, SettleInv DEF Process, Fates
    <3> QED
      BY <2>3, <3>1, <3>2 DEF Process
  <2>4. CASE Export(w)
    BY <2>4, SettleInv DEF Export, Fates
  <2> QED
    BY <1>2, <2>1, <2>2, <2>3, <2>4 DEF Worker
<1>3. CASE UNCHANGED vars
  <2> USE <1>3 DEF vars, control, submitters, workers
  <2>1. Typed'
    BY DEF PipelineInv, Typed
  <2>2. Control'
    BY DEF PipelineInv, Control, HeldAtWork, ShutdownOrder, WorkersDone
  <2> QED
    BY <2>1, <2>2, PlacesFrame DEF PipelineInv, Accepted
<1> QED
  BY <1>1, <1>2, <1>3, ManagerInv DEF Next, Rest

\* The invariant from which the results below follow holds of every state.
THEOREM PipelineInvariant == Spec => []PipelineInv
  BY PipelineInvInit, PipelineInvNext, PTL DEF Spec

\* A payload is never in two places of the pipeline, and never off its shard.
THEOREM OnePlaceAlways == Spec => []OnePlace
<1>1. PipelineInv => OnePlace
  BY DEF PipelineInv, Places
<1> QED
  BY <1>1, PipelineInvariant, PTL

\* No worker calls an exporter that has been shut down.
THEOREM ExportersOutliveWorkers == Spec => []ExporterOpen
<1>1. PipelineInv => ExporterOpen
  <2> SUFFICES ASSUME PipelineInv PROVE ExporterOpen
    OBVIOUS
  <2>1. ASSUME NEW w \in WorkerIds, wpc[w] = "export"
        PROVE  open = Signals /\ ~hooked
    BY <2>1 DEF PipelineInv, Typed, Control, ShutdownOrder, WorkersDone
  <2> QED
    BY <2>1 DEF ExporterOpen, PipelineInv, Control, ShutdownOrder
<1> QED
  BY <1>1, PipelineInvariant, PTL
-----------------------------------------------------------------------------
(* The channels and the depths.                                            *)

\* What the loop over the channels of a signal adds up.
LEMMA TotalType ==
  ASSUME Typed, NEW s \in Signals
  PROVE  Total(s) \in Nat
<1> DEFINE n == AtLeastOne(ShardCount)
           Turn(v, i) == v + Len(queue[<<s, i - 1>>])
           G == [i \in 1 .. n |-> [v \in Nat |-> Turn(v, i)]]
           Value(f) == [i \in 0 .. n |-> IF i = 0 THEN 0 ELSE Turn(f[i - 1], i)]
           upto[i \in 0 .. n] == IF i = 0 THEN 0 ELSE Turn(upto[i - 1], i)
<1>0. n \in Nat
  BY PipelineAssumption DEF AtLeastOne
<1>1. ASSUME NEW i \in 1 .. n, NEW v \in Nat
      PROVE  Turn(v, i) \in Nat
  <2>1. <<s, i - 1>> \in Lanes
    BY <1>0 DEF Lanes, Shards
  <2> QED
    BY <2>1, QueueTyped
<1> HIDE DEF Turn
<1>2. Turns(G, 1 .. n, Nat)
  BY <1>1 DEF Turns
<1>3. PICK f : Loops(f, n, Nat, 0, G)
  <2> HIDE DEF G, n
  <2> QED
    BY <1>0, <1>2, LoopExists
<1>4. f = Value(f)
  <2>1. f \in [0 .. n -> Nat] /\ f[0] = 0 /\ \A i \in 1 .. n : f[i] = G[i][f[i - 1]]
    BY <1>3 DEF Loops
  <2>2. ASSUME NEW i \in 1 .. n
        PROVE  f[i] = Turn(f[i - 1], i)
    <3>1. f[i - 1] \in Nat
      BY <1>0, <2>1
    <3> QED
      BY <2>1, <3>1
  <2> HIDE DEF G, n
  <2> QED
    BY <1>0, <2>1, <2>2
<1>5. \E g : g = Value(g)
  <2> HIDE DEF Value
  <2> QED
    BY <1>4
<1>6. upto = Value(upto)
  BY <1>5
<1> HIDE DEF upto, n
<1>7. \A i \in 0 .. n : upto[i] \in Nat
  <2>1. upto[0] \in Nat
    BY <1>0, <1>6
  <2>2. ASSUME NEW i \in 1 .. n, upto[i - 1] \in Nat
        PROVE  upto[i] \in Nat
    <3>1. upto[i] = Turn(upto[i - 1], i)
      BY <1>0, <1>6
    <3>2. Turn(upto[i - 1], i) \in Nat
      BY <1>1, <2>2
    <3> QED
      BY <3>1, <3>2
  <2> QED
    BY <1>0, <2>1, <2>2, LoopKeeps
<1>8. Total(s) = upto[n]
  BY DEF Total, upto, n, Turn
<1> QED
  BY <1>0, <1>7, <1>8

LEMMA CapacityType ==
  \A s \in Signals : Capacity(s) \in Nat \ {0}
<1> SUFFICES ASSUME NEW s \in Signals PROVE Capacity(s) \in Nat \ {0}
  OBVIOUS
<1>1. AtLeastOne(ShardCount) \in Nat \ {0} /\ QueueSize[s] \in Nat
  BY PipelineAssumption DEF AtLeastOne
<1>2. QueueSize[s] \div AtLeastOne(ShardCount) \in Nat
  BY <1>1
<1> QED
  BY <1>2 DEF Capacity, AtLeastOne

LEMMA TypesInit == Init => PipelineTypeOK
<1> SUFFICES ASSUME Init PROVE PipelineTypeOK
  OBVIOUS
<1>1. \A l \in Lanes : queue[l] = << >> /\ l[1] \in Signals
  BY DEF Init, Lanes
<1>2. \A l \in Lanes : Len(queue[l]) <= Capacity(l[1])
  BY <1>1, CapacityType
<1>3. queue \in [Lanes -> Seq(Payloads)]
  BY DEF Init
<1>4. /\ closed \subseteq Lanes /\ open \subseteq Signals
      /\ manager \in {"new", "running", "closing", "hooks", "exporters", "done"}
      /\ hooked \in BOOLEAN /\ up \in BOOLEAN
      /\ gauge \in [Signals -> Nat]
      /\ sdepth \in [Payloads -> Nat] /\ wdepth \in [WorkerIds -> Nat]
  BY DEF Init
<1>5. /\ spc \in [Payloads -> {"new", "total", "gauge", "accepted", "dropped"}]
      /\ wpc \in [WorkerIds -> {"none", "receive", "total", "gauge", "process",
                                "export", "exited"}]
      /\ held \in [WorkerIds -> Payloads \cup {NoPayload}]
      /\ fate \in [Payloads -> Fates \cup {"none"}]
  BY DEF Init
<1> QED
  BY <1>2, <1>3, <1>4, <1>5 DEF PipelineTypeOK

\* Submit finds room for its payload in the same step; nothing else sends.
LEMMA ChannelsBounded ==
  ASSUME PipelineTypeOK, PipelineInv, [Next]_vars
  PROVE  \A l \in Lanes : Len(queue'[l]) <= Capacity(l[1])
<1> USE DEF PipelineInv
<1>0. \A l \in Lanes : /\ Len(queue[l]) \in Nat
                       /\ Len(queue[l]) <= Capacity(l[1])
                       /\ Capacity(l[1]) \in Nat
  BY QueueTyped, CapacityType DEF PipelineTypeOK, Lanes
<1>1. ASSUME NEW p \in Payloads, Submit(p)
      PROVE  \A l \in Lanes : Len(queue'[l]) <= Capacity(l[1])
  <2> DEFINE m == LaneOf(p)
  <2>1. m \in Lanes
    BY LaneTyped
  <2>2. CASE queue' = queue
    BY <1>0, <2>2
  <2>3. CASE ~Full(m) /\ queue' = [queue EXCEPT ![m] = Append(@, p)]
    <3>1. /\ \A l \in Lanes : l # m => queue'[l] = queue[l]
          /\ Len(queue'[m]) = Len(queue[m]) + 1
      <4> HIDE DEF m
      <4> QED
        BY <2>1, <2>3, Sent
    <3>2. ~(Len(queue[m]) >= Capacity(m[1]))
      BY <2>3 DEF Full
    <3> HIDE DEF m
    <3> QED
      BY <1>0, <2>1, <3>1, <3>2
  <2> QED
    BY <1>1, <2>2, <2>3 DEF Submit
<1>2. ASSUME NEW w \in WorkerIds, Receive(w)
      PROVE  \A l \in Lanes : Len(queue'[l]) <= Capacity(l[1])
  <2>1. /\ w[1] \in Lanes
        /\ \A l \in Lanes : l # w[1] => queue'[l] = queue[l]
        /\ Len(queue'[w[1]]) = Len(queue[w[1]]) - 1
    BY <1>2, WorkerTyped, Received DEF Receive
  <2> QED
    BY <1>0, <2>1
<1>3. CASE UNCHANGED queue
  BY <1>0, <1>3
<1> QED
  BY <1>1, <1>2, <1>3
     DEF Next, Receiver, SubmitClosed, Gauges, SubmitTotal, SubmitGauge, Worker,
         Exit, WorkerTotal, WorkerGauge, Process, Export, Start, Shutdown, Stopping,
         CloseChannel, Wait, RunHooks, CloseExporter, Rest, vars

\* The depths on their way to the gauge.
LEMMA DepthsTyped ==
  ASSUME PipelineTypeOK, PipelineInv, [Next]_vars
  PROVE  /\ gauge' \in [Signals -> Nat]
         /\ sdepth' \in [Payloads -> Nat]
         /\ wdepth' \in [WorkerIds -> Nat]
         /\ up' \in BOOLEAN
<1> DEFINE Goal == /\ gauge' \in [Signals -> Nat]
                    /\ sdepth' \in [Payloads -> Nat]
                    /\ wdepth' \in [WorkerIds -> Nat]
                    /\ up' \in BOOLEAN
<1>0. /\ Typed
      /\ gauge \in [Signals -> Nat] /\ sdepth \in [Payloads -> Nat]
      /\ wdepth \in [WorkerIds -> Nat] /\ up \in BOOLEAN
  BY DEF PipelineTypeOK, PipelineInv
<1>1. ASSUME NEW p \in Payloads, Gauges(p) PROVE Goal
  <2>1. CASE SubmitTotal(p)
    <3>1. Total(SignalOf[p]) \in Nat
      BY <1>0, TotalType, PipelineAssumption
    <3> QED
      BY <1>0, <2>1, <3>1 DEF SubmitTotal, workers
  <2>2. CASE SubmitGauge(p)
    BY <1>0, <2>2 DEF SubmitGauge, workers
  <2> QED
    BY <1>1, <2>1, <2>2 DEF Gauges
<1>2. ASSUME NEW w \in WorkerIds, WorkerTotal(w) \/ WorkerGauge(w) PROVE Goal
  <2>1. w[1][1] \in Signals
    BY DEF WorkerIds, Lanes
  <2>2. CASE WorkerTotal(w)
    <3>1. Total(w[1][1]) \in Nat
      BY <1>0, <2>1, TotalType
    <3> QED
      BY <1>0, <2>2, <3>1 DEF WorkerTotal, submitters
  <2>3. CASE WorkerGauge(w)
    BY <1>0, <2>3 DEF WorkerGauge, submitters
  <2> QED
    BY <1>2, <2>2, <2>3
<1>3. ASSUME UNCHANGED <<gauge, sdepth, wdepth>>, up' \in {up, FALSE}
      PROVE  Goal
  BY <1>0, <1>3
<1> HIDE DEF Goal
<1>4. ASSUME NEW p \in Payloads, Receiver(p) PROVE Goal
  <2>1. UNCHANGED <<gauge, sdepth, wdepth>> /\ up' \in {up, FALSE}
    BY <1>4 DEF Receiver, Submit, SubmitClosed, submitters, workers
  <2> QED
    BY <1>3, <2>1
<1>5. ASSUME NEW w \in WorkerIds, Worker(w), ~WorkerTotal(w), ~WorkerGauge(w)
      PROVE  Goal
  <2>1. UNCHANGED <<gauge, sdepth, wdepth, up>>
    BY <1>5 DEF Worker, Receive, Exit, Process, Export, submitters
  <2> QED
    BY <1>3, <2>1
<1>6. ASSUME Start \/ Shutdown \/ Stopping \/ UNCHANGED vars
      PROVE  Goal
  <2>1. UNCHANGED <<gauge, sdepth, wdepth, up>>
    BY <1>6 DEF Start, Shutdown, Stopping, CloseChannel, Wait, RunHooks,
                CloseExporter, vars, submitters, workers
  <2> QED
    BY <1>3, <2>1
<1>7. Goal
  BY <1>1, <1>2, <1>4, <1>5, <1>6 DEF Next, Rest
<1> QED
  BY <1>7 DEF Goal

\* Types, and the channels' capacity: a payload is sent only where there is
\* room, however many receivers submit at once.
THEOREM PipelineTypes == Spec => []PipelineTypeOK
<1>1. PipelineTypeOK /\ PipelineInv /\ PipelineInv' /\ [Next]_vars => PipelineTypeOK'
  <2> SUFFICES ASSUME PipelineTypeOK, PipelineInv, PipelineInv', [Next]_vars
               PROVE  PipelineTypeOK'
    OBVIOUS
  <2>1. (\A l \in Lanes : Len(queue[l]) <= Capacity(l[1]))'
    BY ChannelsBounded DEF Capacity
  <2> QED
    BY <2>1, DepthsTyped DEF PipelineTypeOK, PipelineInv, Typed
<1> QED
  BY <1>1, TypesInit, PipelineInvariant, PTL DEF Spec
-----------------------------------------------------------------------------
(* The pipeline implements Delivery.                                       *)

\* What stateOf makes of a payload.
LEMMA StateOf ==
  /\ stateOf = [p \in Payloads |-> stateOf[p]]
  /\ \A p \in Payloads :
        stateOf[p] = IF fate[p] # "none" THEN fate[p]
                     ELSE IF Accepted(p) THEN "accepted" ELSE spc[p]
  BY DEF stateOf

\* A step that changes no fate, and the progress of no submission beyond the
\* send, leaves the state of the payloads alone.
LEMMA SameState ==
  ASSUME Typed, UNCHANGED fate,
         \A p \in Payloads : \/ spc'[p] = spc[p]
                             \/ Accepted(p) /\ Accepted(p)'
  PROVE  UNCHANGED stateOf
<1>1. \A p \in Payloads :
        (IF fate'[p] # "none" THEN fate'[p]
         ELSE IF Accepted(p)' THEN "accepted" ELSE spc'[p])
        = (IF fate[p] # "none" THEN fate[p]
           ELSE IF Accepted(p) THEN "accepted" ELSE spc[p])
  BY DEF Accepted
<1> QED
  BY <1>1 DEF stateOf

\* A worker that takes a step was launched, so all of them were, and stay so.
LEMMA WorkerStarted ==
  ASSUME PipelineInv, NEW w \in WorkerIds, Worker(w)
  PROVE  Started /\ Started'
<1>1. wpc[w] # "none"
  BY DEF Worker, Receive, Exit, WorkerTotal, WorkerGauge, Process, Export
<1>2. \A v \in WorkerIds : wpc[v] # "none"
  BY <1>1 DEF PipelineInv, Control, ShutdownOrder
<1>3. PICK s \in {"receive", "total", "gauge", "process", "export", "exited"} :
        wpc' = [wpc EXCEPT ![w] = s]
  BY DEF Worker, Receive, Exit, WorkerTotal, WorkerGauge, Process, Export, Settle
<1>4. \A v \in WorkerIds : wpc'[v] # "none"
  BY <1>2, <1>3 DEF PipelineInv, Typed
<1> QED
  BY <1>2, <1>4 DEF Started

LEMMA SubmitDelivers ==
  ASSUME PipelineInv, NEW p \in Payloads, Submit(p)
  PROVE  Deliver!Submit(p)
<1>0. LaneOf(p) \in Lanes
  BY LaneTyped
<1>1. ~hooked /\ UNCHANGED <<hooked, Started>>
  BY <1>0 DEF PipelineInv, Control, ShutdownOrder, Submit, control, workers, Started
<1>2. PICK s \in {"total", "dropped"} : spc' = [spc EXCEPT ![p] = s]
  BY DEF Submit
<1>3. fate[p] = "none" /\ ~Accepted(p) /\ UNCHANGED fate
  BY DEF PipelineInv, Places, OnlyAccepted, Accepted, Submit
<1>4. stateOf[p] = "new"
  BY <1>3, StateOf DEF Submit
<1>5. PICK t \in {"accepted", "dropped"} :
        t = IF s = "total" THEN "accepted" ELSE "dropped"
  OBVIOUS
<1>6. \A q \in Payloads :
        (IF fate'[q] # "none" THEN fate'[q]
         ELSE IF Accepted(q)' THEN "accepted" ELSE spc'[q])
        = IF q = p THEN t ELSE stateOf[q]
  BY <1>2, <1>3, <1>5, StateOf DEF Accepted, PipelineInv, Typed
<1>7. stateOf' = [stateOf EXCEPT ![p] = t]
  BY <1>6, StateOf DEF stateOf
<1> QED
  BY <1>1, <1>4, <1>7 DEF Deliver!Submit

LEMMA SettleDelivers ==
  ASSUME PipelineInv, NEW w \in WorkerIds, NEW f \in Fates,
         wpc[w] \in {"process", "export"}, Settle(w, f),
         UNCHANGED <<control, submitters>>, Started, Started'
  PROVE  \E p \in Payloads : Deliver!Settle(p)
<1> DEFINE h == held[w]
<1>0. h # NoPayload /\ h \in Payloads
  BY DEF PipelineInv, Control, HeldAtWork, Typed
<1>1. ~hooked /\ UNCHANGED hooked
  BY DEF PipelineInv, Control, ShutdownOrder, WorkersDone, control
<1>2. fate[h] = "none" /\ Accepted(h)
  BY <1>0 DEF PipelineInv, Places, OnlyAccepted, OnePlace
<1>3. stateOf[h] = "accepted"
  BY <1>0, <1>2, StateOf
<1>4. fate' = [fate EXCEPT ![h] = f] /\ f # "none"
  BY DEF Settle, Fates
<1> HIDE DEF h
<1>5. \A q \in Payloads :
        (IF fate'[q] # "none" THEN fate'[q]
         ELSE IF Accepted(q)' THEN "accepted" ELSE spc'[q])
        = IF q = h THEN f ELSE stateOf[q]
  BY <1>0, <1>4, StateOf DEF Accepted, PipelineInv, Typed, submitters
<1>6. stateOf' = [stateOf EXCEPT ![h] = f]
  BY <1>5, StateOf DEF stateOf
<1>7. f \in Deliver!Fates
  BY DEF Fates, Deliver!Fates
<1> QED
  BY <1>0, <1>1, <1>3, <1>6, <1>7 DEF Deliver!Settle

\* When the hooks run, every channel is empty and every worker has ended, so
\* whatever was accepted has met its fate.
LEMMA HooksDeliver ==
  ASSUME PipelineInv, RunHooks
  PROVE  Deliver!Finish
<1>1. closed = Lanes /\ WorkersDone /\ ~hooked /\ hooked' = TRUE
  BY DEF PipelineInv, Control, ShutdownOrder, RunHooks
<1>2. Started => \A l \in Lanes : Len(queue[l]) = 0
  BY <1>1, WorkerTyped, EmptySeq
     DEF PipelineInv, Control, ShutdownOrder, WorkersDone, Started
<1>3. \A w \in WorkerIds : held[w] = NoPayload
  BY <1>1 DEF PipelineInv, Control, HeldAtWork, WorkersDone
<1>4. ASSUME Started, NEW p \in Payloads PROVE stateOf[p] # "accepted"
  <2>1. spc[p] = "accepted" => Accepted(p)
    BY DEF PipelineInv, Typed, Fates, Accepted
  <2>2. Accepted(p) => fate[p] # "none"
    <3> SUFFICES ASSUME Accepted(p), fate[p] = "none" PROVE FALSE
      OBVIOUS
    <3>1. LaneOf(p) \in Lanes /\ p # NoPayload
      BY LaneTyped, PipelineAssumption
    <3>2. \/ \E i \in 1 .. Len(queue[LaneOf(p)]) : queue[LaneOf(p)][i] = p
          \/ \E w \in WorkerIds : held[w] = p
      BY DEF PipelineInv, Places, NothingLost
    <3> HIDE DEF LaneOf
    <3> QED
      BY <1>2, <1>3, <1>4, <3>1, <3>2
  <2>3. fate[p] # "accepted"
    BY DEF PipelineInv, Typed, Fates
  <2> QED
    BY <2>1, <2>2, <2>3, StateOf DEF Accepted
<1>5. UNCHANGED <<stateOf, Started>>
  BY DEF RunHooks, submitters, workers, stateOf, Accepted, Started
<1> QED
  BY <1>1, <1>4, <1>5 DEF Deliver!Finish

\* Start launches the workers, of which there is at least one.
LEMMA StartDelivers ==
  ASSUME PipelineInv, Start
  PROVE  Deliver!Start
<1>1. ~hooked /\ UNCHANGED <<hooked, stateOf>>
  BY DEF PipelineInv, Control, ShutdownOrder, Start, submitters, stateOf, Accepted
<1>2. PICK w \in WorkerIds : TRUE
  BY SomeWorker
<1>3. ~Started
  BY <1>2 DEF PipelineInv, Control, ShutdownOrder, Start, Started
<1>4. Started' = TRUE
  BY DEF Start, Started
<1> QED
  BY <1>1, <1>3, <1>4 DEF Deliver!Start

LEMMA StepDelivers ==
  PipelineInv /\ [Next]_vars => [Deliver!Next]_(Deliver!vars)
<1> SUFFICES ASSUME PipelineInv, [Next]_vars
             PROVE  Deliver!Next \/ UNCHANGED <<stateOf, Started, hooked>>
  BY DEF Deliver!vars
<1>0. Typed
  BY DEF PipelineInv
<1>1. ASSUME NEW p \in Payloads, Receiver(p) \/ Gauges(p)
      PROVE  Deliver!Next \/ UNCHANGED <<stateOf, Started, hooked>>
  <2>1. CASE Submit(p)
    BY <2>1, SubmitDelivers DEF Deliver!Next
  <2>2. CASE SubmitClosed(p) \/ Gauges(p)
    <3>1. UNCHANGED <<fate, Started, hooked>>
      BY <2>2 DEF SubmitClosed, Gauges, SubmitTotal, SubmitGauge, control,
                  workers, Started
    <3>2. \A q \in Payloads : \/ spc'[q] = spc[q]
                              \/ Accepted(q) /\ Accepted(q)'
      BY <1>0, <2>2 DEF SubmitClosed, Gauges, SubmitTotal, SubmitGauge,
                        submitters, Accepted, Typed
    <3> QED
      BY <1>0, <3>1, <3>2, SameState
  <2> QED
    BY <1>1, <2>1, <2>2 DEF Receiver
<1>2. ASSUME NEW w \in WorkerIds, Worker(w)
      PROVE  Deliver!Next \/ UNCHANGED <<stateOf, Started, hooked>>
  <2>0. Started /\ Started'
    BY <1>2, WorkerStarted
  <2>1. CASE UNCHANGED <<fate, hooked, spc>>
    <3>1. UNCHANGED stateOf
      BY <1>0, <2>1, SameState
    <3>2. UNCHANGED Started
      BY <2>0
    <3> QED
      BY <2>1, <3>1, <3>2
  <2>2. CASE Process(w) /\ (Settle(w, "filtered") \/ Settle(w, "rejected"))
    BY <2>0, <2>2, SettleDelivers DEF Process, Fates, Deliver!Next
  <2>3. CASE Export(w)
    BY <2>0, <2>3, SettleDelivers DEF Export, Fates, Deliver!Next
  <2> QED
    BY <1>2, <2>1, <2>2, <2>3
       DEF Worker, Receive, Exit, WorkerTotal, WorkerGauge, Process,
           submitters, control
<1>3. CASE RunHooks \/ Start
  BY <1>3, HooksDeliver, StartDelivers DEF Deliver!Next
<1>4. CASE \/ Shutdown \/ Wait \/ CloseExporter \/ UNCHANGED vars
           \/ \E l \in Lanes : CloseChannel(l)
  <2>1. UNCHANGED <<fate, hooked, spc, Started>>
    BY <1>4 DEF Shutdown, Wait, CloseExporter, CloseChannel, vars, submitters,
                workers, control, Started
  <2> QED
    BY <1>0, <2>1, SameState
<1> QED
  BY <1>1, <1>2, <1>3, <1>4 DEF Next, Stopping, Rest

\* Shutdown of a started pipeline loses nothing that was accepted, and one that
\* was never started settles nothing: the pipeline implements Delivery.
THEOREM PipelineDelivers == Spec => DeliverySpec
<1>1. Init => Deliver!Init
  <2> SUFFICES ASSUME Init PROVE Deliver!Init
    OBVIOUS
  <2>1. PICK w \in WorkerIds : TRUE
    BY SomeWorker
  <2>2. Started = FALSE
    BY <2>1 DEF Init, Started
  <2> QED
    BY <2>2 DEF Init, Deliver!Init, stateOf, Accepted
<1>2. PipelineInv /\ [Next]_vars => [Deliver!Next]_(Deliver!vars)
  BY StepDelivers
<1> QED
  BY <1>1, <1>2, PipelineInvariant, PTL DEF Spec, DeliverySpec, Deliver!Spec
=============================================================================
