----------------------------- MODULE WALProofs ------------------------------
(***************************************************************************)
(* Machine-checked proofs about WAL, for any records, segment size and     *)
(* number of segments and crashes.                                         *)
(***************************************************************************)
EXTENDS WAL, TLAPS, SequenceTheorems

\* What the steps of the writer and of the replay rely on.  The largest
\* segment exists, nothing is in a segment that does not exist, the current
\* segment is the largest one, and the header of the record that is being
\* written is the end of it.
Orderly ==
    /\ present = {} \/ \E m \in present : \A t \in present : t <= m
    /\ \A s \in Segments : s \notin present => file[s] = << >>
    /\ writer # "down" => /\ cur \in present
                          /\ segSeq = cur + 1
                          /\ \A t \in present : t <= cur
    /\ handle = "open" => writer # "down"
    /\ phase # "idle" => writer # "down" /\ next > 1
    /\ phase = "data" => /\ handle = "open"
                         /\ file[cur] # << >>
                         /\ file[cur][Len(file[cur])] = Torn
    /\ seg # 0 => writer = "down"

WALInv == WALTypeOK /\ Orderly

Items == Records \cup {Torn}
-----------------------------------------------------------------------------
(* The operators.                                                          *)

\* findMaxSegment returns the largest segment.
LEMMA MaxPresentLargest ==
  ASSUME present \subseteq Segments,
         present = {} \/ \E m \in present : \A t \in present : t <= m
  PROVE  /\ MaxPresent \in Nat
         /\ \A t \in present : t <= MaxPresent
<1>1. CASE present = {}
  BY <1>1 DEF MaxPresent
<1>2. CASE present # {}
  <2> DEFINE Largest(m) == \A t \in present : t <= m
  <2>1. \E m \in present : Largest(m)
    BY <1>2
  <2>2. MaxPresent = CHOOSE m \in present : Largest(m)
    BY <1>2 DEF MaxPresent
  <2> HIDE DEF Largest
  <2>3. MaxPresent \in present /\ Largest(MaxPresent)
    BY <2>1, <2>2
  <2> QED
    BY <2>3 DEF Largest, Segments
<1> QED
  BY <1>1, <1>2

\* What a loss of power leaves of a file is a part of its beginning, and
\* perhaps a torn item.
LEMMA SurvivorsPrefix ==
  ASSUME NEW f \in Seq(Items), NEW k \in Nat, NEW g \in Survivors(f, k)
  PROVE  /\ g \in Seq(Items)
         /\ Len(g) <= Len(f)
         /\ \A i \in 1 .. Len(g) : g[i] # Torn => g[i] = f[i]
<1>0. ASSUME NEW n \in k .. Len(f)
      PROVE  /\ SubSeq(f, 1, n) \in Seq(Items)
             /\ Len(SubSeq(f, 1, n)) = n
             /\ \A i \in 1 .. n : SubSeq(f, 1, n)[i] = f[i]
  BY SubSeqProperties, LenProperties
<1>1. ASSUME NEW n \in k .. Len(f), g = SubSeq(f, 1, n)
      PROVE  /\ g \in Seq(Items)
             /\ Len(g) <= Len(f)
             /\ \A i \in 1 .. Len(g) : g[i] # Torn => g[i] = f[i]
  BY <1>0, <1>1, LenProperties
<1>2. ASSUME NEW n \in k .. (Len(f) - 1), g = Append(SubSeq(f, 1, n), Torn)
      PROVE  /\ g \in Seq(Items)
             /\ Len(g) <= Len(f)
             /\ \A i \in 1 .. Len(g) : g[i] # Torn => g[i] = f[i]
  <2>1. Len(f) \in Nat /\ n \in k .. Len(f)
    BY LenProperties
  <2>2. /\ g \in Seq(Items)
        /\ Len(g) = n + 1
        /\ \A i \in 1 .. n : g[i] = SubSeq(f, 1, n)[i]
        /\ g[n + 1] = Torn
    BY <1>0, <1>2, <2>1, AppendProperties DEF Items
  <2> QED
    BY <1>0, <2>1, <2>2
<1> QED
  BY <1>1, <1>2 DEF Survivors
-----------------------------------------------------------------------------
(* The state is typed and orderly.                                         *)

LEMMA WALInvInit == Init => WALInv
  BY WALAssumption, LenProperties
     DEF Init, WALInv, WALTypeOK, Orderly, Records, Segments, Items

LEMMA SizeLen == Len(Size) \in Nat
  BY WALAssumption, LenProperties

LEMMA Empty ==
  << >> \in Seq(Records) /\ << >> \in Seq(Items) /\ Len(<< >>) = 0
  BY EmptySeq

\* A new segment is larger than all others.
LEMMA CreateSegmentOrderly ==
  ASSUME WALInv, NEW s, CreateSegment(s), \A t \in present : t < s
  PROVE  /\ present' \subseteq Segments
         /\ file' \in [Segments -> Seq(Items)]
         /\ synced' \in [Segments -> Nat]
         /\ \A t \in Segments : synced'[t] <= Len(file'[t])
         /\ handle' = "open"
         /\ cur' \in Segments /\ cur' \in present'
         /\ segSeq' \in Nat /\ segSeq' = cur' + 1
         /\ segSize' \in Nat
         /\ \A t \in present' : t <= cur'
         /\ \A t \in Segments : t \notin present' => file'[t] = << >>
  BY EmptySeq DEF WALInv, WALTypeOK, Orderly, CreateSegment, Segments, Items

\* After a loss of power every file is a part of what it was.
LEMMA PowerFailureFiles ==
  ASSUME WALInv, PowerFailure
  PROVE  /\ file' \in [Segments -> Seq(Items)]
         /\ synced' \in [Segments -> Nat]
         /\ \A s \in Segments :
               /\ synced'[s] <= Len(file'[s])
               /\ Len(file'[s]) <= Len(file[s])
               /\ \A i \in 1 .. Len(file'[s]) :
                     file'[s][i] # Torn => file'[s][i] = file[s][i]
         /\ \A s \in Segments : s \notin present => file'[s] = << >>
<1>0. /\ file \in [Segments -> Seq(Items)]
      /\ synced \in [Segments -> Nat]
      /\ \A s \in Segments : s \notin present => file[s] = << >>
  BY DEF WALInv, WALTypeOK, Orderly, Items
<1>1. PICK left \in [Segments -> UNION {Survivors(file[s], synced[s])
                                          : s \in Segments}] :
        /\ \A s \in Segments : left[s] \in Survivors(file[s], synced[s])
        /\ file' = left
        /\ synced' = [s \in Segments |-> Len(left[s])]
  BY DEF PowerFailure
<1>2. ASSUME NEW s \in Segments
      PROVE  /\ left[s] \in Seq(Items)
             /\ Len(left[s]) <= Len(file[s])
             /\ Len(left[s]) \in Nat
             /\ \A i \in 1 .. Len(left[s]) :
                   left[s][i] # Torn => left[s][i] = file[s][i]
  BY <1>0, <1>1, SurvivorsPrefix, LenProperties
<1>3. ASSUME NEW s \in Segments, s \notin present PROVE left[s] = << >>
  BY <1>0, <1>2, <1>3, EmptySeq
<1> QED
  BY <1>1, <1>2, <1>3

LEMMA WALInvNext == WALInv /\ [Next]_vars => WALInv'
<1> SUFFICES ASSUME WALInv, [Next]_vars PROVE WALInv'
  OBVIOUS
<1> USE WALAssumption
<1>0. /\ WALTypeOK /\ Orderly
      /\ file \in [Segments -> Seq(Items)]
  BY DEF WALInv, WALTypeOK, Items
<1>1. CASE NewWriter
  <2>0. MaxPresent \in Nat /\ \A t \in present : t <= MaxPresent
    BY <1>0, MaxPresentLargest DEF WALTypeOK, Orderly
  <2>1. \A t \in present : t < MaxPresent + 1
    BY <1>0, <2>0 DEF WALTypeOK, Segments
  <2>2. CreateSegment(MaxPresent + 1)
    BY <1>1 DEF NewWriter
  <2> QED
    BY <1>0, <1>1, <2>1, <2>2, CreateSegmentOrderly
       DEF NewWriter, WALInv, WALTypeOK, Orderly, Items, replay
<1>2. ASSUME NEW r \in Records, AppendRecord(r) PROVE WALInv'
  <2>1. next' \in 1 .. Len(Size) + 1 /\ next' > 1
    BY <1>2, SizeLen DEF AppendRecord, Records
  <2>2. phase' \in {"rotate", "header"}
    BY <1>2 DEF AppendRecord
  <2> QED
    BY <1>0, <1>2, <2>1, <2>2
       DEF AppendRecord, WALInv, WALTypeOK, Orderly, directory, replay
<1>3. CASE Rotate
  <2>1. \A t \in present : t < segSeq
    BY <1>0, <1>3 DEF Rotate, WALTypeOK, Orderly, Segments
  <2> QED
    BY <1>0, <1>3, <2>1, CreateSegmentOrderly
       DEF Rotate, WALInv, WALTypeOK, Orderly, Items, replay
<1>4. CASE RotateFails
  BY <1>0, <1>4 DEF RotateFails, WALInv, WALTypeOK, Orderly, directory, replay
<1>5. ASSUME Write(Torn), cur \in Segments
      PROVE  /\ file' \in [Segments -> Seq(Items)]
             /\ \A s \in Segments : s # cur => file'[s] = file[s]
             /\ Len(file'[cur]) = Len(file[cur]) + 1
             /\ file'[cur] # << >>
             /\ file'[cur][Len(file'[cur])] = Torn
             /\ \A s \in Segments : synced[s] <= Len(file'[s])
  <2>1. /\ file[cur] \in Seq(Items)
        /\ file' = [file EXCEPT ![cur] = Append(file[cur], Torn)]
    BY <1>0, <1>5 DEF Write
  <2>2. /\ file'[cur] = Append(file[cur], Torn)
        /\ file'[cur] \in Seq(Items)
        /\ Len(file'[cur]) = Len(file[cur]) + 1
        /\ file'[cur][Len(file'[cur])] = Torn
    BY <1>0, <1>5, <2>1, AppendProperties DEF Items
  <2>3. Len(file[cur]) \in Nat
    BY <2>1, LenProperties
  <2>4. file'[cur] # << >>
    BY <2>2, <2>3, Empty
  <2> QED
    BY <1>0, <1>5, <2>1, <2>2, <2>3, <2>4 DEF WALTypeOK
<1>6. writer # "down" => cur \in Segments /\ cur \in present
  BY <1>0 DEF WALTypeOK, Orderly
<1>7. CASE WriteHeader
  BY <1>0, <1>5, <1>6, <1>7
     DEF WriteHeader, WALInv, WALTypeOK, Orderly, Items, replay
<1>8. CASE WriteHeaderFails
  <2>1. CASE UNCHANGED file
    BY <1>0, <1>8, <2>1
       DEF WriteHeaderFails, WALInv, WALTypeOK, Orderly, replay
  <2>2. CASE Write(Torn)
    BY <1>0, <1>5, <1>6, <1>8, <2>2
       DEF WriteHeaderFails, WALInv, WALTypeOK, Orderly, Items, replay
  <2> QED
    BY <1>8, <2>1, <2>2 DEF WriteHeaderFails
<1>9. CASE WriteData
  <2>1. /\ cur \in Segments /\ cur \in present
        /\ file[cur] \in Seq(Items)
        /\ Pending \in Records
    BY <1>0, <1>6, <1>9, SizeLen
       DEF WriteData, Orderly, WALTypeOK, Pending, Records
  <2>2. /\ Written(Pending) \in Seq(Items)
        /\ Len(Written(Pending)) = Len(file[cur])
    <3>1. Pending \in Items /\ Len(file[cur]) \in 1 .. Len(file[cur])
      BY <1>0, <1>9, <2>1, LenProperties, EmptySeq
         DEF WriteData, Orderly, Items
    <3> QED
      BY <2>1, <3>1, ExceptSeq DEF Written
  <2>3. Size[Pending] \in Nat
    BY <2>1, ElementOfSeq DEF Records
  <2>4. /\ file' = [file EXCEPT ![cur] = Written(Pending)]
        /\ file' \in [Segments -> Seq(Items)]
        /\ \A s \in Segments : Len(file'[s]) = Len(file[s])
        /\ \A s \in Segments : s # cur => file'[s] = file[s]
    BY <1>0, <1>9, <2>1, <2>2 DEF WriteData
  <2>5. segSize' \in Nat /\ acked' \subseteq Records
    BY <1>0, <1>9, <2>1, <2>3 DEF WriteData, WALTypeOK
  <2> HIDE DEF Pending, Written
  <2> QED
    BY <1>0, <1>9, <2>1, <2>4, <2>5
       DEF WriteData, WALInv, WALTypeOK, Orderly, Items, replay
<1>10. CASE WriteDataFails
  BY <1>0, <1>10
     DEF WriteDataFails, WALInv, WALTypeOK, Orderly, directory, replay
<1>11. CASE Sync
  <2>1. cur \in Segments /\ Len(file[cur]) \in Nat
    BY <1>0, <1>6, <1>11, LenProperties DEF Sync
  <2> QED
    BY <1>0, <1>11, <2>1 DEF Sync, WALInv, WALTypeOK, Orderly, replay
<1>12. CASE Close
  BY <1>0, <1>12 DEF Close, WALInv, WALTypeOK, Orderly, directory, replay
<1>13. CASE Kill
  <2>1. crashes' \in 0 .. MaxCrashes
    BY <1>0, <1>13 DEF Kill, Restart, WALTypeOK
  <2>2. WALTypeOK'
    BY <1>0, <1>13, <2>1, Empty DEF Kill, Restart, WALTypeOK, directory
  <2>3. Orderly'
    BY <1>0, <1>13 DEF Kill, Restart, Orderly, directory
  <2> QED
    BY <2>2, <2>3 DEF WALInv
<1>14. CASE PowerFailure
  <2>1. /\ Restart
        /\ crashes < MaxCrashes
        /\ UNCHANGED present
        /\ intact' \in BOOLEAN
    BY <1>14 DEF PowerFailure
  <2>2. crashes' \in 0 .. MaxCrashes
    BY <1>0, <2>1 DEF Restart, WALTypeOK
  <2>3. WALTypeOK'
    <3>1. /\ file' \in [Segments -> Seq(Items)]
          /\ synced' \in [Segments -> Nat]
          /\ \A s \in Segments : synced'[s] <= Len(file'[s])
      BY <1>14, PowerFailureFiles
    <3>2. delivered' \in Seq(Records)
      BY <2>1, Empty DEF Restart
    <3> QED
      BY <1>0, <2>1, <2>2, <3>1, <3>2 DEF Restart, WALTypeOK, Items
  <2>4. Orderly'
    BY <1>0, <1>14, <2>1, PowerFailureFiles, Empty DEF Restart, Orderly
  <2> QED
    BY <2>3, <2>4 DEF WALInv
<1>15. CASE ReplayStart
  <2>0. PICK t \in present : t \in Segments
    BY <1>0, <1>15 DEF ReplayStart, WALTypeOK
  <2>1. seg' \in Segments
    BY <1>15, <2>0 DEF ReplayStart, Segments
  <2>2. WALTypeOK'
    <3>1. delivered' \in Seq(Records)
      BY <1>15, Empty DEF ReplayStart
    <3> QED
      BY <1>0, <1>15, <2>1, <3>1 DEF ReplayStart, WALTypeOK, directory
  <2>3. Orderly'
    BY <1>0, <1>15 DEF ReplayStart, Orderly, directory
  <2> QED
    BY <2>2, <2>3 DEF WALInv
<1>16. ASSUME seg \in Segments, NextSegment
       PROVE  seg' \in Segments \cup {0} /\ pos' \in Nat \ {0}
  BY <1>16 DEF NextSegment, Segments
<1>17. CASE ReplayRecord
  <2>1. seg \in Segments /\ file[seg] \in Seq(Items)
    BY <1>0, <1>17 DEF ReplayRecord, WALTypeOK
  <2>2. file[seg][pos] \in Records
    BY <1>17, <2>1, ElementOfSeq, LenProperties
       DEF ReplayRecord, Readable, Items
  <2>3. delivered' \in Seq(Records)
    BY <1>0, <1>17, <2>2, AppendProperties DEF ReplayRecord, WALTypeOK
  <2>4. /\ seg' \in Segments \cup {0}
        /\ pos' \in Nat \ {0}
    BY <1>0, <1>16, <1>17, <2>1, <2>2 DEF ReplayRecord, WALTypeOK
  <2>5. WALTypeOK'
    BY <1>0, <1>17, <2>3, <2>4 DEF ReplayRecord, WALTypeOK, directory
  <2>6. Orderly'
    BY <1>0, <1>17 DEF ReplayRecord, Orderly, directory
  <2> QED
    BY <2>5, <2>6 DEF WALInv
<1>18. CASE ReplayNext
  <2>1. seg' \in Segments \cup {0} /\ pos' \in Nat \ {0}
    BY <1>0, <1>16, <1>18 DEF ReplayNext, WALTypeOK
  <2>2. WALTypeOK'
    BY <1>0, <1>18, <2>1 DEF ReplayNext, WALTypeOK, directory
  <2>3. Orderly'
    BY <1>0, <1>18 DEF ReplayNext, Orderly, directory
  <2> QED
    BY <2>2, <2>3 DEF WALInv
<1>19. CASE UNCHANGED vars
  BY <1>0, <1>19 DEF vars, directory, replay, WALInv, WALTypeOK, Orderly
<1> QED
  BY <1>1, <1>2, <1>3, <1>4, <1>7, <1>8, <1>9, <1>10, <1>11, <1>12, <1>13,
     <1>14, <1>15, <1>17, <1>18, <1>19 DEF Next

\* The directory, the writer and the replay keep their types through failed
\* writes, failed rotations, kills and losses of power.
THEOREM WALTypeCorrect == Spec => []WALTypeOK
<1>1. WALInv => WALTypeOK
  BY DEF WALInv
<1> QED
  BY <1>1, WALInvInit, WALInvNext, PTL DEF Spec
-----------------------------------------------------------------------------
(* What a step does to the files.                                          *)

\* A header, or a part of one, is appended to the current segment.
HeaderAppended ==
    /\ phase = "header"
    /\ handle = "open"
    /\ file' = [file EXCEPT ![cur] = Append(file[cur], Torn)]

\* New segments are empty already, so that a step leaves the files alone, or
\* appends a header, or completes it, or is a loss of power.
LEMMA FileSteps ==
  ASSUME WALInv, [Next]_vars
  PROVE  \/ UNCHANGED file
         \/ HeaderAppended /\ (~intact' \/ WriteHeader)
         \/ WriteData
         \/ PowerFailure
<1>0. /\ file \in [Segments -> Seq(Items)]
      /\ Orderly
      /\ WALTypeOK
  BY DEF WALInv, WALTypeOK, Items
<1>1. ASSUME NEW s, CreateSegment(s), s \notin present PROVE UNCHANGED file
  BY <1>0, <1>1 DEF CreateSegment, Orderly
<1>2. CASE NewWriter
  <2>1. MaxPresent \in Nat /\ \A t \in present : t <= MaxPresent
    BY <1>0, MaxPresentLargest DEF WALTypeOK, Orderly
  <2>2. MaxPresent + 1 \notin present
    BY <2>1
  <2> QED
    BY <1>1, <1>2, <2>2 DEF NewWriter
<1>3. CASE Rotate
  <2>1. segSeq \notin present
    BY <1>0, <1>3 DEF Rotate, Orderly, WALTypeOK, Segments
  <2> QED
    BY <1>1, <1>3, <2>1 DEF Rotate
<1>4. CASE WriteHeader \/ WriteHeaderFails
  BY <1>4 DEF WriteHeader, WriteHeaderFails, HeaderAppended, Write
<1>5. CASE \/ \E r \in Records : AppendRecord(r)
          \/ RotateFails
          \/ WriteDataFails
          \/ Sync
          \/ Close
          \/ Kill
          \/ ReplayStart
          \/ ReplayRecord
          \/ ReplayNext
          \/ UNCHANGED vars
  BY <1>5 DEF AppendRecord, RotateFails, WriteDataFails, Sync, Close, Kill,
      ReplayStart, ReplayRecord, ReplayNext, directory, vars
<1> QED
  BY <1>2, <1>3, <1>4, <1>5 DEF Next

\* HeaderAppended and WriteData, item by item.
LEMMA Appended ==
  ASSUME WALInv, HeaderAppended
  PROVE  /\ cur \in Segments
         /\ \A s \in Segments : s # cur => file'[s] = file[s]
         /\ Len(file[cur]) \in Nat
         /\ Len(file'[cur]) = Len(file[cur]) + 1
         /\ \A i \in 1 .. Len(file[cur]) : file'[cur][i] = file[cur][i]
         /\ file'[cur][Len(file[cur]) + 1] = Torn
<1>1. /\ file \in [Segments -> Seq(Items)]
      /\ cur \in Segments
  BY DEF WALInv, WALTypeOK, Orderly, HeaderAppended, Items
<1>2. file[cur] \in Seq(Items) /\ Torn \in Items
  BY <1>1 DEF Items
<1>3. /\ file'[cur] = Append(file[cur], Torn)
      /\ \A s \in Segments : s # cur => file'[s] = file[s]
  BY <1>1 DEF HeaderAppended
<1> QED
  BY <1>1, <1>2, <1>3, AppendProperties, LenProperties

LEMMA Completed ==
  ASSUME WALInv, WriteData
  PROVE  /\ cur \in Segments
         /\ Pending \in Records
         /\ \A s \in Segments : s # cur => file'[s] = file[s]
         /\ Len(file[cur]) \in Nat \ {0}
         /\ file[cur][Len(file[cur])] = Torn
         /\ Len(file'[cur]) = Len(file[cur])
         /\ \A i \in 1 .. (Len(file[cur]) - 1) : file'[cur][i] = file[cur][i]
         /\ file'[cur][Len(file[cur])] = Pending
<1>1. /\ file \in [Segments -> Seq(Items)]
      /\ cur \in Segments
      /\ file[cur] # << >>
      /\ file[cur][Len(file[cur])] = Torn
  BY DEF WALInv, WALTypeOK, Orderly, WriteData, Items
<1>2. Pending \in Records /\ Pending \in Items
  BY SizeLen DEF WALInv, WALTypeOK, Orderly, WriteData, Pending, Records, Items
<1>3. file[cur] \in Seq(Items) /\ Len(file[cur]) \in Nat \ {0}
  BY <1>1, LenProperties, EmptySeq
<1>4. /\ file'[cur] = Written(Pending)
      /\ \A s \in Segments : s # cur => file'[s] = file[s]
  BY <1>1 DEF WriteData
<1>5. /\ Len(Written(Pending)) = Len(file[cur])
      /\ \A i \in 1 .. (Len(file[cur]) - 1) :
            Written(Pending)[i] = file[cur][i]
      /\ Written(Pending)[Len(file[cur])] = Pending
  BY <1>2, <1>3, ExceptSeq, LenProperties DEF Written
<1> QED
  BY <1>1, <1>2, <1>3, <1>4, <1>5
-----------------------------------------------------------------------------
(* Segments only grow.                                                     *)

LEMMA FileTyped ==
  ASSUME WALInv, NEW s \in Segments
  PROVE  /\ file[s] \in Seq(Items)
         /\ Len(file[s]) \in Nat
         /\ DOMAIN file[s] = 1 .. Len(file[s])
  BY LenProperties DEF WALInv, WALTypeOK, Items

LEMMA Grow ==
  ASSUME WALInv, WALInv', [Next]_vars, ~PowerFailure,
         NEW s \in Segments, NEW i \in DOMAIN file[s]
  PROVE  /\ i \in DOMAIN file'[s]
         /\ file[s][i] # Torn => file'[s][i] = file[s][i]
<1>1. /\ Len(file[s]) \in Nat
      /\ DOMAIN file[s] = 1 .. Len(file[s])
      /\ Len(file'[s]) \in Nat
      /\ DOMAIN file'[s] = 1 .. Len(file'[s])
  <2>1. file'[s] \in Seq(Items)
    BY DEF WALInv, WALTypeOK, Items
  <2> QED
    BY <2>1, FileTyped, LenProperties
<1>2. CASE UNCHANGED file
  BY <1>2
<1>3. CASE HeaderAppended
  BY <1>1, <1>3, Appended
<1>4. CASE WriteData
  BY <1>1, <1>4, Completed
<1> QED
  BY <1>2, <1>3, <1>4, FileSteps

\* No step of a writer, new or old, or of a replay truncates a segment or
\* changes a whole record in it, whatever has failed before.
THEOREM SegmentsGrow == Spec => SegmentsOnlyGrow
<1>0. WALInv /\ PowerFailure => crashes' # crashes
  BY DEF PowerFailure, Restart, WALInv, WALTypeOK
<1>1. WALInv /\ WALInv' /\ [Next]_vars =>
        [crashes' = crashes => \A s \in Segments : \A i \in DOMAIN file[s] :
            /\ i \in DOMAIN file'[s]
            /\ file[s][i] # Torn => file'[s][i] = file[s][i]]_vars
  BY <1>0, Grow
<1> QED
  BY <1>1, WALInvInit, WALInvNext, PTL DEF Spec, SegmentsOnlyGrow
-----------------------------------------------------------------------------
(* Acknowledged records can be read.                                       *)

\* Unless a write has failed, only the end of a segment is torn, and the end of
\* the current one only while a record is being written.
TornLast ==
    /\ \A s \in Segments : \A i \in 1 .. Len(file[s]) :
          file[s][i] = Torn => i = Len(file[s])
    /\ (handle = "open" /\ phase # "data") =>
          \A i \in 1 .. Len(file[cur]) : file[cur][i] # Torn

\* The steps that change the handle, the phase or the current segment.
LEMMA WriterSteps ==
  ASSUME [Next]_vars, intact'
  PROVE  \/ WriteHeader
         \/ WriteData
         \/ NewWriter \/ Rotate
         \/ handle' = "closed" /\ UNCHANGED acked
         \/ /\ UNCHANGED <<handle, cur, acked>>
            /\ phase # "data"
         \/ UNCHANGED <<handle, cur, phase, acked>>
<1>1. ASSUME NEW r \in Records, AppendRecord(r)
      PROVE  /\ UNCHANGED <<handle, cur, acked>>
             /\ phase # "data"
  BY <1>1 DEF AppendRecord
<1>2. CASE RotateFails \/ Close \/ Kill \/ PowerFailure
  <2>1. handle' = "closed"
    BY <1>2 DEF RotateFails, Close, Kill, PowerFailure, Restart
  <2>2. UNCHANGED acked
    BY <1>2 DEF RotateFails, Close, Kill, PowerFailure, Restart
  <2> QED
    BY <2>1, <2>2
<1>3. CASE WriteHeaderFails
  <2>1. handle' = "closed" /\ UNCHANGED acked
    BY <1>3 DEF WriteHeaderFails
  <2> QED
    BY <2>1
<1>4. CASE WriteDataFails
  BY <1>4 DEF WriteDataFails
<1>5. CASE Sync \/ ReplayStart \/ ReplayRecord \/ ReplayNext \/ UNCHANGED vars
  BY <1>5 DEF Sync, ReplayStart, ReplayRecord, ReplayNext, vars
<1> QED
  BY <1>1, <1>2, <1>3, <1>4, <1>5 DEF Next

LEMMA TornLastNext ==
  ASSUME WALInv, WALInv', TornLast, [Next]_vars, intact'
  PROVE  TornLast'
<1>0. \A s \in Segments : Len(file[s]) \in Nat /\ Len(file'[s]) \in Nat
  <2>1. \A s \in Segments : file'[s] \in Seq(Items)
    BY DEF WALInv, WALTypeOK, Items
  <2> QED
    BY <2>1, FileTyped, LenProperties
<1>1. \A s \in Segments : \A i \in 1 .. Len(file'[s]) :
        file'[s][i] = Torn => i = Len(file'[s])
  <2> SUFFICES ASSUME NEW s \in Segments, NEW i \in 1 .. Len(file'[s]),
                      file'[s][i] = Torn
               PROVE  i = Len(file'[s])
    OBVIOUS
  <2>1. CASE UNCHANGED file
    BY <2>1 DEF TornLast
  <2>2. CASE HeaderAppended
    BY <1>0, <2>2, Appended DEF TornLast, HeaderAppended
  <2>3. CASE WriteData
    BY <1>0, <2>3, Completed DEF TornLast
  <2> QED
    BY <2>1, <2>2, <2>3, FileSteps DEF PowerFailure
<1>2. ASSUME handle' = "open", phase' # "data"
      PROVE  \A i \in 1 .. Len(file'[cur']) : file'[cur'][i] # Torn
  <2>1. CASE WriteHeader
    BY <1>2, <2>1 DEF WriteHeader
  <2>2. CASE WriteData
    <3>1. cur' = cur
      BY <2>2 DEF WriteData
    <3>2. Pending # Torn
      BY <2>2, Completed DEF Records, Torn
    <3> QED
      BY <1>0, <2>2, <3>1, <3>2, Completed DEF TornLast
  <2>3. CASE NewWriter \/ Rotate
    <3>1. cur' \in Segments /\ file'[cur'] = << >>
      BY <2>3 DEF NewWriter, Rotate, CreateSegment, WALInv, WALTypeOK
    <3> QED
      BY <3>1, Empty
  <2>4. CASE ~WriteHeader /\ ~WriteData /\ ~(NewWriter \/ Rotate)
    <3>1. UNCHANGED <<handle, cur>> /\ phase # "data"
      BY <1>2, <2>4, WriterSteps
    <3>2. UNCHANGED file
      BY <2>4, FileSteps DEF PowerFailure
    <3> QED
      BY <1>2, <3>1, <3>2 DEF TornLast
  <2> QED
    BY <2>1, <2>2, <2>3, <2>4
<1> QED
  BY <1>1, <1>2 DEF TornLast

\* A record that can be read stays where it is.
LEMMA StaysReadable ==
  ASSUME WALInv, WALInv', [Next]_vars, ~PowerFailure,
         NEW s \in Segments, NEW i \in DOMAIN file[s], Readable(s, i)
  PROVE  /\ i \in DOMAIN file'[s]
         /\ Readable(s, i)'
         /\ file'[s][i] = file[s][i]
<1>1. \A k \in 1 .. i : k \in DOMAIN file[s] /\ file[s][k] # Torn
  BY FileTyped DEF Readable
<1>2. \A k \in 1 .. i : k \in DOMAIN file'[s] /\ file'[s][k] = file[s][k]
  BY <1>1, Grow
<1>3. i \in 1 .. i
  BY FileTyped
<1> QED
  BY <1>1, <1>2, <1>3 DEF Readable

LEMMA AckedNext ==
  ASSUME WALInv, WALInv', TornLast, AckedReadable, [Next]_vars,
         intact'
  PROVE  AckedReadable'
<1> SUFFICES ASSUME NEW r \in acked'
             PROVE  \E s \in Segments : \E i \in DOMAIN file'[s] :
                       file'[s][i] = r /\ Readable(s, i)'
  BY DEF AckedReadable
<1>1. CASE r \in acked
  <2>1. PICK s \in Segments : \E i \in DOMAIN file[s] :
          file[s][i] = r /\ Readable(s, i)
    BY <1>1 DEF AckedReadable
  <2>2. PICK i \in DOMAIN file[s] : file[s][i] = r /\ Readable(s, i)
    BY <2>1
  <2> QED
    BY <2>2, StaysReadable DEF PowerFailure
<1>2. CASE r \notin acked
  <2>1. WriteData /\ r = Pending
    <3>1. NewWriter \/ Rotate \/ WriteHeader => UNCHANGED acked
      BY DEF NewWriter, Rotate, WriteHeader
    <3> QED
      BY <1>2, <3>1, WriterSteps DEF WriteData
  <2> DEFINE n == Len(file[cur])
  <2>2. /\ cur \in Segments
        /\ n \in Nat \ {0}
        /\ Len(file'[cur]) = n
        /\ file'[cur][n] = r
        /\ r # Torn
        /\ \A k \in 1 .. (n - 1) : file'[cur][k] = file[cur][k]
    BY <2>1, Completed DEF Records, Torn
  <2>3. \A k \in 1 .. (n - 1) : file[cur][k] # Torn
    BY <2>2 DEF TornLast
  <2>4. DOMAIN file'[cur] = 1 .. n
    <3>1. file'[cur] \in Seq(Items)
      BY <2>2 DEF WALInv, WALTypeOK, Items
    <3> QED
      BY <2>2, <3>1, LenProperties
  <2> HIDE DEF n
  <2>5. n \in DOMAIN file'[cur] /\ \A k \in 1 .. n : file'[cur][k] # Torn
    BY <2>2, <2>3, <2>4
  <2> QED
    BY <2>2, <2>5 DEF Readable
<1> QED
  BY <1>1, <1>2

\* As long as writes do not fail and the machine keeps its power, every record
\* whose Append returned nil can be read by a replay, wherever the process was
\* killed and whichever rotations failed.
THEOREM AckedStayReadable == Spec => []IntactReadable
<1> DEFINE Sound == intact => TornLast /\ AckedReadable
<1>1. Init => Sound
  BY Empty DEF Init, TornLast, AckedReadable
<1>2. ASSUME WALInv, WALInv', Sound, [Next]_vars, intact'
      PROVE  TornLast' /\ AckedReadable'
  <2>1. intact
    BY <1>2 DEF Next, vars, NewWriter, AppendRecord, Rotate, RotateFails,
       WriteHeader, WriteHeaderFails, WriteData, WriteDataFails, Sync, Close,
       Kill, PowerFailure, ReplayStart, ReplayRecord, ReplayNext
  <2> QED
    BY <1>2, <2>1, TornLastNext, AckedNext
<1>3. WALInv /\ WALInv' /\ Sound /\ [Next]_vars => Sound'
  BY <1>2
<1>4. Sound => IntactReadable
  BY DEF IntactReadable
<1> QED
  BY <1>1, <1>3, <1>4, WALInvInit, WALInvNext, PTL DEF Spec
-----------------------------------------------------------------------------
(* Replays are in order.                                                   *)

\* Item i of segment s comes before item k of segment t in a replay.
Before(s, i, t, k) == s < t \/ (s = t /\ i < k)

\* The number of the next record to be written to a file.
Coming == IF phase = "idle" THEN next ELSE next - 1

\* Records are in the files in the order of their numbers, those to come are
\* larger, and a replay has handed over only smaller ones than those before
\* it.  All of it survives failed writes and losses of power, because what is
\* lost or torn leaves no record out of place.
FilesOrdered ==
    \A s, t \in Segments :
        \A i \in 1 .. Len(file[s]), k \in 1 .. Len(file[t]) :
            (Before(s, i, t, k) /\ file[s][i] # Torn /\ file[t][k] # Torn)
                => file[s][i] < file[t][k]

FilesPast ==
    \A s \in Segments : \A i \in 1 .. Len(file[s]) :
        file[s][i] # Torn => file[s][i] < Coming

AheadOfReplay ==
    seg # 0 =>
        \A d \in 1 .. Len(delivered) : \A s \in Segments :
            \A i \in 1 .. Len(file[s]) :
                ((s > seg \/ (s = seg /\ i >= pos)) /\ file[s][i] # Torn)
                    => delivered[d] < file[s][i]

LEMMA FilesPastNext ==
  ASSUME WALInv, WALInv', FilesPast, [Next]_vars
  PROVE  FilesPast'
<1>0. /\ \A s \in Segments : Len(file[s]) \in Nat /\ Len(file'[s]) \in Nat
      /\ \A s \in Segments : \A i \in 1 .. Len(file[s]) : file[s][i] \in Nat
      /\ next \in Nat
  <2>1. \A s \in Segments : file'[s] \in Seq(Items)
    BY DEF WALInv, WALTypeOK, Items
  <2>2. Items \subseteq Nat
    BY SizeLen DEF Items, Records, Torn
  <2>3. \A s \in Segments : \A i \in 1 .. Len(file[s]) : file[s][i] \in Items
    BY FileTyped, ElementOfSeq
  <2>4. next \in Nat
    BY SizeLen DEF WALInv, WALTypeOK
  <2> QED
    BY <2>1, <2>2, <2>3, <2>4, FileTyped, LenProperties
<1>1. /\ Coming \in Int
      /\ Coming' \in Int
      /\ Coming <= Coming'
      /\ WriteData => Coming = Pending /\ Coming' = Pending + 1
  <2>1. CASE \E r \in Records : AppendRecord(r)
    BY <1>0, <2>1 DEF AppendRecord, Coming, WriteData
  <2>2. CASE next' = next /\ (phase' = "idle" \/ (phase # "idle" /\ phase' # "idle"))
    BY <1>0, <2>2 DEF Coming, Pending, WriteData
  <2>3. \/ \E r \in Records : AppendRecord(r)
        \/ next' = next /\ (phase' = "idle" \/ (phase # "idle" /\ phase' # "idle"))
    <3>1. CASE \/ NewWriter \/ Sync \/ ReplayStart \/ ReplayRecord
               \/ ReplayNext \/ UNCHANGED vars
      BY <3>1 DEF NewWriter, Sync, ReplayStart, ReplayRecord, ReplayNext, vars
    <3>2. CASE \/ Rotate \/ WriteHeader
      BY <3>2 DEF Rotate, WriteHeader
    <3>3. CASE \/ RotateFails \/ WriteHeaderFails \/ WriteData
               \/ WriteDataFails \/ Close
      BY <3>3 DEF RotateFails, WriteHeaderFails, WriteData, WriteDataFails,
          Close
    <3>4. CASE Kill \/ PowerFailure
      <4>1. Restart
        BY <3>4 DEF Kill, PowerFailure
      <4> QED
        BY <4>1 DEF Restart
    <3> QED
      BY <3>1, <3>2, <3>3, <3>4 DEF Next
  <2> QED
    BY <2>1, <2>2, <2>3
<1> SUFFICES ASSUME NEW s \in Segments, NEW i \in 1 .. Len(file'[s]),
                    file'[s][i] # Torn
             PROVE  file'[s][i] < Coming'
  BY DEF FilesPast
<1>2. ASSUME i \in 1 .. Len(file[s]), file'[s][i] = file[s][i]
      PROVE  file'[s][i] < Coming'
  BY <1>0, <1>1, <1>2 DEF FilesPast
<1>3. CASE UNCHANGED file
  BY <1>2, <1>3
<1>4. CASE HeaderAppended
  BY <1>0, <1>2, <1>4, Appended
<1>5. CASE WriteData
  <2>1. Pending \in Int
    BY <1>5, Completed, SizeLen DEF Records
  <2> QED
    BY <1>0, <1>1, <1>2, <1>5, <2>1, Completed
<1>6. CASE PowerFailure
  BY <1>0, <1>2, <1>6, PowerFailureFiles
<1> QED
  BY <1>3, <1>4, <1>5, <1>6, FileSteps

\* A record in a file was there before, or is the one being written.
LEMMA ItemOrigin ==
  ASSUME WALInv, WALInv', [Next]_vars,
         NEW s \in Segments, NEW i \in 1 .. Len(file'[s]), file'[s][i] # Torn
  PROVE  \/ i \in 1 .. Len(file[s]) /\ file'[s][i] = file[s][i]
         \/ /\ WriteData
            /\ s = cur
            /\ i = Len(file[cur])
            /\ file'[s][i] = Pending
<1>0. Len(file[s]) \in Nat /\ Len(file'[s]) \in Nat
  <2>1. file'[s] \in Seq(Items)
    BY DEF WALInv, WALTypeOK, Items
  <2> QED
    BY <2>1, FileTyped, LenProperties
<1>1. CASE UNCHANGED file
  BY <1>1
<1>2. CASE HeaderAppended
  BY <1>0, <1>2, Appended
<1>3. CASE WriteData
  BY <1>0, <1>3, Completed
<1>4. CASE PowerFailure
  BY <1>0, <1>4, PowerFailureFiles
<1> QED
  BY <1>1, <1>2, <1>3, <1>4, FileSteps

LEMMA FilesOrderedNext ==
  ASSUME WALInv, WALInv', FilesPast, FilesOrdered, [Next]_vars
  PROVE  FilesOrdered'
<1> SUFFICES ASSUME NEW s \in Segments, NEW t \in Segments,
                    NEW i \in 1 .. Len(file'[s]), NEW k \in 1 .. Len(file'[t]),
                    Before(s, i, t, k), file'[s][i] # Torn, file'[t][k] # Torn
             PROVE  file'[s][i] < file'[t][k]
  BY DEF FilesOrdered, Before
<1> DEFINE Old(u, n) == n \in 1 .. Len(file[u]) /\ file'[u][n] = file[u][n]
           New(u, n) == /\ WriteData
                        /\ u = cur
                        /\ n = Len(file[cur])
                        /\ file'[u][n] = Pending
<1>1. (Old(s, i) \/ New(s, i)) /\ (Old(t, k) \/ New(t, k))
  BY ItemOrigin
<1>2. CASE Old(s, i) /\ Old(t, k)
  BY <1>2 DEF FilesOrdered
<1>3. CASE Old(s, i) /\ New(t, k)
  <2>1. Coming = Pending
    BY <1>3 DEF WriteData, Coming, Pending
  <2> QED
    BY <1>3, <2>1 DEF FilesPast
<1>4. CASE New(s, i)
  <2>1. /\ Len(file'[cur]) = Len(file[cur])
        /\ Len(file[cur]) \in Nat
        /\ \A u \in Segments : u # cur => file'[u] = file[u]
    BY <1>4, Completed
  <2>2. ~(t = cur /\ i < k)
    BY <1>4, <2>1
  <2>3. t > cur
    BY <1>4, <2>2 DEF Before
  <2>4. t \notin present
    BY <1>4, <2>3 DEF WALInv, WALTypeOK, Orderly, WriteData, Segments
  <2>5. file'[t] = << >>
    BY <2>1, <2>3, <2>4 DEF WALInv, Orderly, Segments
  <2> QED
    BY <2>5, Empty
<1> QED
  BY <1>1, <1>2, <1>3, <1>4

LEMMA AheadNext ==
  ASSUME WALInv, WALInv', FilesOrdered, AheadOfReplay, [Next]_vars
  PROVE  AheadOfReplay'
<1> SUFFICES ASSUME seg' # 0,
                    NEW d \in 1 .. Len(delivered'), NEW s \in Segments,
                    NEW i \in 1 .. Len(file'[s]),
                    s > seg' \/ (s = seg' /\ i >= pos'), file'[s][i] # Torn
             PROVE  delivered'[d] < file'[s][i]
  BY DEF AheadOfReplay
<1>0. /\ seg \in Segments \cup {0} /\ pos \in Nat \ {0}
      /\ delivered \in Seq(Records) /\ Len(delivered) \in Nat
      /\ Len(file[s]) \in Nat
  BY FileTyped, LenProperties DEF WALInv, WALTypeOK
<1>1. CASE ReplayStart
  BY <1>1, Empty DEF ReplayStart
<1>2. ASSUME NextSegment, seg # 0, UNCHANGED file
      PROVE  s > seg
  BY <1>0, <1>2 DEF NextSegment, Segments
<1>3. CASE ReplayNext
  <2>1. UNCHANGED <<file, delivered>> /\ NextSegment /\ seg # 0
    BY <1>3 DEF ReplayNext, directory
  <2> QED
    BY <1>2, <2>1 DEF AheadOfReplay
<1>4. CASE ReplayRecord
  <2>1. /\ UNCHANGED file
        /\ seg \in Segments
        /\ pos \in 1 .. Len(file[seg])
        /\ file[seg][pos] # Torn
        /\ delivered' = Append(delivered, file[seg][pos])
    <3>1. /\ UNCHANGED file
          /\ seg # 0
          /\ Readable(seg, pos)
          /\ delivered' = Append(delivered, file[seg][pos])
      BY <1>4 DEF ReplayRecord, directory
    <3>2. pos \in 1 .. pos
      BY <1>0
    <3> QED
      BY <1>0, <3>1, <3>2, FileTyped DEF Readable
  <2>2. s > seg \/ (s = seg /\ i > pos)
    <3>1. CASE pos' = pos + 1 /\ seg' = seg
      BY <1>0, <3>1
    <3>2. CASE NextSegment
      BY <1>2, <2>1, <3>2 DEF Segments
    <3> QED
      BY <1>4, <3>1, <3>2 DEF ReplayRecord
  <2>3. file[seg][pos] \in Records
    BY <2>1, FileTyped, ElementOfSeq DEF Items
  <2>4. /\ Len(delivered') = Len(delivered) + 1
        /\ \A n \in 1 .. Len(delivered) : delivered'[n] = delivered[n]
        /\ delivered'[Len(delivered) + 1] = file[seg][pos]
    BY <1>0, <2>1, <2>3, AppendProperties
  <2>5. CASE d = Len(delivered) + 1
    <3>1. Before(seg, pos, s, i)
      BY <2>1, <2>2 DEF Before, Segments
    <3> QED
      BY <2>1, <2>4, <2>5, <3>1 DEF FilesOrdered
  <2>6. CASE d \in 1 .. Len(delivered)
    <3>1. seg # 0 /\ (s > seg \/ (s = seg /\ i >= pos))
      BY <1>0, <2>1, <2>2 DEF Segments
    <3> QED
      BY <2>1, <2>4, <2>6, <3>1 DEF AheadOfReplay
  <2> QED
    BY <1>0, <2>4, <2>5, <2>6
<1>5. CASE UNCHANGED <<seg, pos, delivered>>
  <2>1. UNCHANGED file
    <3>1. writer = "down" /\ phase = "idle"
      BY <1>5 DEF WALInv, Orderly
    <3>2. ~PowerFailure
      BY <1>5 DEF PowerFailure, Restart
    <3> QED
      BY <3>1, <3>2, FileSteps DEF HeaderAppended, WriteData
  <2> QED
    BY <1>5, <2>1 DEF AheadOfReplay
<1>6. \/ ReplayStart \/ ReplayNext \/ ReplayRecord
      \/ UNCHANGED <<seg, pos, delivered>>
  <2>1. ~Restart
    BY DEF Restart
  <2>2. ~Kill /\ ~PowerFailure
    BY <2>1 DEF Kill, PowerFailure
  <2>3. ASSUME UNCHANGED replay PROVE UNCHANGED <<seg, pos, delivered>>
    BY <2>3 DEF replay
  <2> QED
    BY <2>2, <2>3 DEF Next, vars, NewWriter, AppendRecord, Rotate, RotateFails,
       WriteHeader, WriteHeaderFails, WriteData, WriteDataFails, Sync, Close
<1> QED
  BY <1>1, <1>3, <1>4, <1>5, <1>6

LEMMA InOrderNext ==
  ASSUME WALInv, AheadOfReplay, ReplayInOrder, [Next]_vars
  PROVE  ReplayInOrder'
<1>0. delivered \in Seq(Records) /\ Len(delivered) \in Nat
      /\ DOMAIN delivered = 1 .. Len(delivered)
  BY LenProperties DEF WALInv, WALTypeOK
<1>1. CASE UNCHANGED delivered
  BY <1>1 DEF ReplayInOrder
<1>2. CASE delivered' = << >>
  BY <1>2, Empty DEF ReplayInOrder
<1>3. CASE ReplayRecord
  <2>1. /\ seg \in Segments
        /\ pos \in 1 .. Len(file[seg])
        /\ file[seg][pos] # Torn
        /\ file[seg][pos] \in Records
        /\ delivered' = Append(delivered, file[seg][pos])
    <3>1. /\ seg \in Segments
          /\ pos \in Nat \ {0}
          /\ Readable(seg, pos)
          /\ delivered' = Append(delivered, file[seg][pos])
      BY <1>3 DEF ReplayRecord, WALInv, WALTypeOK
    <3>2. pos \in 1 .. pos
      BY <3>1
    <3> QED
      BY <3>1, <3>2, FileTyped, ElementOfSeq DEF Readable, Items
  <2>2. \A d \in 1 .. Len(delivered) : delivered[d] < file[seg][pos]
    BY <2>1 DEF AheadOfReplay, Segments
  <2>3. /\ DOMAIN delivered' = 1 .. Len(delivered) + 1
        /\ \A n \in 1 .. Len(delivered) : delivered'[n] = delivered[n]
        /\ delivered'[Len(delivered) + 1] = file[seg][pos]
    BY <1>0, <2>1, AppendProperties, LenProperties
  <2> QED
    BY <1>0, <2>2, <2>3 DEF ReplayInOrder
<1>4. UNCHANGED delivered \/ delivered' = << >> \/ ReplayRecord
  <2>1. CASE Kill \/ PowerFailure
    <3>1. Restart
      BY <2>1 DEF Kill, PowerFailure
    <3> QED
      BY <3>1 DEF Restart
  <2>2. CASE ReplayStart \/ ReplayNext
    BY <2>2 DEF ReplayStart, ReplayNext
  <2>3. ASSUME UNCHANGED replay PROVE UNCHANGED delivered
    BY <2>3 DEF replay
  <2> QED
    BY <2>1, <2>2, <2>3 DEF Next, vars, NewWriter, AppendRecord, Rotate,
       RotateFails, WriteHeader, WriteHeaderFails, WriteData, WriteDataFails,
       Sync, Close
<1> QED
  BY <1>1, <1>2, <1>3, <1>4

\* Whatever writes, rotations, processes and machines have failed, a replay
\* hands over records in the order of their Append calls, none of them twice.
THEOREM ReplaysInOrder == Spec => []ReplayInOrder
<1> DEFINE OrderInv == FilesPast /\ FilesOrdered /\ AheadOfReplay /\ ReplayInOrder
<1>1. Init => OrderInv
  BY Empty DEF Init, FilesPast, FilesOrdered, AheadOfReplay, ReplayInOrder
<1>2. WALInv /\ WALInv' /\ OrderInv /\ [Next]_vars => OrderInv'
  BY FilesPastNext, FilesOrderedNext, AheadNext, InOrderNext
<1>3. OrderInv => ReplayInOrder
  OBVIOUS
<1> QED
  BY <1>1, <1>2, <1>3, WALInvInit, WALInvNext, PTL DEF Spec
=============================================================================
