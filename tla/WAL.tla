-------------------------------- MODULE WAL ---------------------------------
(***************************************************************************)
(* The write-ahead log of internal/otelgateway/wal: a writer that appends  *)
(* records to numbered segment files, and the replay of all segments after *)
(* a restart.                                                              *)
(*                                                                         *)
(* Records are numbered in the order of the Append calls.  A file is the   *)
(* sequence of what was written to it: whole records, and Torn for a       *)
(* header whose data does not follow or a part of either.  What follows a  *)
(* Torn in the same file is misread: lengths and checksums do not match.   *)
(* An Append holds the writer's mutex from its first step to its last, but *)
(* the process may be killed between two of them.                          *)
(***************************************************************************)
EXTENDS Integers, Sequences

CONSTANTS
    Size,            \* Seq(Nat): bytes of each record, header included
    SegmentMaxSize,  \* cfg.SegmentMaxSize
    WriteErrors,     \* may a Write fail or write a part?
    CreateErrors,    \* may the creation of a segment fail?
    PowerLoss,       \* may the machine lose what was not synced?
    MaxSegment,      \* bound: the segments created
    MaxCrashes       \* bound: the crashes

ASSUME WALAssumption ==
    /\ Size \in Seq(Nat \ {0})
    /\ SegmentMaxSize \in Nat
    /\ {WriteErrors, CreateErrors, PowerLoss} \subseteq BOOLEAN
    /\ MaxSegment \in Nat
    /\ MaxCrashes \in Nat

Records == 1 .. Len(Size)
Segments == 1 .. MaxSegment
Torn == 0

VARIABLES
    \* the directory
    present,   \* the segments that exist
    file,      \* [Segments -> Seq(Records or Torn)]
    synced,    \* [Segments -> Nat]: how much of the file is on disk
    \* the writer
    writer,    \* "down", "up", "stopped" (after Close)
    handle,    \* w.current: "open" or "closed"
    cur,       \* the segment of w.current
    segSeq,    \* the number of the next segment
    segSize,   \* bytes in the current segment, as far as they were counted
    phase,     \* the Append in progress: "idle", "rotate", "header", "data"
    next,      \* the number of the next record
    acked,     \* the records whose Append returned nil
    \* the replay
    seg,       \* the segment it reads, 0 when no replay is in progress
    pos,       \* the position in it
    delivered, \* the records this replay has handed to fn
    \* history
    intact,    \* no write has failed, and power was never lost
    crashes    \* for the bound

directory == <<present, file, synced>>
replay == <<seg, pos, delivered>>
vars == <<directory, writer, handle, cur, segSeq, segSize, phase, next, acked,
          replay, intact, crashes>>

Init ==
    /\ present = {}
    /\ file = [s \in Segments |-> << >>]
    /\ synced = [s \in Segments |-> 0]
    /\ writer = "down"
    /\ handle = "closed"
    /\ cur = 0
    /\ segSeq = 0
    /\ segSize = 0
    /\ phase = "idle"
    /\ next = 1
    /\ acked = {}
    /\ seg = 0
    /\ pos = 1
    /\ delivered = << >>
    /\ intact = TRUE
    /\ crashes = 0
-----------------------------------------------------------------------------
(* The writer.                                                             *)

\* findMaxSegment.
MaxPresent_First == IF present = {} THEN 0 ELSE CHOOSE s \in present :
                        \A t \in present : s <= t
MaxPresent == IF present = {} THEN 0 ELSE CHOOSE s \in present :
                        \A t \in present : t <= s

\* os.Create and the assignments after it: a file that exists is truncated.
CreateSegment(s) ==
    /\ s \in Segments
    /\ present' = present \cup {s}
    /\ file' = [file EXCEPT ![s] = << >>]
    /\ synced' = [synced EXCEPT ![s] = 0]
    /\ handle' = "open"
    /\ cur' = s
    /\ segSize' = 0
    /\ segSeq' = s + 1

NewWriter_Reopen ==
    /\ writer = "down"
    /\ seg = 0
    /\ IF present = {}
       THEN CreateSegment(1)
       ELSE /\ handle' = "open"
            /\ cur' = MaxPresent
            /\ segSeq' = MaxPresent + 1
            /\ segSize' = 0
            /\ UNCHANGED directory
    /\ writer' = "up"
    /\ UNCHANGED <<phase, next, acked, replay, intact, crashes>>

\* A writer that cannot create its first segment is not returned.
NewWriter ==
    /\ writer = "down"
    /\ seg = 0
    /\ CreateSegment(MaxPresent + 1)
    /\ writer' = "up"
    /\ UNCHANGED <<phase, next, acked, replay, intact, crashes>>

Exceeds(r) == segSize + Size[r] > SegmentMaxSize

\* Append takes the mutex and looks at the size of the segment.
AppendRecord(r) ==
    /\ writer # "down"
    /\ phase = "idle"
    /\ next = r
    /\ next' = next + 1
    /\ phase' = IF Exceeds(r) THEN "rotate" ELSE "header"
    /\ UNCHANGED <<directory, writer, handle, cur, segSeq, segSize, acked,
                   replay, intact, crashes>>

\* The record that is being appended.
Pending == next - 1

\* rotate closes the segment and creates the next one.
Rotate ==
    /\ phase = "rotate"
    /\ handle = "open"
    /\ CreateSegment(segSeq)
    /\ phase' = "header"
    /\ UNCHANGED <<writer, next, acked, replay, intact, crashes>>

\* rotate fails: w.current stays the file that was closed, and closing it
\* again is an error, so that every later rotate fails as well.
RotateFails ==
    /\ phase = "rotate"
    /\ handle = "closed" \/ CreateErrors
    /\ handle' = "closed"
    /\ phase' = "idle"
    /\ UNCHANGED <<directory, writer, cur, segSeq, segSize, next, acked,
                   replay, intact, crashes>>

Write(item) == file' = [file EXCEPT ![cur] = Append(@, item)]

\* The header alone is a torn record until its data follows.
WriteHeader ==
    /\ phase = "header"
    /\ handle = "open"
    /\ Write(Torn)
    /\ phase' = "data"
    /\ UNCHANGED <<present, synced, writer, handle, cur, segSeq, segSize, next,
                   acked, replay, intact, crashes>>

\* Write returns an error, after a part of the header or none of it.
WriteHeaderFails ==
    /\ phase = "header"
    /\ \/ handle = "closed" /\ UNCHANGED file
       \/ handle = "open" /\ WriteErrors /\ (Write(Torn) \/ UNCHANGED file)
    /\ intact' = (intact /\ handle = "closed")
    /\ phase' = "idle"
    /\ UNCHANGED <<present, synced, writer, handle, cur, segSeq, segSize, next,
                   acked, replay, crashes>>

Written(r) == [file[cur] EXCEPT ![Len(file[cur])] = r]

WriteData ==
    /\ phase = "data"
    /\ file' = [file EXCEPT ![cur] = Written(Pending)]
    /\ segSize' = segSize + Size[Pending]
    /\ acked' = acked \cup {Pending}
    /\ phase' = "idle"
    /\ UNCHANGED <<present, synced, writer, handle, cur, segSeq, next, replay,
                   intact, crashes>>

\* The torn record stays in the file, and its bytes are not counted.
WriteDataFails ==
    /\ phase = "data"
    /\ WriteErrors
    /\ intact' = FALSE
    /\ phase' = "idle"
    /\ UNCHANGED <<directory, writer, handle, cur, segSeq, segSize, next,
                   acked, replay, crashes>>

\* A tick of syncLoop, which Close stops.
Sync ==
    /\ writer = "up"
    /\ phase = "idle"
    /\ handle = "open"
    /\ synced' = [synced EXCEPT ![cur] = Len(file[cur])]
    /\ UNCHANGED <<present, file, writer, handle, cur, segSeq, segSize, phase,
                   next, acked, replay, intact, crashes>>

Close ==
    /\ writer = "up"
    /\ phase = "idle"
    /\ writer' = "stopped"
    /\ handle' = "closed"
    /\ UNCHANGED <<directory, cur, segSeq, segSize, phase, next, acked, replay,
                   intact, crashes>>
-----------------------------------------------------------------------------
(* Crashes.                                                                *)

\* The process ends, at whatever point; a replay in progress is lost too.
Restart ==
    /\ writer' = "down"
    /\ handle' = "closed"
    /\ cur' = 0
    /\ segSeq' = 0
    /\ segSize' = 0
    /\ phase' = "idle"
    /\ seg' = 0
    /\ pos' = 1
    /\ delivered' = << >>
    /\ crashes' = crashes + 1
    /\ UNCHANGED <<next, acked>>

\* The process is killed: what was written stays in the files.
Kill ==
    /\ crashes < MaxCrashes
    /\ writer # "down" \/ seg # 0
    /\ Restart
    /\ UNCHANGED <<directory, intact>>

\* What is left of a file of which k items are certain to be on disk.
Survivors(f, k) ==
    {SubSeq(f, 1, n) : n \in k .. Len(f)} \cup
    {Append(SubSeq(f, 1, n), Torn) : n \in k .. (Len(f) - 1)}

\* The machine goes down: of each file at least what was synced survives.
PowerFailure ==
    /\ PowerLoss
    /\ crashes < MaxCrashes
    /\ writer # "down" \/ seg # 0
    /\ Restart
    /\ intact' = FALSE
    /\ \E left \in [Segments -> UNION {Survivors(file[s], synced[s])
                                        : s \in Segments}] :
         /\ \A s \in Segments : left[s] \in Survivors(file[s], synced[s])
         /\ file' = left
         /\ synced' = [s \in Segments |-> Len(left[s])]
    /\ UNCHANGED present
-----------------------------------------------------------------------------
(* Replay, before a writer is created.                                     *)

ReplayStart ==
    /\ writer = "down"
    /\ seg = 0
    /\ present # {}
    /\ seg' = 1
    /\ pos' = 1
    /\ delivered' = << >>
    /\ UNCHANGED <<directory, writer, handle, cur, segSeq, segSize, phase,
                   next, acked, intact, crashes>>

\* A record that replaySegment can read.
Readable(s, i) == i \in DOMAIN file[s] /\ \A k \in 1..i : file[s][k] # Torn

NextSegment_PastEnd ==
    /\ seg' = seg + 1
    /\ pos' = 1
NextSegment ==
    /\ seg' = IF seg = MaxSegment THEN 0 ELSE seg + 1
    /\ pos' = 1

ReplayRecord_Retried ==
    /\ seg # 0
    /\ Readable(seg, pos)
    /\ delivered' = Append(delivered, file[seg][pos])
    /\ pos' \in {pos, pos + 1}
    /\ UNCHANGED <<directory, writer, handle, cur, segSeq, segSize, phase,
                   next, acked, seg, intact, crashes>>
ReplayRecord ==
    /\ seg # 0
    /\ Readable(seg, pos)
    /\ delivered' = Append(delivered, file[seg][pos])
    /\ \/ pos' = pos + 1 /\ UNCHANGED seg
       \/ NextSegment   \* fn failed: the rest of the segment is skipped
    /\ UNCHANGED <<directory, writer, handle, cur, segSeq, segSize, phase,
                   next, acked, intact, crashes>>

\* The end of the file, or what cannot be read.
ReplayNext ==
    /\ seg # 0
    /\ ~Readable(seg, pos)
    /\ NextSegment
    /\ UNCHANGED <<directory, writer, handle, cur, segSeq, segSize, phase,
                   next, acked, delivered, intact, crashes>>
-----------------------------------------------------------------------------
Next ==
    \/ NewWriter
    \/ \E r \in Records : AppendRecord(r)
    \/ Rotate
    \/ RotateFails
    \/ WriteHeader
    \/ WriteHeaderFails
    \/ WriteData
    \/ WriteDataFails
    \/ Sync
    \/ Close
    \/ Kill
    \/ PowerFailure
    \/ ReplayStart
    \/ ReplayRecord
    \/ ReplayNext

Spec == Init /\ [][Next]_vars
-----------------------------------------------------------------------------
(* Properties.                                                             *)

\* Type correctness of the directory, the writer and the replay.
WALTypeOK ==
    /\ present \subseteq Segments
    /\ file \in [Segments -> Seq(Records \cup {Torn})]
    /\ synced \in [Segments -> Nat]
    /\ \A s \in Segments : synced[s] <= Len(file[s])
    /\ writer \in {"down", "up", "stopped"}
    /\ handle \in {"open", "closed"}
    /\ cur \in Segments \cup {0}
    /\ segSeq \in Nat
    /\ segSize \in Nat
    /\ phase \in {"idle", "rotate", "header", "data"}
    /\ next \in 1 .. Len(Size) + 1
    /\ acked \subseteq Records
    /\ seg \in Segments \cup {0}
    /\ pos \in Nat \ {0}
    /\ delivered \in Seq(Records)
    /\ intact \in BOOLEAN
    /\ crashes \in 0 .. MaxCrashes

\* A replay hands records over in the order in which they were appended,
\* each at most once, whatever has failed before: segment numbers never go
\* back over restarts and nothing is written behind an older record.
ReplayInOrder ==
    \A i, k \in DOMAIN delivered : i < k => delivered[i] < delivered[k]

\* Writing, rotating, starting again and replaying never shorten or change a
\* segment, although os.Create truncates what exists: only a crash does.
SegmentsOnlyGrow ==
    [][crashes' = crashes => \A s \in Segments : \A i \in DOMAIN file[s] :
            /\ i \in DOMAIN file'[s]
            /\ file[s][i] # Torn => file'[s][i] = file[s][i]]_vars

\* Replay "reads all records from WAL segment files": a record whose Append
\* returned nil can be read.
AckedReadable ==
    \A r \in acked : \E s \in Segments : \E i \in DOMAIN file[s] :
        file[s][i] = r /\ Readable(s, i)

\* As long as no write has failed and power was not lost, that is so: wherever
\* the process was killed and whichever rotations failed, the next writer does
\* not append behind a torn record and reuses no segment.
IntactReadable == intact => AckedReadable
=============================================================================
