------------------------------ MODULE CsvWriter ------------------------------
(***************************************************************************)
(* The buffered, rotating CSV writer of csv_writer.rs, as the orchestrator *)
(* uses it: one task writes the records of one file one after the other    *)
(* and drops a record whose write_record fails.                            *)
(*                                                                         *)
(* write_record is a sequence of system calls (stat, write, rename,        *)
(* create, write) with a crash, a failure or the clock possible between    *)
(* any two, so each call is a step; pc is the step that comes next.        *)
(*                                                                         *)
(* A line is two halves, the unit in which sizes are counted: the buffers  *)
(* of csv::Writer and BufWriter are written out in blocks that end in the  *)
(* middle of a line.  Only the order of the halves matters, so a half is   *)
(* the record it belongs to and its position.                              *)
(***************************************************************************)
EXTENDS Integers, Sequences, FiniteSets

CONSTANTS
    Append_,     \* config.append
    MaxSize,     \* config.max_file_size, in halves, 0 for no limit
    MaxAge,      \* config.max_file_age, in ticks, 0 for no limit
    BatchSize,   \* config.batch_size
    BatchTime,   \* config.batch_time_ms, in ticks, 0 for no limit
    BufCap,      \* capacity of the write buffer, in halves
    MaxRecords,  \* bound: records written in a behaviour
    MaxTime,     \* bound: the last tick of the clock
    Faults,      \* what may go wrong: a subset of AllFaults
    NoFile       \* the content of a path that does not exist

AllFaults == {"flush", "rename", "create", "drop", "crash", "clock"}

ASSUME ConfigAssumption ==
    /\ Append_ \in BOOLEAN
    /\ {MaxSize, MaxAge, BatchSize, BatchTime, MaxRecords, MaxTime} \subseteq Nat
    /\ BufCap \in Nat \ {0, 1}
    /\ Faults \subseteq AllFaults

Header == 0
Records == 1 .. MaxRecords
Half == [of : {Header} \cup Records, half : {1, 2}]

\* The paths: the live file and the names generate_rotated_path makes of a time.
Live == -1
Paths == {Live} \cup 0 .. MaxTime

ASSUME NoFileAssumption == NoFile \notin Seq(Half)

VARIABLES
    disk,            \* the files, by path
    pc,              \* the step of the writer that comes next
    buf,             \* the halves written but not handed to the system
    handle,          \* the path of the file the writer has open
    recordsWritten,  \* records_written
    createdAt,       \* file_created_at
    lastFlush,       \* last_flush
    now,             \* the clock
    next,            \* the next record to write
    acked,           \* history: records write_record accepted since the last open
    safe,            \* history: accepted records that a flush returned Ok for
    died             \* history: the process ended without writing its buffer

fileVars == <<disk, handle>>
writerVars == <<buf, recordsWritten, createdAt, lastFlush>>
vars == <<disk, pc, buf, handle, recordsWritten, createdAt, lastFlush, now, next,
          acked, safe, died>>

Steps == {"down", "idle", "rotating", "renaming", "creating", "appending", "flushing"}

TypeOK ==
    /\ disk \in [Paths -> Seq(Half) \cup {NoFile}]
    /\ pc \in Steps
    /\ buf \in Seq(Half)
    /\ handle \in Paths
    /\ recordsWritten \in Nat
    /\ createdAt \in 0 .. MaxTime
    /\ lastFlush \in 0 .. MaxTime
    /\ now \in 0 .. MaxTime
    /\ next \in 1 .. MaxRecords + 1
    /\ acked \subseteq Records
    /\ safe \subseteq Records
    /\ died \in BOOLEAN

Init ==
    /\ disk = [p \in Paths |-> NoFile]
    /\ pc = "down"
    /\ buf = <<>>
    /\ handle = Live
    /\ recordsWritten = 0
    /\ createdAt = 0
    /\ lastFlush = 0
    /\ now = 0
    /\ next = 1
    /\ acked = {}
    /\ safe = {}
    /\ died = FALSE

-----------------------------------------------------------------------------
(* The pieces of the methods *)

Line(r) == <<[of |-> r, half |-> 1], [of |-> r, half |-> 2]>>

Exists(p) == disk[p] # NoFile

\* Mutant: a live file that is missing counts as empty.
SizeUnknown_Empty == FALSE

\* should_rotate, in its order: the size, for which the path must exist, then
\* the age, for which the clock must not have gone back.
SizeUnknown == MaxSize > 0 /\ ~Exists(Live)
SizeDue == MaxSize > 0 /\ Exists(Live) /\ Len(disk[Live]) >= MaxSize
AgeUnknown == MaxAge > 0 /\ now < createdAt
AgeDue == MaxAge > 0 /\ now - createdAt >= MaxAge
RotateUnknown == SizeUnknown \/ (~SizeDue /\ AgeUnknown)
RotateDue == ~SizeUnknown /\ (SizeDue \/ AgeDue)

\* should_flush, asked after the record was counted.
BatchDue_OffByOne == BatchSize > 0 /\ recordsWritten + 1 > BatchSize  \* mutant

BatchDue == BatchSize > 0 /\ recordsWritten + 1 >= BatchSize
FlushUnknown == ~BatchDue /\ BatchTime > 0 /\ now < lastFlush
FlushDue == BatchDue \/ (BatchTime > 0 /\ now - lastFlush >= BatchTime)

\* Mutant: a failed flush keeps the part it has written.
FlushFails_KeepsAll ==
    \E k \in 0 .. Len(buf) :
        /\ disk' = [disk EXCEPT ![handle] = @ \o SubSeq(buf, 1, k)]
        /\ UNCHANGED <<buf, recordsWritten, lastFlush>>

\* flush succeeds: the whole buffer is in the open file.
FlushOk ==
    /\ disk' = [disk EXCEPT ![handle] = @ \o buf]
    /\ buf' = <<>>
    /\ lastFlush' = now
    /\ recordsWritten' = 0

\* flush fails: part of the buffer is in the file, the rest is kept.
FlushFails ==
    \E k \in 0 .. Len(buf) :
        /\ disk' = [disk EXCEPT ![handle] = @ \o SubSeq(buf, 1, k)]
        /\ buf' = SubSeq(buf, k + 1, Len(buf))
        /\ UNCHANGED <<recordsWritten, lastFlush>>

\* write_record returns Err: the caller drops the record.
Reject ==
    /\ pc' = "idle"
    /\ next' = next + 1
    /\ UNCHANGED <<acked, safe, died>>

-----------------------------------------------------------------------------
(* with_config *)

\* Mutant: append mode truncates like File::create.
Open_Truncates ==
    /\ pc = "down"
    /\ disk' = [disk EXCEPT ![Live] = <<>>]
    /\ buf' = Line(Header)
    /\ handle' = Live
    /\ recordsWritten' = 0
    /\ createdAt' = now
    /\ lastFlush' = now
    /\ pc' = "idle"
    /\ UNCHANGED <<now, next, acked, safe, died>>

\* The header is written, to the buffer, unless an existing file is appended to.
Open ==
    /\ pc = "down"
    /\ disk' = [disk EXCEPT ![Live] = IF Append_ /\ Exists(Live) THEN @ ELSE <<>>]
    /\ buf' = IF Append_ /\ Exists(Live) THEN <<>> ELSE Line(Header)
    /\ handle' = Live
    /\ recordsWritten' = 0
    /\ createdAt' = now
    /\ lastFlush' = now
    /\ pc' = "idle"
    /\ UNCHANGED <<now, next, acked, safe, died>>

-----------------------------------------------------------------------------
(* write_record *)

StartWrite ==
    /\ pc = "idle"
    /\ next <= MaxRecords
    /\ ~RotateUnknown
    /\ pc' = IF RotateDue THEN "rotating" ELSE "appending"
    /\ UNCHANGED <<fileVars, writerVars, now, next, acked, safe, died>>

\* should_rotate fails: the live file is missing, or the clock is behind.
RejectWrite ==
    /\ pc = "idle"
    /\ next <= MaxRecords
    /\ RotateUnknown
    /\ Reject
    /\ UNCHANGED <<fileVars, writerVars, now>>

\* Mutant: a rotation that does not flush first.
RotateFlush_Skipped ==
    /\ pc = "rotating"
    /\ pc' = "renaming"
    /\ UNCHANGED <<fileVars, writerVars, now, next, acked, safe, died>>

RotateFlush ==
    /\ pc = "rotating"
    /\ FlushOk
    /\ safe' = safe \cup acked
    /\ pc' = "renaming"
    /\ UNCHANGED <<handle, createdAt, now, next, acked, died>>

\* The flush of a rotation, or the one after the record, fails.
FlushError ==
    /\ pc \in {"rotating", "flushing"}
    /\ "flush" \in Faults
    /\ FlushFails
    /\ Reject
    /\ UNCHANGED <<handle, createdAt, now>>

\* The live file gets the name of the current second; a file that had this
\* name is replaced.  The open handle follows the file.
RotateRename ==
    /\ pc = "renaming"
    /\ Exists(Live)
    /\ disk' = [disk EXCEPT ![now] = disk[Live], ![Live] = NoFile]
    /\ handle' = now
    /\ pc' = "creating"
    /\ UNCHANGED <<writerVars, now, next, acked, safe, died>>

RenameError ==
    /\ pc = "renaming"
    /\ ~Exists(Live) \/ "rename" \in Faults
    /\ Reject
    /\ UNCHANGED <<fileVars, writerVars, now>>

RotateCreate ==
    /\ pc = "creating"
    /\ disk' = [disk EXCEPT ![Live] = <<>>]
    /\ handle' = Live
    /\ buf' = Line(Header)
    /\ recordsWritten' = 0
    /\ createdAt' = now
    /\ pc' = "appending"
    /\ UNCHANGED <<lastFlush, now, next, acked, safe, died>>

CreateError ==
    /\ pc = "creating"
    /\ "create" \in Faults
    /\ Reject
    /\ UNCHANGED <<fileVars, writerVars, now>>

\* The record goes to the buffer; a full buffer is written out first.  The
\* write is over unless should_flush asks for a flush or cannot tell.
AppendRecord ==
    LET all == buf \o Line(next)
        spill == IF Len(all) > BufCap THEN BufCap ELSE 0
    IN  /\ pc = "appending"
        /\ disk' = [disk EXCEPT ![handle] = @ \o SubSeq(all, 1, spill)]
        /\ buf' = SubSeq(all, spill + 1, Len(all))
        /\ recordsWritten' = recordsWritten + 1
        /\ \/ /\ FlushDue
              /\ pc' = "flushing"
              /\ UNCHANGED <<next, acked, safe, died>>
           \/ /\ FlushUnknown
              /\ Reject
           \/ /\ ~FlushDue /\ ~FlushUnknown
              /\ pc' = "idle"
              /\ next' = next + 1
              /\ acked' = acked \cup {next}
              /\ UNCHANGED <<safe, died>>
        /\ UNCHANGED <<handle, createdAt, lastFlush, now>>

FlushBatch ==
    /\ pc = "flushing"
    /\ FlushOk
    /\ acked' = acked \cup {next}
    /\ safe' = safe \cup acked'
    /\ next' = next + 1
    /\ pc' = "idle"
    /\ UNCHANGED <<handle, createdAt, now, died>>

-----------------------------------------------------------------------------
(* flush, drop, and the world around the writer *)

Flush ==
    /\ pc = "idle"
    /\ \/ FlushOk /\ safe' = safe \cup acked
       \/ "flush" \in Faults /\ FlushFails /\ UNCHANGED safe
    /\ UNCHANGED <<pc, handle, createdAt, now, next, acked, died>>

\* Drop flushes and ignores the error; what was not written is gone.
Close ==
    /\ pc = "idle"
    /\ \/ /\ disk' = [disk EXCEPT ![handle] = @ \o buf]
          /\ safe' = safe \cup acked
          /\ UNCHANGED died
       \/ /\ "drop" \in Faults
          /\ \E k \in 0 .. Len(buf) :
                disk' = [disk EXCEPT ![handle] = @ \o SubSeq(buf, 1, k)]
          /\ died' = TRUE
          /\ UNCHANGED safe
    /\ buf' = <<>>
    /\ acked' = {}
    /\ pc' = "down"
    /\ UNCHANGED <<handle, recordsWritten, createdAt, lastFlush, now, next>>

\* The process dies: memory is lost, and with it the record being written.
Crash ==
    /\ "crash" \in Faults
    /\ pc # "down"
    /\ pc' = "down"
    /\ buf' = <<>>
    /\ acked' = {}
    /\ next' = IF pc = "idle" THEN next ELSE next + 1
    /\ died' = TRUE
    /\ UNCHANGED <<fileVars, recordsWritten, createdAt, lastFlush, now, safe>>

Tick ==
    /\ now < MaxTime
    /\ now' = now + 1
    /\ UNCHANGED <<fileVars, writerVars, pc, next, acked, safe, died>>

\* The system clock is set back (SystemTime is not monotonic).
ClockBack ==
    /\ "clock" \in Faults
    /\ now > 0
    /\ now' = now - 1
    /\ UNCHANGED <<fileVars, writerVars, pc, next, acked, safe, died>>

WriteStep ==
    \/ StartWrite \/ RejectWrite
    \/ RotateFlush \/ FlushError
    \/ RotateRename \/ RenameError
    \/ RotateCreate \/ CreateError
    \/ AppendRecord \/ FlushBatch

Next == Open \/ WriteStep \/ Flush \/ Close \/ Crash \/ Tick \/ ClockBack

Spec == Init /\ [][Next]_vars

-----------------------------------------------------------------------------
(* What the files and the buffer hold *)

\* A file as it will be once the buffer is written out.
Content(p) == IF p = handle THEN disk[p] \o buf ELSE disk[p]

\* Line i of s can be read as a record of its own: its halves are side by side
\* and the line before it was ended.
WholeAt(s, i) ==
    /\ i > 1 /\ s[i].half = 2
    /\ s[i - 1] = [of |-> s[i].of, half |-> 1]
    /\ i > 2 => s[i - 2].half = 2

RecordsIn(s) == {s[i].of : i \in {j \in DOMAIN s : WholeAt(s, j)}} \ {Header}

Files == {p \in Paths : Exists(p)}
OnDisk == UNION {RecordsIn(disk[p]) : p \in Files}
OnDiskOrInMemory == UNION {RecordsIn(Content(p)) : p \in Files}

-----------------------------------------------------------------------------
(* Safety *)

\* No acknowledged record disappears: one that a flush covered can be read from
\* a file, in this run of the process and in every later one; one that is
\* not flushed yet is in a file or in the buffer.
RecordsKept == safe \subseteq OnDisk /\ acked \subseteq OnDiskOrInMemory

\* A crash loses fewer acknowledged records than a batch has.
CrashLosesLessThanBatch ==
    pc = "idle" /\ BatchSize > 0 => Cardinality(acked \ OnDisk) < BatchSize

\* Until the process ends without writing its buffer: every file is a header and
\* whole lines, the one being written once the buffer is added.  A partial
\* flush, a failed rotation and the blocks in which the buffer spills do not show.
WellFormed ==
    ~died => \A p \in Files : LET s == Content(p) IN
        /\ Len(s) % 2 = 0
        /\ \A i \in DOMAIN s : i % 2 = 0 => WholeAt(s, i)
        /\ \A i \in DOMAIN s : s[i].of = Header <=> i \in {1, 2}

\* No half is written twice, though a failed flush keeps what it could not write.
NoDuplicates ==
    \A r \in Records, k \in {1, 2} :
        Cardinality({x \in Paths \X (1 .. 2 * MaxRecords + 2) :
                        /\ Exists(x[1])
                        /\ x[2] \in DOMAIN Content(x[1])
                        /\ Content(x[1])[x[2]] = [of |-> r, half |-> k]}) <= 1

\* Every record is in one place, and whole: no failing call, no block in which
\* the buffer spills and no clock that is set back mixes or repeats lines.
EachLineOnce == WellFormed /\ NoDuplicates

\* A rotation does not replace a file rotated before: its name is free.
NoOverwrite == pc = "renaming" /\ Exists(Live) => ~Exists(now)

\* Every file is still there after any step, under its own name or the one it
\* was renamed to, with its content.
IsPrefixOf(s, t) == Len(s) <= Len(t) /\ \A i \in 1 .. Len(s) : t[i] = s[i]

FilesSurvive ==
    [][\A p \in Paths : Exists(p) =>
            \E q \in Paths : Exists(q)' /\ IsPrefixOf(disk[p], disk[q]')]_vars

\* Once a rotation has renamed the live file and could not create the new one,
\* the writer accepts no record until it is opened again: every later write
\* fails on the missing path.  (With rotation by age alone this needs a clock
\* that is not set back.)
StuckAfterFailedCreate == [][~Exists(Live) => acked' \subseteq acked]_vars

=============================================================================
