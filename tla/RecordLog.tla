------------------------------ MODULE RecordLog ------------------------------
(***************************************************************************)
(* What a buffered record writer promises to whoever reads its files: the  *)
(* records on disk only ever grow, in the order they were written; what is *)
(* still in memory follows them and is all that a crash can take away.     *)
(*                                                                         *)
(* The CSV writer implements this module when it rotates by age: see       *)
(* CsvWriterLog.                                                           *)
(***************************************************************************)
EXTENDS Naturals, Sequences

CONSTANT Records    \* the records that may be written

VARIABLES durable,  \* the records on disk, oldest first
          volatile  \* the records in memory, oldest first

vars == <<durable, volatile>>

Init == durable = <<>> /\ volatile = <<>>

\* The first k records of s reach the disk, the others stay in memory.
Split(s, k) ==
    /\ durable' = durable \o SubSeq(s, 1, k)
    /\ volatile' = SubSeq(s, k + 1, Len(s))

\* A record is written; room may be made by moving older ones to disk.
Write(r) ==
    LET s == Append(volatile, r) IN \E k \in 0 .. Len(s) : Split(s, k)

\* Memory is written out, in part if the disk fails.
Flush == \E k \in 0 .. Len(volatile) : Split(volatile, k)

\* The process stops: what was in memory is gone, nothing on disk is.
Stop == \E k \in 0 .. Len(volatile) :
    /\ durable' = durable \o SubSeq(volatile, 1, k)
    /\ volatile' = <<>>

Next == (\E r \in Records : Write(r)) \/ Flush \/ Stop

Spec == Init /\ [][Next]_vars
=============================================================================
