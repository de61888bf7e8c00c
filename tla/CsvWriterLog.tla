----------------------------- MODULE CsvWriterLog -----------------------------
(***************************************************************************)
(* CsvWriter seen as a RecordLog: the files, the rotated ones by their     *)
(* timestamps and the live one last, are one growing log of records, and   *)
(* the buffer is its volatile end.                                         *)
(***************************************************************************)
EXTENDS CsvWriter

\* Where a whole line of a record ends in s after position from.
Ends(s, from) == {i \in DOMAIN s : i > from /\ WholeAt(s, i) /\ s[i].of # Header}

\* The places of the records: a file and the end of a line in it.
OnDiskAt == UNION {{p} \X Ends(disk[p], 0) : p \in Files}

InMemoryAt == IF Exists(handle)
              THEN {handle} \X Ends(Content(handle), Len(disk[handle]))
              ELSE {}

\* The live file comes after all that were rotated.
Age(p) == IF p = Live THEN MaxTime + 1 ELSE p

Before(x, y) == Age(x[1]) < Age(y[1]) \/ (x[1] = y[1] /\ x[2] < y[2])

\* s goes through the places of P, from the first to the last.
GoesThrough(s, P) ==
    /\ \A x \in P : \E k \in DOMAIN s : s[k] = x
    /\ \A j, k \in DOMAIN s : j < k => Before(s[j], s[k])

InOrder(P) == CHOOSE s \in [1 .. Cardinality(P) -> P] : GoesThrough(s, P)

RecordAt(x) == Content(x[1])[x[2]].of

RecordsAt(s) == [k \in DOMAIN s |-> RecordAt(s[k])]

durable == RecordsAt(InOrder(OnDiskAt))

volatile == RecordsAt(InOrder(InMemoryAt))

Log == INSTANCE RecordLog

\* The files of the writer are the log RecordLog describes.
LogSpec == Log!Spec
=============================================================================
