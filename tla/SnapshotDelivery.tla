-------------------------- MODULE SnapshotDelivery --------------------------
(***************************************************************************)
(* What the pipeline of the collector promises, whatever queues and tasks  *)
(* it is made of: an update that is taken in ends as one row, or is given  *)
(* up once and for all; rows are only ever appended, in the order in which *)
(* their updates were taken in.                                            *)
(*                                                                         *)
(* Orchestrator.tla and Pipeline.tla implement this module.                *)
(***************************************************************************)
EXTENDS Naturals, Sequences

CONSTANT Updates     \* the updates there can be

VARIABLES taken,     \* the updates taken in, in that order
          rows,      \* the updates that became a row, in the order of the rows
          gone       \* the updates given up

vars == <<taken, rows, gone>>

Elements(s) == {s[i] : i \in DOMAIN s}
Open == Elements(taken) \ (Elements(rows) \cup gone)

\* u was taken in after every update that has a row.
After(u) ==
    \A i, j \in DOMAIN taken :
        taken[i] = u /\ taken[j] \in Elements(rows) => j < i

Init == taken = <<>> /\ rows = <<>> /\ gone = {}

TakeIn(u) ==
    /\ u \notin Elements(taken)
    /\ taken' = Append(taken, u)
    /\ UNCHANGED <<rows, gone>>

Record(u) ==
    /\ u \in Open
    /\ After(u)
    /\ rows' = Append(rows, u)
    /\ UNCHANGED <<taken, gone>>

\* A failure gives up one update, a shutdown all that are on their way.
GiveUp ==
    /\ gone' \in SUBSET (gone \cup Open)
    /\ gone \subseteq gone'
    /\ UNCHANGED <<taken, rows>>

Next == GiveUp \/ \E u \in Updates : TakeIn(u) \/ Record(u)

Spec == Init /\ [][Next]_vars
=============================================================================
