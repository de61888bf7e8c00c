---------------------------- MODULE Orchestrator ----------------------------
(***************************************************************************)
(* The processing loop of orchestrator.rs: a receiver task that takes one  *)
(* PoolUpdate after the other out of a bounded channel and turns it into a *)
(* snapshot, a bounded channel of snapshots, and a writer task that hands  *)
(* them to the CSV writer of their pool.                                   *)
(*                                                                         *)
(* A step of the receiver ends where handle_update awaits an RPC node, the *)
(* oracle or the other channel; the lock on pool_types is released before  *)
(* the first of these awaits, so what is decoded there is decoded in one   *)
(* step.  An error drops the update: run() only logs it.  The CSV writer   *)
(* itself is CsvWriter.tla; here a write succeeds or fails.                *)
(***************************************************************************)
EXTENDS Naturals, Sequences, FiniteSets

CONSTANTS
    Pools,       \* pool addresses
    Raydium,     \* the pools whose reserves are in two vault accounts
    Configured,  \* the pools of the configuration file
    QueueCap,    \* capacity of the channel of updates
    SnapCap,     \* capacity of the channel of snapshots
    Faults,      \* what may go wrong: a subset of AllFaults
    MaxSlot,     \* bound: notifications of one pool
    None         \* no update in hand

AllFaults == {"decode", "rpc", "oracle", "open", "write", "stream", "interrupt"}

ASSUME OrchestratorAssumption ==
    /\ Raydium \subseteq Pools
    /\ Configured \subseteq Pools /\ IsFiniteSet(Configured)
    /\ {QueueCap, SnapCap} \subseteq Nat \ {0}
    /\ MaxSlot \in Nat
    /\ Faults \subseteq AllFaults

\* An update is known by its pool and by which change of the pool it reports;
\* what the RPC backfill of main.rs fetched is change 0.
Update == [pool : Pools, slot : 0 .. MaxSlot]

ASSUME NoneAssumption == None \notin Update

VARIABLES
    registered,  \* the keys of pool_types and of pool_token_mints
    queue,       \* the channel of updates
    pc,          \* the step of the receiver that comes next
    cur,         \* the update it handles
    snapshots,   \* the channel of snapshots
    wpc,         \* the step of the writer task that comes next
    rec,         \* the snapshot it writes
    writers,     \* the pools that have a CSV writer
    rows,        \* history: the updates that became a row, in the order of the rows
    lost,        \* history: the updates given up
    accepted,    \* history: the updates the channel took, in that order
    faulted      \* history: an account, a node or a file failed, or the shutdown came

receiver == <<pc, cur>>
writer == <<wpc, rec, writers>>
orchestratorVars ==
    <<registered, queue, pc, cur, snapshots, wpc, rec, writers, rows, lost, accepted,
      faulted>>

Elements(s) == {s[i] : i \in DOMAIN s}

OrchestratorInit ==
    /\ registered = Configured
    /\ queue = <<>> /\ snapshots = <<>>
    /\ pc = "recv" /\ cur = None
    /\ wpc = "recv" /\ rec = None
    /\ writers = {}
    /\ rows = <<>> /\ lost = {} /\ accepted = <<>> /\ faulted = FALSE

-----------------------------------------------------------------------------
(* The channel of updates and the tables of pools. *)

\* A send waits for room; that the channel is full drops nothing.
HasRoom == Len(queue) < QueueCap

Send(u) ==
    /\ pc # "aborted"
    /\ HasRoom
    /\ queue' = Append(queue, u)
    /\ accepted' = Append(accepted, u)
    /\ UNCHANGED <<registered, receiver, snapshots, writer, rows, lost, faulted>>

\* register_pool holds both locks while it fills both tables.
RegisterPool(p) ==
    /\ registered' = registered \cup {p}
    /\ UNCHANGED <<queue, receiver, snapshots, writer, rows, lost, accepted, faulted>>

-----------------------------------------------------------------------------
(* The receiver task. *)

\* Mutant: several workers share the channel, and one may be ahead of another.
Receive_AnyWorker ==
    /\ pc = "recv"
    /\ \E i \in DOMAIN queue :
          /\ cur' = queue[i]
          /\ queue' = SubSeq(queue, 1, i - 1) \o SubSeq(queue, i + 1, Len(queue))
    /\ pc' = "lookup"
    /\ UNCHANGED <<registered, snapshots, writer, rows, lost, accepted, faulted>>

Receive ==
    /\ pc = "recv"
    /\ queue # <<>>
    /\ cur' = Head(queue)
    /\ queue' = Tail(queue)
    /\ pc' = "lookup"
    /\ UNCHANGED <<registered, snapshots, writer, rows, lost, accepted, faulted>>

\* handle_update returns an error: the update is gone.
GiveUp ==
    /\ lost' = lost \cup {cur}
    /\ cur' = None
    /\ pc' = "recv"
    /\ UNCHANGED <<registered, queue, snapshots, writer, rows, accepted>>

\* Mutant: an update of an unknown pool waits for its registration.
LookupFails_Requeues ==
    /\ pc = "lookup" /\ cur.pool \notin registered
    /\ queue' = Append(queue, cur)
    /\ cur' = None
    /\ pc' = "recv"
    /\ UNCHANGED <<registered, snapshots, writer, rows, lost, accepted, faulted>>

LookupFails ==
    /\ pc = "lookup" /\ cur.pool \notin registered
    /\ GiveUp
    /\ UNCHANGED faulted

DecodeFails ==
    /\ pc = "lookup" /\ cur.pool \in registered
    /\ "decode" \in Faults
    /\ GiveUp
    /\ faulted' = TRUE

GoOn(step) ==
    /\ pc' = step
    /\ UNCHANGED <<registered, queue, cur, snapshots, writer, rows, lost, accepted, faulted>>

Decode ==
    /\ pc = "lookup" /\ cur.pool \in registered
    /\ GoOn(IF cur.pool \in Raydium THEN "coin" ELSE "enrich")

FetchVault ==
    \/ pc = "coin" /\ GoOn("pc")
    \/ pc = "pc" /\ GoOn("enrich")

\* Mutant: the vault is asked again until the node answers.
FetchFails_Retries ==
    /\ pc \in {"coin", "pc"}
    /\ "rpc" \in Faults
    /\ GoOn("coin")

\* The node does not answer, or the account does not unpack.
FetchFails ==
    /\ pc \in {"coin", "pc"}
    /\ "rpc" \in Faults
    /\ GiveUp
    /\ faulted' = TRUE

\* The decimals of the mints and the price of the quote token.
Enrich == pc = "enrich" /\ GoOn("send")

\* Nine decimals and no liquidity stand for what could not be fetched.
EnrichFails == pc = "enrich" /\ "oracle" \in Faults /\ GoOn("send")

SendSnapshot ==
    /\ pc = "send"
    /\ Len(snapshots) < SnapCap
    /\ snapshots' = Append(snapshots, cur)
    /\ cur' = None
    /\ pc' = "recv"
    /\ UNCHANGED <<registered, queue, writer, rows, lost, accepted, faulted>>

\* The task of run() is aborted: its channel closes and what it holds is dropped.
Abort ==
    /\ pc # "aborted"
    /\ pc' = "aborted"
    /\ cur' = None
    /\ queue' = <<>>
    /\ lost' = lost \cup Elements(queue) \cup ({cur} \ {None})
    /\ faulted' = TRUE
    /\ UNCHANGED <<registered, snapshots, writer, rows, accepted>>

-----------------------------------------------------------------------------
(* The writer task: it ends when the snapshot channel is closed and empty. *)

\* Mutant: the newest snapshot first.
WriterReceives_Newest ==
    /\ wpc = "recv"
    /\ snapshots # <<>>
    /\ rec' = snapshots[Len(snapshots)]
    /\ snapshots' = SubSeq(snapshots, 1, Len(snapshots) - 1)
    /\ wpc' = "write"
    /\ UNCHANGED <<registered, queue, receiver, writers, rows, lost, accepted, faulted>>

WriterReceives ==
    /\ wpc = "recv"
    /\ snapshots # <<>>
    /\ rec' = Head(snapshots)
    /\ snapshots' = Tail(snapshots)
    /\ wpc' = "write"
    /\ UNCHANGED <<registered, queue, receiver, writers, rows, lost, accepted, faulted>>

WriteSnapshot ==
    /\ wpc = "write"
    /\ writers' = writers \cup {rec.pool}
    /\ rows' = Append(rows, rec)
    /\ rec' = None
    /\ wpc' = "recv"
    /\ UNCHANGED <<registered, queue, receiver, snapshots, lost, accepted, faulted>>

\* The error is logged and the next snapshot of the pool tries again; a writer
\* that could be opened stays.
WriteFails ==
    /\ wpc = "write"
    /\ \/ rec.pool \notin writers /\ "open" \in Faults /\ UNCHANGED writers
       \/ "write" \in Faults /\ writers' = writers \cup {rec.pool}
    /\ lost' = lost \cup {rec}
    /\ faulted' = TRUE
    /\ rec' = None
    /\ wpc' = "recv"
    /\ UNCHANGED <<registered, queue, receiver, snapshots, rows, accepted>>

WriterEnds ==
    /\ wpc = "recv"
    /\ pc = "aborted" /\ snapshots = <<>>
    /\ wpc' = "done"
    /\ UNCHANGED <<registered, queue, receiver, snapshots, rec, writers, rows, lost, accepted, faulted>>

-----------------------------------------------------------------------------
ReceiverStep ==
    \/ Receive \/ LookupFails \/ DecodeFails \/ Decode \/ FetchVault
    \/ FetchFails \/ Enrich \/ EnrichFails \/ SendSnapshot
WriterStep == WriterReceives \/ WriteSnapshot \/ WriteFails \/ WriterEnds

OrchestratorIdle ==
    /\ queue = <<>> /\ snapshots = <<>>
    /\ pc \in {"recv", "aborted"}
    /\ wpc = (IF pc = "recv" THEN "recv" ELSE "done")

(***************************************************************************)
(* The orchestrator on its own: a client sends any update, of a registered *)
(* pool or not, registers pools and may abort the task of run().           *)
(***************************************************************************)
Submit ==
    \E u \in Update : u \notin Elements(accepted) /\ Send(u)

Register == \E p \in Pools \ registered : RegisterPool(p)

Interrupt == "interrupt" \in Faults /\ Abort

Idle == OrchestratorIdle /\ UNCHANGED orchestratorVars

Next ==
    \/ Submit \/ Register \/ Interrupt
    \/ ReceiverStep \/ WriterStep \/ Idle

Spec == OrchestratorInit /\ [][Next]_orchestratorVars

\* The RPC client and the oracle time out, so an await of theirs ends; the
\* runtime runs a task that can go on.  Nobody has to send anything.
FairSpec == Spec /\ WF_orchestratorVars(ReceiverStep) /\ WF_orchestratorVars(WriterStep)

-----------------------------------------------------------------------------
(* Properties. *)

\* The channels never hold more than their capacity, and the tasks hold an
\* update exactly while they work on one.
TypeOK ==
    /\ registered \in SUBSET Pools /\ Configured \subseteq registered
    /\ queue \in Seq(Update) /\ Len(queue) <= QueueCap
    /\ pc \in {"recv", "lookup", "coin", "pc", "enrich", "send", "aborted"}
    /\ cur \in Update \cup {None} /\ (cur = None <=> pc \in {"recv", "aborted"})
    /\ snapshots \in Seq(Update) /\ Len(snapshots) <= SnapCap
    /\ wpc \in {"recv", "write", "done"}
    /\ rec \in Update \cup {None} /\ (rec = None <=> wpc # "write")
    /\ writers \in SUBSET Pools
    /\ rows \in Seq(Update) /\ accepted \in Seq(Update)
    /\ lost \in SUBSET Update
    /\ faulted \in BOOLEAN

\* The place of an accepted update in the order of acceptance.
Ticket(u) == CHOOSE i \in DOMAIN accepted : accepted[i] = u

\* Everything on its way, the oldest first.
Line ==
    rows \o (IF rec = None THEN <<>> ELSE <<rec>>) \o snapshots
         \o (IF cur = None THEN <<>> ELSE <<cur>>) \o queue

\* From the rows in the files back to the channel, the updates are in the order
\* in which they were accepted: two tasks and two channels, and no update
\* overtakes another, so the rows of a file are in the order of acceptance too.
NoOvertaking ==
    \A i, j \in DOMAIN Line : i < j => Ticket(Line[i]) < Ticket(Line[j])

\* Every accepted update has exactly one fate: it is on its way or in a file,
\* or it was given up; nothing vanishes and nothing is written twice.
OneFate ==
    /\ Elements(Line) \cup lost = Elements(accepted)
    /\ Elements(Line) \cap lost = {}
    /\ Len(Line) = Cardinality(Elements(Line))

\* The detailed pipeline does what SnapshotDelivery promises.
Delivery == INSTANCE SnapshotDelivery
    WITH Updates <- Update, taken <- accepted, rows <- rows, gone <- lost

DeliverySpec == Delivery!Spec

\* An accepted update does not stay on its way: neither channel blocks the other
\* for good, however small they are and whatever fails.
EventuallySettled ==
    \A u \in Update : u \in Elements(accepted) ~> u \in Elements(rows) \cup lost

\* As long as no account, node or file fails and nobody shuts down, no update of
\* a configured pool is given up, even when no price and no decimals can be
\* fetched and whichever pools are registered meanwhile.
OnlyFaultsLose == (\E u \in lost : u.pool \in Configured) => faulted

\* At any moment every accepted update is accounted for: it has one place, in
\* the order of acceptance, and is given up only for a reason.
UpdatesAccounted == TypeOK /\ NoOvertaking /\ OneFate /\ OnlyFaultsLose
=============================================================================
