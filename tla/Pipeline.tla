------------------------------ MODULE Pipeline ------------------------------
(***************************************************************************)
(* The program of main.rs around the orchestrator: the RPC backfill sends  *)
(* into the channel of updates, discovered pools are registered, then the  *)
(* configured pools are listened to, and every notification spawns a task  *)
(* that sends its update.  Ctrl+C aborts the orchestrator and ends main.   *)
(*                                                                         *)
(* The writers of the CSV files are dropped, and so flushed, when main     *)
(* returns (CsvWriter.tla); what still is in a task or a channel is not    *)
(* written.                                                                *)
(***************************************************************************)
EXTENDS Orchestrator, SequencesExt

VARIABLES
    phase,      \* where main is: "backfill", "discover", "serving", "stopping", "exited"
    backfill,   \* the backfilled updates main still has to send
    sending,    \* the updates of the tasks spawned by the callback
    listeners,  \* the pools with a task that reads their notifications
    slot        \* the number of changes of each pool

mainVars == <<phase, backfill, sending, listeners, slot>>
pipelineVars == <<orchestratorVars, mainVars>>

\* initial_backfill: accounts that are missing or empty are skipped, and a
\* request that failed has the effect of no account at all.
PipelineInit ==
    /\ OrchestratorInit
    /\ phase = "backfill"
    /\ \E fetched \in SUBSET Configured :
          backfill = SetToSeq([pool : fetched, slot : {0}])
    /\ sending = {}
    /\ listeners = {}
    /\ slot = [p \in Pools |-> 0]

Running == phase # "exited"

-----------------------------------------------------------------------------
(* The steps of main. *)

SendBackfill ==
    /\ phase = "backfill"
    /\ backfill # <<>>
    /\ Send(Head(backfill))
    /\ backfill' = Tail(backfill)
    /\ UNCHANGED <<phase, sending, listeners, slot>>

BackfillDone ==
    /\ phase = "backfill"
    /\ backfill = <<>>
    /\ phase' = "discover"
    /\ UNCHANGED <<orchestratorVars, backfill, sending, listeners, slot>>

\* register_pool, then subscribe_pool, which drops the stream it opened.
Discover(p) ==
    /\ phase = "discover"
    /\ p \notin registered
    /\ RegisterPool(p)
    /\ UNCHANGED mainVars

\* Mutant: main listens while the backfill is still being sent.
Listen_DuringBackfill ==
    /\ phase \in {"backfill", "discover"}
    /\ listeners = {}
    /\ listeners' = Configured
    /\ phase' = IF phase = "discover" THEN "serving" ELSE phase
    /\ UNCHANGED <<orchestratorVars, backfill, sending, slot>>

\* ws.listen(&pools, ..): the pools of the configuration.
Listen ==
    /\ phase = "discover"
    /\ listeners' = Configured
    /\ phase' = "serving"
    /\ UNCHANGED <<orchestratorVars, backfill, sending, slot>>

CtrlC ==
    /\ phase = "serving"
    /\ "interrupt" \in Faults
    /\ phase' = "stopping"
    /\ UNCHANGED <<orchestratorVars, backfill, sending, listeners, slot>>

\* The runtime drops the aborted task at its next await.
AbortOrchestrator ==
    /\ phase = "stopping"
    /\ Abort
    /\ UNCHANGED mainVars

\* Main returns or, before it waits for it, Ctrl+C kills the process: every
\* task ends where it is.
Exit ==
    /\ \/ phase = "stopping"
       \/ phase \in {"backfill", "discover"} /\ "interrupt" \in Faults
    /\ phase' = "exited"
    /\ lost' = lost \cup ((Elements(queue \o snapshots) \cup {cur, rec}) \ {None})
    /\ pc' = "aborted" /\ cur' = None /\ queue' = <<>>
    /\ wpc' = "done" /\ rec' = None /\ snapshots' = <<>>
    /\ faulted' = TRUE
    /\ sending' = {} /\ listeners' = {} /\ backfill' = <<>>
    /\ UNCHANGED <<registered, writers, rows, accepted, slot>>

-----------------------------------------------------------------------------
(* The listeners and the tasks of the callback. *)

Changed(p) ==
    /\ Running
    /\ slot[p] < MaxSlot
    /\ slot' = [slot EXCEPT ![p] = @ + 1]

\* A listener passes the new account on, or the throttle skips it.
Notify(p) ==
    /\ p \in listeners
    /\ Changed(p)
    /\ \/ sending' = sending \cup {[pool |-> p, slot |-> slot'[p]]}
       \/ UNCHANGED sending
    /\ UNCHANGED <<orchestratorVars, phase, backfill, listeners>>

\* Nobody hears of a change of any other pool.
ChangeUnheard(p) ==
    /\ p \notin listeners
    /\ phase = "serving"
    /\ Changed(p)
    /\ UNCHANGED <<orchestratorVars, phase, backfill, sending, listeners>>

\* The stream ended; the task logs it and returns.
ListenerEnds(p) ==
    /\ p \in listeners
    /\ "stream" \in Faults
    /\ listeners' = listeners \ {p}
    /\ UNCHANGED <<orchestratorVars, phase, backfill, sending, slot>>

\* Mutant: try_send, which drops the update when there is no room.
SendUpdate_TrySend(u) ==
    /\ u \in sending
    /\ sending' = sending \ {u}
    /\ IF HasRoom THEN Send(u) ELSE UNCHANGED orchestratorVars
    /\ UNCHANGED <<phase, backfill, listeners, slot>>

\* The tasks run in any order, whenever there is room.
SendUpdate(u) ==
    /\ u \in sending
    /\ Send(u)
    /\ sending' = sending \ {u}
    /\ UNCHANGED <<phase, backfill, listeners, slot>>

\* The channel is closed: "Dropping update (queue full?)".
SendRefused(u) ==
    /\ u \in sending
    /\ pc = "aborted"
    /\ sending' = sending \ {u}
    /\ UNCHANGED <<orchestratorVars, phase, backfill, listeners, slot>>

-----------------------------------------------------------------------------
MainStep == SendBackfill \/ BackfillDone \/ Listen \/ AbortOrchestrator \/ Exit

Receiver == ReceiverStep /\ UNCHANGED mainVars
Writer == WriterStep /\ UNCHANGED mainVars

Quiet ==
    /\ OrchestratorIdle
    /\ sending = {}
    /\ phase \in {"serving", "exited"}
    /\ UNCHANGED pipelineVars

PipelineNext ==
    \/ MainStep \/ CtrlC
    \/ Receiver \/ Writer
    \/ \E p \in Pools :
          Discover(p) \/ Notify(p) \/ ChangeUnheard(p) \/ ListenerEnds(p)
    \/ \E u \in Update : SendUpdate(u) \/ SendRefused(u)
    \/ Quiet

PipelineSpec == PipelineInit /\ [][PipelineNext]_pipelineVars

\* Main goes on until it waits for Ctrl+C, the tasks run when they can, and the
\* semaphore of the channel serves the tasks that wait for room in turn.
PipelineFairSpec ==
    /\ PipelineSpec
    /\ WF_pipelineVars(SendBackfill \/ BackfillDone \/ Listen)
    /\ WF_pipelineVars(phase = "stopping" /\ Exit)
    /\ WF_pipelineVars(Receiver)
    /\ WF_pipelineVars(Writer)
    /\ \A u \in Update : SF_pipelineVars(SendUpdate(u)) /\ WF_pipelineVars(SendRefused(u))

-----------------------------------------------------------------------------
(* Properties. *)

\* Of every pool the backfilled state comes first: no notification can pass it,
\* although the notifications are sent by tasks of their own.
BackfillFirst ==
    \A i, j \in DOMAIN rows :
        rows[i].pool = rows[j].pool /\ rows[j].slot = 0 => j <= i

\* Every notification that a listener passed on becomes a row unless something
\* besides the oracle fails or the program is shut down, whatever the channels
\* can hold and in whichever order the tasks get to send.
NotifiedAreRecorded ==
    \A u \in Update : u \in sending ~> u \in Elements(rows) \/ faulted

\* No task of the callback waits for ever: its update is accepted, or the channel
\* is closed and it ends, whatever fails downstream.
SendersEnd ==
    \A u \in Update : u \in sending ~> u \notin sending
=============================================================================
