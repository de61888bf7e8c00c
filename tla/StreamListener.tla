--------------------------- MODULE StreamListener ---------------------------
(***************************************************************************)
(* The tasks that listen_pool of websocket.rs spawns.  Each subscribes to  *)
(* the account of its pool, takes the notifications of its stream in turn, *)
(* asks the throttle, and hands what passes to the callback.               *)
(*                                                                         *)
(* The throttle keeps the time of the last update let through for each     *)
(* pool; it is one table for all tasks, and nothing keeps two tasks from   *)
(* listening to the same pool.  The table is read and written under its    *)
(* lock, so a decision is one step; the callback comes after it, in a      *)
(* step of its own, because the tasks run on several threads.              *)
(***************************************************************************)
EXTENDS Naturals, Sequences

CONSTANTS
    Pools,      \* pool addresses
    Listeners,  \* the tasks that listen_pool may spawn
    Interval,   \* snapshot_interval_ms, in ticks; 0 for no throttle
    Faults,     \* what may go wrong: "subscribe", "decode", "stream"
    MaxSlot,    \* bound: changes of one pool
    MaxTime,    \* bound: the clock
    None        \* no pool, no time

ASSUME ListenerAssumption ==
    /\ {Interval, MaxSlot, MaxTime} \subseteq Nat
    /\ Faults \subseteq {"subscribe", "decode", "stream"}
    /\ None \notin Pools \cup Nat

VARIABLES
    now,      \* Instant::now()
    last,     \* last_snapshot_time
    skipped,  \* skipped_notifications, 0 for no entry
    at,       \* what each task is doing
    pool,     \* the pool it listens to
    stream,   \* the notifications it has not taken yet
    hand,     \* the one it has taken, 0 for none
    slot,     \* the number of changes of each pool
    allowed,  \* history: the updates let through, by pool
    handled   \* history: the slot each task has dealt with last

books == <<last, skipped, allowed>>
tasks == <<at, pool, stream, hand, handled>>
vars == <<now, books, tasks, slot>>

Steps == {"unused", "subscribing", "waiting", "deciding", "delivering", "ended"}

Init ==
    /\ now = 0
    /\ last = [p \in Pools |-> None]
    /\ skipped = [p \in Pools |-> 0]
    /\ at = [l \in Listeners |-> "unused"]
    /\ pool = [l \in Listeners |-> None]
    /\ stream = [l \in Listeners |-> <<>>]
    /\ hand = [l \in Listeners |-> 0]
    /\ slot = [p \in Pools |-> 0]
    /\ allowed = [p \in Pools |-> 0]
    /\ handled = [l \in Listeners |-> 0]

-----------------------------------------------------------------------------
(* listen_pool, and the stream of a task. *)

ListenPool(l, p) ==
    /\ at[l] = "unused"
    /\ at' = [at EXCEPT ![l] = "subscribing"]
    /\ pool' = [pool EXCEPT ![l] = p]
    /\ UNCHANGED <<now, books, stream, hand, handled, slot>>

Subscribed(l) ==
    /\ at[l] = "subscribing"
    /\ at' = [at EXCEPT ![l] = "waiting"]
    /\ UNCHANGED <<now, books, pool, stream, hand, handled, slot>>

\* The error is logged and the task is over; the caller was told Ok.
SubscribeFails(l) ==
    /\ at[l] = "subscribing"
    /\ "subscribe" \in Faults
    /\ at' = [at EXCEPT ![l] = "ended"]
    /\ UNCHANGED <<now, books, pool, stream, hand, handled, slot>>

Take(l) ==
    /\ at[l] = "waiting"
    /\ stream[l] # <<>>
    /\ hand' = [hand EXCEPT ![l] = Head(stream[l])]
    /\ stream' = [stream EXCEPT ![l] = Tail(@)]
    /\ at' = [at EXCEPT ![l] = "deciding"]
    /\ UNCHANGED <<now, books, pool, handled, slot>>

\* The stream is over: the loop ends, and with it the task.
StreamEnds(l) ==
    /\ at[l] = "waiting"
    /\ "stream" \in Faults
    /\ stream[l] = <<>>
    /\ at' = [at EXCEPT ![l] = "ended"]
    /\ UNCHANGED <<now, books, pool, stream, hand, handled, slot>>

-----------------------------------------------------------------------------
(* The throttle and the callback. *)

\* Mutant: "<=" where the code has "<".
TooSoon_OffByOne(p) ==
    /\ Interval > 0
    /\ last[p] # None
    /\ now - last[p] <= Interval

TooSoon(p) ==
    /\ Interval > 0
    /\ last[p] # None
    /\ now - last[p] < Interval

Done(l, step) ==
    /\ at' = [at EXCEPT ![l] = step]
    /\ handled' = [handled EXCEPT ![l] = hand[l]]
    /\ hand' = [hand EXCEPT ![l] = 0]
    /\ UNCHANGED <<pool, stream>>

\* Mutant: an update that comes too soon is put back, to be looked at again.
Skip_Requeues(l) ==
    /\ at[l] = "deciding"
    /\ TooSoon(pool[l])
    /\ stream' = [stream EXCEPT ![l] = <<hand[l]>> \o @]
    /\ hand' = [hand EXCEPT ![l] = 0]
    /\ at' = [at EXCEPT ![l] = "waiting"]
    /\ UNCHANGED <<now, books, pool, handled, slot>>

Skip(l) ==
    /\ at[l] = "deciding"
    /\ TooSoon(pool[l])
    /\ skipped' = [skipped EXCEPT ![pool[l]] = @ + 1]
    /\ Done(l, "waiting")
    /\ UNCHANGED <<now, last, allowed, slot>>

\* Without a throttle the table of times is not written.
Pass(l) ==
    /\ at[l] = "deciding"
    /\ ~TooSoon(pool[l])
    /\ last' = IF Interval > 0 THEN [last EXCEPT ![pool[l]] = now] ELSE last
    /\ allowed' = [allowed EXCEPT ![pool[l]] = @ + 1]
    /\ at' = [at EXCEPT ![l] = "delivering"]
    /\ UNCHANGED <<now, skipped, pool, stream, hand, handled, slot>>

\* The update has used up its turn although nobody gets to see it.
DecodeFails(l) ==
    /\ at[l] = "delivering"
    /\ "decode" \in Faults
    /\ Done(l, "waiting")
    /\ UNCHANGED <<now, books, slot>>

Deliver(l) ==
    /\ at[l] = "delivering"
    /\ Done(l, "waiting")
    /\ UNCHANGED <<now, books, slot>>

-----------------------------------------------------------------------------
(* The chain and the clock. *)

Hears(l, p) == pool[l] = p /\ at[l] \in {"waiting", "deciding", "delivering"}

\* Every subscription of the pool is notified.
Change(p) ==
    /\ slot[p] < MaxSlot
    /\ slot' = [slot EXCEPT ![p] = @ + 1]
    /\ stream' = [l \in Listeners |-> IF Hears(l, p) THEN Append(stream[l], slot'[p])
                                                    ELSE stream[l]]
    /\ UNCHANGED <<now, books, at, pool, hand, handled>>

Tick == now < MaxTime /\ now' = now + 1 /\ UNCHANGED <<books, tasks, slot>>

TaskStep(l) ==
    \/ Subscribed(l) \/ SubscribeFails(l) \/ Take(l)
    \/ Skip(l) \/ Pass(l) \/ DecodeFails(l) \/ Deliver(l)

\* Nothing is left to hear, or nobody listens.
Quiet ==
    /\ \A l \in Listeners :
          at[l] \in {"unused", "waiting", "ended"} /\ stream[l] = <<>>
    /\ UNCHANGED vars

Next ==
    \/ \E l \in Listeners : TaskStep(l) \/ StreamEnds(l)
    \/ \E l \in Listeners, p \in Pools : ListenPool(l, p)
    \/ \E p \in Pools : Change(p)
    \/ Tick \/ Quiet

Spec == Init /\ [][Next]_vars

\* A task that can go on does, and time passes.  A stream need not end, and a
\* pool need not change.
FairSpec == Spec /\ WF_vars(Tick) /\ \A l \in Listeners : WF_vars(TaskStep(l))

-----------------------------------------------------------------------------
(* Properties. *)

\* A task has a notification in hand exactly while it decides on it, and its
\* stream goes on where it has got to: nothing is taken twice or out of order.
TypeOK ==
    /\ now \in 0 .. MaxTime
    /\ last \in [Pools -> 0 .. now \cup {None}]
    /\ skipped \in [Pools -> Nat] /\ allowed \in [Pools -> Nat]
    /\ at \in [Listeners -> Steps]
    /\ pool \in [Listeners -> Pools \cup {None}]
    /\ slot \in [Pools -> 0 .. MaxSlot]
    /\ hand \in [Listeners -> 0 .. MaxSlot]
    /\ handled \in [Listeners -> 0 .. MaxSlot]
    /\ \A l \in Listeners :
          /\ stream[l] \in Seq(1 .. MaxSlot)
          /\ (at[l] = "unused") <=> (pool[l] = None)
          /\ (hand[l] # 0) <=> (at[l] \in {"deciding", "delivering"})
          /\ LET queued == <<hand[l]>> \o stream[l]
             IN  \A i \in DOMAIN queued : queued[i] # 0 =>
                    /\ handled[l] < queued[i]
                    /\ i > 1 => queued[i - 1] < queued[i]

\* However many tasks listen to a pool, the updates let through are those a
\* bucket of one token lets through: never two within an interval, and none is
\* skipped when the last one is an interval old.
Tokens == [p \in Pools |->
    IF last[p] = None \/ now - last[p] > Interval THEN Interval ELSE now - last[p]]

Bucket == INSTANCE TokenBucket WITH Capacity <- 1, tokens <- Tokens

ThrottleIsBucket == Bucket!Spec

\* Every notification is dealt with in the end, although all tasks share the
\* throttle and some updates cannot be decoded.
StreamsDrain ==
    \A l \in Listeners : stream[l] # <<>> ~> stream[l] = <<>>
=============================================================================
