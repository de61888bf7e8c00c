-------------------------- MODULE WebSocketManager --------------------------
(***************************************************************************)
(* The subscriptions, the reconnection and the bookkeeping of the          *)
(* WebSocketManager of websocket.rs, shared by concurrent callers.         *)
(*                                                                         *)
(* subscribe_pool, resubscribe_all, retry_problematic_pools and listen     *)
(* take &self and run concurrently; connect, mark_disconnected and         *)
(* reconnect_loop take &mut self and exclude every other call.  A step     *)
(* ends where a method awaits the endpoint, or a lock while it holds       *)
(* another one: problematic_pools and pool_failure_counts are the locks    *)
(* taken in both orders.  (The locks of the ids, the subscriptions and the *)
(* monitored pools are always taken in this order, with nothing awaited in *)
(* between, so what is done under them is one step.)                       *)
(***************************************************************************)
EXTENDS Naturals, FiniteSets

CONSTANTS
    Pools,         \* pool addresses
    Tasks,         \* the concurrent callers
    FailureLimit,  \* failures that make a pool problematic
    MaxAttempts,   \* the argument of reconnect_loop
    InitialDelay,  \* initial_delay
    MaxDelay,      \* max_delay
    MaxCalls,      \* bound: calls of methods
    None           \* no task, no pool

ASSUME WebSocketAssumption ==
    /\ IsFiniteSet(Pools) /\ IsFiniteSet(Tasks)
    /\ {FailureLimit, MaxAttempts, InitialDelay} \subseteq Nat \ {0}
    /\ MaxDelay \in Nat /\ InitialDelay <= MaxDelay
    /\ MaxCalls \in Nat
    /\ None \notin Tasks \cup Pools

VARIABLES
    client,         \* client.is_some()
    link,           \* the connection behind the client works
    isConnected,    \* *is_connected
    subscriptions,  \* the id of each pool's subscription, 0 for none
    nextId,         \* next_subscription_id
    monitored,      \* monitored_pools
    problematic,    \* problematic_pools
    failures,       \* pool_failure_counts, 0 for no entry
    delay,          \* reconnect_strategy.current_delay
    problemLock,    \* the task that holds the lock of problematic_pools
    failureLock,    \* the task that holds the lock of pool_failure_counts
    task,           \* what each caller is doing
    gauges,         \* the gauges of WebSocketMetrics
    calls,          \* bound: calls made so far
    overlapped      \* history: a call began while another one was under way

connection == <<client, link, isConnected, delay>>
books == <<subscriptions, nextId, monitored>>
blame == <<problematic, failures, problemLock, failureLock>>
vars == <<connection, books, blame, task, gauges, calls, overlapped>>

Subscribed == {p \in Pools : subscriptions[p] # 0}

Idle == [op |-> "none", at |-> "idle", pool |-> None, todo |-> {}, failed |-> {}, attempt |-> 0]

Ops == {"none", "subscribe", "resubscribe", "retry", "reconnect"}
Steps == {"idle", "connecting", "clearing", "copying", "choosing", "subscribing",
          "marking", "clearingFailures", "unmarking", "forgetting"}

Init ==
    /\ client = FALSE /\ link = FALSE /\ isConnected = FALSE
    /\ subscriptions = [p \in Pools |-> 0] /\ nextId = 1 /\ monitored = {}
    /\ problematic = {} /\ failures = [p \in Pools |-> 0]
    /\ delay = InitialDelay
    /\ problemLock = None /\ failureLock = None
    /\ task = [t \in Tasks |-> Idle]
    /\ gauges = [connected |-> FALSE, subscriptions |-> 0, problematic |-> 0]
    /\ calls = 0 /\ overlapped = FALSE

-----------------------------------------------------------------------------
(* Calls and returns. *)

Exclusive == \E t \in Tasks : task[t].op = "reconnect"
AllIdle == \A t \in Tasks : task[t] = Idle

At(t, step) == task[t].at = step

Goes(t, step) == task' = [task EXCEPT ![t].at = step]
Chooses(t, p) == task' = [task EXCEPT ![t].at = "subscribing", ![t].pool = p, ![t].todo = @ \ {p}]
Returns(t) == task' = [task EXCEPT ![t] = Idle]

\* After one pool: the caller of subscribe_pool returns, a loop goes on.
AfterSuccess(t) ==
    CASE task[t].op = "subscribe" -> Returns(t)
      [] task[t].op = "retry" -> Goes(t, "unmarking")
      [] OTHER -> Goes(t, "clearingFailures")

AfterFailure(t) ==
    IF task[t].op = "subscribe"
    THEN Returns(t)
    ELSE task' = [task EXCEPT ![t].at = "choosing", ![t].failed = @ \cup {task[t].pool}]

Counted ==
    /\ calls < MaxCalls /\ calls' = calls + 1
    /\ overlapped' = (overlapped \/ ~AllIdle)

Calls(t, frame) ==
    /\ task[t] = Idle
    /\ Counted
    /\ task' = [task EXCEPT ![t] = frame]

\* Without a client the call fails before it does anything.
CallSubscribe(t) ==
    /\ ~Exclusive /\ client
    /\ \E p \in Pools :
          Calls(t, [Idle EXCEPT !.op = "subscribe", !.at = "subscribing", !.pool = p])
    /\ UNCHANGED <<connection, books, blame, gauges>>

CallResubscribe(t) ==
    /\ ~Exclusive
    /\ Calls(t, [Idle EXCEPT !.op = "resubscribe", !.at = "clearing"])
    /\ UNCHANGED <<connection, books, blame, gauges>>

CallRetry(t) ==
    /\ ~Exclusive
    /\ problemLock = None /\ problematic # {}
    /\ Calls(t, [Idle EXCEPT !.op = "retry", !.at = "choosing", !.todo = problematic])
    /\ UNCHANGED <<connection, books, blame, gauges>>

\* Mutant: the strategy keeps the delay of the loop before.
CallReconnect_NoReset(t) ==
    /\ AllIdle
    /\ Calls(t, [Idle EXCEPT !.op = "reconnect", !.at = "connecting"])
    /\ UNCHANGED <<connection, books, blame, gauges>>

CallReconnect(t) ==
    /\ AllIdle
    /\ Calls(t, [Idle EXCEPT !.op = "reconnect", !.at = "connecting"])
    /\ delay' = InitialDelay
    /\ UNCHANGED <<client, link, isConnected, books, blame, gauges>>

-----------------------------------------------------------------------------
(* connect, mark_disconnected, and the loop around connect. *)

Connects ==
    /\ client' = TRUE /\ link' = TRUE /\ isConnected' = TRUE
    /\ gauges' = [gauges EXCEPT !.connected = TRUE]

\* Mutant: a failed connection does not reach the metrics.
ConnectFails_NoGauge ==
    /\ isConnected' = FALSE
    /\ UNCHANGED <<client, link, gauges>>

\* A client of an earlier connection is left in its place.
ConnectFails ==
    /\ isConnected' = FALSE
    /\ gauges' = [gauges EXCEPT !.connected = FALSE]
    /\ UNCHANGED <<client, link>>

Connect ==
    /\ AllIdle
    /\ Counted
    /\ Connects \/ ConnectFails
    /\ UNCHANGED <<delay, books, blame, task>>

MarkDisconnected ==
    /\ AllIdle
    /\ Counted
    /\ client' = FALSE /\ isConnected' = FALSE
    /\ gauges' = [gauges EXCEPT !.connected = FALSE]
    /\ UNCHANGED <<link, delay, books, blame, task>>

ReconnectOk(t) ==
    /\ At(t, "connecting")
    /\ Connects
    /\ delay' = InitialDelay
    /\ Goes(t, "clearing")
    /\ UNCHANGED <<books, blame, calls, overlapped>>

\* next_delay: the delay that was slept doubles, up to max_delay.
NextDelay == IF 2 * delay > MaxDelay THEN MaxDelay ELSE 2 * delay

\* The attempts are used up, or the loop sleeps and tries again.
ReconnectFails(t) ==
    /\ At(t, "connecting")
    /\ ConnectFails
    /\ delay' = NextDelay
    /\ IF task[t].attempt + 1 = MaxAttempts
       THEN Returns(t)
       ELSE task' = [task EXCEPT ![t].attempt = @ + 1]
    /\ UNCHANGED <<books, blame, calls, overlapped>>

-----------------------------------------------------------------------------
(* resubscribe_all and retry_problematic_pools. *)

Clear(t) ==
    /\ At(t, "clearing")
    /\ subscriptions' = [p \in Pools |-> 0]
    /\ Goes(t, "copying")
    /\ UNCHANGED <<connection, nextId, monitored, blame, gauges, calls, overlapped>>

Copy(t) ==
    /\ At(t, "copying")
    /\ task' = [task EXCEPT ![t].at = "choosing", ![t].todo = monitored]
    /\ UNCHANGED <<connection, books, blame, gauges, calls, overlapped>>

Finish(t) ==
    /\ At(t, "choosing") /\ task[t].todo = {}
    /\ Returns(t)
    /\ UNCHANGED <<connection, books, blame, gauges, calls, overlapped>>

\* resubscribe_all skips a pool that is problematic when its turn comes.
Skip(t) ==
    /\ At(t, "choosing") /\ task[t].op # "retry"
    /\ problemLock = None
    /\ \E p \in task[t].todo \cap problematic :
          task' = [task EXCEPT ![t].todo = @ \ {p}]
    /\ UNCHANGED <<connection, books, blame, gauges, calls, overlapped>>

\* Without a client the pool fails at once, and the failure is not counted.
Choose(t) ==
    /\ At(t, "choosing")
    /\ \E p \in task[t].todo :
          /\ task[t].op # "retry" => problemLock = None /\ p \notin problematic
          /\ IF client
             THEN Chooses(t, p)
             ELSE task' = [task EXCEPT ![t].todo = @ \ {p}, ![t].failed = @ \cup {p}]
    /\ UNCHANGED <<connection, books, blame, gauges, calls, overlapped>>

-----------------------------------------------------------------------------
(* subscribe_pool, from the answer of the endpoint on. *)

SubscribeOk(t) ==
    LET p == task[t].pool IN
    /\ At(t, "subscribing")
    /\ link
    /\ subscriptions' = [subscriptions EXCEPT ![p] = nextId]
    /\ nextId' = nextId + 1
    /\ monitored' = monitored \cup {p}
    /\ gauges' = [gauges EXCEPT !.subscriptions =
                      Cardinality({q \in Pools : subscriptions'[q] # 0})]
    /\ AfterSuccess(t)
    /\ UNCHANGED <<connection, blame, calls, overlapped>>

\* Mutant: the first failure ends the loop, as it ends subscribe_all_pools.
SubscribeFails_EndsLoop(t) ==
    /\ At(t, "subscribing")
    /\ task' = [task EXCEPT ![t].at = "choosing", ![t].todo = {},
                            ![t].failed = @ \cup {task[t].pool}]
    /\ UNCHANGED <<connection, books, blame, gauges, calls, overlapped>>

\* The count is only compared with the limit, so it stops there.
SubscribeFails(t) ==
    LET p == task[t].pool
        n == IF failures[p] < FailureLimit THEN failures[p] + 1 ELSE FailureLimit
    IN  /\ At(t, "subscribing")
        /\ failureLock = None
        /\ failures' = [failures EXCEPT ![p] = n]
        /\ IF n >= FailureLimit
           THEN failureLock' = t /\ Goes(t, "marking")
           ELSE /\ UNCHANGED failureLock
                /\ AfterFailure(t)
        /\ UNCHANGED <<connection, books, problematic, problemLock, gauges, calls, overlapped>>

\* Mutant: the pool is tried again in the same loop.
Mark_Requeues(t) ==
    LET p == task[t].pool IN
    /\ At(t, "marking")
    /\ problemLock = None
    /\ problematic' = problematic \cup {p}
    /\ failureLock' = None
    /\ IF task[t].op = "subscribe" THEN Returns(t)
       ELSE task' = [task EXCEPT ![t].at = "choosing", ![t].todo = @ \cup {p}]
    /\ UNCHANGED <<connection, books, failures, problemLock, gauges, calls, overlapped>>

\* The lock of the counts is still held.
Mark(t) ==
    LET p == task[t].pool IN
    /\ At(t, "marking")
    /\ problemLock = None
    /\ problematic' = problematic \cup {p}
    /\ gauges' = [gauges EXCEPT !.problematic = Cardinality(problematic')]
    /\ failureLock' = None
    /\ AfterFailure(t)
    /\ UNCHANGED <<connection, books, failures, problemLock, calls, overlapped>>

\* resubscribe_all, after a success.
ClearFailures(t) ==
    /\ At(t, "clearingFailures")
    /\ failureLock = None
    /\ failures' = [failures EXCEPT ![task[t].pool] = 0]
    /\ Goes(t, "choosing")
    /\ UNCHANGED <<connection, books, problematic, problemLock, failureLock, gauges, calls, overlapped>>

\* retry_problematic_pools, after a success; the lock is kept for the next step.
Unmark(t) ==
    /\ At(t, "unmarking")
    /\ problemLock = None
    /\ problematic' = problematic \ {task[t].pool}
    /\ problemLock' = t
    /\ Goes(t, "forgetting")
    /\ UNCHANGED <<connection, books, failures, failureLock, gauges, calls, overlapped>>

Forget(t) ==
    /\ At(t, "forgetting")
    /\ failureLock = None
    /\ failures' = [failures EXCEPT ![task[t].pool] = 0]
    /\ problemLock' = None
    /\ Goes(t, "choosing")
    /\ UNCHANGED <<connection, books, problematic, failureLock, gauges, calls, overlapped>>

-----------------------------------------------------------------------------
(* The world. *)

\* The connection breaks, and nothing tells the manager.
LinkBreaks ==
    /\ link
    /\ link' = FALSE
    /\ UNCHANGED <<client, isConnected, delay, books, blame, task, gauges, calls, overlapped>>

CallStep(t) == CallSubscribe(t) \/ CallResubscribe(t) \/ CallRetry(t) \/ CallReconnect(t)

TaskStep(t) ==
    \/ ReconnectOk(t) \/ ReconnectFails(t)
    \/ Clear(t) \/ Copy(t) \/ Finish(t) \/ Skip(t) \/ Choose(t)
    \/ SubscribeOk(t) \/ SubscribeFails(t) \/ Mark(t)
    \/ ClearFailures(t) \/ Unmark(t) \/ Forget(t)

\* Nobody has anything to do, or the calls are used up.
Rest == AllIdle /\ UNCHANGED vars

Next ==
    \/ \E t \in Tasks : CallStep(t) \/ TaskStep(t)
    \/ Connect \/ MarkDisconnected \/ LinkBreaks
    \/ Rest

Spec == Init /\ [][Next]_vars

\* Every request is answered or times out and every free lock is taken in turn;
\* nobody has to call anything.
FairSpec == Spec /\ \A t \in Tasks : WF_vars(TaskStep(t))

-----------------------------------------------------------------------------
(* Properties. *)

\* The locks are held only by the steps that may hold them, and an exclusive
\* call is alone.
TypeOK ==
    /\ {client, link, isConnected} \subseteq BOOLEAN
    /\ subscriptions \in [Pools -> 0 .. nextId - 1]
    /\ nextId \in Nat \ {0}
    /\ {monitored, problematic} \subseteq SUBSET Pools
    /\ failures \in [Pools -> 0 .. FailureLimit]
    /\ delay \in InitialDelay .. MaxDelay
    /\ task \in [Tasks -> [op : Ops, at : Steps, pool : Pools \cup {None},
                           todo : SUBSET Pools, failed : SUBSET Pools,
                           attempt : 0 .. MaxAttempts - 1]]
    /\ \A t \in Tasks : (failureLock = t) <=> At(t, "marking")
    /\ \A t \in Tasks : (problemLock = t) <=> At(t, "forgetting")
    /\ Exclusive => \E t \in Tasks : \A u \in Tasks \ {t} : task[u] = Idle

\* The gauge of the connection tells what *is_connected tells.  The other gauges
\* are set only where what they count grows: a resubscription and a retry leave
\* them too high, and nothing leaves them too low.
GaugesNeverUnderstate ==
    /\ gauges.connected = isConnected
    /\ gauges.subscriptions >= Cardinality(Subscribed)
    /\ gauges.problematic >= Cardinality(problematic)

\* Between calls, as long as no two have overlapped: a problematic pool is one whose
\* failures have reached the limit and have not been forgotten since.
ProblematicHaveFailed ==
    AllIdle /\ ~overlapped => \A p \in problematic : failures[p] >= FailureLimit

\* When a resubscription is through and no two calls have overlapped, every
\* monitored pool is subscribed, except the problematic ones and those whose own
\* subscription failed: one failure does not keep the others from being subscribed.
ResubscribesTheRest ==
    ~overlapped => \A t \in Tasks :
        /\ task[t].op \in {"resubscribe", "reconnect"}
        /\ At(t, "choosing") /\ task[t].todo = {}
        => monitored \subseteq Subscribed \cup problematic \cup task[t].failed

\* While the loop tries to reconnect, the delay is the initial one doubled once
\* for every failed attempt, up to the maximum; an earlier loop leaves no trace.
BackoffIsExponential ==
    \A t \in Tasks : At(t, "connecting") =>
        LET full == InitialDelay * 2 ^ task[t].attempt
        IN  delay = (IF full > MaxDelay THEN MaxDelay ELSE full)

\* What the methods keep of earlier calls and of each other is what their
\* decisions assume: the locks, the failure counts and the delay.
BookkeepingOK == TypeOK /\ ProblematicHaveFailed /\ BackoffIsExponential

\* retry_problematic_pools waits for the counts with problematic_pools locked,
\* while subscribe_pool waits for problematic_pools with the counts locked.
Crossed == \E t, u \in Tasks : At(t, "forgetting") /\ At(u, "marking")

\* Every call returns, unless these two wait for each other.
CallsReturnUnlessCrossed == \A t \in Tasks : task[t] # Idle ~> task[t] = Idle \/ Crossed

\* Every call returns.  WEBSOCKET_IMPLEMENTATION.md:121 "Thread-safe Arc and Mutex
\* usage throughout"; websocket.rs:762 "Count of pools successfully resubscribed".
CallsReturn == \A t \in Tasks : task[t] # Idle ~> task[t] = Idle
=============================================================================
