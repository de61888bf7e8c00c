----------------------- MODULE WebSocketManagerProofs -----------------------
(***************************************************************************)
(* For any number of callers and pools and any limits: the locks and the   *)
(* frames of the calls are well formed, the delay of the reconnection is   *)
(* the initial one doubled once per failed attempt, the gauges never tell  *)
(* too little, and, as long as no two calls overlap, a problematic pool    *)
(* has failed often enough and a resubscription leaves out only the pools  *)
(* it may.                                                                 *)
(***************************************************************************)
EXTENDS WebSocketManager, FiniteSetTheorems, TLAPS

-----------------------------------------------------------------------------
(* What a caller is doing. *)

Frame == [op : Ops, at : Steps, pool : Pools \cup {None},
          todo : SUBSET Pools, failed : SUBSET Pools, attempt : 0 .. MaxAttempts - 1]

\* The steps of each method, and those that have a pool in hand.
Shape(f) ==
    /\ f.at = "idle" <=> f = Idle
    /\ f.at = "idle" <=> f.op = "none"
    /\ f.at = "connecting" => f.op = "reconnect"
    /\ f.at \in {"clearing", "copying", "clearingFailures"} => f.op \in {"resubscribe", "reconnect"}
    /\ f.at \in {"unmarking", "forgetting"} => f.op = "retry"
    /\ f.op = "subscribe" => f.at \in {"subscribing", "marking"}
    /\ f.at \in {"subscribing", "marking", "clearingFailures", "unmarking", "forgetting"}
       => f.pool \in Pools

\* An exclusive call is alone.
Alone(t) == \A u \in Tasks \ {t} : task[u] = Idle
ExclusiveAlone == \A t \in Tasks : task[t].op = "reconnect" => Alone(t)

TasksOK ==
    /\ task \in [Tasks -> Frame]
    /\ \A t \in Tasks : Shape(task[t])
    /\ ExclusiveAlone

BooksOK ==
    /\ client \in BOOLEAN /\ link \in BOOLEAN /\ isConnected \in BOOLEAN
    /\ subscriptions \in [Pools -> 0 .. nextId - 1]
    /\ nextId \in Nat \ {0}
    /\ monitored \in SUBSET Pools /\ problematic \in SUBSET Pools
    /\ failures \in [Pools -> 0 .. FailureLimit]
    /\ delay \in InitialDelay .. MaxDelay

LocksOK ==
    /\ \A t \in Tasks : (failureLock = t) <=> At(t, "marking")
    /\ \A t \in Tasks : (problemLock = t) <=> At(t, "forgetting")

TInv == TasksOK /\ BooksOK /\ LocksOK

LEMMA TInvIsTypeOK == TInv => TypeOK
<1> SUFFICES ASSUME TInv PROVE TypeOK
  OBVIOUS
<1>1. Exclusive => \E t \in Tasks : \A u \in Tasks \ {t} : task[u] = Idle
  BY DEF TInv, TasksOK, ExclusiveAlone, Alone, Exclusive
<1>2. {client, link, isConnected} \subseteq BOOLEAN
  BY DEF TInv, BooksOK
<1> QED
  BY <1>1, <1>2 DEF TInv, TasksOK, BooksOK, LocksOK, Frame, TypeOK

\* No frame is a call of nothing, and no lock is held by nobody.
LEMMA IdleIsFrame == Idle \in Frame /\ Shape(Idle) /\ Idle.at = "idle" /\ Idle.op = "none"
  BY WebSocketAssumption DEF Idle, Frame, Shape, Ops, Steps

LEMMA Limits ==
    /\ FailureLimit \in Nat \ {0} /\ MaxAttempts \in Nat \ {0}
    /\ InitialDelay \in Nat \ {0} /\ MaxDelay \in Nat /\ InitialDelay <= MaxDelay
    /\ None \notin Tasks /\ None \notin Pools
  BY WebSocketAssumption

LEMMA InitTInv == Init => TInv
<1> SUFFICES ASSUME Init PROVE TInv
  OBVIOUS
<1> USE DEF Init
<1>1. \A t \in Tasks : task[t] = Idle
  OBVIOUS
<1>2. TasksOK
  BY <1>1, IdleIsFrame DEF TasksOK, ExclusiveAlone, Alone
<1>3. BooksOK
  <2>1. 0 \in 0 .. 1 - 1 /\ 0 \in 0 .. FailureLimit /\ InitialDelay \in InitialDelay .. MaxDelay
    BY Limits
  <2>2. subscriptions \in [Pools -> 0 .. nextId - 1] /\ failures \in [Pools -> 0 .. FailureLimit]
    BY <2>1
  <2>3. client \in BOOLEAN /\ link \in BOOLEAN /\ isConnected \in BOOLEAN
    OBVIOUS
  <2>4. /\ nextId \in Nat \ {0} /\ delay \in InitialDelay .. MaxDelay
        /\ monitored \in SUBSET Pools /\ problematic \in SUBSET Pools
    BY <2>1
  <2> QED
    BY <2>2, <2>3, <2>4 DEF BooksOK
<1>4. LocksOK
  BY <1>1, WebSocketAssumption, IdleIsFrame DEF LocksOK, At
<1> QED
  BY <1>2, <1>3, <1>4 DEF TInv

\* One caller moves to a well-formed frame, and it becomes exclusive only when
\* the others are idle.
LEMMA OneMoves ==
    ASSUME TasksOK, NEW t \in Tasks, NEW f \in Frame, Shape(f),
           task' = [task EXCEPT ![t] = f],
           f.op = "reconnect" => Alone(t),
           f # Idle => \A u \in Tasks : task[u].op = "reconnect" => u = t
    PROVE  TasksOK'
<1>1. task' \in [Tasks -> Frame] /\ task'[t] = f
      /\ \A u \in Tasks \ {t} : task'[u] = task[u]
  BY DEF TasksOK
<1>2. \A u \in Tasks : Shape(task'[u])
  BY <1>1 DEF TasksOK
<1>3. ASSUME NEW u \in Tasks, task'[u].op = "reconnect"
      PROVE  \A v \in Tasks \ {u} : task'[v] = Idle
  <2>1. CASE u = t
    BY <1>1, <1>3, <2>1 DEF Alone
  <2>2. CASE u # t
    <3>1. task[u].op = "reconnect"
      BY <1>1, <1>3, <2>2
    <3>2. f = Idle
      BY <2>2, <3>1
    <3>3. \A v \in Tasks \ {u} : task[v] = Idle
      BY <3>1 DEF TasksOK, ExclusiveAlone, Alone
    <3> QED
      BY <1>1, <3>2, <3>3
  <2> QED
    BY <2>1, <2>2
<1> QED
  BY <1>1, <1>2, <1>3 DEF TasksOK, ExclusiveAlone, Alone

\* A caller that is not idle may go on or return.
LEMMA OneGoesOn ==
    ASSUME TasksOK, NEW t \in Tasks, task[t] # Idle, NEW f \in Frame, Shape(f),
           task' = [task EXCEPT ![t] = f],
           f.op = "reconnect" => task[t].op = "reconnect"
    PROVE  TasksOK'
<1>1. f.op = "reconnect" => Alone(t)
  BY DEF TasksOK, ExclusiveAlone
<1>2. \A u \in Tasks : task[u].op = "reconnect" => u = t
  BY DEF TasksOK, ExclusiveAlone, Alone
<1> QED
  BY <1>1, <1>2, OneMoves


\* The frames that a step of each method leads to.
LEMMA GoesTo ==
    ASSUME NEW t \in Tasks, task \in [Tasks -> Frame], NEW step \in Steps, Goes(t, step)
    PROVE  \E f \in Frame :
              /\ task' = [task EXCEPT ![t] = f]
              /\ f = [task[t] EXCEPT !.at = step]
<1> DEFINE f == [task[t] EXCEPT !.at = step]
<1>1. f \in Frame
  BY DEF Frame
<1>2. task' = [task EXCEPT ![t] = f]
  BY DEF Goes
<1> QED
  BY <1>1, <1>2

LEMMA GoesKeeps ==
    ASSUME TasksOK, NEW t \in Tasks, task[t] # Idle, NEW step \in Steps, Goes(t, step),
           step \notin {"idle", "connecting"},
           step \in {"clearing", "copying", "clearingFailures"}
              => task[t].op \in {"resubscribe", "reconnect"},
           step \in {"unmarking", "forgetting"} => task[t].op = "retry",
           task[t].op = "subscribe" => step \in {"subscribing", "marking"},
           step \in {"subscribing", "marking", "clearingFailures", "unmarking", "forgetting"}
              => task[t].pool \in Pools
    PROVE  TasksOK'
<1>1. task \in [Tasks -> Frame] /\ Shape(task[t])
  BY DEF TasksOK
<1>2. PICK f \in Frame : task' = [task EXCEPT ![t] = f] /\ f = [task[t] EXCEPT !.at = step]
  BY <1>1, GoesTo
<1>3. f.at = step /\ f.op = task[t].op /\ f.pool = task[t].pool
  BY <1>1, <1>2 DEF Frame
<1>4. task[t].op # "none"
  BY <1>1 DEF Shape
<1>5. f # Idle
  BY <1>3, IdleIsFrame
<1>6. Shape(f)
  BY <1>3, <1>4, <1>5 DEF Shape
<1> QED
  BY <1>2, <1>3, <1>6, OneGoesOn

LEMMA ReturnsKeeps ==
    ASSUME TasksOK, NEW t \in Tasks, task[t] # Idle, Returns(t)
    PROVE  TasksOK'
  BY OneGoesOn, IdleIsFrame DEF Returns

\* A frame that goes on to the next pool of a loop.
LEMMA ChoosingKeeps ==
    ASSUME TasksOK, NEW t \in Tasks, task[t] # Idle, task[t].op # "subscribe",
           NEW f \in Frame, f.at = "choosing", f.op = task[t].op,
           task' = [task EXCEPT ![t] = f]
    PROVE  TasksOK'
<1>1. Shape(task[t]) /\ task[t].op # "none"
  BY DEF TasksOK, Shape
<1>2. f # Idle
  BY IdleIsFrame
<1>3. Shape(f)
  BY <1>1, <1>2 DEF Shape
<1> QED
  BY <1>3, OneGoesOn

LEMMA AfterFailureKeeps ==
    ASSUME TasksOK, NEW t \in Tasks, task[t].at \in {"subscribing", "marking"}, AfterFailure(t)
    PROVE  TasksOK'
<1>1. task \in [Tasks -> Frame] /\ Shape(task[t]) /\ task[t] \in Frame
  BY DEF TasksOK
<1>2. task[t] # Idle /\ task[t].pool \in Pools
  BY <1>1, IdleIsFrame DEF Shape
<1>3. CASE task[t].op = "subscribe"
  BY <1>2, <1>3, ReturnsKeeps DEF AfterFailure
<1>4. CASE task[t].op # "subscribe"
  <2> DEFINE f == [task[t] EXCEPT !.at = "choosing", !.failed = @ \cup {task[t].pool}]
  <2>1. task' = [task EXCEPT ![t] = f]
    BY <1>4 DEF AfterFailure
  <2>2. f \in Frame /\ f.at = "choosing" /\ f.op = task[t].op
    BY <1>1, <1>2 DEF Frame, Steps
  <2> QED
    BY <1>2, <1>4, <2>1, <2>2, ChoosingKeeps
<1> QED
  BY <1>3, <1>4

LEMMA AfterSuccessKeeps ==
    ASSUME TasksOK, NEW t \in Tasks, task[t].at = "subscribing", AfterSuccess(t)
    PROVE  TasksOK'
<1>1. task[t] \in Frame /\ Shape(task[t])
  BY DEF TasksOK
<1>2. task[t] # Idle /\ task[t].pool \in Pools /\ task[t].op \in Ops \ {"none"}
  BY <1>1, IdleIsFrame DEF Shape, Frame
<1>3. CASE task[t].op = "subscribe"
  BY <1>2, <1>3, ReturnsKeeps DEF AfterSuccess
<1>4. CASE task[t].op = "retry"
  <2>1. Goes(t, "unmarking")
    BY <1>4 DEF AfterSuccess
  <2> QED
    BY <1>2, <1>4, <2>1, GoesKeeps DEF Steps
<1>5. CASE task[t].op \in {"resubscribe", "reconnect"}
  <2>1. Goes(t, "clearingFailures")
    BY <1>5 DEF AfterSuccess
  <2> QED
    BY <1>2, <1>5, <2>1, GoesKeeps DEF Steps
<1> QED
  BY <1>2, <1>3, <1>4, <1>5 DEF Ops

-----------------------------------------------------------------------------
(* The frames, step by step. *)

\* A call begins on an idle caller; an exclusive one begins when all are idle.
LEMMA CallsKeeps ==
    ASSUME TasksOK, NEW t \in Tasks, NEW f \in Frame, Shape(f), Calls(t, f),
           IF f.op = "reconnect" THEN AllIdle ELSE ~Exclusive
    PROVE  TasksOK'
<1>1. task' = [task EXCEPT ![t] = f]
  BY DEF Calls
<1>2. CASE f.op = "reconnect"
  <2>1. AllIdle
    BY <1>2
  <2>2. Alone(t) /\ \A u \in Tasks : task[u].op = "reconnect" => u = t
    BY <2>1, IdleIsFrame DEF Alone, AllIdle
  <2> QED
    BY <1>1, <2>2, OneMoves
<1>3. CASE f.op # "reconnect"
  <2>1. \A u \in Tasks : task[u].op # "reconnect"
    BY <1>3 DEF Exclusive
  <2> QED
    BY <1>1, <1>3, <2>1, OneMoves
<1> QED
  BY <1>2, <1>3

LEMMA CallStepKeepsTasks ==
    ASSUME TInv, NEW t \in Tasks, CallStep(t)
    PROVE  TasksOK'
<1>1. TasksOK /\ problematic \subseteq Pools /\ 0 \in 0 .. MaxAttempts - 1
  BY Limits DEF TInv, BooksOK
<1>2. CASE CallSubscribe(t)
  <2>1. PICK p \in Pools :
           Calls(t, [Idle EXCEPT !.op = "subscribe", !.at = "subscribing", !.pool = p])
    BY <1>2 DEF CallSubscribe
  <2> DEFINE f == [Idle EXCEPT !.op = "subscribe", !.at = "subscribing", !.pool = p]
  <2>2. f \in Frame /\ f.op = "subscribe" /\ f.at = "subscribing" /\ f.pool = p /\ f # Idle
    BY <1>1 DEF Idle, Frame, Ops, Steps
  <2> HIDE DEF f
  <2>3. Shape(f)
    BY <2>2 DEF Shape
  <2> QED
    BY <1>1, <1>2, <2>1, <2>2, <2>3, CallsKeeps DEF CallSubscribe, f
<1>3. CASE CallResubscribe(t)
  <2> DEFINE f == [Idle EXCEPT !.op = "resubscribe", !.at = "clearing"]
  <2>2. f \in Frame /\ f.op = "resubscribe" /\ f.at = "clearing" /\ f # Idle
    BY <1>1 DEF Idle, Frame, Ops, Steps
  <2>3. Calls(t, f)
    BY <1>3 DEF CallResubscribe
  <2> HIDE DEF f
  <2>4. Shape(f)
    BY <2>2 DEF Shape
  <2> QED
    BY <1>1, <1>3, <2>2, <2>3, <2>4, CallsKeeps DEF CallResubscribe
<1>4. CASE CallRetry(t)
  <2> DEFINE f == [Idle EXCEPT !.op = "retry", !.at = "choosing", !.todo = problematic]
  <2>2. f \in Frame /\ f.op = "retry" /\ f.at = "choosing" /\ f # Idle
    BY <1>1 DEF Idle, Frame, Ops, Steps
  <2>3. Calls(t, f)
    BY <1>4 DEF CallRetry
  <2> HIDE DEF f
  <2>4. Shape(f)
    BY <2>2 DEF Shape
  <2> QED
    BY <1>1, <1>4, <2>2, <2>3, <2>4, CallsKeeps DEF CallRetry
<1>5. CASE CallReconnect(t)
  <2> DEFINE f == [Idle EXCEPT !.op = "reconnect", !.at = "connecting"]
  <2>2. f \in Frame /\ f.op = "reconnect" /\ f.at = "connecting" /\ f # Idle
    BY <1>1 DEF Idle, Frame, Ops, Steps
  <2>3. Calls(t, f)
    BY <1>5 DEF CallReconnect
  <2> HIDE DEF f
  <2>4. Shape(f)
    BY <2>2 DEF Shape
  <2> QED
    BY <1>1, <1>5, <2>2, <2>3, <2>4, CallsKeeps DEF CallReconnect
<1> QED
  BY <1>2, <1>3, <1>4, <1>5 DEF CallStep

LEMMA TaskStepKeepsTasks ==
    ASSUME TInv, NEW t \in Tasks, TaskStep(t)
    PROVE  TasksOK'
<1>1. /\ TasksOK /\ task \in [Tasks -> Frame] /\ task[t] \in Frame /\ Shape(task[t])
      /\ monitored \subseteq Pools /\ problematic \subseteq Pools
  BY DEF TInv, TasksOK, BooksOK
<1>2. task[t].at # "idle" => task[t] # Idle /\ task[t].op # "none"
  BY <1>1 DEF Shape
<1>3. CASE ReconnectOk(t)
  <2>1. Goes(t, "clearing") /\ task[t].op = "reconnect" /\ task[t] # Idle
    BY <1>1, <1>2, <1>3 DEF ReconnectOk, At, Shape
  <2> QED
    BY <1>1, <2>1, GoesKeeps DEF Steps
<1>4. CASE ReconnectFails(t)
  <2>1. task[t].op = "reconnect" /\ task[t] # Idle /\ task[t].at = "connecting"
    BY <1>1, <1>2, <1>4 DEF ReconnectFails, At, Shape
  <2>2. CASE task[t].attempt + 1 = MaxAttempts
    BY <1>1, <1>4, <2>1, <2>2, ReturnsKeeps DEF ReconnectFails
  <2>3. CASE task[t].attempt + 1 # MaxAttempts
    <3> DEFINE f == [task[t] EXCEPT !.attempt = @ + 1]
    <3>1. task' = [task EXCEPT ![t] = f]
      BY <1>1, <1>4, <2>3 DEF ReconnectFails
    <3>2. task[t].attempt + 1 \in 0 .. MaxAttempts - 1
      BY <1>1, <2>3, Limits DEF Frame
    <3>3. f \in Frame /\ f.op = "reconnect" /\ f.at = "connecting"
      BY <1>1, <2>1, <3>2 DEF Frame
    <3> HIDE DEF f
    <3>4. Shape(f)
      BY <3>3, IdleIsFrame DEF Shape
    <3> QED
      BY <1>1, <2>1, <3>1, <3>3, <3>4, OneGoesOn
  <2> QED
    BY <2>2, <2>3
<1>5. CASE Clear(t)
  <2>1. Goes(t, "copying") /\ task[t].op \in {"resubscribe", "reconnect"} /\ task[t] # Idle
    BY <1>1, <1>2, <1>5 DEF Clear, At, Shape
  <2> QED
    BY <1>1, <2>1, GoesKeeps DEF Steps
<1>6. CASE Copy(t)
  <2> DEFINE f == [task[t] EXCEPT !.at = "choosing", !.todo = monitored]
  <2>1. task' = [task EXCEPT ![t] = f]
    BY <1>6 DEF Copy
  <2>2. task[t].op \in {"resubscribe", "reconnect"} /\ task[t] # Idle
    BY <1>1, <1>2, <1>6 DEF Copy, At, Shape
  <2>3. f \in Frame /\ f.at = "choosing" /\ f.op = task[t].op
    BY <1>1 DEF Frame, Steps
  <2> QED
    BY <1>1, <2>1, <2>2, <2>3, ChoosingKeeps
<1>7. CASE Finish(t)
  BY <1>1, <1>2, <1>7, ReturnsKeeps DEF Finish, At
<1>8. CASE Skip(t)
  <2>1. PICK p : task' = [task EXCEPT ![t].todo = @ \ {p}]
    BY <1>8 DEF Skip
  <2> DEFINE f == [task[t] EXCEPT !.todo = @ \ {p}]
  <2>2. task' = [task EXCEPT ![t] = f]
    BY <2>1
  <2>3. task[t].at = "choosing" /\ task[t].op # "subscribe" /\ task[t] # Idle
    BY <1>1, <1>2, <1>8 DEF Skip, At, Shape
  <2>4. f \in Frame /\ f.at = "choosing" /\ f.op = task[t].op
    BY <1>1, <2>3 DEF Frame
  <2> QED
    BY <1>1, <2>2, <2>3, <2>4, ChoosingKeeps
<1>9. CASE Choose(t)
  <2>1. PICK p \in task[t].todo :
           IF client
           THEN Chooses(t, p)
           ELSE task' = [task EXCEPT ![t].todo = @ \ {p}, ![t].failed = @ \cup {p}]
    BY <1>9 DEF Choose
  <2>2. task[t].at = "choosing" /\ task[t].op # "subscribe" /\ task[t].op # "none" /\ task[t] # Idle
        /\ p \in Pools
    BY <1>1, <1>2, <1>9 DEF Choose, At, Shape, Frame
  <2>3. CASE client
    <3> DEFINE f == [task[t] EXCEPT !.at = "subscribing", !.pool = p, !.todo = @ \ {p}]
    <3>1. task' = [task EXCEPT ![t] = f]
      BY <2>1, <2>3 DEF Chooses
    <3>2. f \in Frame /\ f.at = "subscribing" /\ f.op = task[t].op /\ f.pool = p
      BY <1>1, <2>2 DEF Frame, Steps
    <3> HIDE DEF f
    <3>3. Shape(f)
      BY <2>2, <3>2, IdleIsFrame DEF Shape
    <3> QED
      BY <1>1, <2>2, <3>1, <3>2, <3>3, OneGoesOn
  <2>4. CASE ~client
    <3> DEFINE f == [task[t] EXCEPT !.todo = @ \ {p}, !.failed = @ \cup {p}]
    <3>1. task' = [task EXCEPT ![t] = f]
      BY <2>1, <2>4
    <3>2. f \in Frame /\ f.at = "choosing" /\ f.op = task[t].op
      BY <1>1, <2>2 DEF Frame
    <3> QED
      BY <1>1, <2>2, <3>1, <3>2, ChoosingKeeps
  <2> QED
    BY <2>3, <2>4
<1>10. CASE SubscribeOk(t)
  BY <1>1, <1>10, AfterSuccessKeeps DEF SubscribeOk, At
<1>11. CASE SubscribeFails(t)
  <2>1. task[t].at = "subscribing" /\ task[t] # Idle /\ task[t].pool \in Pools
        /\ (Goes(t, "marking") \/ AfterFailure(t))
    BY <1>1, <1>2, <1>11 DEF SubscribeFails, At, Shape
  <2>2. CASE Goes(t, "marking")
    BY <1>1, <2>1, <2>2, GoesKeeps DEF Steps
  <2>3. CASE AfterFailure(t)
    BY <1>1, <2>1, <2>3, AfterFailureKeeps
  <2> QED
    BY <2>1, <2>2, <2>3
<1>12. CASE Mark(t)
  BY <1>1, <1>12, AfterFailureKeeps DEF Mark, At
<1>13. CASE ClearFailures(t)
  <2>1. Goes(t, "choosing") /\ task[t] # Idle /\ task[t].op # "subscribe"
    BY <1>1, <1>2, <1>13 DEF ClearFailures, At, Shape
  <2> QED
    BY <1>1, <2>1, GoesKeeps DEF Steps
<1>14. CASE Unmark(t)
  <2>1. Goes(t, "forgetting") /\ task[t] # Idle /\ task[t].op = "retry" /\ task[t].pool \in Pools
    BY <1>1, <1>2, <1>14 DEF Unmark, At, Shape
  <2> QED
    BY <1>1, <2>1, GoesKeeps DEF Steps
<1>15. CASE Forget(t)
  <2>1. Goes(t, "choosing") /\ task[t] # Idle /\ task[t].op = "retry"
    BY <1>1, <1>2, <1>15 DEF Forget, At, Shape
  <2> QED
    BY <1>1, <2>1, GoesKeeps DEF Steps
<1> QED
  BY <1>3, <1>4, <1>5, <1>6, <1>7, <1>8, <1>9, <1>10, <1>11, <1>12, <1>13, <1>14, <1>15
  DEF TaskStep

-----------------------------------------------------------------------------
(* Where a step leads, and the locks. *)

\* A step of t moves t only.
Moves(t, steps) ==
    /\ task'[t].at \in steps
    /\ \A u \in Tasks \ {t} : task'[u] = task[u]

LEMMA GoesMoves ==
    ASSUME task \in [Tasks -> Frame], NEW t \in Tasks, NEW step, Goes(t, step)
    PROVE  Moves(t, {step})
  BY DEF Goes, Moves, Frame

LEMMA ReturnsMoves ==
    ASSUME task \in [Tasks -> Frame], NEW t \in Tasks, Returns(t)
    PROVE  Moves(t, {"idle"})
  BY IdleIsFrame DEF Returns, Moves

LEMMA AfterFailureMoves ==
    ASSUME task \in [Tasks -> Frame], NEW t \in Tasks, AfterFailure(t)
    PROVE  Moves(t, {"idle", "choosing"})
<1>1. CASE task[t].op = "subscribe"
  BY <1>1, ReturnsMoves DEF AfterFailure, Moves
<1>2. CASE task[t].op # "subscribe"
  BY <1>2 DEF AfterFailure, Moves, Frame
<1> QED
  BY <1>1, <1>2

LEMMA AfterSuccessMoves ==
    ASSUME task \in [Tasks -> Frame], NEW t \in Tasks, AfterSuccess(t)
    PROVE  Moves(t, {"idle", "unmarking", "clearingFailures"})
<1>1. CASE task[t].op = "subscribe"
  BY <1>1, ReturnsMoves DEF AfterSuccess, Moves
<1>2. CASE task[t].op = "retry"
  BY <1>2, GoesMoves DEF AfterSuccess, Moves
<1>3. CASE task[t].op \notin {"subscribe", "retry"}
  BY <1>3, GoesMoves DEF AfterSuccess, Moves
<1> QED
  BY <1>1, <1>2, <1>3

\* Neither lock changes hands, and the step is not one that holds a lock.
LEMMA LocksStay ==
    ASSUME LocksOK, NEW t \in Tasks, UNCHANGED <<failureLock, problemLock>>,
           ~At(t, "marking"), ~At(t, "forgetting"),
           Moves(t, Steps \ {"marking", "forgetting"})
    PROVE  LocksOK'
<1>1. /\ task'[t].at \notin {"marking", "forgetting"}
      /\ \A u \in Tasks \ {t} : task'[u] = task[u]
  BY DEF Moves
<1> QED
  BY <1>1 DEF LocksOK, At

LEMMA TaskStepKeepsLocks ==
    ASSUME TInv, NEW t \in Tasks, TaskStep(t)
    PROVE  LocksOK'
<1>1. /\ task \in [Tasks -> Frame] /\ LocksOK /\ None \notin Tasks
  BY Limits DEF TInv, TasksOK
<1>2. CASE ReconnectOk(t) \/ Clear(t) \/ Finish(t) \/ ClearFailures(t)
  <2>1. UNCHANGED <<failureLock, problemLock>> /\ ~At(t, "marking") /\ ~At(t, "forgetting")
    BY <1>2 DEF ReconnectOk, Clear, Finish, ClearFailures, blame, At
  <2>2. Goes(t, "clearing") \/ Goes(t, "copying") \/ Goes(t, "choosing") \/ Returns(t)
    BY <1>2 DEF ReconnectOk, Clear, Finish, ClearFailures
  <2>3. Moves(t, {"clearing", "copying", "choosing", "idle"})
    BY <1>1, <2>2, GoesMoves, ReturnsMoves DEF Moves
  <2>4. Moves(t, Steps \ {"marking", "forgetting"})
    BY <2>3 DEF Moves, Steps
  <2> QED
    BY <1>1, <2>1, <2>4, LocksStay
<1>3. CASE ReconnectFails(t)
  <2>1. UNCHANGED <<failureLock, problemLock>> /\ ~At(t, "marking") /\ ~At(t, "forgetting")
        /\ At(t, "connecting")
    BY <1>3 DEF ReconnectFails, blame, At
  <2>2. Returns(t) \/ task' = [task EXCEPT ![t].attempt = @ + 1]
    BY <1>3 DEF ReconnectFails
  <2>3. CASE Returns(t)
    <3>1. Moves(t, {"idle"})
      BY <1>1, <2>3, ReturnsMoves
    <3>2. Moves(t, Steps \ {"marking", "forgetting"})
      BY <3>1 DEF Moves, Steps
    <3> QED
      BY <1>1, <2>1, <3>2, LocksStay
  <2>4. CASE task' = [task EXCEPT ![t].attempt = @ + 1]
    <3>1. Moves(t, Steps \ {"marking", "forgetting"})
      BY <1>1, <2>1, <2>4 DEF Moves, Steps, Frame, At
    <3> QED
      BY <1>1, <2>1, <3>1, LocksStay
  <2> QED
    BY <2>2, <2>3, <2>4
<1>4. CASE Copy(t) \/ Skip(t) \/ Choose(t)
  <2>1. UNCHANGED <<failureLock, problemLock>> /\ ~At(t, "marking") /\ ~At(t, "forgetting")
    BY <1>4 DEF Copy, Skip, Choose, blame, At
  <2>2. CASE Copy(t)
    BY <1>1, <2>1, <2>2, LocksStay DEF Copy, Moves, Steps, Frame
  <2>3. CASE Skip(t)
    BY <1>1, <2>1, <2>3, LocksStay DEF Skip, Moves, Steps, Frame, At
  <2>4. CASE Choose(t)
    <3>1. PICK p : IF client
                   THEN Chooses(t, p)
                   ELSE task' = [task EXCEPT ![t].todo = @ \ {p}, ![t].failed = @ \cup {p}]
      BY <2>4 DEF Choose
    <3>2. task[t].at = "choosing"
      BY <2>4 DEF Choose, At
    <3>3. CASE client
      BY <1>1, <2>1, <3>1, <3>3, LocksStay DEF Chooses, Moves, Steps, Frame
    <3>4. CASE ~client
      BY <1>1, <2>1, <3>1, <3>2, <3>4, LocksStay DEF Moves, Steps, Frame
    <3> QED
      BY <3>3, <3>4
  <2> QED
    BY <1>4, <2>2, <2>3, <2>4
<1>5. CASE SubscribeOk(t)
  <2>1. UNCHANGED <<failureLock, problemLock>> /\ ~At(t, "marking") /\ ~At(t, "forgetting")
    BY <1>5 DEF SubscribeOk, blame, At
  <2>2. Moves(t, {"idle", "unmarking", "clearingFailures"})
    BY <1>1, <1>5, AfterSuccessMoves DEF SubscribeOk
  <2>3. Moves(t, Steps \ {"marking", "forgetting"})
    BY <2>2 DEF Moves, Steps
  <2> QED
    BY <1>1, <2>1, <2>3, LocksStay
<1>6. CASE SubscribeFails(t)
  <2>1. /\ failureLock = None /\ problemLock' = problemLock
        /\ At(t, "subscribing")
        /\ \/ failureLock' = t /\ Goes(t, "marking")
           \/ failureLock' = failureLock /\ AfterFailure(t)
    BY <1>6 DEF SubscribeFails
  <2>2. CASE failureLock' = t /\ Goes(t, "marking")
    <3>1. Moves(t, {"marking"})
      BY <1>1, <2>2, GoesMoves
    <3> QED
      BY <1>1, <2>1, <2>2, <3>1 DEF LocksOK, Moves, At
  <2>3. CASE failureLock' = failureLock /\ AfterFailure(t)
    <3>1. Moves(t, {"idle", "choosing"})
      BY <1>1, <2>3, AfterFailureMoves
    <3>2. Moves(t, Steps \ {"marking", "forgetting"})
      BY <3>1 DEF Moves, Steps
    <3> QED
      BY <1>1, <2>1, <2>3, <3>2, LocksStay DEF At
  <2> QED
    BY <2>1, <2>2, <2>3
<1>7. CASE Mark(t)
  <2>1. At(t, "marking") /\ failureLock' = None /\ problemLock' = problemLock /\ AfterFailure(t)
    BY <1>7 DEF Mark
  <2>2. Moves(t, {"idle", "choosing"})
    BY <1>1, <2>1, AfterFailureMoves
  <2> QED
    BY <1>1, <2>1, <2>2 DEF LocksOK, Moves, At
<1>8. CASE Unmark(t)
  <2>1. /\ At(t, "unmarking") /\ problemLock = None /\ problemLock' = t
        /\ failureLock' = failureLock /\ Goes(t, "forgetting")
    BY <1>8 DEF Unmark
  <2>2. Moves(t, {"forgetting"})
    BY <1>1, <2>1, GoesMoves
  <2> QED
    BY <1>1, <2>1, <2>2 DEF LocksOK, Moves, At
<1>9. CASE Forget(t)
  <2>1. /\ At(t, "forgetting") /\ problemLock' = None
        /\ failureLock' = failureLock /\ Goes(t, "choosing")
    BY <1>9 DEF Forget
  <2>2. Moves(t, {"choosing"})
    BY <1>1, <2>1, GoesMoves
  <2> QED
    BY <1>1, <2>1, <2>2 DEF LocksOK, Moves, At
<1> QED
  BY <1>2, <1>3, <1>4, <1>5, <1>6, <1>7, <1>8, <1>9 DEF TaskStep

LEMMA CallStepKeepsLocks ==
    ASSUME TInv, NEW t \in Tasks, CallStep(t)
    PROVE  LocksOK'
<1>1. task \in [Tasks -> Frame] /\ LocksOK /\ task[t] = Idle
  BY DEF TInv, TasksOK, CallStep, CallSubscribe, CallResubscribe, CallRetry, CallReconnect, Calls
<1>2. UNCHANGED <<failureLock, problemLock>> /\ ~At(t, "marking") /\ ~At(t, "forgetting")
  BY <1>1, IdleIsFrame
  DEF CallStep, CallSubscribe, CallResubscribe, CallRetry, CallReconnect, blame, At
<1>3. Moves(t, {"subscribing", "clearing", "choosing", "connecting"})
  <2>1. CASE CallSubscribe(t)
    <3>1. PICK p \in Pools : task' = [task EXCEPT ![t] =
             [Idle EXCEPT !.op = "subscribe", !.at = "subscribing", !.pool = p]]
      BY <2>1 DEF CallSubscribe, Calls
    <3> QED
      BY <1>1, <3>1 DEF Moves, Idle
  <2>2. CASE CallResubscribe(t)
    <3>1. task' = [task EXCEPT ![t] = [Idle EXCEPT !.op = "resubscribe", !.at = "clearing"]]
      BY <2>2 DEF CallResubscribe, Calls
    <3> QED
      BY <1>1, <3>1 DEF Moves, Idle
  <2>3. CASE CallRetry(t)
    <3>1. task' = [task EXCEPT ![t] =
             [Idle EXCEPT !.op = "retry", !.at = "choosing", !.todo = problematic]]
      BY <2>3 DEF CallRetry, Calls
    <3> QED
      BY <1>1, <3>1 DEF Moves, Idle
  <2>4. CASE CallReconnect(t)
    <3>1. task' = [task EXCEPT ![t] = [Idle EXCEPT !.op = "reconnect", !.at = "connecting"]]
      BY <2>4 DEF CallReconnect, Calls
    <3> QED
      BY <1>1, <3>1 DEF Moves, Idle
  <2> QED
    BY <2>1, <2>2, <2>3, <2>4 DEF CallStep
<1>4. Moves(t, Steps \ {"marking", "forgetting"})
  BY <1>3 DEF Moves, Steps
<1> QED
  BY <1>1, <1>2, <1>4, LocksStay

-----------------------------------------------------------------------------
(* The books of the manager. *)

LEMMA TaskStepKeepsBooks ==
    ASSUME TInv, NEW t \in Tasks, TaskStep(t)
    PROVE  BooksOK'
<1> USE DEF connection, books, blame
<1>1. BooksOK /\ Shape(task[t]) /\ task[t] \in Frame
  BY DEF TInv, TasksOK
<1>2. CASE ReconnectOk(t)
  <2>1. /\ client' = TRUE /\ link' = TRUE /\ isConnected' = TRUE /\ delay' = InitialDelay
        /\ UNCHANGED <<subscriptions, nextId, monitored, problematic, failures>>
    BY <1>2 DEF ReconnectOk, Connects
  <2>2. InitialDelay \in InitialDelay .. MaxDelay
    BY Limits
  <2> QED
    BY <1>1, <2>1, <2>2 DEF BooksOK
<1>3. CASE ReconnectFails(t)
  <2>1. /\ client' = client /\ link' = link /\ isConnected' = FALSE /\ delay' = NextDelay
        /\ UNCHANGED <<subscriptions, nextId, monitored, problematic, failures>>
    BY <1>3 DEF ReconnectFails, ConnectFails
  <2>2. NextDelay \in InitialDelay .. MaxDelay
    BY <1>1, Limits DEF NextDelay, BooksOK
  <2> QED
    BY <1>1, <2>1, <2>2 DEF BooksOK
<1>4. CASE Clear(t)
  <2>1. /\ subscriptions' = [p \in Pools |-> 0]
        /\ UNCHANGED <<client, link, isConnected, delay, nextId, monitored, problematic, failures>>
    BY <1>4 DEF Clear
  <2>2. 0 \in 0 .. nextId - 1
    BY <1>1 DEF BooksOK
  <2>3. subscriptions' \in [Pools -> 0 .. nextId' - 1]
    BY <2>1, <2>2
  <2> QED
    BY <1>1, <2>1, <2>3 DEF BooksOK
<1>5. CASE Copy(t) \/ Finish(t) \/ Skip(t) \/ Choose(t)
  <2>1. UNCHANGED <<client, link, isConnected, delay, subscriptions, nextId, monitored,
                    problematic, failures>>
    BY <1>5 DEF Copy, Finish, Skip, Choose
  <2> QED
    BY <1>1, <2>1 DEF BooksOK
<1>6. CASE SubscribeOk(t)
  <2>1. /\ subscriptions' = [subscriptions EXCEPT ![task[t].pool] = nextId]
        /\ nextId' = nextId + 1 /\ monitored' = monitored \cup {task[t].pool}
        /\ UNCHANGED <<client, link, isConnected, delay, problematic, failures>>
    BY <1>6 DEF SubscribeOk
  <2>2. task[t].pool \in Pools
    BY <1>1, <1>6 DEF SubscribeOk, At, Shape
  <2>3. subscriptions' \in [Pools -> 0 .. nextId' - 1]
    BY <1>1, <2>1, <2>2 DEF BooksOK
  <2> QED
    BY <1>1, <2>1, <2>2, <2>3 DEF BooksOK
<1>7. CASE SubscribeFails(t)
  <2> DEFINE p == task[t].pool
             n == IF failures[p] < FailureLimit THEN failures[p] + 1 ELSE FailureLimit
  <2>1. /\ failures' = [failures EXCEPT ![p] = n]
        /\ UNCHANGED <<client, link, isConnected, delay, subscriptions, nextId, monitored,
                       problematic>>
    BY <1>7 DEF SubscribeFails
  <2>2. p \in Pools
    BY <1>1, <1>7 DEF SubscribeFails, At, Shape
  <2>3. n \in 0 .. FailureLimit
    BY <1>1, <2>2, Limits DEF BooksOK
  <2> QED
    BY <1>1, <2>1, <2>3 DEF BooksOK
<1>8. CASE Mark(t) \/ Unmark(t)
  <2>1. /\ problematic' \in {problematic \cup {task[t].pool}, problematic \ {task[t].pool}}
        /\ UNCHANGED <<client, link, isConnected, delay, subscriptions, nextId, monitored, failures>>
    BY <1>8 DEF Mark, Unmark
  <2>2. task[t].pool \in Pools
    BY <1>1, <1>8 DEF Mark, Unmark, At, Shape
  <2> QED
    BY <1>1, <2>1, <2>2 DEF BooksOK
<1>9. CASE ClearFailures(t) \/ Forget(t)
  <2>1. /\ failures' = [failures EXCEPT ![task[t].pool] = 0]
        /\ UNCHANGED <<client, link, isConnected, delay, subscriptions, nextId, monitored,
                       problematic>>
    BY <1>9 DEF ClearFailures, Forget
  <2>2. 0 \in 0 .. FailureLimit
    BY Limits
  <2> QED
    BY <1>1, <2>1, <2>2 DEF BooksOK
<1> QED
  BY <1>2, <1>3, <1>4, <1>5, <1>6, <1>7, <1>8, <1>9 DEF TaskStep

LEMMA CallStepKeepsBooks ==
    ASSUME TInv, NEW t \in Tasks, CallStep(t)
    PROVE  BooksOK'
<1> USE DEF connection, books, blame
<1>1. BooksOK
  BY DEF TInv
<1>2. /\ delay' \in {delay, InitialDelay}
      /\ UNCHANGED <<client, link, isConnected, subscriptions, nextId, monitored,
                     problematic, failures>>
  <2>1. CASE CallSubscribe(t) \/ CallResubscribe(t) \/ CallRetry(t)
    BY <2>1 DEF CallSubscribe, CallResubscribe, CallRetry
  <2>2. CASE CallReconnect(t)
    BY <2>2 DEF CallReconnect
  <2> QED
    BY <2>1, <2>2 DEF CallStep
<1>3. InitialDelay \in InitialDelay .. MaxDelay
  BY Limits
<1> QED
  BY <1>1, <1>2, <1>3 DEF BooksOK

\* connect, mark_disconnected, a broken link, or nothing at all.
LEMMA OtherKeepsTInv ==
    ASSUME TInv, Connect \/ MarkDisconnected \/ LinkBreaks \/ UNCHANGED vars
    PROVE  TInv' /\ UNCHANGED <<task, delay, books, blame>>
<1>1. UNCHANGED <<task, delay, books, blame>>
  BY DEF Connect, MarkDisconnected, LinkBreaks, vars, connection
<1>2. /\ client' \in BOOLEAN /\ link' \in BOOLEAN /\ isConnected' \in BOOLEAN
  <2>1. client \in BOOLEAN /\ link \in BOOLEAN /\ isConnected \in BOOLEAN
    BY DEF TInv, BooksOK
  <2>2. CASE Connect
    <3>1. client' \in {client, TRUE} /\ link' \in {link, TRUE} /\ isConnected' \in {FALSE, TRUE}
      BY <2>2 DEF Connect, Connects, ConnectFails
    <3> QED
      BY <2>1, <3>1
  <2>3. CASE MarkDisconnected \/ LinkBreaks \/ UNCHANGED vars
    BY <2>1, <2>3 DEF MarkDisconnected, LinkBreaks, vars, connection
  <2> QED
    BY <2>2, <2>3
<1>3. BooksOK'
  BY <1>1, <1>2 DEF TInv, BooksOK, books, blame
<1>4. TasksOK' /\ LocksOK'
  BY <1>1 DEF TInv, TasksOK, LocksOK, ExclusiveAlone, Alone, At, blame
<1> QED
  BY <1>1, <1>3, <1>4 DEF TInv

LEMMA NextKeepsTInv == TInv /\ [Next]_vars => TInv'
<1> SUFFICES ASSUME TInv, [Next]_vars PROVE TInv'
  OBVIOUS
<1>1. ASSUME NEW t \in Tasks, CallStep(t) PROVE TInv'
  BY <1>1, CallStepKeepsTasks, CallStepKeepsLocks, CallStepKeepsBooks DEF TInv
<1>2. ASSUME NEW t \in Tasks, TaskStep(t) PROVE TInv'
  BY <1>2, TaskStepKeepsTasks, TaskStepKeepsLocks, TaskStepKeepsBooks DEF TInv
<1>3. CASE Connect \/ MarkDisconnected \/ LinkBreaks \/ UNCHANGED vars
  BY <1>3, OtherKeepsTInv
<1> QED
  BY <1>1, <1>2, <1>3 DEF Next, Rest

LEMMA TInvAlways == Spec => []TInv
  BY InitTInv, NextKeepsTInv, PTL DEF Spec

-----------------------------------------------------------------------------
(* The gauges. *)

GaugesInv ==
    /\ gauges \in [connected : BOOLEAN, subscriptions : Nat, problematic : Nat]
    /\ GaugesNeverUnderstate

\* A part of the pools has a size, and a smaller part a smaller one.
LEMMA Sizes ==
    ASSUME NEW S \in SUBSET Pools, NEW T \in SUBSET S
    PROVE  Cardinality(S) \in Nat /\ Cardinality(T) \in Nat /\ Cardinality(T) <= Cardinality(S)
<1>1. IsFiniteSet(S) /\ IsFiniteSet(T)
  BY WebSocketAssumption, FS_Subset
<1> QED
  BY <1>1, FS_Subset, FS_CardinalityType

LEMMA InitGauges == Init => GaugesInv
<1> SUFFICES ASSUME Init PROVE GaugesInv
  OBVIOUS
<1>1. Subscribed = {} /\ problematic = {}
  BY DEF Init, Subscribed
<1>2. Cardinality({}) = 0
  BY FS_EmptySet
<1> QED
  <2>1. gauges = [connected |-> FALSE, subscriptions |-> 0, problematic |-> 0]
        /\ isConnected = FALSE
    BY DEF Init
  <2>2. gauges \in [connected : BOOLEAN, subscriptions : Nat, problematic : Nat]
    BY <2>1
  <2>3. gauges.connected = isConnected /\ gauges.subscriptions = 0 /\ gauges.problematic = 0
    BY <2>1
  <2> QED
    BY <1>1, <1>2, <2>2, <2>3 DEF GaugesInv, GaugesNeverUnderstate

\* The gauges stay, what they count does not grow.
LEMMA GaugesStay ==
    ASSUME TInv, GaugesInv, gauges' = gauges, isConnected' = isConnected,
           Subscribed' \subseteq Subscribed, problematic' \subseteq problematic
    PROVE  GaugesInv'
<1>1. Subscribed \subseteq Pools /\ problematic \subseteq Pools
  BY DEF TInv, BooksOK, Subscribed
<1>2. /\ Cardinality(Subscribed') <= Cardinality(Subscribed)
      /\ Cardinality(Subscribed') \in Nat /\ Cardinality(Subscribed) \in Nat
  BY <1>1, Sizes
<1>3. /\ Cardinality(problematic') <= Cardinality(problematic)
      /\ Cardinality(problematic') \in Nat /\ Cardinality(problematic) \in Nat
  BY <1>1, Sizes
<1>4. gauges.subscriptions \in Nat /\ gauges.problematic \in Nat
  BY DEF GaugesInv
<1>5. gauges'.subscriptions >= Cardinality(Subscribed')
  BY <1>2, <1>4 DEF GaugesInv, GaugesNeverUnderstate
<1>6. gauges'.problematic >= Cardinality(problematic')
  BY <1>3, <1>4 DEF GaugesInv, GaugesNeverUnderstate
<1> QED
  BY <1>5, <1>6 DEF GaugesInv, GaugesNeverUnderstate

\* Only the gauge of the connection is set, to what it tells.
LEMMA GaugeOfConnection ==
    ASSUME GaugesInv, NEW b \in BOOLEAN, isConnected' = b,
           gauges' = [gauges EXCEPT !.connected = b],
           UNCHANGED <<subscriptions, problematic>>
    PROVE  GaugesInv'
<1>1. /\ gauges' \in [connected : BOOLEAN, subscriptions : Nat, problematic : Nat]
      /\ gauges'.connected = b
      /\ gauges'.subscriptions = gauges.subscriptions
      /\ gauges'.problematic = gauges.problematic
  BY DEF GaugesInv
<1>2. Subscribed' = Subscribed
  BY DEF Subscribed
<1>3. gauges'.connected = isConnected'
  BY <1>1
<1> QED
  BY <1>1, <1>2, <1>3 DEF GaugesInv, GaugesNeverUnderstate

LEMMA NextKeepsGauges == TInv /\ GaugesInv /\ [Next]_vars => GaugesInv'
<1> SUFFICES ASSUME TInv, GaugesInv, [Next]_vars PROVE GaugesInv'
  OBVIOUS
<1>1. /\ Subscribed \subseteq Pools /\ problematic \subseteq Pools
      /\ nextId \in Nat \ {0}
  BY DEF TInv, BooksOK, Subscribed
<1>2. ASSUME UNCHANGED <<gauges, isConnected, subscriptions>>, problematic' \subseteq problematic
      PROVE  GaugesInv'
  <2>1. Subscribed' = Subscribed
    BY <1>2 DEF Subscribed
  <2> QED
    BY <1>2, <2>1, GaugesStay
<1>3. ASSUME NEW t \in Tasks, CallStep(t) PROVE GaugesInv'
  <2>1. UNCHANGED <<gauges, isConnected, subscriptions, problematic>>
    BY <1>3 DEF CallStep, CallSubscribe, CallResubscribe, CallRetry, CallReconnect,
               connection, books, blame
  <2> QED
    BY <2>1, <1>2
<1>4. ASSUME NEW t \in Tasks, ReconnectOk(t) PROVE GaugesInv'
  BY <1>4, GaugeOfConnection DEF ReconnectOk, Connects, books, blame
<1>5. ASSUME NEW t \in Tasks, ReconnectFails(t) PROVE GaugesInv'
  BY <1>5, GaugeOfConnection DEF ReconnectFails, ConnectFails, books, blame
<1>6. ASSUME NEW t \in Tasks, Clear(t) PROVE GaugesInv'
  <2>1. UNCHANGED <<gauges, isConnected, problematic>> /\ subscriptions' = [p \in Pools |-> 0]
    BY <1>6 DEF Clear, connection, blame
  <2>2. Subscribed' = {}
    BY <2>1 DEF Subscribed
  <2> QED
    BY <2>1, <2>2, GaugesStay
<1>7. ASSUME NEW t \in Tasks, Copy(t) \/ Finish(t) \/ Skip(t) \/ Choose(t) PROVE GaugesInv'
  <2>1. UNCHANGED <<gauges, isConnected, subscriptions, problematic>>
    BY <1>7 DEF Copy, Finish, Skip, Choose, connection, books, blame
  <2> QED
    BY <2>1, <1>2
<1>8. ASSUME NEW t \in Tasks, SubscribeOk(t) PROVE GaugesInv'
  <2>1. /\ UNCHANGED <<isConnected, problematic>>
        /\ gauges' = [gauges EXCEPT !.subscriptions = Cardinality(Subscribed')]
    BY <1>8 DEF SubscribeOk, connection, blame, Subscribed
  <2>2. Subscribed' \subseteq Pools
    BY DEF Subscribed
  <2>3. Cardinality(Subscribed') \in Nat
    BY <2>2, Sizes
  <2>4. /\ gauges' \in [connected : BOOLEAN, subscriptions : Nat, problematic : Nat]
        /\ gauges'.connected = gauges.connected
        /\ gauges'.subscriptions = Cardinality(Subscribed')
        /\ gauges'.problematic = gauges.problematic
    BY <2>1, <2>3 DEF GaugesInv
  <2> QED
    BY <2>1, <2>3, <2>4 DEF GaugesInv, GaugesNeverUnderstate
<1>9. ASSUME NEW t \in Tasks, SubscribeFails(t) \/ ClearFailures(t) \/ Forget(t) PROVE GaugesInv'
  <2>1. UNCHANGED <<gauges, isConnected, subscriptions, problematic>>
    BY <1>9 DEF SubscribeFails, ClearFailures, Forget, connection, books
  <2> QED
    BY <2>1, <1>2
<1>10. ASSUME NEW t \in Tasks, Mark(t) PROVE GaugesInv'
  <2>1. /\ UNCHANGED <<isConnected, subscriptions>>
        /\ problematic' = problematic \cup {task[t].pool}
        /\ gauges' = [gauges EXCEPT !.problematic = Cardinality(problematic')]
    BY <1>10 DEF Mark, connection, books
  <2>2. task[t].pool \in Pools
    BY <1>10 DEF Mark, At, TInv, TasksOK, Shape
  <2>3. Cardinality(problematic') \in Nat
    BY <1>1, <2>1, <2>2, Sizes
  <2>4. /\ gauges' \in [connected : BOOLEAN, subscriptions : Nat, problematic : Nat]
        /\ gauges'.connected = gauges.connected
        /\ gauges'.subscriptions = gauges.subscriptions
        /\ gauges'.problematic = Cardinality(problematic')
    BY <2>1, <2>3 DEF GaugesInv
  <2>5. Subscribed' = Subscribed
    BY <2>1 DEF Subscribed
  <2> QED
    BY <2>1, <2>3, <2>4, <2>5 DEF GaugesInv, GaugesNeverUnderstate
<1>11. ASSUME NEW t \in Tasks, Unmark(t) PROVE GaugesInv'
  <2>1. UNCHANGED <<gauges, isConnected, subscriptions>> /\ problematic' \subseteq problematic
    BY <1>11 DEF Unmark, connection, books
  <2> QED
    BY <2>1, <1>2
<1>12. CASE Connect \/ MarkDisconnected
  <2>1. UNCHANGED <<subscriptions, problematic>>
        /\ \E b \in BOOLEAN : isConnected' = b /\ gauges' = [gauges EXCEPT !.connected = b]
    BY <1>12 DEF Connect, MarkDisconnected, Connects, ConnectFails, books, blame
  <2> QED
    BY <2>1, GaugeOfConnection
<1>13. CASE LinkBreaks \/ UNCHANGED vars
  <2>1. UNCHANGED <<gauges, isConnected, subscriptions, problematic>>
    BY <1>13 DEF LinkBreaks, vars, connection, books, blame
  <2> QED
    BY <2>1, <1>2
<1> QED
  BY <1>3, <1>4, <1>5, <1>6, <1>7, <1>8, <1>9, <1>10, <1>11, <1>12, <1>13
  DEF Next, Rest, TaskStep

\* The gauge of the connection agrees with *is_connected, and the gauges of
\* subscriptions and problematic pools are never too low, whatever overlaps.
THEOREM GaugesNeverUnderstateAlways == Spec => []GaugesNeverUnderstate
<1>1. GaugesInv => GaugesNeverUnderstate
  BY DEF GaugesInv
<1> QED
  BY <1>1, InitGauges, NextKeepsGauges, TInvAlways, PTL DEF Spec

-----------------------------------------------------------------------------
(* The delay of the reconnection. *)

\* A set with one more element has twice as many subsets.
LEMMA PowerDoubles ==
    ASSUME NEW n \in Nat
    PROVE  2 ^ n \in Nat /\ 2 ^ (n + 1) = 2 * 2 ^ n
<1> DEFINE S == 1 .. n
           T == 1 .. n + 1
           A == SUBSET S
           B == {b \cup {n + 1} : b \in A}
<1>1. /\ IsFiniteSet(S) /\ Cardinality(S) = n
      /\ IsFiniteSet(T) /\ Cardinality(T) = n + 1
  BY FS_Interval
<1>2. /\ IsFiniteSet(SUBSET S) /\ Cardinality(SUBSET S) = 2 ^ n
      /\ Cardinality(SUBSET T) = 2 ^ (n + 1)
  BY <1>1, FS_SUBSET
<1>3. Cardinality(A) \in Nat
  BY <1>2, FS_CardinalityType
<1>4. n + 1 \notin S /\ T = S \cup {n + 1}
  OBVIOUS
<1>5. SUBSET T = A \cup B
  <2>1. ASSUME NEW c \in SUBSET T PROVE c \in A \cup B
    <3>1. CASE n + 1 \in c
      <4>1. c \ {n + 1} \in A /\ c = (c \ {n + 1}) \cup {n + 1}
        BY <1>4, <3>1
      <4> QED
        BY <4>1
    <3>2. CASE n + 1 \notin c
      BY <1>4, <3>2
    <3> QED
      BY <3>1, <3>2
  <2>2. A \cup B \subseteq SUBSET T
    BY <1>4
  <2> QED
    BY <2>1, <2>2
<1>6. A \cap B = {}
  BY <1>4
<1>7. ExistsBijection(A, B)
  <2> DEFINE f == [b \in A |-> b \cup {n + 1}]
  <2>1. f \in [A -> B]
    OBVIOUS
  <2>2. ASSUME NEW b \in A, NEW c \in A, f[b] = f[c] PROVE b = c
    <3>1. b \cup {n + 1} = c \cup {n + 1} /\ n + 1 \notin b /\ n + 1 \notin c
      BY <1>4, <2>2
    <3> QED
      BY <3>1
  <2>3. \A c \in B : \E b \in A : f[b] = c
    OBVIOUS
  <2> HIDE DEF f, A, B
  <2>4. f \in Bijection(A, B)
    BY <2>1, <2>2, <2>3 DEF Bijection, Injection, Surjection, IsInjective
  <2> QED
    BY <2>4 DEF ExistsBijection
<1> HIDE DEF A, B
<1>8. IsFiniteSet(A)
  BY <1>2 DEF A
<1>9. IsFiniteSet(B) /\ Cardinality(B) = Cardinality(A)
  BY <1>7, <1>8, FS_Bijection
<1>10. Cardinality(A \cup B) = Cardinality(A) + Cardinality(B) - Cardinality(A \cap B)
  BY <1>8, <1>9, FS_Union
<1>11. Cardinality(A \cap B) = 0
  BY <1>6, FS_EmptySet
<1>12. Cardinality(SUBSET T) = Cardinality(A \cup B)
  BY <1>5, Zenon
<1>13. Cardinality(A \cup B) = 2 * Cardinality(A)
  BY <1>3, <1>9, <1>10, <1>11
<1>14. Cardinality(A) = 2 ^ n
  BY <1>2 DEF A
<1> QED
  BY <1>2, <1>3, <1>12, <1>13, <1>14

\* The delay without its maximum.
Full(n) == InitialDelay * 2 ^ n

LEMMA FullDoubles ==
    ASSUME NEW n \in Nat
    PROVE  Full(n) \in Nat /\ Full(n + 1) = 2 * Full(n)
<1>1. 2 ^ n \in Nat /\ 2 ^ (n + 1) = 2 * 2 ^ n
  BY PowerDoubles
<1> DEFINE P == 2 ^ n
           Q == 2 ^ (n + 1)
<1>2. P \in Nat /\ Q = 2 * P
  BY <1>1
<1> HIDE DEF P, Q
<1>3. InitialDelay * P \in Nat /\ InitialDelay * Q = 2 * (InitialDelay * P)
  BY <1>2, Limits
<1> QED
  BY <1>3 DEF Full, P, Q

LEMMA FullStart == Full(0) = InitialDelay
<1>1. 2 ^ 0 = 1
  OBVIOUS
<1> QED
  BY <1>1, Limits DEF Full

Backoff(f) == delay = (IF Full(f.attempt) > MaxDelay THEN MaxDelay ELSE Full(f.attempt))

LEMMA BackoffAlt ==
    /\ BackoffIsExponential <=> \A t \in Tasks : At(t, "connecting") => Backoff(task[t])
    /\ BackoffIsExponential' <=>
          \A t \in Tasks : At(t, "connecting")' => Backoff(task[t])'
  BY DEF BackoffIsExponential, Backoff, Full

LEMMA NextKeepsBackoff == TInv /\ BackoffIsExponential /\ [Next]_vars => BackoffIsExponential'
<1> SUFFICES ASSUME TInv, BackoffIsExponential, [Next]_vars PROVE BackoffIsExponential'
  OBVIOUS
<1>1. task \in [Tasks -> Frame]
  BY DEF TInv, TasksOK
<1>2. ASSUME delay' = delay,
             \A u \in Tasks : task'[u] = task[u] \/ task'[u].at # "connecting"
      PROVE  BackoffIsExponential'
  BY <1>2, BackoffAlt DEF At, Backoff
<1>3. ASSUME NEW t \in Tasks, delay' = delay, Moves(t, Steps \ {"connecting"})
      PROVE  BackoffIsExponential'
  BY <1>3, <1>2 DEF Moves
<1>4. ASSUME NEW t \in Tasks, ReconnectFails(t) PROVE BackoffIsExponential'
  <2>1. /\ task[t].at = "connecting" /\ task[t].op = "reconnect" /\ task[t] \in Frame
        /\ delay' = NextDelay
        /\ \A u \in Tasks \ {t} : task[u] = Idle
    BY <1>4 DEF ReconnectFails, At, TInv, TasksOK, Shape, ExclusiveAlone, Alone
  <2>2. Backoff(task[t])
    BY <2>1, BackoffAlt DEF At
  <2>3. \A u \in Tasks \ {t} : task'[u] = Idle
    BY <1>1, <1>4, <2>1 DEF ReconnectFails, Returns
  <2>4. CASE task[t].attempt + 1 = MaxAttempts
    <3>1. task'[t] = Idle
      BY <1>1, <1>4, <2>4 DEF ReconnectFails, Returns
    <3> QED
      BY <2>3, <3>1, BackoffAlt, IdleIsFrame DEF At
  <2>5. CASE task[t].attempt + 1 # MaxAttempts
    <3>1. task'[t].attempt = task[t].attempt + 1 /\ task[t].attempt \in Nat
      BY <1>1, <1>4, <2>1, <2>5, Limits DEF ReconnectFails, Frame
    <3> DEFINE n == task[t].attempt
               full == Full(n)
               next == Full(n + 1)
    <3>2. full \in Nat /\ next = 2 * full
      BY <3>1, FullDoubles
    <3>3. delay = (IF full > MaxDelay THEN MaxDelay ELSE full)
      BY <2>2 DEF Backoff
    <3> HIDE DEF full, next
    <3>4. delay' = (IF next > MaxDelay THEN MaxDelay ELSE next)
      BY <2>1, <3>2, <3>3, Limits DEF NextDelay
    <3>5. Backoff(task[t])'
      BY <3>1, <3>4 DEF Backoff, next
    <3> QED
      BY <2>3, <3>5, BackoffAlt, IdleIsFrame DEF At
  <2> QED
    BY <2>4, <2>5
<1>5. ASSUME NEW t \in Tasks, CallReconnect(t) PROVE BackoffIsExponential'
  <2> DEFINE f == [Idle EXCEPT !.op = "reconnect", !.at = "connecting"]
  <2>1. /\ task' = [task EXCEPT ![t] = f] /\ delay' = InitialDelay
        /\ \A u \in Tasks : task[u] = Idle
    BY <1>5 DEF CallReconnect, Calls, AllIdle
  <2>2. task'[t].attempt = 0 /\ \A u \in Tasks \ {t} : task'[u] = Idle
    BY <1>1, <2>1 DEF Idle
  <2>3. Backoff(task[t])'
    BY <2>1, <2>2, FullStart, Limits DEF Backoff
  <2> QED
    BY <2>2, <2>3, BackoffAlt, IdleIsFrame DEF At
<1>6. ASSUME NEW t \in Tasks, CallSubscribe(t) \/ CallResubscribe(t) \/ CallRetry(t)
      PROVE  BackoffIsExponential'
  <2>1. delay' = delay
    BY <1>6 DEF CallSubscribe, CallResubscribe, CallRetry, connection
  <2>2. CASE CallSubscribe(t)
    <3>1. PICK p \in Pools : task' = [task EXCEPT ![t] =
             [Idle EXCEPT !.op = "subscribe", !.at = "subscribing", !.pool = p]]
      BY <2>2 DEF CallSubscribe, Calls
    <3> QED
      BY <1>1, <1>3, <2>1, <3>1 DEF Moves, Idle, Steps
  <2>3. CASE CallResubscribe(t)
    <3>1. task' = [task EXCEPT ![t] = [Idle EXCEPT !.op = "resubscribe", !.at = "clearing"]]
      BY <2>3 DEF CallResubscribe, Calls
    <3> QED
      BY <1>1, <1>3, <2>1, <3>1 DEF Moves, Idle, Steps
  <2>4. CASE CallRetry(t)
    <3>1. task' = [task EXCEPT ![t] =
             [Idle EXCEPT !.op = "retry", !.at = "choosing", !.todo = problematic]]
      BY <2>4 DEF CallRetry, Calls
    <3> QED
      BY <1>1, <1>3, <2>1, <3>1 DEF Moves, Idle, Steps
  <2> QED
    BY <1>6, <2>2, <2>3, <2>4
<1>7. ASSUME NEW t \in Tasks, ReconnectOk(t) PROVE BackoffIsExponential'
  <2>1. /\ task[t].op = "reconnect" /\ \A u \in Tasks \ {t} : task[u] = Idle
        /\ Goes(t, "clearing")
    BY <1>7 DEF ReconnectOk, At, TInv, TasksOK, Shape, ExclusiveAlone, Alone
  <2>2. Moves(t, {"clearing"})
    BY <1>1, <2>1, GoesMoves
  <2> QED
    BY <2>1, <2>2, BackoffAlt, IdleIsFrame DEF Moves, At
<1>8. ASSUME NEW t \in Tasks,
             Clear(t) \/ Finish(t) \/ ClearFailures(t) \/ Unmark(t) \/ Forget(t)
      PROVE  BackoffIsExponential'
  <2>1. delay' = delay
        /\ (Goes(t, "copying") \/ Returns(t) \/ Goes(t, "choosing") \/ Goes(t, "forgetting"))
    BY <1>8 DEF Clear, Finish, ClearFailures, Unmark, Forget, connection
  <2>2. Moves(t, {"copying", "idle", "choosing", "forgetting"})
    BY <1>1, <2>1, GoesMoves, ReturnsMoves DEF Moves
  <2>3. Moves(t, Steps \ {"connecting"})
    BY <2>2 DEF Moves, Steps
  <2> QED
    BY <2>1, <2>3, <1>3
<1>9. ASSUME NEW t \in Tasks, Copy(t) \/ Skip(t) \/ Choose(t) PROVE BackoffIsExponential'
  <2>1. delay' = delay
    BY <1>9 DEF Copy, Skip, Choose, connection
  <2>2. CASE Copy(t)
    BY <1>1, <1>3, <2>1, <2>2 DEF Copy, Moves, Steps, Frame
  <2>3. CASE Skip(t)
    BY <1>1, <1>3, <2>1, <2>3 DEF Skip, At, Moves, Steps, Frame
  <2>4. CASE Choose(t)
    <3>1. PICK p : IF client
                   THEN Chooses(t, p)
                   ELSE task' = [task EXCEPT ![t].todo = @ \ {p}, ![t].failed = @ \cup {p}]
      BY <2>4 DEF Choose
    <3>2. task[t].at = "choosing"
      BY <2>4 DEF Choose, At
    <3>3. CASE client
      BY <1>1, <1>3, <2>1, <3>1, <3>3 DEF Chooses, Moves, Steps, Frame
    <3>4. CASE ~client
      BY <1>1, <1>3, <2>1, <3>1, <3>2, <3>4 DEF Moves, Steps, Frame
    <3> QED
      BY <3>3, <3>4
  <2> QED
    BY <1>9, <2>2, <2>3, <2>4
<1>10. ASSUME NEW t \in Tasks, SubscribeOk(t) PROVE BackoffIsExponential'
  <2>1. delay' = delay /\ Moves(t, {"idle", "unmarking", "clearingFailures"})
    BY <1>1, <1>10, AfterSuccessMoves DEF SubscribeOk, connection
  <2>2. Moves(t, Steps \ {"connecting"})
    BY <2>1 DEF Moves, Steps
  <2> QED
    BY <2>1, <2>2, <1>3
<1>11. ASSUME NEW t \in Tasks, SubscribeFails(t) \/ Mark(t) PROVE BackoffIsExponential'
  <2>1. delay' = delay /\ (Goes(t, "marking") \/ AfterFailure(t))
    BY <1>11 DEF SubscribeFails, Mark, connection
  <2>2. Moves(t, {"idle", "choosing", "marking"})
    BY <1>1, <2>1, AfterFailureMoves, GoesMoves DEF Moves
  <2>3. Moves(t, Steps \ {"connecting"})
    BY <2>2 DEF Moves, Steps
  <2> QED
    BY <2>1, <2>3, <1>3
<1>12. CASE Connect \/ MarkDisconnected \/ LinkBreaks \/ UNCHANGED vars
  <2>1. task' = task /\ delay' = delay
    BY <1>12, OtherKeepsTInv
  <2> QED
    BY <1>2, <2>1
<1> QED
  BY <1>4, <1>5, <1>6, <1>7, <1>8, <1>9, <1>10, <1>11, <1>12
  DEF Next, Rest, TaskStep, CallStep

-----------------------------------------------------------------------------
(* As long as no two calls overlap. *)

\* What the one call under way has found out and still has to do.
Solo(t) ==
    /\ At(t, "marking") => failures[task[t].pool] = FailureLimit
    /\ At(t, "forgetting") => task[t].pool \notin problematic
    /\ task[t].op \in {"resubscribe", "reconnect"} =>
          /\ task[t].at \in {"subscribing", "clearingFailures"} => task[t].pool \notin problematic
          /\ task[t].at \in {"choosing", "clearingFailures"} =>
                monitored \subseteq Subscribed \cup problematic \cup task[t].failed \cup task[t].todo
          /\ task[t].at \in {"subscribing", "marking"} =>
                monitored \subseteq Subscribed \cup problematic \cup task[t].failed
                                    \cup task[t].todo \cup {task[t].pool}

OneCall == \A t, u \in Tasks : t # u => task[t] = Idle \/ task[u] = Idle
LimitReached == \A p \in problematic : failures[p] >= FailureLimit

SoloInv ==
    ~overlapped => OneCall /\ LimitReached /\ \A t \in Tasks : Solo(t)

LEMMA IdleIsSolo ==
    /\ \A t \in Tasks : task[t] = Idle => Solo(t)
    /\ \A t \in Tasks : task'[t] = Idle => Solo(t)'
  BY IdleIsFrame DEF Solo, At

LEMMA InitSolo == Init => SoloInv
  BY IdleIsSolo DEF Init, SoloInv, OneCall, LimitReached

\* A task that is under way is the only one.
LEMMA SoloMoves ==
    ASSUME TInv, OneCall, NEW t \in Tasks, task[t] # Idle,
           \A u \in Tasks \ {t} : task'[u] = task[u]
    PROVE  OneCall' /\ \A u \in Tasks \ {t} : Solo(u)'
<1>1. \A u \in Tasks \ {t} : task'[u] = Idle
  BY DEF OneCall
<1> QED
  BY <1>1, IdleIsSolo DEF OneCall

LEMMA FailureLeads ==
    ASSUME task \in [Tasks -> Frame], NEW t \in Tasks, AfterFailure(t)
    PROVE  /\ \A u \in Tasks \ {t} : task'[u] = task[u]
           /\ \/ task'[t] = Idle
              \/ /\ task'[t].at = "choosing" /\ task'[t].op = task[t].op
                 /\ task'[t].todo = task[t].todo
                 /\ task'[t].failed = task[t].failed \cup {task[t].pool}
<1>1. CASE task[t].op = "subscribe"
  BY <1>1 DEF AfterFailure, Returns
<1>2. CASE task[t].op # "subscribe"
  BY <1>2 DEF AfterFailure, Frame
<1> QED
  BY <1>1, <1>2

LEMMA GoesLeads ==
    ASSUME task \in [Tasks -> Frame], NEW t \in Tasks, NEW step, Goes(t, step)
    PROVE  /\ \A u \in Tasks \ {t} : task'[u] = task[u]
           /\ task'[t].at = step /\ task'[t].op = task[t].op /\ task'[t].pool = task[t].pool
           /\ task'[t].todo = task[t].todo /\ task'[t].failed = task[t].failed
  BY DEF Goes, Frame

LEMMA SoloTaskStep ==
    ASSUME TInv, OneCall, LimitReached, NEW t \in Tasks, Solo(t), TaskStep(t)
    PROVE  OneCall' /\ LimitReached' /\ \A u \in Tasks : Solo(u)'
<1> USE DEF connection, books, blame
<1>1. /\ task \in [Tasks -> Frame] /\ task[t] \in Frame /\ Shape(task[t])
      /\ problematic \subseteq Pools /\ failures \in [Pools -> 0 .. FailureLimit]
      /\ subscriptions \in [Pools -> 0 .. nextId - 1] /\ nextId \in Nat \ {0}
      /\ monitored \subseteq Pools
  BY DEF TInv, TasksOK, BooksOK
<1>2. task[t] # Idle
  BY <1>1, IdleIsFrame
  DEF TaskStep, ReconnectOk, ReconnectFails, Clear, Copy, Finish, Skip, Choose, SubscribeOk,
      SubscribeFails, Mark, ClearFailures, Unmark, Forget, At
<1>3. ASSUME \A u \in Tasks \ {t} : task'[u] = task[u], LimitReached', Solo(t)'
      PROVE  OneCall' /\ LimitReached' /\ \A u \in Tasks : Solo(u)'
  BY <1>2, <1>3, SoloMoves
<1>4. CASE ReconnectOk(t) \/ Clear(t)
  <2>1. LimitReached'
    BY <1>4 DEF ReconnectOk, Clear, LimitReached
  <2>2. PICK step \in {"clearing", "copying"} : Goes(t, step)
    BY <1>4 DEF ReconnectOk, Clear
  <2>3. task'[t].at = step /\ \A u \in Tasks \ {t} : task'[u] = task[u]
    BY <1>1, <2>2, GoesLeads
  <2>4. Solo(t)'
    BY <2>3 DEF Solo, At
  <2> QED
    BY <1>3, <2>1, <2>3, <2>4
<1>5. CASE ReconnectFails(t)
  <2>1. LimitReached'
    BY <1>5 DEF ReconnectFails, LimitReached
  <2>2. \A u \in Tasks \ {t} : task'[u] = task[u]
    BY <1>1, <1>5 DEF ReconnectFails, Returns
  <2>3. task'[t].at \in {"idle", "connecting"}
    BY <1>1, <1>5, IdleIsFrame DEF ReconnectFails, Returns, At, Frame
  <2>4. Solo(t)'
    BY <2>3 DEF Solo, At
  <2> QED
    BY <1>3, <2>1, <2>2, <2>4
<1>6. CASE Copy(t)
  <2>1. LimitReached'
    BY <1>6 DEF Copy, LimitReached
  <2>2. /\ \A u \in Tasks \ {t} : task'[u] = task[u]
        /\ task'[t].at = "choosing" /\ task'[t].todo = monitored
        /\ monitored' = monitored
    BY <1>1, <1>6 DEF Copy, Frame
  <2>3. Solo(t)'
    BY <2>2 DEF Solo, At
  <2> QED
    BY <1>3, <2>1, <2>2, <2>3
<1>7. CASE Finish(t)
  <2>1. LimitReached'
    BY <1>7 DEF Finish, LimitReached
  <2>2. task'[t] = Idle /\ \A u \in Tasks \ {t} : task'[u] = task[u]
    BY <1>1, <1>7 DEF Finish, Returns
  <2> QED
    BY <1>3, <2>1, <2>2, IdleIsSolo
<1>8. CASE Skip(t)
  <2>1. /\ LimitReached' /\ Subscribed' = Subscribed
        /\ monitored' = monitored /\ problematic' = problematic
    BY <1>8 DEF Skip, LimitReached, Subscribed
  <2>2. PICK p \in problematic : task' = [task EXCEPT ![t].todo = @ \ {p}]
    BY <1>8 DEF Skip
  <2>3. /\ \A u \in Tasks \ {t} : task'[u] = task[u]
        /\ task'[t].at = "choosing" /\ task[t].at = "choosing" /\ task'[t].op = task[t].op
        /\ task'[t].todo = task[t].todo \ {p} /\ task'[t].failed = task[t].failed
    BY <1>1, <1>8, <2>2 DEF Skip, At, Frame
  <2>4. Solo(t)'
    BY <2>1, <2>3 DEF Solo, At
  <2> QED
    BY <1>3, <2>1, <2>3, <2>4
<1>9. CASE Choose(t)
  <2>1. /\ LimitReached' /\ Subscribed' = Subscribed
        /\ monitored' = monitored /\ problematic' = problematic
    BY <1>9 DEF Choose, LimitReached, Subscribed
  <2>2. PICK p \in task[t].todo :
           /\ task[t].op # "retry" => p \notin problematic
           /\ IF client
              THEN Chooses(t, p)
              ELSE task' = [task EXCEPT ![t].todo = @ \ {p}, ![t].failed = @ \cup {p}]
    BY <1>9 DEF Choose
  <2>3. task[t].at = "choosing"
    BY <1>9 DEF Choose, At
  <2>4. CASE client
    <3>1. /\ \A u \in Tasks \ {t} : task'[u] = task[u]
          /\ task'[t].at = "subscribing" /\ task'[t].op = task[t].op /\ task'[t].pool = p
          /\ task'[t].todo = task[t].todo \ {p} /\ task'[t].failed = task[t].failed
      BY <1>1, <2>2, <2>4 DEF Chooses, Frame
    <3>2. Solo(t)'
      BY <2>1, <2>2, <2>3, <3>1 DEF Solo, At
    <3> QED
      BY <1>3, <2>1, <3>1, <3>2
  <2>5. CASE ~client
    <3>1. /\ \A u \in Tasks \ {t} : task'[u] = task[u]
          /\ task'[t].at = "choosing" /\ task'[t].op = task[t].op
          /\ task'[t].todo = task[t].todo \ {p} /\ task'[t].failed = task[t].failed \cup {p}
      BY <1>1, <2>2, <2>3, <2>5 DEF Frame
    <3>2. Solo(t)'
      BY <2>1, <2>3, <3>1 DEF Solo, At
    <3> QED
      BY <1>3, <2>1, <3>1, <3>2
  <2> QED
    BY <2>4, <2>5
<1>10. CASE SubscribeOk(t)
  <2> DEFINE p == task[t].pool
  <2>1. /\ At(t, "subscribing") /\ AfterSuccess(t)
        /\ subscriptions' = [subscriptions EXCEPT ![p] = nextId]
        /\ monitored' = monitored \cup {p} /\ problematic' = problematic /\ failures' = failures
    BY <1>10 DEF SubscribeOk
  <2>2. LimitReached' /\ p \in Pools
    BY <1>1, <2>1 DEF LimitReached, At, Shape
  <2>3. Subscribed' = Subscribed \cup {p}
    BY <1>1, <2>1, <2>2 DEF Subscribed
  <2>4. CASE task[t].op = "subscribe"
    <3>1. task'[t] = Idle /\ \A u \in Tasks \ {t} : task'[u] = task[u]
      BY <1>1, <2>1, <2>4 DEF AfterSuccess, Returns
    <3> QED
      BY <1>3, <2>2, <3>1, IdleIsSolo
  <2>5. CASE task[t].op = "retry"
    <3>1. /\ \A u \in Tasks \ {t} : task'[u] = task[u]
          /\ task'[t].at = "unmarking" /\ task'[t].op = "retry"
      BY <1>1, <2>1, <2>5, GoesLeads DEF AfterSuccess
    <3>2. Solo(t)'
      BY <3>1 DEF Solo, At
    <3> QED
      BY <1>3, <2>2, <3>1, <3>2
  <2>6. CASE task[t].op \notin {"subscribe", "retry"}
    <3>1. Goes(t, "clearingFailures")
      BY <2>1, <2>6 DEF AfterSuccess
    <3>2. /\ \A u \in Tasks \ {t} : task'[u] = task[u]
          /\ task'[t].at = "clearingFailures" /\ task'[t].op = task[t].op
          /\ task'[t].pool = p /\ task'[t].todo = task[t].todo
          /\ task'[t].failed = task[t].failed
      BY <1>1, <3>1, GoesLeads
    <3>3. Solo(t)'
      BY <2>1, <2>3, <3>2 DEF Solo, At
    <3> QED
      BY <1>3, <2>2, <3>2, <3>3
  <2> QED
    BY <2>4, <2>5, <2>6
<1>11. CASE SubscribeFails(t)
  <2> DEFINE p == task[t].pool
             n == IF failures[p] < FailureLimit THEN failures[p] + 1 ELSE FailureLimit
  <2>1. /\ At(t, "subscribing") /\ failures' = [failures EXCEPT ![p] = n]
        /\ problematic' = problematic /\ monitored' = monitored /\ Subscribed' = Subscribed
        /\ IF n >= FailureLimit THEN Goes(t, "marking") ELSE AfterFailure(t)
    BY <1>11 DEF SubscribeFails, Subscribed
  <2>2. p \in Pools
    BY <1>1, <2>1 DEF At, Shape
  <2>3. n \in 0 .. FailureLimit /\ failures[p] <= n /\ failures[p] \in Nat
    BY <1>1, <2>2, Limits
  <2> HIDE DEF n
  <2>4. LimitReached'
    BY <1>1, <2>1, <2>2, <2>3, Limits DEF LimitReached
  <2>5. CASE n >= FailureLimit
    <3>1. /\ \A u \in Tasks \ {t} : task'[u] = task[u]
          /\ task'[t].at = "marking" /\ task'[t].op = task[t].op
          /\ task'[t].pool = p /\ task'[t].todo = task[t].todo
          /\ task'[t].failed = task[t].failed
      BY <1>1, <2>1, <2>5, GoesLeads
    <3>2. failures'[p] = FailureLimit
      BY <1>1, <2>1, <2>2, <2>3, <2>5, Limits
    <3>3. Solo(t)'
      BY <2>1, <3>1, <3>2 DEF Solo, At
    <3> QED
      BY <1>3, <2>4, <3>1, <3>3
  <2>6. CASE ~(n >= FailureLimit)
    <3>1. /\ \A u \in Tasks \ {t} : task'[u] = task[u]
          /\ \/ task'[t] = Idle
             \/ /\ task'[t].at = "choosing" /\ task'[t].op = task[t].op
                /\ task'[t].todo = task[t].todo
                /\ task'[t].failed = task[t].failed \cup {p}
      BY <1>1, <2>1, <2>6, FailureLeads
    <3>2. Solo(t)'
      BY <2>1, <3>1, IdleIsSolo DEF Solo, At
    <3> QED
      BY <1>3, <2>4, <3>1, <3>2
  <2> QED
    BY <2>5, <2>6
<1>12. CASE Mark(t)
  <2> DEFINE p == task[t].pool
  <2>1. /\ At(t, "marking") /\ problematic' = problematic \cup {p} /\ AfterFailure(t)
        /\ failures' = failures /\ monitored' = monitored /\ Subscribed' = Subscribed
    BY <1>12 DEF Mark, Subscribed
  <2>2. failures[p] = FailureLimit
    BY <2>1 DEF Solo
  <2>3. LimitReached'
    BY <2>1, <2>2, Limits DEF LimitReached
  <2>4. /\ \A u \in Tasks \ {t} : task'[u] = task[u]
        /\ \/ task'[t] = Idle
           \/ /\ task'[t].at = "choosing" /\ task'[t].op = task[t].op
              /\ task'[t].todo = task[t].todo
              /\ task'[t].failed = task[t].failed \cup {p}
    BY <1>1, <2>1, FailureLeads
  <2>5. Solo(t)'
    BY <2>1, <2>4, IdleIsSolo DEF Solo, At
  <2> QED
    BY <1>3, <2>3, <2>4, <2>5
<1>13. CASE ClearFailures(t) \/ Forget(t)
  <2> DEFINE p == task[t].pool
  <2>1. /\ At(t, "clearingFailures") \/ At(t, "forgetting")
        /\ failures' = [failures EXCEPT ![p] = 0]
        /\ problematic' = problematic /\ monitored' = monitored /\ Subscribed' = Subscribed
        /\ Goes(t, "choosing")
    BY <1>13 DEF ClearFailures, Forget, Subscribed
  <2>2. p \notin problematic /\ (At(t, "forgetting") => task[t].op = "retry")
    BY <1>1, <2>1 DEF Solo, At, Shape
  <2>3. LimitReached'
    BY <1>1, <2>1, <2>2 DEF LimitReached
  <2>4. /\ \A u \in Tasks \ {t} : task'[u] = task[u]
        /\ task'[t].at = "choosing" /\ task'[t].op = task[t].op
        /\ task'[t].todo = task[t].todo /\ task'[t].failed = task[t].failed
    BY <1>1, <2>1, GoesLeads
  <2>5. Solo(t)'
    BY <2>1, <2>2, <2>4 DEF Solo, At
  <2> QED
    BY <1>3, <2>3, <2>4, <2>5
<1>14. CASE Unmark(t)
  <2> DEFINE p == task[t].pool
  <2>1. /\ At(t, "unmarking") /\ problematic' = problematic \ {p} /\ failures' = failures
        /\ Goes(t, "forgetting")
    BY <1>14 DEF Unmark
  <2>2. LimitReached'
    BY <2>1 DEF LimitReached
  <2>3. /\ \A u \in Tasks \ {t} : task'[u] = task[u]
        /\ task'[t].at = "forgetting" /\ task'[t].op = "retry" /\ task'[t].pool = p
    BY <1>1, <2>1, GoesLeads DEF At, Shape
  <2>4. Solo(t)'
    BY <2>1, <2>3 DEF Solo, At
  <2> QED
    BY <1>3, <2>2, <2>3, <2>4
<1> QED
  BY <1>4, <1>5, <1>6, <1>7, <1>8, <1>9, <1>10, <1>11, <1>12, <1>13, <1>14 DEF TaskStep

\* A call that overlaps none begins when all are idle, and has nothing in hand.
LEMMA SoloCallStep ==
    ASSUME TInv, AllIdle, LimitReached, NEW t \in Tasks, CallStep(t)
    PROVE  OneCall' /\ LimitReached' /\ \A u \in Tasks : Solo(u)'
<1> USE DEF connection, books, blame
<1>1. task \in [Tasks -> Frame] /\ \A u \in Tasks : task[u] = Idle
  BY DEF TInv, TasksOK, AllIdle
<1>2. LimitReached'
  BY DEF CallStep, CallSubscribe, CallResubscribe, CallRetry, CallReconnect, LimitReached
<1>3. /\ \A u \in Tasks \ {t} : task'[u] = Idle
      /\ \/ task'[t].op \in {"subscribe", "retry"} /\ task'[t].at \in {"subscribing", "choosing"}
         \/ task'[t].at \in {"clearing", "connecting"}
  <2>1. CASE CallSubscribe(t)
    <3>1. PICK p \in Pools : task' = [task EXCEPT ![t] =
             [Idle EXCEPT !.op = "subscribe", !.at = "subscribing", !.pool = p]]
      BY <2>1 DEF CallSubscribe, Calls
    <3> QED
      BY <1>1, <3>1 DEF Idle
  <2>2. CASE CallResubscribe(t)
    <3>1. task' = [task EXCEPT ![t] = [Idle EXCEPT !.op = "resubscribe", !.at = "clearing"]]
      BY <2>2 DEF CallResubscribe, Calls
    <3> QED
      BY <1>1, <3>1 DEF Idle
  <2>3. CASE CallRetry(t)
    <3>1. task' = [task EXCEPT ![t] =
             [Idle EXCEPT !.op = "retry", !.at = "choosing", !.todo = problematic]]
      BY <2>3 DEF CallRetry, Calls
    <3> QED
      BY <1>1, <3>1 DEF Idle
  <2>4. CASE CallReconnect(t)
    <3>1. task' = [task EXCEPT ![t] = [Idle EXCEPT !.op = "reconnect", !.at = "connecting"]]
      BY <2>4 DEF CallReconnect, Calls
    <3> QED
      BY <1>1, <3>1 DEF Idle
  <2> QED
    BY <2>1, <2>2, <2>3, <2>4 DEF CallStep
<1>4. Solo(t)'
  BY <1>3 DEF Solo, At
<1>5. OneCall'
  BY <1>3 DEF OneCall
<1> QED
  BY <1>2, <1>3, <1>4, <1>5, IdleIsSolo

LEMMA NextKeepsSolo == TInv /\ SoloInv /\ [Next]_vars => SoloInv'
<1> SUFFICES ASSUME TInv, SoloInv, [Next]_vars, ~overlapped'
             PROVE  OneCall' /\ LimitReached' /\ \A t \in Tasks : Solo(t)'
  BY DEF SoloInv
<1>1. ASSUME NEW t \in Tasks, CallStep(t) PROVE OneCall' /\ LimitReached' /\ \A u \in Tasks : Solo(u)'
  <2>1. overlapped' = (overlapped \/ ~AllIdle)
    BY <1>1 DEF CallStep, CallSubscribe, CallResubscribe, CallRetry, CallReconnect, Calls, Counted
  <2>2. ~overlapped /\ AllIdle
    BY <2>1
  <2> QED
    BY <1>1, <2>2, SoloCallStep DEF SoloInv
<1>2. ASSUME NEW t \in Tasks, TaskStep(t) PROVE OneCall' /\ LimitReached' /\ \A u \in Tasks : Solo(u)'
  <2>1. overlapped' = overlapped
    BY <1>2 DEF TaskStep, ReconnectOk, ReconnectFails, Clear, Copy, Finish, Skip, Choose,
               SubscribeOk, SubscribeFails, Mark, ClearFailures, Unmark, Forget
  <2> QED
    BY <1>2, <2>1, SoloTaskStep DEF SoloInv
<1>3. CASE Connect \/ MarkDisconnected \/ LinkBreaks \/ UNCHANGED vars
  <2>1. UNCHANGED <<task, books, blame>>
    BY <1>3, OtherKeepsTInv
  <2>2. ~overlapped
    BY <1>3 DEF Connect, MarkDisconnected, LinkBreaks, vars, Counted
  <2>3. OneCall /\ LimitReached /\ \A t \in Tasks : Solo(t)
    BY <2>2 DEF SoloInv
  <2>4. OneCall' /\ LimitReached'
    BY <2>1, <2>3 DEF OneCall, LimitReached, books, blame
  <2>5. Subscribed' = Subscribed
    BY <2>1 DEF Subscribed, books
  <2>6. \A t \in Tasks : Solo(t)'
    BY <2>1, <2>3, <2>5 DEF Solo, At, books, blame
  <2> QED
    BY <2>4, <2>6
<1> QED
  BY <1>1, <1>2, <1>3 DEF Next, Rest

\* The locks of the two tables are held by the steps that may hold them, an
\* exclusive call is alone, a pool is problematic only after enough failures, and
\* the delay of a reconnection is doubled for each failed attempt.
THEOREM BookkeepingAlways == Spec => []BookkeepingOK
<1>1. Init => BackoffIsExponential
  BY IdleIsFrame DEF Init, BackoffIsExponential, At
<1>2. Spec => []BackoffIsExponential
  BY <1>1, NextKeepsBackoff, TInvAlways, PTL DEF Spec
<1>3. Spec => []SoloInv
  BY InitSolo, NextKeepsSolo, TInvAlways, PTL DEF Spec
<1>4. SoloInv => ProblematicHaveFailed
  BY DEF SoloInv, LimitReached, ProblematicHaveFailed
<1>5. TInv /\ BackoffIsExponential /\ ProblematicHaveFailed => BookkeepingOK
  BY TInvIsTypeOK DEF BookkeepingOK
<1> QED
  BY <1>2, <1>3, <1>4, <1>5, TInvAlways, PTL

\* A resubscription that overlaps no other call leaves out only the problematic
\* pools and those whose own subscription failed, however many pools there are.
THEOREM ResubscribesTheRestAlways == Spec => []ResubscribesTheRest
<1>1. SoloInv => ResubscribesTheRest
  BY DEF SoloInv, Solo, ResubscribesTheRest, At
<1>2. Spec => []SoloInv
  BY InitSolo, NextKeepsSolo, TInvAlways, PTL DEF Spec
<1> QED
  BY <1>1, <1>2, PTL

-----------------------------------------------------------------------------
(***************************************************************************)
(* What CallsReturnUnlessCrossed excepts is final: of the two calls that   *)
(* wait for each other neither goes on, and with them stops whatever needs *)
(* their locks or the manager for itself.                                  *)
(***************************************************************************)
\* t keeps problematic_pools locked, u the counts.
Crossing(t, u) == At(t, "forgetting") /\ At(u, "marking")

LEMMA CrossingHolds ==
    ASSUME TInv, NEW t \in Tasks, NEW u \in Tasks, Crossing(t, u)
    PROVE  /\ problemLock = t /\ failureLock = u /\ t # u
           /\ problemLock # None /\ failureLock # None
           /\ task[t] # Idle /\ ~AllIdle
<1>1. problemLock = t /\ failureLock = u
  BY DEF TInv, LocksOK, Crossing
<1>2. t # u
  BY DEF Crossing, At
<1>3. task[t] # Idle
  BY IdleIsFrame DEF Crossing, At
<1> QED
  BY <1>1, <1>2, <1>3, Limits DEF AllIdle

\* A step changes the frame of one task only.
LEMMA StepsMoveOne ==
    ASSUME TInv, NEW v \in Tasks, TaskStep(v) \/ CallStep(v)
    PROVE  \A t \in Tasks : t # v => task'[t] = task[t]
<1>1. task \in [Tasks -> Frame]
  BY DEF TInv, TasksOK
<1>2. CASE CallStep(v)
  BY <1>1, <1>2 DEF CallStep, CallSubscribe, CallResubscribe, CallRetry, CallReconnect, Calls
<1>3. CASE TaskStep(v)
  <2>1. ASSUME AfterSuccess(v) \/ AfterFailure(v)
        PROVE  \A t \in Tasks : t # v => task'[t] = task[t]
    BY <1>1, <2>1 DEF AfterSuccess, AfterFailure, Goes, Returns
  <2>2. ASSUME ReconnectOk(v) \/ ReconnectFails(v) \/ Clear(v) \/ Copy(v) \/ Finish(v)
               \/ Skip(v) \/ Choose(v)
        PROVE  \A t \in Tasks : t # v => task'[t] = task[t]
    BY <1>1, <2>2 DEF ReconnectOk, ReconnectFails, Clear, Copy, Finish, Skip, Choose,
                      Goes, Returns, Chooses
  <2>3. ASSUME ClearFailures(v) \/ Unmark(v) \/ Forget(v)
        PROVE  \A t \in Tasks : t # v => task'[t] = task[t]
    BY <1>1, <2>3 DEF ClearFailures, Unmark, Forget, Goes
  <2>4. ASSUME SubscribeFails(v)
        PROVE  \A t \in Tasks : t # v => task'[t] = task[t]
    BY <1>1, <2>1, <2>4 DEF SubscribeFails, Goes
  <2> QED
    BY <1>3, <2>1, <2>2, <2>3, <2>4 DEF TaskStep, SubscribeOk, Mark
<1> QED
  BY <1>2, <1>3

\* Neither of the two can go on.
LEMMA CrossedWait ==
    ASSUME TInv, NEW t \in Tasks, NEW u \in Tasks, Crossing(t, u), NEW v \in Tasks,
           TaskStep(v) \/ CallStep(v)
    PROVE  v # t /\ v # u
<1>1. task[t].at = "forgetting" /\ task[u].at = "marking"
      /\ task[t] # Idle /\ task[u] # Idle /\ problemLock # None /\ failureLock # None
  BY CrossingHolds, IdleIsFrame DEF Crossing, At
<1>2. ASSUME v = t \/ v = u PROVE FALSE
  <2>1. ~CallStep(v)
    BY <1>1, <1>2 DEF CallStep, CallSubscribe, CallResubscribe, CallRetry, CallReconnect, Calls
  <2>2. ~TaskStep(v)
    BY <1>1, <1>2 DEF TaskStep, ReconnectOk, ReconnectFails, Clear, Copy, Finish, Skip, Choose,
                      SubscribeOk, SubscribeFails, Mark, ClearFailures, Unmark, Forget, At
  <2> QED
    BY <2>1, <2>2
<1> QED
  BY <1>2

\* What needs one of the two locks, or the manager for itself, does not happen.
LEMMA CrossedKeeps ==
    ASSUME TInv, NEW t \in Tasks, NEW u \in Tasks, Crossing(t, u), [Next]_vars
    PROVE  Crossing(t, u)' /\ UNCHANGED <<client, isConnected, delay, problematic, failures>>
<1>1. /\ task[t].at = "forgetting" /\ task[u].at = "marking"
      /\ ~AllIdle /\ problemLock # None /\ failureLock # None
  BY CrossingHolds DEF Crossing, At
<1>2. ASSUME NEW v \in Tasks, CallStep(v)
      PROVE  Crossing(t, u)' /\ UNCHANGED <<client, isConnected, delay, problematic, failures>>
  <2>1. task'[t] = task[t] /\ task'[u] = task[u]
    BY <1>2, CrossedWait, StepsMoveOne
  <2>2. ~CallReconnect(v)
    BY <1>1 DEF CallReconnect
  <2>3. UNCHANGED <<client, isConnected, delay, problematic, failures>>
    BY <1>2, <2>2 DEF CallStep, CallSubscribe, CallResubscribe, CallRetry, connection, blame
  <2> QED
    BY <2>1, <2>3 DEF Crossing, At
<1>3. ASSUME NEW v \in Tasks, TaskStep(v)
      PROVE  Crossing(t, u)' /\ UNCHANGED <<client, isConnected, delay, problematic, failures>>
  <2>1. v # t /\ v # u /\ task'[t] = task[t] /\ task'[u] = task[u]
    BY <1>3, CrossedWait, StepsMoveOne
  <2>2. ~ReconnectOk(v) /\ ~ReconnectFails(v)
    <3>1. task[v].at = "connecting" => task[v].op = "reconnect"
      BY DEF TInv, TasksOK, Shape
    <3>2. task[v].op # "reconnect"
      BY <1>1, <2>1, IdleIsFrame DEF TInv, TasksOK, ExclusiveAlone, Alone
    <3> QED
      BY <3>1, <3>2 DEF ReconnectOk, ReconnectFails, At
  <2>3. ~SubscribeFails(v) /\ ~Mark(v) /\ ~ClearFailures(v) /\ ~Unmark(v) /\ ~Forget(v)
    BY <1>1 DEF SubscribeFails, Mark, ClearFailures, Unmark, Forget
  <2>4. UNCHANGED <<client, isConnected, delay, problematic, failures>>
    BY <1>3, <2>2, <2>3 DEF TaskStep, Clear, Copy, Finish, Skip, Choose, SubscribeOk,
                            connection, blame
  <2> QED
    BY <2>1, <2>4 DEF Crossing, At
<1>4. ASSUME Connect \/ MarkDisconnected
      PROVE  FALSE
  BY <1>1, <1>4 DEF Connect, MarkDisconnected
<1>5. ASSUME LinkBreaks \/ UNCHANGED vars
      PROVE  Crossing(t, u)' /\ UNCHANGED <<client, isConnected, delay, problematic, failures>>
  BY <1>5 DEF LinkBreaks, vars, connection, blame, Crossing, At
<1> QED
  BY <1>2, <1>3, <1>4, <1>5 DEF Next, Rest

\* retry_problematic_pools and subscribe_pool, once each waits for the lock the other
\* holds, do so for good: no pool is ever marked, forgiven or counted again, and no
\* connect, mark_disconnected or reconnect_loop ever gets the manager for itself.
THEOREM CrossedForGood ==
    Spec => [][Crossed => /\ Crossed'
                          /\ UNCHANGED <<client, isConnected, delay, problematic, failures>>]_vars
<1>1. TInv /\ [Next]_vars =>
         [Crossed => /\ Crossed'
                     /\ UNCHANGED <<client, isConnected, delay, problematic, failures>>]_vars
  <2> SUFFICES ASSUME TInv, [Next]_vars, Crossed
               PROVE  /\ Crossed'
                      /\ UNCHANGED <<client, isConnected, delay, problematic, failures>>
    OBVIOUS
  <2>1. PICK t \in Tasks, u \in Tasks : Crossing(t, u)
    BY DEF Crossed, Crossing
  <2>2. Crossing(t, u)' /\ UNCHANGED <<client, isConnected, delay, problematic, failures>>
    BY <2>1, CrossedKeeps
  <2> QED
    BY <2>2 DEF Crossed, Crossing
<1> QED
  BY <1>1, TInvAlways, PTL DEF Spec
=============================================================================
