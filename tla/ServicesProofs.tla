--------------------------- MODULE ServicesProofs ---------------------------
(***************************************************************************)
(* Theorems about the services around the path of an update, one section   *)
(* for each: the throttle, the token mapping, the RPC manager, and so on.  *)
(* The registry has its own module, DecoderRegistryProofs.  The last       *)
(* section puts the parts together.                                        *)
(***************************************************************************)
EXTENDS Services, DecoderRegistryProofs, SequenceTheorems, WellFoundedInduction

LessOnNat == OpToRel(<, Nat)

\* A nonempty set of naturals has a least element.
LEMMA LeastExists ==
    ASSUME NEW T \in SUBSET Nat, T # {}
    PROVE  \E x \in T : \A y \in T : x <= y
<1>1. IsWellFoundedOn(LessOnNat, Nat)
  BY NatLessThanWellFounded DEF LessOnNat
<1>2. PICK x \in T : \A y \in T : ~(<<y, x>> \in LessOnNat)
  BY <1>1, WFMin
<1>3. \A m, n \in Nat : <<n, m>> \in LessOnNat <=> n < m
  BY DEF LessOnNat, OpToRel
<1>4. ASSUME NEW y \in T PROVE x <= y
  <2>1. x \in Nat /\ y \in Nat
    OBVIOUS
  <2>2. ~(<<y, x>> \in LessOnNat)
    BY <1>2
  <2>3. <<y, x>> \in LessOnNat <=> y < x
    BY <1>3, <2>1
  <2> QED
    BY <2>1, <2>2, <2>3
<1> QED
  BY <1>4

-----------------------------------------------------------------------------
(***************************************************************************)
(* The throttle of StreamListener lets through what a bucket of one token  *)
(* lets through, for any number of pools and tasks and any interval.       *)
(***************************************************************************)
\* The times in the table are not in the future, and a task that decides on a
\* notification has a pool.
ListenerInv ==
    /\ now \in Nat
    /\ last \in [Pools -> Nat \cup {None}]
    /\ \A p \in Pools : last[p] # None => last[p] <= now
    /\ skipped \in [Pools -> Nat]
    /\ allowed \in [Pools -> Nat]
    /\ pool \in [Listeners -> Pools \cup {None}]
    /\ at \in [Listeners -> Steps]
    /\ \A l \in Listeners : at[l] # "unused" => pool[l] \in Pools

LEMMA ListenerInitInv == Init => ListenerInv
  BY ListenerAssumption DEF Init, ListenerInv, Steps

LEMMA ListenerStepInv == ListenerInv /\ [Next]_vars => ListenerInv'
<1> SUFFICES ASSUME ListenerInv, [Next]_vars
             PROVE  ListenerInv'
  OBVIOUS
<1> USE ListenerAssumption DEF ListenerInv, Steps
<1>1. ASSUME NEW l \in Listeners, NEW p \in Pools, ListenPool(l, p)
      PROVE  ListenerInv'
  BY <1>1 DEF ListenPool, books
<1>2. ASSUME NEW l \in Listeners,
             Subscribed(l) \/ SubscribeFails(l) \/ Take(l) \/ StreamEnds(l)
      PROVE  ListenerInv'
  BY <1>2 DEF Subscribed, SubscribeFails, Take, StreamEnds, books
<1>3. ASSUME NEW l \in Listeners, Skip(l)
      PROVE  ListenerInv'
  BY <1>3 DEF Skip, Done
<1>4. ASSUME NEW l \in Listeners, Pass(l)
      PROVE  ListenerInv'
  BY <1>4 DEF Pass
<1>5. ASSUME NEW l \in Listeners, DecodeFails(l) \/ Deliver(l)
      PROVE  ListenerInv'
  BY <1>5 DEF DecodeFails, Deliver, Done, books
<1>6. ASSUME NEW p \in Pools, Change(p)
      PROVE  ListenerInv'
  BY <1>6 DEF Change, books
<1>7. CASE Tick
  BY <1>7 DEF Tick, books, tasks
<1>8. CASE Quiet \/ UNCHANGED vars
  BY <1>8 DEF Quiet, vars, books, tasks
<1> QED
  BY <1>1, <1>2, <1>3, <1>4, <1>5, <1>6, <1>7, <1>8 DEF Next, TaskStep

\* The initial table of times stands for full buckets.
LEMMA InitBucket == Init => Bucket!Init
  BY ListenerAssumption DEF Init, Bucket!Init, Bucket!Full, Tokens

\* A decision takes a token or finds none; the clock refills; nothing else
\* touches the buckets.
LEMMA StepBucket == ListenerInv /\ [Next]_vars => [Bucket!Next]_(Bucket!vars)
<1> SUFFICES ASSUME ListenerInv, [Next]_vars
             PROVE  [Bucket!Next]_(Bucket!vars)
  OBVIOUS
<1> USE ListenerAssumption DEF ListenerInv
<1>1. ASSUME NEW l \in Listeners, Skip(l)
      PROVE  Bucket!Next
  <2>1. pool[l] \in Pools
    BY <1>1 DEF Skip
  <2>2. Tokens[pool[l]] < Interval
    BY <1>1, <2>1 DEF Skip, TooSoon, Tokens
  <2>3. Tokens' = Tokens
    BY <1>1 DEF Skip, Tokens
  <2> QED
    BY <1>1, <2>1, <2>2, <2>3 DEF Skip, Bucket!Next, Bucket!Throttle
<1>2. ASSUME NEW l \in Listeners, Pass(l)
      PROVE  Bucket!Next
  <2>1. pool[l] \in Pools
    BY <1>2 DEF Pass
  <2>2. Tokens[pool[l]] = Interval
    BY <1>2, <2>1 DEF Pass, TooSoon, Tokens
  <2>3. Tokens' = [Tokens EXCEPT ![pool[l]] = @ - Interval]
    <3>1. CASE Interval = 0
      <4>1. Tokens' = Tokens
        BY <1>2, <3>1 DEF Pass, Tokens
      <4>2. Tokens[pool[l]] - Interval = Tokens[pool[l]]
        BY <2>2, <3>1
      <4>3. Tokens = [Tokens EXCEPT ![pool[l]] = Tokens[pool[l]]]
        BY DEF Tokens
      <4> QED
        BY <4>1, <4>2, <4>3
    <3>2. CASE Interval > 0
      <4>1. last' = [last EXCEPT ![pool[l]] = now] /\ now' = now
        BY <1>2, <3>2 DEF Pass
      <4>2. Tokens'[pool[l]] = 0
        BY <2>1, <3>2, <4>1 DEF Tokens
      <4>3. ASSUME NEW p \in Pools, p # pool[l]
            PROVE  Tokens'[p] = Tokens[p]
        BY <4>1, <4>3 DEF Tokens
      <4>4. Tokens' = [p \in Pools |-> Tokens'[p]] /\ Tokens = [p \in Pools |-> Tokens[p]]
        BY DEF Tokens
      <4>5. Tokens[pool[l]] - Interval = 0
        BY <2>2
      <4> QED
        BY <2>1, <4>2, <4>3, <4>4, <4>5
    <3> QED
      BY <3>1, <3>2
  <2>4. Tokens[pool[l]] >= Interval
    BY <2>2
  <2>5. Bucket!Allow(pool[l])
    BY <1>2, <2>3, <2>4 DEF Pass, Bucket!Allow
  <2> QED
    BY <2>1, <2>5 DEF Bucket!Next
<1>3. CASE Tick
  <2>1. Tokens' = [p \in Pools |-> IF Tokens[p] < Interval THEN Tokens[p] + 1 ELSE Interval]
    BY <1>3 DEF Tick, Tokens, books
  <2> QED
    BY <1>3, <2>1 DEF Tick, books, Bucket!Next, Bucket!Refill, Bucket!Full
<1>4. ASSUME UNCHANGED <<now, books>>
      PROVE  UNCHANGED Bucket!vars
  BY <1>4 DEF books, Tokens, Bucket!vars
<1>5. ASSUME NEW l \in Listeners,
             \/ Subscribed(l) \/ SubscribeFails(l) \/ Take(l) \/ StreamEnds(l)
             \/ DecodeFails(l) \/ Deliver(l)
      PROVE  UNCHANGED <<now, books>>
  BY <1>5 DEF Subscribed, SubscribeFails, Take, StreamEnds, DecodeFails, Deliver
<1>6. ASSUME NEW l \in Listeners, NEW p \in Pools, ListenPool(l, p)
      PROVE  UNCHANGED <<now, books>>
  BY <1>6 DEF ListenPool
<1>7. ASSUME NEW p \in Pools, Change(p)
      PROVE  UNCHANGED <<now, books>>
  BY <1>7 DEF Change
<1>8. CASE Quiet \/ UNCHANGED vars
  BY <1>4, <1>8 DEF Quiet, vars
<1> QED
  BY <1>1, <1>2, <1>3, <1>4, <1>5, <1>6, <1>7, <1>8 DEF Next, TaskStep

\* Whatever the tasks do at the same time, the updates of a pool that are let
\* through and skipped are those of a bucket of one token.
THEOREM ThrottleImplementsBucket == Spec => ThrottleIsBucket
<1>1. Init => ListenerInv /\ Bucket!Init
  BY ListenerInitInv, InitBucket
<1>2. ListenerInv /\ [Next]_vars => ListenerInv' /\ [Bucket!Next]_(Bucket!vars)
  BY ListenerStepInv, StepBucket
<1> QED
  BY <1>1, <1>2, PTL DEF Spec, ThrottleIsBucket, Bucket!Spec

-----------------------------------------------------------------------------
(***************************************************************************)
(* The streams of StreamListener: for any pools and tasks, and however     *)
(* often a pool changes, a task takes the notifications of its pool in     *)
(* their order and none twice.                                             *)
(***************************************************************************)
Busy == {"deciding", "delivering"}

\* The stream of a task goes on after what it has dealt with and has in hand, in
\* the order of the changes, and holds none that has not happened.
QueueOK(l) ==
    /\ (at[l] = "unused") <=> (pool[l] = None)
    /\ (hand[l] # 0) <=> (at[l] \in Busy)
    /\ at[l] \in {"unused", "subscribing"} => stream[l] = <<>> /\ handled[l] = 0
    /\ \A p \in Pools : pool[l] = p => handled[l] <= slot[p] /\ hand[l] <= slot[p]
    /\ hand[l] # 0 => handled[l] < hand[l]
    /\ \A i \in DOMAIN stream[l] :
          handled[l] < stream[l][i] /\ hand[l] < stream[l][i] /\ stream[l][i] <= slot[pool[l]]
    /\ \A i, j \in DOMAIN stream[l] : i < j => stream[l][i] < stream[l][j]

StreamsTyped ==
    /\ slot \in [Pools -> 0 .. MaxSlot]
    /\ hand \in [Listeners -> 0 .. MaxSlot] /\ handled \in [Listeners -> 0 .. MaxSlot]
    /\ stream \in [Listeners -> Seq(1 .. MaxSlot)]

StreamsInv ==
    /\ ListenerInv /\ now <= MaxTime
    /\ StreamsTyped
    /\ \A l \in Listeners : QueueOK(l)

LEMMA StreamsInitInv == Init => StreamsInv
<1> SUFFICES ASSUME Init PROVE StreamsInv
  OBVIOUS
<1>1. ListenerInv /\ now <= MaxTime
  BY ListenerInitInv, ListenerAssumption DEF Init
<1>2. StreamsTyped
  BY ListenerAssumption DEF Init, StreamsTyped
<1>3. ASSUME NEW l \in Listeners PROVE QueueOK(l)
  BY ListenerAssumption DEF Init, QueueOK, Busy
<1> QED
  BY <1>1, <1>2, <1>3 DEF StreamsInv

\* One task moves, and no pool changes.
LEMMA OneTaskMoves ==
    ASSUME StreamsInv, NEW l \in Listeners, ListenerInv', now' = now, slot' = slot,
           at' = [at EXCEPT ![l] = at'[l]], pool' = [pool EXCEPT ![l] = pool'[l]],
           stream' = [stream EXCEPT ![l] = stream'[l]], stream'[l] \in Seq(1 .. MaxSlot),
           hand' = [hand EXCEPT ![l] = hand'[l]], hand'[l] \in 0 .. MaxSlot,
           handled' = [handled EXCEPT ![l] = handled'[l]], handled'[l] \in 0 .. MaxSlot,
           QueueOK(l)'
    PROVE  StreamsInv'
<1>1. StreamsTyped'
  BY DEF StreamsInv, StreamsTyped
<1>2. ASSUME NEW k \in Listeners, k # l PROVE QueueOK(k)'
  <2>1. /\ at'[k] = at[k] /\ pool'[k] = pool[k] /\ stream'[k] = stream[k]
        /\ hand'[k] = hand[k] /\ handled'[k] = handled[k]
    BY <1>2 DEF StreamsInv, StreamsTyped, ListenerInv
  <2>2. QueueOK(k)
    BY DEF StreamsInv
  <2> QED
    BY <2>1, <2>2 DEF QueueOK
<1> QED
  BY <1>1, <1>2 DEF StreamsInv

\* What a stream holds.
LEMMA InStream ==
    ASSUME NEW s \in Seq(1 .. MaxSlot), NEW i \in DOMAIN s
    PROVE  s[i] \in 1 .. MaxSlot /\ 0 < s[i]
<1>1. DOMAIN s = 1 .. Len(s)
  OBVIOUS
<1>2. s[i] \in 1 .. MaxSlot
  BY <1>1, ElementOfSeq
<1> QED
  BY <1>2, ListenerAssumption

\* What is left of a stream once its first is taken.
LEMMA TailRises ==
    ASSUME NEW s \in Seq(1 .. MaxSlot), s # <<>>,
           \A i, j \in DOMAIN s : i < j => s[i] < s[j]
    PROVE  /\ Head(s) = s[1] /\ 1 \in DOMAIN s /\ s[1] \in 1 .. MaxSlot
           /\ Tail(s) \in Seq(1 .. MaxSlot)
           /\ \A i \in DOMAIN Tail(s) : i + 1 \in DOMAIN s /\ Tail(s)[i] = s[i + 1]
           /\ \A i \in DOMAIN Tail(s) : s[1] < Tail(s)[i]
           /\ \A i, j \in DOMAIN Tail(s) : i < j => Tail(s)[i] < Tail(s)[j]
<1>1. /\ Len(s) \in Nat /\ 1 <= Len(s) /\ DOMAIN s = 1 .. Len(s) /\ Head(s) = s[1]
      /\ s[1] \in 1 .. MaxSlot
  <2>1. Len(s) \in Nat /\ DOMAIN s = 1 .. Len(s) /\ Head(s) = s[1]
    OBVIOUS
  <2>2. Len(s) # 0
    OBVIOUS
  <2>3. 1 <= Len(s) /\ 1 \in DOMAIN s
    BY <2>1, <2>2
  <2> QED
    BY <2>1, <2>3, InStream
<1>2. /\ Tail(s) \in Seq(1 .. MaxSlot) /\ DOMAIN Tail(s) = 1 .. Len(s) - 1
      /\ \A i \in 1 .. Len(s) - 1 : Tail(s)[i] = s[i + 1]
  BY <1>1
<1>3. \A i \in DOMAIN Tail(s) : i + 1 \in DOMAIN s /\ Tail(s)[i] = s[i + 1] /\ i \in Nat
  BY <1>1, <1>2
<1>4. \A i \in DOMAIN Tail(s) : s[1] < Tail(s)[i]
  BY <1>1, <1>3, <1>2
<1>5. \A i, j \in DOMAIN Tail(s) : i < j => Tail(s)[i] < Tail(s)[j]
  BY <1>1, <1>2, <1>3
<1> QED
  BY <1>1, <1>2, <1>3, <1>4, <1>5

LEMMA TakeKeeps ==
    ASSUME StreamsInv, NEW l \in Listeners, Take(l), ListenerInv'
    PROVE  StreamsInv'
<1> DEFINE s == stream[l]
<1>1. /\ s \in Seq(1 .. MaxSlot) /\ s # <<>> /\ QueueOK(l)
      /\ \A i, j \in DOMAIN s : i < j => s[i] < s[j]
  BY DEF StreamsInv, StreamsTyped, QueueOK, Take
<1>2. /\ Head(s) = s[1] /\ 1 \in DOMAIN s /\ s[1] \in 1 .. MaxSlot
      /\ Tail(s) \in Seq(1 .. MaxSlot)
      /\ \A i \in DOMAIN Tail(s) : i + 1 \in DOMAIN s /\ Tail(s)[i] = s[i + 1]
      /\ \A i \in DOMAIN Tail(s) : s[1] < Tail(s)[i]
      /\ \A i, j \in DOMAIN Tail(s) : i < j => Tail(s)[i] < Tail(s)[j]
  <2> HIDE DEF s
  <2> QED
    BY <1>1, TailRises
<1>3. /\ at' = [at EXCEPT ![l] = "deciding"] /\ hand' = [hand EXCEPT ![l] = s[1]]
      /\ stream' = [stream EXCEPT ![l] = Tail(s)]
      /\ UNCHANGED <<now, pool, handled, slot>>
  BY <1>2 DEF Take
<1>4. at'[l] = "deciding" /\ hand'[l] = s[1] /\ stream'[l] = Tail(s) /\ at[l] = "waiting"
  BY <1>3 DEF StreamsInv, StreamsTyped, ListenerInv, Take
<1>5. /\ pool[l] \in Pools /\ handled[l] \in 0 .. MaxSlot /\ hand[l] = 0
      /\ pool[l] # None /\ pool' = [pool EXCEPT ![l] = pool[l]]
      /\ handled' = [handled EXCEPT ![l] = handled[l]]
  BY <1>1, <1>3, <1>4, ListenerAssumption DEF StreamsInv, StreamsTyped, ListenerInv, QueueOK, Busy
<1>6. QueueOK(l)'
  <2>1. handled[l] < s[1] /\ s[1] <= slot[pool[l]] /\ handled[l] <= slot[pool[l]]
    BY <1>1, <1>2, <1>5 DEF QueueOK
  <2>2. \A i \in DOMAIN Tail(s) : handled[l] < Tail(s)[i] /\ Tail(s)[i] <= slot[pool[l]]
    BY <1>1, <1>2 DEF QueueOK
  <2>3. s[1] # 0
    BY <1>2
  <2> HIDE DEF s
  <2> QED
    BY <1>2, <1>3, <1>4, <1>5, <2>1, <2>2, <2>3 DEF QueueOK, Busy
<1>7. s[1] \in 0 .. MaxSlot
  BY <1>2, ListenerAssumption
<1> HIDE DEF s
<1> QED
  BY <1>2, <1>3, <1>4, <1>5, <1>6, <1>7, OneTaskMoves

\* Where a task is, and what it has in hand, of a step that leaves its stream alone.
LEMMA OtherTaskStepsKeep ==
    ASSUME StreamsInv, NEW l \in Listeners, ListenerInv',
           \/ Subscribed(l) \/ SubscribeFails(l) \/ StreamEnds(l)
           \/ Skip(l) \/ Pass(l) \/ DecodeFails(l) \/ Deliver(l)
           \/ \E p \in Pools : ListenPool(l, p)
    PROVE  StreamsInv'
<1>1. QueueOK(l) /\ handled[l] \in 0 .. MaxSlot /\ hand[l] \in 0 .. MaxSlot
      /\ stream[l] \in Seq(1 .. MaxSlot)
  BY DEF StreamsInv, StreamsTyped
<1>2. now' = now /\ slot' = slot /\ stream' = stream
  BY DEF Subscribed, SubscribeFails, StreamEnds, Skip, Pass, DecodeFails, Deliver,
         ListenPool, Done, books
<1>3. /\ stream' = [stream EXCEPT ![l] = stream'[l]] /\ stream'[l] = stream[l]
  BY <1>2 DEF StreamsInv, StreamsTyped
<1>4. CASE Subscribed(l) \/ SubscribeFails(l) \/ StreamEnds(l) \/ Pass(l)
  <2>1. UNCHANGED <<pool, hand, handled>>
    BY <1>4 DEF Subscribed, SubscribeFails, StreamEnds, Pass
  <2>2. \E step \in {"waiting", "ended", "delivering"} :
           at' = [at EXCEPT ![l] = step] /\ at'[l] = step /\ at[l] # "unused"
           /\ (step \in Busy <=> at[l] \in Busy)
    BY <1>4 DEF Subscribed, SubscribeFails, StreamEnds, Pass, Busy, StreamsInv, ListenerInv
  <2>3. /\ pool' = [pool EXCEPT ![l] = pool'[l]] /\ hand' = [hand EXCEPT ![l] = hand'[l]]
        /\ handled' = [handled EXCEPT ![l] = handled'[l]]
        /\ at' = [at EXCEPT ![l] = at'[l]]
    BY <2>1, <2>2 DEF StreamsInv, StreamsTyped, ListenerInv
  <2>4. QueueOK(l)'
    BY <2>1, <2>2, <1>1, <1>2 DEF QueueOK
  <2> QED
    BY <2>1, <2>3, <2>4, <1>1, <1>2, <1>3, OneTaskMoves
<1>5. CASE Skip(l) \/ DecodeFails(l) \/ Deliver(l)
  <2>1. /\ at' = [at EXCEPT ![l] = "waiting"] /\ handled' = [handled EXCEPT ![l] = hand[l]]
        /\ hand' = [hand EXCEPT ![l] = 0] /\ pool' = pool /\ at[l] \in Busy
    BY <1>5 DEF Skip, DecodeFails, Deliver, Done, Busy
  <2>2. /\ at'[l] = "waiting" /\ handled'[l] = hand[l] /\ hand'[l] = 0
        /\ pool' = [pool EXCEPT ![l] = pool'[l]]
    BY <2>1 DEF StreamsInv, StreamsTyped, ListenerInv
  <2>3. 0 \in 0 .. MaxSlot
    BY ListenerAssumption
  <2>4. QueueOK(l)'
    <3>1. at[l] # "unused" /\ at[l] \notin {"unused", "subscribing"} /\ pool[l] # None
      BY <2>1, <1>1 DEF Busy, QueueOK
    <3>2. \A p \in Pools : pool[l] = p => 0 <= slot[p]
      BY DEF StreamsInv, StreamsTyped
    <3>3. \A i \in DOMAIN stream[l] : 0 < stream[l][i]
      BY <1>1, InStream
    <3> QED
      BY <2>1, <2>2, <1>1, <1>2, <3>1, <3>2, <3>3 DEF QueueOK, Busy
  <2> QED
    BY <2>1, <2>2, <2>3, <2>4, <1>1, <1>2, <1>3, OneTaskMoves
<1>6. ASSUME NEW p \in Pools, ListenPool(l, p) PROVE StreamsInv'
  <2>1. /\ at[l] = "unused" /\ at' = [at EXCEPT ![l] = "subscribing"]
        /\ pool' = [pool EXCEPT ![l] = p] /\ UNCHANGED <<hand, handled>>
    BY <1>6 DEF ListenPool
  <2>2. /\ at'[l] = "subscribing" /\ pool'[l] = p
        /\ hand' = [hand EXCEPT ![l] = hand'[l]] /\ handled' = [handled EXCEPT ![l] = handled'[l]]
    BY <2>1 DEF StreamsInv, StreamsTyped, ListenerInv
  <2>3. stream[l] = <<>> /\ handled[l] = 0 /\ hand[l] = 0 /\ p # None
    BY <2>1, <1>1, ListenerAssumption DEF QueueOK, Busy
  <2>4. slot[p] \in Nat
    BY DEF StreamsInv, StreamsTyped
  <2>5. QueueOK(l)'
    BY <2>1, <2>2, <2>3, <2>4, <1>2 DEF QueueOK, Busy
  <2> QED
    BY <2>1, <2>2, <2>5, <1>1, <1>2, <1>3, OneTaskMoves
<1> QED
  BY <1>4, <1>5, <1>6

\* One more at the end of a stream.
LEMMA AppendRises ==
    ASSUME NEW s \in Seq(1 .. MaxSlot), NEW v \in 1 .. MaxSlot,
           \A i \in DOMAIN s : s[i] < v,
           \A i, j \in DOMAIN s : i < j => s[i] < s[j]
    PROVE  /\ Append(s, v) \in Seq(1 .. MaxSlot) /\ Append(s, v) # <<>>
           /\ \A i \in DOMAIN Append(s, v) :
                 Append(s, v)[i] = v \/ (i \in DOMAIN s /\ Append(s, v)[i] = s[i])
           /\ \A i, j \in DOMAIN Append(s, v) : i < j => Append(s, v)[i] < Append(s, v)[j]
<1> DEFINE t == Append(s, v)
<1>1. /\ t \in Seq(1 .. MaxSlot) /\ t # <<>> /\ DOMAIN t = 1 .. Len(s) + 1
      /\ t[Len(s) + 1] = v /\ \A i \in 1 .. Len(s) : t[i] = s[i]
  OBVIOUS
<1>2. Len(s) \in Nat /\ DOMAIN s = 1 .. Len(s)
  OBVIOUS
<1> HIDE DEF t
<1>3. \A i \in DOMAIN t : (i = Len(s) + 1 /\ t[i] = v) \/ (i \in DOMAIN s /\ t[i] = s[i])
  BY <1>1, <1>2
<1>4. ASSUME NEW i \in DOMAIN t, NEW j \in DOMAIN t, i < j PROVE t[i] < t[j]
  <2>1. i \in DOMAIN s /\ t[i] = s[i]
    BY <1>1, <1>2, <1>3, <1>4
  <2> QED
    BY <2>1, <1>3, <1>4
<1> QED
  BY <1>1, <1>3, <1>4 DEF t

LEMMA ChangeKeeps ==
    ASSUME StreamsInv, NEW p \in Pools, Change(p), ListenerInv'
    PROVE  StreamsInv'
<1> DEFINE v == slot[p] + 1
<1>1. /\ slot \in [Pools -> 0 .. MaxSlot] /\ v \in 1 .. MaxSlot /\ slot'[p] = v
      /\ slot' \in [Pools -> 0 .. MaxSlot] /\ slot[p] < v
      /\ \A q \in Pools : slot[q] <= slot'[q]
  BY ListenerAssumption DEF Change, StreamsInv, StreamsTyped
<1>2. UNCHANGED <<now, at, pool, hand, handled>>
  BY DEF Change
<1>3. stream' = [l \in Listeners |-> IF Hears(l, p) THEN Append(stream[l], v) ELSE stream[l]]
  BY <1>1 DEF Change
<1> HIDE DEF v
<1>4. ASSUME NEW l \in Listeners
      PROVE  stream'[l] \in Seq(1 .. MaxSlot) /\ QueueOK(l)'
  <2>1. QueueOK(l) /\ stream[l] \in Seq(1 .. MaxSlot)
        /\ hand[l] \in 0 .. MaxSlot /\ handled[l] \in 0 .. MaxSlot
    BY DEF StreamsInv, StreamsTyped
  <2>2. \A i \in DOMAIN stream[l] : stream[l][i] \in 1 .. MaxSlot
    BY <2>1, InStream
  <2>3. \A i \in DOMAIN stream[l] : pool[l] \in Pools
    BY <2>1 DEF QueueOK, StreamsInv, ListenerInv
  <2>4. \A q \in Pools : pool[l] = q => handled[l] <= slot'[q] /\ hand[l] <= slot'[q]
    BY <2>1, <1>1 DEF QueueOK
  <2>5. CASE ~Hears(l, p)
    <3>1. stream'[l] = stream[l]
      BY <2>5, <1>3
    <3>2. \A i \in DOMAIN stream[l] : stream[l][i] <= slot'[pool[l]]
      BY <2>1, <2>2, <2>3, <1>1 DEF QueueOK
    <3> QED
      BY <3>1, <3>2, <2>1, <2>4, <1>2 DEF QueueOK
  <2>6. CASE Hears(l, p)
    <3> DEFINE s == stream[l]
               t == Append(s, v)
    <3>1. stream'[l] = t /\ pool[l] = p /\ at[l] \notin {"unused", "subscribing"}
      BY <2>6, <1>3 DEF Hears
    <3>2. /\ handled[l] <= slot[p] /\ hand[l] <= slot[p] /\ handled[l] < v /\ hand[l] < v
          /\ \A i \in DOMAIN s : s[i] <= slot[p] /\ s[i] < v
      BY <2>1, <2>2, <3>1, <1>1 DEF QueueOK
    <3>3. \A i, j \in DOMAIN s : i < j => s[i] < s[j]
      BY <2>1 DEF QueueOK
    <3>4. /\ t \in Seq(1 .. MaxSlot)
          /\ \A i \in DOMAIN t : t[i] = v \/ (i \in DOMAIN s /\ t[i] = s[i])
          /\ \A i, j \in DOMAIN t : i < j => t[i] < t[j]
      <4> HIDE DEF s
      <4> QED
        BY <2>1, <3>2, <3>3, <1>1, AppendRises DEF s
    <3>5. \A i \in DOMAIN t : handled[l] < t[i] /\ hand[l] < t[i] /\ t[i] <= slot'[pool[l]]
      <4>1. \A i \in DOMAIN s : handled[l] < s[i] /\ hand[l] < s[i] /\ s[i] <= slot'[pool[l]]
        BY <2>1, <2>2, <3>1, <3>2, <1>1 DEF QueueOK
      <4>2. handled[l] < v /\ hand[l] < v /\ v <= slot'[pool[l]]
        BY <3>1, <3>2, <1>1
      <4> HIDE DEF s, t
      <4> QED
        BY <4>1, <4>2, <3>4
    <3> HIDE DEF s, t
    <3> QED
      BY <3>1, <3>4, <3>5, <2>1, <2>4, <1>2 DEF QueueOK
  <2> QED
    BY <2>5, <2>6
<1>5. StreamsTyped'
  BY <1>1, <1>2, <1>3, <1>4 DEF StreamsInv, StreamsTyped
<1> QED
  BY <1>2, <1>4, <1>5 DEF StreamsInv

LEMMA StreamsStepInv == StreamsInv /\ [Next]_vars => StreamsInv'
<1> SUFFICES ASSUME StreamsInv, [Next]_vars PROVE StreamsInv'
  OBVIOUS
<1>1. ListenerInv'
  BY ListenerStepInv DEF StreamsInv
<1>2. ASSUME NEW l \in Listeners, TaskStep(l) \/ StreamEnds(l) PROVE StreamsInv'
  BY <1>1, <1>2, TakeKeeps, OtherTaskStepsKeep DEF TaskStep
<1>3. ASSUME NEW l \in Listeners, NEW p \in Pools, ListenPool(l, p) PROVE StreamsInv'
  BY <1>1, <1>3, OtherTaskStepsKeep
<1>4. ASSUME NEW p \in Pools, Change(p) PROVE StreamsInv'
  BY <1>1, <1>4, ChangeKeeps
<1>5. CASE UNCHANGED <<tasks, slot>> /\ now' <= MaxTime
  BY <1>1, <1>5 DEF StreamsInv, StreamsTyped, QueueOK, tasks
<1>6. CASE Tick
  <2>1. now' <= MaxTime
    BY <1>6, ListenerAssumption DEF Tick, StreamsInv, ListenerInv
  <2> QED
    BY <1>5, <1>6, <2>1 DEF Tick
<1>7. CASE Quiet \/ UNCHANGED vars
  BY <1>5, <1>7 DEF Quiet, vars, StreamsInv
<1> QED
  BY <1>2, <1>3, <1>4, <1>6, <1>7 DEF Next

LEMMA StreamsInvMeans == StreamsInv => TypeOK
<1> SUFFICES ASSUME StreamsInv PROVE TypeOK
  OBVIOUS
<1>1. now \in 0 .. MaxTime /\ last \in [Pools -> 0 .. now \cup {None}]
  BY ListenerAssumption DEF StreamsInv, ListenerInv
<1>2. ASSUME NEW l \in Listeners,
             NEW i \in DOMAIN (<<hand[l]>> \o stream[l]), (<<hand[l]>> \o stream[l])[i] # 0
      PROVE  /\ handled[l] < (<<hand[l]>> \o stream[l])[i]
             /\ i > 1 => (<<hand[l]>> \o stream[l])[i - 1] < (<<hand[l]>> \o stream[l])[i]
  <2> DEFINE s == stream[l]
             h == hand[l]
             line == <<h>> \o s
  <2>1. QueueOK(l) /\ s \in Seq(1 .. MaxSlot) /\ h \in 0 .. MaxSlot
    BY DEF StreamsInv, StreamsTyped
  <2>2. /\ Len(s) \in Nat /\ DOMAIN s = 1 .. Len(s)
        /\ DOMAIN line = 1 .. Len(s) + 1 /\ line[1] = h
        /\ \A j \in 2 .. Len(s) + 1 : line[j] = s[j - 1]
    <3> HIDE DEF s, h
    <3> QED
      BY <2>1
  <2>3. /\ h # 0 => handled[l] < h
        /\ \A j \in DOMAIN s : handled[l] < s[j] /\ h < s[j]
        /\ \A j, k \in DOMAIN s : j < k => s[j] < s[k]
    BY <2>1 DEF QueueOK
  <2>0. i \in DOMAIN line /\ line[i] # 0
    BY <1>2
  <2> SUFFICES handled[l] < line[i] /\ (i > 1 => line[i - 1] < line[i])
    OBVIOUS
  <2> HIDE DEF s, h, line
  <2>4. CASE i = 1
    BY <2>2, <2>3, <2>4, <2>0
  <2>5. CASE i # 1
    <3>1. i - 1 \in DOMAIN s /\ i \in 2 .. Len(s) + 1 /\ line[i] = s[i - 1]
      BY <2>2, <2>5, <2>0
    <3>2. handled[l] < line[i]
      BY <3>1, <2>3
    <3>3. line[i - 1] < line[i]
      <4>1. CASE i = 2
        BY <4>1, <3>1, <2>2, <2>3
      <4>2. CASE i # 2
        <5>1. i - 1 \in 2 .. Len(s) + 1 /\ i - 2 \in DOMAIN s /\ (i - 1) - 1 = i - 2 /\ i - 2 < i - 1
          BY <4>2, <3>1, <2>2
        <5>2. line[i - 1] = s[i - 2]
          BY <5>1, <2>2
        <5> QED
          BY <5>1, <5>2, <3>1, <2>3
      <4> QED
        BY <4>1, <4>2
    <3> QED
      BY <3>2, <3>3
  <2> QED
    BY <2>4, <2>5
<1>3. ASSUME NEW l \in Listeners
      PROVE  /\ stream[l] \in Seq(1 .. MaxSlot)
             /\ (at[l] = "unused") <=> (pool[l] = None)
             /\ (hand[l] # 0) <=> (at[l] \in {"deciding", "delivering"})
  BY DEF StreamsInv, StreamsTyped, QueueOK, Busy
<1> QED
  BY <1>1, <1>2, <1>3 DEF TypeOK, StreamsInv, StreamsTyped, ListenerInv

\* A task that listen_pool spawned has a notification in hand exactly while it
\* decides on it, and takes those of its stream in order and none twice.
THEOREM ListenerTypeCorrect == Spec => []TypeOK
  BY StreamsInitInv, StreamsStepInv, StreamsInvMeans, PTL DEF Spec

-----------------------------------------------------------------------------
(***************************************************************************)
(* For any providers, mints and tasks: what the cache of the token mapping *)
(* says of a mint is the answer of the first provider that knows it and    *)
(* did not fail in the lookup that stored the entry.                       *)
(***************************************************************************)
\* The providers that would say what the id of m is, once those of f failed.
Answering(m, f) == {i \in DOMAIN Providers \ f : m \in DOMAIN Providers[i]}

\* An id has a cause if it is what the providers without f say of m.
Caused(m, id, f) ==
    IF Answering(m, f) = {} THEN id = NoId
    ELSE \E i \in Answering(m, f) :
            id = Providers[i][m] /\ \A j \in Answering(m, f) : i <= j

MappingPlaces == 1 .. Len(Providers) + 1

\* A lookup under way: the providers that it has asked failed, or do not know.
AskingOK(r) ==
    /\ r \in [at : {"asking"}, mint : MappedMints, next : MappingPlaces,
              failed : SUBSET DOMAIN Providers]
    /\ \A i \in r.failed : i < r.next
    /\ \A i \in DOMAIN Providers : i < r.next =>
          i \in r.failed \/ r.mint \notin DOMAIN Providers[i]

\* A lookup that has an id in hand, with its cause.
FoundOK(r) ==
    /\ r.at = "found"
    /\ r.mint \in MappedMints
    /\ r.failed \subseteq DOMAIN Providers
    /\ Caused(r.mint, r.id, r.failed)

LookupsOK ==
    /\ lookup = [k \in Askers |-> lookup[k]]
    /\ \A k \in Askers :
          lookup[k] = [at |-> "idle"] \/ AskingOK(lookup[k]) \/ FoundOK(lookup[k])

\* The entries, in the words of the lookups.
EntriesOK ==
    /\ DOMAIN ids \subseteq MappedMints /\ DOMAIN silent = DOMAIN ids
    /\ \A m \in DOMAIN ids :
          silent[m] \subseteq DOMAIN Providers /\ Caused(m, ids[m], silent[m])

MappingInv == LookupsOK /\ EntriesOK

LEMMA MappingInitInv == MappingInit => MappingInv
  BY DEF MappingInit, MappingInv, LookupsOK, EntriesOK

\* Storing an id that has a cause keeps the entries in order.
LEMMA MappingStoreInv ==
    ASSUME MappingInv, NEW k \in Askers, NEW id, Stores(k, id),
           lookup[k].mint \in MappedMints, lookup[k].failed \subseteq DOMAIN Providers,
           Caused(lookup[k].mint, id, lookup[k].failed)
    PROVE  MappingInv'
<1> DEFINE m == lookup[k].mint  f == lookup[k].failed
<1>1. LookupsOK'
  <2>1. lookup' = [lookup EXCEPT ![k] = [at |-> "idle"]]
    BY DEF Stores
  <2> QED
    BY <2>1 DEF MappingInv, LookupsOK, AskingOK, FoundOK
<1>2. /\ ids' = [n \in DOMAIN ids \cup {m} |-> IF n = m THEN id ELSE ids[n]]
      /\ silent' = [n \in DOMAIN ids \cup {m} |-> IF n = m THEN f ELSE silent[n]]
  BY DEF Stores, With, MappingInv, EntriesOK
<1>3. EntriesOK'
  <2>1. DOMAIN ids' = DOMAIN ids \cup {m} /\ DOMAIN silent' = DOMAIN ids'
    BY <1>2
  <2>2. ASSUME NEW n \in DOMAIN ids'
        PROVE  silent'[n] \subseteq DOMAIN Providers /\ Caused(n, ids'[n], silent'[n])
    <3>1. CASE n = m
      BY <3>1, <1>2
    <3>2. CASE n # m
      BY <3>2, <1>2, <2>1 DEF MappingInv, EntriesOK
    <3> QED
      BY <3>1, <3>2
  <2>3. \A n : \A i : \A g : Caused(n, i, g)' <=> Caused(n, i, g)
    BY DEF Caused, Answering
  <2> QED
    BY <2>1, <2>2 DEF EntriesOK, MappingInv, Caused, Answering
<1> QED
  BY <1>1, <1>3 DEF MappingInv

\* Every step of a lookup, and clear_cache at any time.
LEMMA MappingStepInv == MappingInv /\ [MappingNext]_mappingVars => MappingInv'
<1> SUFFICES ASSUME MappingInv, [MappingNext]_mappingVars
             PROVE  MappingInv'
  OBVIOUS
<1> USE MappingAssumption DEF MappingInv
\* A step of one lookup that leaves the entries alone.
<1>a. ASSUME NEW k \in Askers, NEW r, lookup' = [lookup EXCEPT ![k] = r],
             UNCHANGED <<ids, silent>>,
             r = [at |-> "idle"] \/ AskingOK(r) \/ FoundOK(r)
      PROVE  MappingInv'
  <2>1. LookupsOK'
    <3>1. lookup' = [j \in Askers |-> lookup'[j]]
      BY <1>a DEF LookupsOK
    <3>2. ASSUME NEW j \in Askers
          PROVE  lookup'[j] = [at |-> "idle"] \/ AskingOK(lookup'[j]) \/ FoundOK(lookup'[j])
      <4>1. CASE j = k
        <5>1. lookup'[j] = r
          BY <4>1, <1>a DEF LookupsOK
        <5> QED
          BY <5>1, <1>a
      <4>2. CASE j # k
        <5>1. lookup'[j] = lookup[j]
          BY <4>2, <1>a DEF LookupsOK
        <5> QED
          BY <5>1 DEF LookupsOK
      <4> QED
        BY <4>1, <4>2
    <3> QED
      BY <3>1, <3>2 DEF LookupsOK, AskingOK, FoundOK, Caused, Answering, MappingPlaces
  <2>2. EntriesOK'
    BY <1>a DEF EntriesOK, Caused, Answering
  <2> QED
    BY <2>1, <2>2
<1>b. ASSUME NEW k \in Askers, lookup[k].at = "asking"
      PROVE  AskingOK(lookup[k])
  BY <1>b DEF LookupsOK, FoundOK
<1>1. ASSUME NEW k \in Askers, NEW m \in MappedMints, GetTokenId(k, m)
      PROVE  MappingInv'
  <2>1. CASE m \in DOMAIN ids
    BY <1>1, <2>1 DEF GetTokenId, LookupsOK, EntriesOK, AskingOK, FoundOK, Caused, Answering, MappingPlaces
  <2>2. CASE m \notin DOMAIN ids
    <3> DEFINE r == [at |-> "asking", mint |-> m, next |-> 1, failed |-> {}]
    <3>1. AskingOK(r)
      BY DEF AskingOK, MappingPlaces
    <3>2. lookup' = [lookup EXCEPT ![k] = r] /\ UNCHANGED <<ids, silent>>
      BY <1>1, <2>2 DEF GetTokenId
    <3> QED
      BY <3>1, <3>2, <1>a
  <2> QED
    BY <2>1, <2>2
\* A provider has been asked in vain.
<1>c. ASSUME NEW k \in Askers, Asking(k), NEW f \in SUBSET {lookup[k].next}, Moves(k, f),
             lookup[k].next \in f \/ lookup[k].mint \notin DOMAIN Providers[lookup[k].next]
      PROVE  MappingInv'
  <2> DEFINE r == [lookup[k] EXCEPT !.next = @ + 1, !.failed = @ \cup f]
  <2>1. AskingOK(lookup[k]) /\ lookup[k].next \in DOMAIN Providers
    BY <1>b, <1>c DEF Asking
  <2>2. AskingOK(r)
    <3>1. r \in [at : {"asking"}, mint : MappedMints, next : MappingPlaces,
                 failed : SUBSET DOMAIN Providers]
      <4>1. lookup[k].next + 1 \in MappingPlaces
        BY <2>1 DEF AskingOK, MappingPlaces
      <4>2. lookup[k].failed \cup f \in SUBSET DOMAIN Providers
        BY <2>1, <1>c DEF AskingOK
      <4> QED
        BY <2>1, <4>1, <4>2 DEF AskingOK
    <3>2. /\ r.next = lookup[k].next + 1 /\ r.mint = lookup[k].mint
          /\ r.failed = lookup[k].failed \cup f
      BY <2>1 DEF AskingOK
    <3>3. ASSUME NEW i \in DOMAIN Providers, i < r.next
          PROVE  i \in r.failed \/ r.mint \notin DOMAIN Providers[i]
      <4>1. i < lookup[k].next \/ i = lookup[k].next
        BY <3>2, <3>3, <2>1 DEF AskingOK, MappingPlaces
      <4> QED
        BY <4>1, <3>2, <2>1, <1>c DEF AskingOK
    <3>4. \A i \in r.failed : i < r.next
      BY <3>2, <2>1, <1>c DEF AskingOK, Moves, MappingPlaces
    <3> QED
      BY <3>1, <3>3, <3>4 DEF AskingOK
  <2>3. lookup' = [lookup EXCEPT ![k] = r] /\ UNCHANGED <<ids, silent>>
    BY <1>c, <2>1 DEF Moves, LookupsOK, AskingOK
  <2> QED
    BY <2>2, <2>3, <1>a
<1>2. ASSUME NEW k \in Askers, ProviderKnows(k)
      PROVE  MappingInv'
  <2> DEFINE q == lookup[k]
             r == [at |-> "found", mint |-> q.mint, id |-> Said(k)[q.mint],
                   failed |-> q.failed]
  <2>1. AskingOK(q) /\ q.next \in DOMAIN Providers /\ q.mint \in DOMAIN Providers[q.next]
    BY <1>b, <1>2 DEF ProviderKnows, Asking, Said
  <2>2. q.next \in Answering(q.mint, q.failed)
    BY <2>1 DEF Answering, AskingOK, MappingPlaces
  <2>3. \A j \in Answering(q.mint, q.failed) : q.next <= j
    BY <2>1 DEF Answering, AskingOK, MappingPlaces
  <2>4. Caused(q.mint, Said(k)[q.mint], q.failed)
    BY <2>2, <2>3 DEF Caused, Said
  <2>5. FoundOK(r)
    BY <2>1, <2>4 DEF FoundOK, AskingOK
  <2>6. lookup' = [lookup EXCEPT ![k] = r] /\ UNCHANGED <<ids, silent>>
    BY <1>2 DEF ProviderKnows
  <2> QED
    BY <2>5, <2>6, <1>a
<1>3. ASSUME NEW k \in Askers, ProviderDoesNot(k)
      PROVE  MappingInv'
  BY <1>3, <1>c DEF ProviderDoesNot, Said
<1>4. ASSUME NEW k \in Askers, ProviderFails(k)
      PROVE  MappingInv'
  BY <1>4, <1>c DEF ProviderFails
<1>5. ASSUME NEW k \in Askers, StoreId(k)
      PROVE  MappingInv'
  <2>1. FoundOK(lookup[k])
    BY <1>5 DEF StoreId, LookupsOK, AskingOK
  <2> QED
    BY <2>1, <1>5, MappingStoreInv DEF StoreId, FoundOK
\* All providers have been asked, so those that did not fail do not know.
<1>6. ASSUME NEW k \in Askers, StoreNone(k)
      PROVE  MappingInv'
  <2> DEFINE q == lookup[k]
  <2>1. AskingOK(q) /\ q.next \notin DOMAIN Providers
    BY <1>b, <1>6 DEF StoreNone, Asking
  <2>2. \A i \in DOMAIN Providers : i < q.next
    BY <2>1 DEF AskingOK, MappingPlaces
  <2>3. Answering(q.mint, q.failed) = {}
    BY <2>1, <2>2 DEF Answering, AskingOK
  <2> QED
    BY <2>1, <2>3, <1>6, MappingStoreInv DEF StoreNone, Caused, AskingOK
<1>7. CASE ClearCache
  BY <1>7 DEF ClearCache, LookupsOK, EntriesOK, AskingOK, FoundOK, Caused, Answering, MappingPlaces
<1>8. CASE UNCHANGED mappingVars
  BY <1>8 DEF mappingVars, LookupsOK, EntriesOK, AskingOK, FoundOK, Caused, Answering, MappingPlaces
<1> QED
  BY <1>1, <1>2, <1>3, <1>4, <1>5, <1>6, <1>7, <1>8 DEF MappingNext, MappingQuiet

LEMMA MappingInvMeans == MappingInv => MappingTypeOK
  BY DEF MappingInv, LookupsOK, EntriesOK, AskingOK, FoundOK, MappingTypeOK

\* The tables and the lookups of the token mapping keep their types.
THEOREM MappingTypeCorrect == MappingSpec => []MappingTypeOK
  BY MappingInitInv, MappingStepInv, MappingInvMeans, PTL DEF MappingSpec

\* What is cached of a mint for good is what the first provider says that knows
\* it and did not fail in the lookup that stored the entry.
THEOREM CauseOfEntries == MappingSpec => []EntriesHaveACause
<1>1. MappingInv => EntriesHaveACause
  BY DEF MappingInv, EntriesOK, EntriesHaveACause, Caused, Answering
<1> QED
  BY MappingInitInv, MappingStepInv, <1>1, PTL DEF MappingSpec

-----------------------------------------------------------------------------
(***************************************************************************)
(* For any list of endpoints and any number of monitors: the type          *)
(* invariant, and that an endpoint with three errors is out of use unless  *)
(* the last that was heard of it is a rate limit.                          *)
(***************************************************************************)
\* The fields of the invariant that the counting of errors needs.
CountsOK ==
    /\ health \in [Ids -> Healths]
    /\ errors \in [Ids -> 0 .. Strikes]
    /\ lastFailure = [e \in Ids |-> lastFailure[e]]

\* What the monitors have heard: a round goes through the list in order.
RoundsOK ==
    /\ link \in [Ids -> Links]
    /\ monitoring \subseteq Monitors
    /\ round \in [Monitors -> Seq(Links)]
    /\ \A m \in Monitors : Len(round[m]) <= Len(Endpoints)

StrikesInv == CountsOK /\ RoundsOK /\ StrikesMeanUnhealthy

LEMMA IdsAreIndices == Ids = 1 .. Len(Endpoints) /\ Len(Endpoints) \in Nat
  BY RpcAssumption DEF Ids

LEMMA PlusInRange ==
    ASSUME NEW n \in 0 .. Strikes, NEW k \in {1, 2}
    PROVE  Plus(n, k) \in 0 .. Strikes
  BY DEF Plus, Strikes

LEMMA VerdictIsHealth == \A answer : Verdict(answer) \in Healths
  BY DEF Verdict, Healths

LEMMA InitStrikes == RpcInit => StrikesInv
<1> SUFFICES ASSUME RpcInit PROVE StrikesInv
  OBVIOUS
<1>1. CountsOK
  BY DEF RpcInit, CountsOK, Healths, Strikes
<1>2. RoundsOK
  BY IdsAreIndices DEF RpcInit, RoundsOK, Links
<1>3. StrikesMeanUnhealthy
  BY DEF RpcInit, StrikesMeanUnhealthy, Strikes
<1> QED
  BY <1>1, <1>2, <1>3 DEF StrikesInv

-----------------------------------------------------------------------------
\* A step that counts nothing.
LEMMA NothingCounted ==
    ASSUME StrikesInv, UNCHANGED <<health, errors, lastFailure>>
    PROVE  CountsOK' /\ StrikesMeanUnhealthy'
  BY DEF StrikesInv, CountsOK, StrikesMeanUnhealthy, Usable

LEMMA StepStrikes == StrikesInv /\ [RpcNext]_rpcVars => StrikesInv'
<1> SUFFICES ASSUME StrikesInv, [RpcNext]_rpcVars
             PROVE  StrikesInv'
  OBVIOUS
<1>0. CountsOK /\ RoundsOK /\ StrikesMeanUnhealthy
  BY DEF StrikesInv
<1>1. ASSUME NEW m \in Monitors, StartMonitoring(m)
      PROVE  StrikesInv'
  <2>1. RoundsOK'
    BY <1>0, <1>1 DEF StartMonitoring, RoundsOK
  <2> QED
    BY <1>1, <2>1, NothingCounted DEF StartMonitoring, StrikesInv
<1>2. ASSUME NEW m \in Monitors, Check(m)
      PROVE  StrikesInv'
  <2> DEFINE sofar == round[m]
  <2>1. sofar \in Seq(Links) /\ Len(sofar) + 1 \in Ids
    BY <1>0, <1>2, IdsAreIndices DEF RoundsOK, Check
  <2>2. link[Len(sofar) + 1] \in Links
    BY <1>0, <2>1 DEF RoundsOK
  <2>3. round' = [round EXCEPT ![m] = Append(sofar, link[Len(sofar) + 1])]
    BY <1>2 DEF Check
  <2>4. /\ Append(sofar, link[Len(sofar) + 1]) \in Seq(Links)
        /\ Len(Append(sofar, link[Len(sofar) + 1])) <= Len(Endpoints)
    BY <1>2, <2>1, <2>2, IdsAreIndices DEF Check
  <2>5. RoundsOK'
    BY <1>0, <1>2, <2>3, <2>4 DEF RoundsOK, Check
  <2> QED
    BY <1>2, <2>5, NothingCounted DEF Check, StrikesInv
\* Whoever is one error worse off has not answered, and so is unhealthy.
<1>3. ASSUME NEW m \in Monitors, Apply(m)
      PROVE  StrikesInv'
  <2>1. RoundsOK'
    BY <1>0, <1>3, IdsAreIndices DEF Apply, RoundsOK
  <2>2. CountsOK'
    <3>1. \A e \in Ids : Plus(errors[e], 1) \in 0 .. Strikes
      BY <1>0, PlusInRange DEF CountsOK
    <3>2. errors' \in [Ids -> 0 .. Strikes]
      BY <1>3, <3>1 DEF Apply, Strikes
    <3>3. health' \in [Ids -> Healths]
      BY <1>3, VerdictIsHealth DEF Apply
    <3> QED
      BY <1>3, <3>2, <3>3 DEF Apply, CountsOK
  <2>3. StrikesMeanUnhealthy'
    BY <1>3 DEF Apply, StrikesMeanUnhealthy, Usable, Verdict, Strikes
  <2> QED
    BY <2>1, <2>2, <2>3 DEF StrikesInv
<1>4. ASSUME NEW e \in Ids, RecordRpcResult(e)
      PROVE  StrikesInv'
  <2>1. /\ errors' = [errors EXCEPT ![e] = Plus(errors[e], 1)]
        /\ health' = [health EXCEPT ![e] =
                IF errors'[e] >= Strikes THEN "Unhealthy"
                ELSE IF errors'[e] = 1 /\ health[e] = "Healthy" THEN "Degraded"
                ELSE health[e]]
        /\ lastFailure' = [lastFailure EXCEPT ![e] = "result"]
        /\ UNCHANGED <<monitoring, round, link>>
    BY <1>4 DEF RecordRpcResult
  <2>2. RoundsOK'
    BY <1>0, <2>1 DEF RoundsOK
  <2>3. CountsOK'
    <3>1. Plus(errors[e], 1) \in 0 .. Strikes
      BY <1>0, PlusInRange DEF CountsOK
    <3> QED
      BY <1>0, <2>1, <3>1 DEF CountsOK, Healths
  <2>4. StrikesMeanUnhealthy'
    BY <1>0, <2>1 DEF CountsOK, StrikesMeanUnhealthy, Usable
  <2> QED
    BY <2>2, <2>3, <2>4 DEF StrikesInv
\* Two errors at once, or a rate limit.
<1>5. ASSUME NEW e \in Ids, NEW kind \in {"RateLimited", "NodeUnhealthy", "NetworkTimeout"},
             ClassifyAndRecordError(e, kind)
      PROVE  StrikesInv'
  <2> DEFINE more == IF kind = "RateLimited" THEN 1 ELSE 2
             after == IF kind = "RateLimited" THEN "Degraded" ELSE "Unhealthy"
  <2>1. /\ errors' = [errors EXCEPT ![e] = Plus(errors[e], more)]
        /\ health' = [health EXCEPT ![e] = after]
        /\ lastFailure' = [lastFailure EXCEPT ![e] = kind]
        /\ UNCHANGED <<monitoring, round, link>>
    BY <1>5 DEF ClassifyAndRecordError
  <2>2. RoundsOK'
    BY <1>0, <2>1 DEF RoundsOK
  <2>3. CountsOK'
    <3>1. Plus(errors[e], more) \in 0 .. Strikes
      BY <1>0, PlusInRange DEF CountsOK
    <3>2. after \in Healths
      BY DEF Healths
    <3> HIDE DEF more, after
    <3> QED
      BY <1>0, <2>1, <3>1, <3>2 DEF CountsOK
  <2>4. StrikesMeanUnhealthy'
    BY <1>0, <2>1 DEF CountsOK, StrikesMeanUnhealthy, Usable
  <2> QED
    BY <2>2, <2>3, <2>4 DEF StrikesInv
<1>6. ASSUME NEW e \in Ids, NEW answer \in Links, LinkChanges(e, answer)
      PROVE  StrikesInv'
  <2>1. RoundsOK'
    BY <1>0, <1>6 DEF LinkChanges, RoundsOK
  <2> QED
    BY <1>6, <2>1, NothingCounted DEF LinkChanges, StrikesInv
<1>7. CASE UNCHANGED rpcVars
  BY <1>0, <1>7, NothingCounted DEF rpcVars, RoundsOK, StrikesInv
<1> QED
  BY <1>1, <1>2, <1>3, <1>4, <1>5, <1>6, <1>7 DEF RpcNext

LEMMA AlwaysStrikes == RpcSpec => []StrikesInv
  BY InitStrikes, StepStrikes, PTL DEF RpcSpec

-----------------------------------------------------------------------------
LEMMA StrikesInvMeans == StrikesInv => RpcTypeOK
  BY DEF StrikesInv, CountsOK, RoundsOK, RpcTypeOK

\* Health, errors and rounds keep to their kinds.
THEOREM RpcTypeCorrect == RpcSpec => []RpcTypeOK
  BY StrikesInvMeans, AlwaysStrikes, PTL

\* Three strikes take an endpoint out of use (record_rpc_result, the monitor and
\* classify_and_record_error), and only a rate limit brings one back unasked.
THEOREM StrikesCount == RpcSpec => []StrikesMeanUnhealthy
<1>1. StrikesInv => StrikesMeanUnhealthy
  BY DEF StrikesInv
<1> QED
  BY <1>1, AlwaysStrikes, PTL

-----------------------------------------------------------------------------
TierSet == 0 .. 2

LEMMA TiersAreSmall == \A e \in Ids : TierOf(e) \in TierSet
  BY DEF TierOf, Tier, TierSet

\* Among the usable ones there is one that is preferred to all: a healthy one if
\* there is any, then one of the best tier, then the first of those.
LEMMA BestExists ==
    ASSUME RpcTypeOK, Usable # {}
    PROVE  \E e \in Usable : \A d \in Usable : Preferred(e, d)
<1> DEFINE Well == {e \in Usable : health[e] = "Healthy"}
           Candidates == IF Well # {} THEN Well ELSE Usable
           Least == {TierOf(e) : e \in Candidates}
<1>1. /\ Usable \subseteq Ids /\ Ids \subseteq Nat
      /\ Candidates \subseteq Usable /\ Candidates # {}
  BY IdsAreIndices DEF Usable
<1>2. \A d \in Usable :
         \/ d \in Candidates
         \/ health[d] # "Healthy" /\ \A e \in Candidates : health[e] = "Healthy"
  OBVIOUS
<1>3. \A d, e \in Candidates :
         (health[d] = "Healthy") <=> (health[e] = "Healthy")
  OBVIOUS
<1> HIDE DEF Candidates
<1>4. Least \in SUBSET Nat /\ Least # {}
  <2>1. \A e \in Candidates : TierOf(e) \in Nat
    BY <1>1, TiersAreSmall DEF TierSet
  <2>2. PICK e \in Candidates : TRUE
    BY <1>1
  <2>3. TierOf(e) \in Least
    BY <2>2
  <2> QED
    BY <2>1, <2>3
<1>5. PICK t \in Least : \A u \in Least : t <= u
  <2> HIDE DEF Least
  <2> QED
    BY <1>4, LeastExists
<1> DEFINE Firsts == {e \in Candidates : TierOf(e) = t}
<1>6. Firsts \in SUBSET Nat /\ Firsts # {}
  BY <1>1, <1>5
<1>7. PICK best \in Firsts : \A e \in Firsts : best <= e
  <2> HIDE DEF Firsts
  <2> QED
    BY <1>6, LeastExists
<1>8. best \in Candidates /\ TierOf(best) = t /\ best \in Usable
  BY <1>1, <1>7
<1>9. ASSUME NEW d \in Usable
      PROVE  Preferred(best, d)
  <2>1. CASE d \in Candidates
    <3>1. (health[best] = "Healthy") <=> (health[d] = "Healthy")
      BY <1>3, <1>8, <2>1
    <3>2. TierOf(d) \in Least
      BY <2>1
    <3>3. t <= TierOf(d) /\ t \in Nat /\ TierOf(d) \in Nat
      BY <1>4, <1>5, <3>2
    <3>4. CASE TierOf(d) = t
      BY <1>7, <1>8, <2>1, <3>1, <3>4 DEF Preferred
    <3>5. CASE TierOf(d) # t
      BY <1>8, <3>1, <3>3, <3>5 DEF Preferred
    <3> QED
      BY <3>4, <3>5
  <2>2. CASE d \notin Candidates
    BY <1>2, <1>8, <2>2 DEF Preferred
  <2> QED
    BY <2>1, <2>2
<1> QED
  BY <1>8, <1>9

\* What is chosen is one that is preferred to all, and that means it serves.
LEMMA BestServes == RpcTypeOK => OptimalServes
<1> SUFFICES ASSUME RpcTypeOK, Usable # {}
             PROVE  /\ GetOptimalRpc \in Usable
                    /\ (\E e \in Ids : health[e] = "Healthy")
                           => health[GetOptimalRpc] = "Healthy"
                    /\ \A e \in Usable : health[e] = health[GetOptimalRpc]
                           => TierOf(GetOptimalRpc) <= TierOf(e)
  BY DEF OptimalServes
<1> DEFINE best == GetHealthyClient
<1>1. best \in Usable /\ \A d \in Usable : Preferred(best, d)
  BY BestExists DEF GetHealthyClient
<1>2. best \in Ids /\ best # 0
  BY <1>1, IdsAreIndices DEF Usable
<1>3. GetOptimalRpc = best
  BY <1>2 DEF GetOptimalRpc
<1> HIDE DEF best
<1>4. ASSUME NEW e \in Ids, health[e] = "Healthy"
      PROVE  health[best] = "Healthy"
  <2>1. e \in Usable
    BY <1>4 DEF Usable
  <2>2. Preferred(best, e)
    BY <1>1, <2>1
  <2> QED
    BY <1>4, <2>2 DEF Preferred
<1>5. ASSUME NEW e \in Usable, health[e] = health[best]
      PROVE  TierOf(best) <= TierOf(e)
  <2>1. Preferred(best, e)
    BY <1>1
  <2>2. TierOf(best) \in Nat /\ TierOf(e) \in Nat
    BY <1>2, TiersAreSmall DEF Usable, TierSet
  <2> QED
    BY <1>5, <2>1, <2>2 DEF Preferred
<1> QED
  BY <1>1, <1>3, <1>4, <1>5

\* get_optimal_rpc and get_healthy_client (select by health, then by tier): for any
\* list of endpoints, a usable one if there is any, a healthy one if there is any,
\* and none of a better tier is as healthy.
THEOREM OptimalServesAlways == RpcSpec => []OptimalServes
  BY BestServes, RpcTypeCorrect, PTL

(***************************************************************************)
(* The ranked choice, in the steps of get_ranked_rpc_endpoints: the tiers  *)
(* part the candidates, the quota and the spill part each tier, and of the *)
(* six lists in a row the first ones are taken.                            *)
(***************************************************************************)
\* Who is among the first n.
LEMMA FirstOfRange ==
    ASSUME NEW S, NEW s \in Seq(S), NEW n \in Nat
    PROVE  Range(FirstOf(s, n)) = {s[i] : i \in {i \in 1 .. Len(s) : i <= n}}
<1>1. Len(s) \in Nat /\ \A i \in 1 .. Len(s) : s[i] \in S
  BY LenProperties
<1> DEFINE k == IF n < Len(s) THEN n ELSE Len(s)
<1>2. k \in Nat /\ k \in Int /\ {i \in 1 .. Len(s) : i <= n} = 1 .. k
      /\ \A i \in 1 .. k : s[i] \in S
  BY <1>1
<1>3. FirstOf(s, n) = SubSeq(s, 1, k)
  BY DEF FirstOf
<1> HIDE DEF k
<1>4. /\ SubSeq(s, 1, k) \in Seq(S)
      /\ Len(SubSeq(s, 1, k)) = IF 1 <= k THEN k - 1 + 1 ELSE 0
      /\ \A i \in 1 .. k - 1 + 1 : SubSeq(s, 1, k)[i] = s[1 + i - 1]
  BY <1>2, SubSeqProperties
<1>5. DOMAIN SubSeq(s, 1, k) = 1 .. k
  <2>1. DOMAIN SubSeq(s, 1, k) = 1 .. Len(SubSeq(s, 1, k))
    BY <1>4, LenProperties
  <2> QED
    BY <1>2, <1>4, <2>1
<1>6. \A i \in 1 .. k : SubSeq(s, 1, k)[i] = s[i]
  BY <1>2, <1>4
<1> QED
  BY <1>2, <1>3, <1>5, <1>6 DEF Range

\* One more element leaves a list without repetition.
LEMMA AppendDistinct ==
    ASSUME NEW S, NEW s \in Seq(S), NEW x \in S, IsInjective(s), x \notin Range(s)
    PROVE  /\ IsInjective(Append(s, x))
           /\ Range(Append(s, x)) = Range(s) \cup {x}
<1>1. Len(s) \in Nat /\ DOMAIN s = 1 .. Len(s)
  BY LenProperties
<1>2. /\ DOMAIN Append(s, x) = 1 .. Len(s) + 1
      /\ \A i \in 1 .. Len(s) : Append(s, x)[i] = s[i]
      /\ Append(s, x)[Len(s) + 1] = x
  BY <1>1
<1> QED
  BY <1>1, <1>2 DEF IsInjective, Range

\* The first of a list and the rest are lists that part it.
LEMMA Parted ==
    ASSUME NEW S, NEW s \in Seq(S), IsInjective(s), NEW n \in Nat
    PROVE  /\ FirstOf(s, n) \in Seq(S) /\ RestOf(s, n) \in Seq(S)
           /\ IsInjective(FirstOf(s, n)) /\ IsInjective(RestOf(s, n))
           /\ Range(FirstOf(s, n)) \cup Range(RestOf(s, n)) = Range(s)
           /\ Range(FirstOf(s, n)) \cap Range(RestOf(s, n)) = {}
           /\ Len(FirstOf(s, n)) = IF n < Len(s) THEN n ELSE Len(s)
           /\ Range(RestOf(s, n)) # {} => n < Len(s)
<1>1. Len(s) \in Nat /\ DOMAIN s = 1 .. Len(s) /\ \A i \in 1 .. Len(s) : s[i] \in S
  BY LenProperties
<1> DEFINE k == IF n < Len(s) THEN n ELSE Len(s)
<1>2. k \in 0 .. Len(s) /\ k \in Int /\ n + 1 \in Int /\ Len(s) \in Int
  BY <1>1
<1>3. /\ FirstOf(s, n) \in Seq(S) /\ Len(FirstOf(s, n)) = k
      /\ \A i \in 1 .. k : FirstOf(s, n)[i] = s[i]
  <2>1. \A i \in 1 .. k : s[i] \in S
    BY <1>1, <1>2
  <2>2. FirstOf(s, n) = SubSeq(s, 1, k)
    BY DEF FirstOf
  <2> HIDE DEF k
  <2>3. /\ SubSeq(s, 1, k) \in Seq(S)
        /\ Len(SubSeq(s, 1, k)) = IF 1 <= k THEN k - 1 + 1 ELSE 0
        /\ \A i \in 1 .. k - 1 + 1 : SubSeq(s, 1, k)[i] = s[1 + i - 1]
    BY <1>2, <2>1, SubSeqProperties
  <2> QED
    BY <1>2, <2>2, <2>3
<1>4. /\ RestOf(s, n) \in Seq(S) /\ Len(RestOf(s, n)) = IF n < Len(s) THEN Len(s) - n ELSE 0
      /\ \A i \in 1 .. Len(s) - n : RestOf(s, n)[i] = s[n + i]
  <2>1. \A i \in n + 1 .. Len(s) : s[i] \in S
    BY <1>1, <1>2
  <2>2. RestOf(s, n) = SubSeq(s, n + 1, Len(s))
    BY DEF RestOf
  <2>3. /\ SubSeq(s, n + 1, Len(s)) \in Seq(S)
        /\ Len(SubSeq(s, n + 1, Len(s))) =
              IF n + 1 <= Len(s) THEN Len(s) - (n + 1) + 1 ELSE 0
        /\ \A i \in 1 .. Len(s) - (n + 1) + 1 :
              SubSeq(s, n + 1, Len(s))[i] = s[n + 1 + i - 1]
    BY <1>2, <2>1, SubSeqProperties
  <2>4. \A i \in 1 .. Len(s) - n : i \in 1 .. Len(s) - (n + 1) + 1 /\ n + 1 + i - 1 = n + i
    BY <1>1
  <2> QED
    BY <1>1, <2>2, <2>3, <2>4
<1>5. DOMAIN FirstOf(s, n) = 1 .. k
  BY <1>3, LenProperties
<1> DEFINE m == Len(RestOf(s, n))
<1>6. m \in Nat /\ DOMAIN RestOf(s, n) = 1 .. m
  BY <1>4, LenProperties
<1> DEFINE f == FirstOf(s, n)
           r == RestOf(s, n)
<1>7. /\ DOMAIN f = 1 .. k /\ \A i \in 1 .. k : f[i] = s[i]
      /\ DOMAIN r = 1 .. m /\ m = IF n < Len(s) THEN Len(s) - n ELSE 0
      /\ \A i \in 1 .. m : r[i] = s[n + i] /\ n + i \in 1 .. Len(s) /\ n + i > k
      /\ \A i \in 1 .. Len(s) : i > k => i - n \in 1 .. m /\ n + (i - n) = i
  BY <1>1, <1>2, <1>3, <1>4, <1>5, <1>6
<1> HIDE DEF f, r, k, m
<1>12. k \in Nat /\ k <= Len(s)
  BY <1>2, <1>1
<1>13. \A i \in 1 .. k : i \in 1 .. Len(s)
  BY <1>1, <1>12
<1>14. \A i \in 1 .. k, j \in 1 .. m : i # n + j
  BY <1>6, <1>7, <1>12
<1>15. \A i, j \in 1 .. m : n + i = n + j => i = j
  BY <1>6
<1>8. IsInjective(f) /\ IsInjective(r)
  <2>1. \A i, j \in 1 .. Len(s) : s[i] = s[j] => i = j
    BY <1>1 DEF IsInjective
  <2>2. \A i, j \in 1 .. k : f[i] = f[j] => i = j
    BY <1>7, <1>13, <1>14, <1>15, <2>1
  <2>3. \A i, j \in 1 .. m : r[i] = r[j] => i = j
    BY <1>7, <1>13, <1>14, <1>15, <2>1
  <2> QED
    BY <1>7, <2>2, <2>3 DEF IsInjective
<1>9. Range(f) \cup Range(r) = Range(s)
  <2>1. Range(f) \subseteq Range(s)
    <3>1. \A i \in DOMAIN f : i \in DOMAIN s /\ f[i] = s[i]
      BY <1>1, <1>7, <1>13
    <3> QED
      BY <3>1 DEF Range
  <2>4. Range(r) \subseteq Range(s)
    <3>1. \A i \in DOMAIN r : n + i \in DOMAIN s /\ r[i] = s[n + i]
      BY <1>1, <1>7
    <3> QED
      BY <3>1 DEF Range
  <2>2. ASSUME NEW i \in 1 .. Len(s) PROVE s[i] \in Range(f) \cup Range(r)
    <3>1. CASE i \in 1 .. k
      <4>1. f[i] = s[i] /\ i \in DOMAIN f
        BY <1>7, <3>1
      <4> QED
        BY <4>1 DEF Range
    <3>2. CASE i > k
      <4>1. i - n \in DOMAIN r /\ r[i - n] = s[i]
        BY <1>7, <3>2
      <4> QED
        BY <4>1 DEF Range
    <3>3. i \in 1 .. k \/ i > k
      BY <1>1, <1>2
    <3> QED
      BY <3>1, <3>2, <3>3
  <2> QED
    BY <1>1, <2>1, <2>2, <2>4 DEF Range
<1>10. Range(f) \cap Range(r) = {}
  <2>1. \A i, j \in 1 .. Len(s) : s[i] = s[j] => i = j
    BY <1>1 DEF IsInjective
  <2>2. ASSUME NEW i \in 1 .. k, NEW j \in 1 .. m PROVE f[i] # r[j]
    BY <1>7, <1>13, <1>14, <1>15, <2>1
  <2> QED
    BY <1>7, <2>2 DEF Range
<1>11. Range(r) # {} => n < Len(s)
  <2>1. CASE n < Len(s)
    BY <2>1
  <2>2. CASE ~(n < Len(s))
    <3>1. m = 0 /\ DOMAIN r = {}
      BY <1>7, <2>2
    <3> QED
      BY <3>1 DEF Range
  <2> QED
    BY <2>1, <2>2
<1> QED
  BY <1>3, <1>4, <1>8, <1>9, <1>10, <1>11 DEF f, r, k

\* Two lists with nothing in common make one without repetition.
LEMMA Joined ==
    ASSUME NEW S, NEW a \in Seq(S), NEW b \in Seq(S),
           IsInjective(a), IsInjective(b), Range(a) \cap Range(b) = {}
    PROVE  /\ a \o b \in Seq(S)
           /\ IsInjective(a \o b)
           /\ Range(a \o b) = Range(a) \cup Range(b)
<1>1. /\ Len(a) \in Nat /\ DOMAIN a = 1 .. Len(a)
      /\ Len(b) \in Nat /\ DOMAIN b = 1 .. Len(b)
  BY LenProperties
<1> DEFINE c == a \o b
<1>2. /\ c \in Seq(S) /\ Len(c) = Len(a) + Len(b)
      /\ \A i \in 1 .. Len(a) + Len(b) :
            c[i] = IF i <= Len(a) THEN a[i] ELSE b[i - Len(a)]
  BY ConcatProperties
<1> HIDE DEF c
<1>3. DOMAIN c = 1 .. Len(a) + Len(b)
  BY <1>2, LenProperties
<1>4. ASSUME NEW i \in 1 .. Len(a) PROVE i \in DOMAIN c /\ c[i] = a[i]
  <2>1. i \in 1 .. Len(a) + Len(b) /\ i <= Len(a)
    BY <1>1
  <2> QED
    BY <1>2, <1>3, <2>1
<1>5. ASSUME NEW j \in 1 .. Len(b)
      PROVE  Len(a) + j \in DOMAIN c /\ c[Len(a) + j] = b[j]
  <2>1. Len(a) + j \in 1 .. Len(a) + Len(b)
    BY <1>1
  <2>2. ~(Len(a) + j <= Len(a)) /\ (Len(a) + j) - Len(a) = j
    BY <1>1
  <2>3. c[Len(a) + j] = IF Len(a) + j <= Len(a) THEN a[Len(a) + j]
                        ELSE b[(Len(a) + j) - Len(a)]
    BY <1>2, <2>1
  <2> QED
    BY <1>3, <2>1, <2>2, <2>3
<1>6. ASSUME NEW i \in DOMAIN c
      PROVE  \/ i \in 1 .. Len(a)
             \/ i - Len(a) \in 1 .. Len(b) /\ c[i] = b[i - Len(a)]
  <2>1. i \in 1 .. Len(a) + Len(b)
    BY <1>3
  <2>2. i \in 1 .. Len(a) \/ (~(i <= Len(a)) /\ i - Len(a) \in 1 .. Len(b))
    BY <1>1, <2>1
  <2>3. c[i] = IF i <= Len(a) THEN a[i] ELSE b[i - Len(a)]
    BY <1>2, <2>1
  <2> QED
    BY <2>2, <2>3
<1>7. Range(c) = Range(a) \cup Range(b)
  <2>1. Range(c) \subseteq Range(a) \cup Range(b)
    BY <1>1, <1>4, <1>6 DEF Range
  <2>2. Range(a) \subseteq Range(c)
    BY <1>1, <1>4 DEF Range
  <2>3. Range(b) \subseteq Range(c)
    BY <1>1, <1>5 DEF Range
  <2> QED
    BY <2>1, <2>2, <2>3
<1>8. IsInjective(c)
  <2> SUFFICES ASSUME NEW i \in DOMAIN c, NEW j \in DOMAIN c, c[i] = c[j]
               PROVE  i = j
    BY DEF IsInjective
  <2>1. i \in Nat /\ j \in Nat
    BY <1>1, <1>3
  <2>2. CASE i \in 1 .. Len(a) /\ j \in 1 .. Len(a)
    BY <1>1, <1>4, <2>2 DEF IsInjective
  <2>3. CASE i \notin 1 .. Len(a) /\ j \notin 1 .. Len(a)
    <3>1. i - Len(a) = j - Len(a)
      BY <1>1, <1>6, <2>3 DEF IsInjective
    <3> QED
      BY <1>1, <2>1, <3>1
  <2>6. ASSUME NEW x \in DOMAIN c, NEW y \in DOMAIN c,
               x \in 1 .. Len(a), y \notin 1 .. Len(a)
        PROVE  c[x] # c[y]
    <3>1. c[x] \in Range(a)
      BY <1>1, <1>4, <2>6 DEF Range
    <3>2. c[y] \in Range(b)
      BY <1>1, <1>6, <2>6 DEF Range
    <3> QED
      BY <3>1, <3>2
  <2>4. CASE i \in 1 .. Len(a) /\ j \notin 1 .. Len(a)
    BY <2>4, <2>6
  <2>5. CASE i \notin 1 .. Len(a) /\ j \in 1 .. Len(a)
    BY <2>5, <2>6
  <2> QED
    BY <2>2, <2>3, <2>4, <2>5
<1> QED
  BY <1>2, <1>7, <1>8 DEF c

\* Nothing of the second list is among the first n before all of the first is.
LEMMA FirstOfJoined ==
    ASSUME NEW S, NEW a \in Seq(S), NEW b \in Seq(S), NEW n \in Nat,
           Range(a) \cap Range(b) = {}
    PROVE  /\ Range(FirstOf(a, n)) \subseteq Range(FirstOf(a \o b, n))
           /\ Range(FirstOf(a \o b, n)) \subseteq Range(FirstOf(a, n)) \cup Range(b)
           /\ Range(FirstOf(a \o b, n)) \cap Range(b) # {} =>
                 Range(a) \subseteq Range(FirstOf(a \o b, n))
<1>1. /\ Len(a) \in Nat /\ DOMAIN a = 1 .. Len(a)
      /\ Len(b) \in Nat /\ DOMAIN b = 1 .. Len(b)
  BY LenProperties
<1> DEFINE c == a \o b
<1>2. /\ c \in Seq(S) /\ Len(c) = Len(a) + Len(b)
      /\ \A i \in 1 .. Len(a) + Len(b) :
            c[i] = IF i <= Len(a) THEN a[i] ELSE b[i - Len(a)]
  BY ConcatProperties
<1> HIDE DEF c
<1>3. Len(c) \in Nat
  BY <1>1, <1>2
<1>4. ASSUME NEW s \in Seq(S)
      PROVE  Range(FirstOf(s, n)) = {s[i] : i \in {i \in 1 .. Len(s) : i <= n}}
  BY <1>4, FirstOfRange
<1> DEFINE A == {i \in 1 .. Len(a) : i <= n}
           C == {i \in 1 .. Len(c) : i <= n}
<1>5. Range(FirstOf(a, n)) = {a[i] : i \in A} /\ Range(FirstOf(c, n)) = {c[i] : i \in C}
  BY <1>2, <1>4
<1>6. ASSUME NEW i \in A PROVE i \in C /\ c[i] = a[i]
  <2>1. i \in 1 .. Len(a) + Len(b) /\ i <= Len(a) /\ i <= n
    BY <1>1
  <2> QED
    BY <1>2, <2>1
<1>7. ASSUME NEW i \in C, i \notin A
      PROVE  /\ \A j \in 1 .. Len(a) : j \in A
             /\ i - Len(a) \in 1 .. Len(b) /\ c[i] = b[i - Len(a)]
  <2>1. i \in 1 .. Len(a) + Len(b) /\ i <= n /\ ~(i <= Len(a))
    BY <1>1, <1>2, <1>7
  <2>2. \A j \in 1 .. Len(a) : j <= n
    BY <1>1, <2>1
  <2>3. i - Len(a) \in 1 .. Len(b)
    BY <1>1, <2>1
  <2>4. c[i] = IF i <= Len(a) THEN a[i] ELSE b[i - Len(a)]
    BY <1>2, <2>1
  <2> QED
    BY <2>1, <2>2, <2>3, <2>4
<1> HIDE DEF A, C
<1>8. {a[i] : i \in A} \subseteq {c[i] : i \in C}
  BY <1>6
<1>9. {c[i] : i \in C} \subseteq {a[i] : i \in A} \cup Range(b)
  BY <1>1, <1>6, <1>7 DEF Range
<1>10. ASSUME {c[i] : i \in C} \cap Range(b) # {}
       PROVE  Range(a) \subseteq {c[i] : i \in C}
  <2>1. PICK i \in C : c[i] \in Range(b)
    BY <1>10
  <2>2. i \notin A
    <3>1. A \subseteq DOMAIN a
      BY <1>1 DEF A
    <3>2. \A k \in A : a[k] \in Range(a)
      BY <3>1 DEF Range
    <3> QED
      BY <1>6, <2>1, <3>2
  <2>3. \A j \in DOMAIN a : j \in A
    BY <1>1, <1>7, <2>1, <2>2
  <2> QED
    BY <1>6, <2>3 DEF Range
<1> QED
  BY <1>5, <1>8, <1>9, <1>10 DEF c

\* A set of naturals that has zero and every successor has them all.
LEMMA Reaches ==
    ASSUME NEW T, 0 \in T, \A n \in Nat : n \in T => n + 1 \in T
    PROVE  \A n \in Nat : n \in T
<1> SUFFICES ASSUME Nat \ T # {} PROVE FALSE
  OBVIOUS
<1>1. PICK x \in Nat \ T : \A y \in Nat \ T : x <= y
  <2> DEFINE U == Nat \ T
  <2>1. U \in SUBSET Nat /\ U # {}
    OBVIOUS
  <2> HIDE DEF U
  <2>2. \E x \in U : \A y \in U : x <= y
    BY <2>1, LeastExists
  <2> QED
    BY <2>2 DEF U
<1>2. x # 0 /\ x - 1 \in Nat /\ (x - 1) + 1 = x
  BY <1>1
<1>3. x - 1 \in T
  BY <1>1, <1>2
<1> QED
  BY <1>1, <1>2, <1>3

\* One step of the partition by tiers.
PartStep(order, tier, g, n) ==
    IF n = 0 THEN <<>>
    ELSE IF TierOf(order[n]) = tier THEN Append(g[n - 1], order[n])
    ELSE g[n - 1]

\* The partition is defined for every list.
LEMMA PartitionExists ==
    ASSUME NEW order, NEW tier, NEW m \in Nat
    PROVE  \E g : g = [n \in 0 .. m |-> PartStep(order, tier, g, n)]
<1> DEFINE T == {k \in Nat : \E g : g = [n \in 0 .. k |-> PartStep(order, tier, g, n)]}
<1>1. 0 \in T
  <2> DEFINE g == [n \in 0 .. 0 |-> <<>>]
  <2>1. g = [n \in 0 .. 0 |-> PartStep(order, tier, g, n)]
    BY DEF PartStep
  <2> QED
    BY <2>1
<1>2. ASSUME NEW k \in Nat, k \in T PROVE k + 1 \in T
  <2>1. PICK g : g = [n \in 0 .. k |-> PartStep(order, tier, g, n)]
    BY <1>2
  <2> DEFINE h == [n \in 0 .. k + 1 |->
                      IF n = k + 1 THEN PartStep(order, tier, g, n) ELSE g[n]]
  <2>2. ASSUME NEW n \in 0 .. k + 1
        PROVE  h[n] = PartStep(order, tier, h, n)
    <3>1. n # 0 => n - 1 \in 0 .. k /\ h[n - 1] = g[n - 1]
      OBVIOUS
    <3>2. PartStep(order, tier, h, n) = PartStep(order, tier, g, n)
      BY <3>1 DEF PartStep
    <3>3. n # k + 1 => n \in 0 .. k /\ h[n] = g[n]
      OBVIOUS
    <3>4. n \in 0 .. k => g[n] = PartStep(order, tier, g, n)
      BY <2>1
    <3>5. n = k + 1 => h[n] = PartStep(order, tier, g, n)
      OBVIOUS
    <3> HIDE DEF h
    <3> QED
      BY <3>2, <3>3, <3>4, <3>5
  <2>3. h = [n \in 0 .. k + 1 |-> h[n]]
    OBVIOUS
  <2>4. h = [n \in 0 .. k + 1 |-> PartStep(order, tier, h, n)]
    <3> HIDE DEF h
    <3> QED
      BY <2>2, <2>3
  <2> HIDE DEF h
  <2> QED
    BY <2>4
<1>3. \A n \in Nat : n \in T
  <2> HIDE DEF T
  <2> QED
    BY <1>1, <1>2, Reaches
<1> QED
  BY <1>3

\* What the partition gives of a list without repetition.
LEMMA OfTierIs ==
    ASSUME NEW S, NEW order \in Seq(S), IsInjective(order), NEW tier
    PROVE  /\ OfTier(order, tier) \in Seq(S)
           /\ IsInjective(OfTier(order, tier))
           /\ Range(OfTier(order, tier)) = {e \in Range(order) : TierOf(e) = tier}
<1>1. Len(order) \in Nat /\ DOMAIN order = 1 .. Len(order)
      /\ \A n \in 1 .. Len(order) : order[n] \in S
  BY LenProperties
<1> DEFINE among == CHOOSE g : g = [n \in 0 .. Len(order) |->
                        IF n = 0 THEN <<>>
                        ELSE IF TierOf(order[n]) = tier THEN Append(g[n - 1], order[n])
                        ELSE g[n - 1]]
<1>2. among = [n \in 0 .. Len(order) |-> PartStep(order, tier, among, n)]
  <2> DEFINE Part(g) == [n \in 0 .. Len(order) |-> PartStep(order, tier, g, n)]
  <2>1. \E g : g = Part(g)
    BY <1>1, PartitionExists
  <2>2. among = CHOOSE g : g = Part(g)
    BY DEF PartStep
  <2> QED
    <3> HIDE DEF Part, among
    <3>1. among = Part(among)
      BY <2>1, <2>2
    <3> QED
      BY <3>1 DEF Part
<1>3. OfTier(order, tier) = among[Len(order)]
  BY DEF OfTier
<1> HIDE DEF among
<1> DEFINE Upto(n) == {order[i] : i \in 1 .. n}
           Good(n) == /\ among[n] \in Seq(S)
                      /\ IsInjective(among[n])
                      /\ Range(among[n]) = {e \in Upto(n) : TierOf(e) = tier}
           T == {n \in Nat : n <= Len(order) => Good(n)}
<1>4. 0 \in T
  <2>1. among[0] = <<>>
    BY <1>1, <1>2 DEF PartStep
  <2>2. Good(0)
    BY <2>1 DEF IsInjective, Range
  <2> QED
    BY <2>2
<1>5. ASSUME NEW n \in Nat, n \in T PROVE n + 1 \in T
  <2> SUFFICES ASSUME n + 1 <= Len(order) PROVE Good(n + 1)
    OBVIOUS
  <2>1. Good(n)
    BY <1>1, <1>5
  <2>2. n + 1 \in 1 .. Len(order) /\ n + 1 \in 0 .. Len(order) /\ (n + 1) - 1 = n
        /\ n + 1 # 0
    BY <1>1
  <2>3. among[n + 1] = IF TierOf(order[n + 1]) = tier
                       THEN Append(among[n], order[n + 1]) ELSE among[n]
    <3>1. among[n + 1] = PartStep(order, tier, among, n + 1)
      BY <1>2, <2>2
    <3> QED
      BY <3>1, <2>2 DEF PartStep
  <2>4. order[n + 1] \in S
    BY <1>1, <2>2
  <2>5. Upto(n + 1) = Upto(n) \cup {order[n + 1]}
    <3>1. 1 .. n + 1 = (1 .. n) \cup {n + 1}
      OBVIOUS
    <3> QED
      BY <3>1
  <2>6. order[n + 1] \notin Upto(n)
    BY <1>1, <2>2 DEF IsInjective
  <2> HIDE DEF Upto
  <2>7. CASE TierOf(order[n + 1]) = tier
    <3> DEFINE s == among[n]
               x == order[n + 1]
    <3>1. among[n + 1] = Append(s, x)
      BY <2>3, <2>7
    <3>2. s \in Seq(S) /\ x \in S /\ x \notin Range(s) /\ IsInjective(s)
      BY <2>1, <2>4, <2>6
    <3>3. Range(s) = {e \in Upto(n) : TierOf(e) = tier}
      BY <2>1
    <3>4. TierOf(x) = tier /\ Upto(n + 1) = Upto(n) \cup {x}
      BY <2>5, <2>7
    <3> HIDE DEF s, x
    <3>5. Append(s, x) \in Seq(S)
      BY <3>2
    <3>6. IsInjective(Append(s, x)) /\ Range(Append(s, x)) = Range(s) \cup {x}
      BY <3>2, AppendDistinct
    <3>7. Range(Append(s, x)) = {e \in Upto(n + 1) : TierOf(e) = tier}
      BY <3>3, <3>4, <3>6
    <3> QED
      BY <3>1, <3>5, <3>6, <3>7
  <2>8. CASE TierOf(order[n + 1]) # tier
    <3>1. among[n + 1] = among[n]
      BY <2>3, <2>8
    <3>2. {e \in Upto(n + 1) : TierOf(e) = tier} = {e \in Upto(n) : TierOf(e) = tier}
      BY <2>5, <2>8
    <3> QED
      BY <2>1, <3>1, <3>2
  <2> QED
    BY <2>7, <2>8
<1>6. Good(Len(order))
  <2>1. \A n \in Nat : n \in T
    <3> HIDE DEF T
    <3> QED
      BY <1>4, <1>5, Reaches
  <2> HIDE DEF Good
  <2> QED
    BY <1>1, <2>1
<1>7. Upto(Len(order)) = Range(order)
  BY <1>1 DEF Range
<1> QED
  BY <1>3, <1>6, <1>7

\* What a list without repetition holds is as much as it is long.
LEMMA AsMany ==
    ASSUME NEW S, NEW s \in Seq(S), IsInjective(s)
    PROVE  IsFiniteSet(Range(s)) /\ Cardinality(Range(s)) = Len(s)
<1>1. Len(s) \in Nat /\ DOMAIN s = 1 .. Len(s) /\ s \in [1 .. Len(s) -> S]
  BY LenProperties
<1>2. s \in [1 .. Len(s) -> Range(s)]
  BY <1>1 DEF Range
<1>3. s \in Bijection(1 .. Len(s), Range(s))
  BY <1>1, <1>2 DEF Bijection, Injection, Surjection, IsInjective, Range
<1>4. ExistsBijection(1 .. Len(s), Range(s))
  BY <1>3 DEF ExistsBijection
<1>5. IsFiniteSet(1 .. Len(s)) /\ Cardinality(1 .. Len(s)) = Len(s)
  BY <1>1, FS_Interval
<1> QED
  BY <1>4, <1>5, FS_Bijection

\* Any list of the usable endpoints is one of each.
LEMMA OrderIs ==
    ASSUME NEW order \in SetToSeqs(Usable)
    PROVE  order \in Seq(Usable) /\ IsInjective(order) /\ Range(order) = Usable
<1>1. IsFiniteSet(Ids)
  <2>1. Len(Endpoints) \in Nat /\ Ids = 1 .. Len(Endpoints)
    BY RpcAssumption DEF Ids
  <2> QED
    BY <2>1, FS_Interval
<1>2. IsFiniteSet(Usable)
  BY <1>1, FS_Subset DEF Usable
<1> DEFINE n == Cardinality(Usable)
<1>3. n \in Nat /\ IsFiniteSet(1 .. n) /\ Cardinality(1 .. n) = n
  BY <1>2, FS_CardinalityType, FS_Interval
<1>4. order \in [1 .. n -> Usable] /\ \A i, j \in 1 .. n : i # j => order[i] # order[j]
  BY DEF SetToSeqs
<1> HIDE DEF n
<1>5. order \in Seq(Usable) /\ IsInjective(order)
  BY <1>3, <1>4 DEF IsInjective
<1>6. order \in Injection(1 .. n, Usable)
  BY <1>4, <1>5 DEF Injection
<1>7. order \in Surjection(1 .. n, Usable)
  BY <1>2, <1>3, <1>6, FS_Injection DEF n
<1> QED
  BY <1>4, <1>5, <1>7 DEF Surjection, Range

\* A quota is a number of endpoints.
LEMMA WantIsNat ==
    ASSUME NEW count \in Nat
    PROVE  \A t \in {0, 1, 2} : Want(t, count) \in Nat
  BY DEF Want

\* The quota of a tier and what it leaves of it.
SplitOf(S, order, t, count) ==
    /\ Quota(order, t, count) \in Seq(S) /\ Spill(order, t, count) \in Seq(S)
    /\ IsInjective(Quota(order, t, count)) /\ IsInjective(Spill(order, t, count))
    /\ Range(Quota(order, t, count)) \cup Range(Spill(order, t, count))
          = {e \in Range(order) : TierOf(e) = t}
    /\ Range(Quota(order, t, count)) \cap Range(Spill(order, t, count)) = {}
    /\ Range(Spill(order, t, count)) # {} =>
          Len(Quota(order, t, count)) = Want(t, count)

LEMMA TierParts ==
    ASSUME NEW S, NEW order \in Seq(S), IsInjective(order),
           NEW count \in Nat, NEW t \in {0, 1, 2}
    PROVE  SplitOf(S, order, t, count)
<1>1. Want(t, count) \in Nat
  BY WantIsNat
<1> DEFINE s == OfTier(order, t)
<1>2. s \in Seq(S) /\ IsInjective(s) /\ Range(s) = {e \in Range(order) : TierOf(e) = t}
  BY OfTierIs
<1> HIDE DEF s
<1>3. /\ FirstOf(s, Want(t, count)) \in Seq(S) /\ RestOf(s, Want(t, count)) \in Seq(S)
      /\ IsInjective(FirstOf(s, Want(t, count))) /\ IsInjective(RestOf(s, Want(t, count)))
      /\ Range(FirstOf(s, Want(t, count))) \cup Range(RestOf(s, Want(t, count))) = Range(s)
      /\ Range(FirstOf(s, Want(t, count))) \cap Range(RestOf(s, Want(t, count))) = {}
      /\ Len(FirstOf(s, Want(t, count)))
            = IF Want(t, count) < Len(s) THEN Want(t, count) ELSE Len(s)
      /\ Range(RestOf(s, Want(t, count))) # {} => Want(t, count) < Len(s)
  BY <1>1, <1>2, Parted
<1>4. /\ Quota(order, t, count) = FirstOf(s, Want(t, count))
      /\ Spill(order, t, count) = RestOf(s, Want(t, count))
  BY DEF Quota, Spill, s
<1> QED
  BY <1>2, <1>3, <1>4 DEF SplitOf

\* Every host has one of the three tiers.
LEMMA TierIsOneOfThree ==
    ASSUME NEW e PROVE TierOf(e) \in {0, 1, 2}
  BY DEF TierOf, Tier

\* One more part of the ranking: the choice so far and what it adds.
Extension(a, b, n) ==
    /\ IsInjective(a \o b)
    /\ Range(a \o b) = Range(a) \cup Range(b)
    /\ Range(FirstOf(a, n)) \subseteq Range(FirstOf(a \o b, n))
    /\ Range(FirstOf(a \o b, n)) \subseteq Range(FirstOf(a, n)) \cup Range(b)
    /\ Range(FirstOf(a \o b, n)) \cap Range(b) # {} =>
          Range(a) \subseteq Range(FirstOf(a \o b, n))

LEMMA Extended ==
    ASSUME NEW S, NEW a \in Seq(S), NEW b \in Seq(S), NEW n \in Nat,
           IsInjective(a), IsInjective(b), Range(a) \cap Range(b) = {}
    PROVE  a \o b \in Seq(S) /\ Extension(a, b, n)
<1>1. /\ a \o b \in Seq(S) /\ IsInjective(a \o b)
      /\ Range(a \o b) = Range(a) \cup Range(b)
  BY Joined
<1>2. /\ Range(FirstOf(a, n)) \subseteq Range(FirstOf(a \o b, n))
      /\ Range(FirstOf(a \o b, n)) \subseteq Range(FirstOf(a, n)) \cup Range(b)
      /\ Range(FirstOf(a \o b, n)) \cap Range(b) # {} =>
            Range(a) \subseteq Range(FirstOf(a \o b, n))
  BY FirstOfJoined
<1> QED
  BY <1>1, <1>2 DEF Extension

\* What comes first in the ranking: the choice of n from six lists in a row.
\* Whoever is chosen from one of them, all of those before it are chosen.
LEMMA SixInARow ==
    ASSUME NEW S, NEW n \in Nat,
           NEW a \in Seq(S), NEW b \in Seq(S), NEW c \in Seq(S),
           NEW d \in Seq(S), NEW e \in Seq(S), NEW f \in Seq(S),
           IsInjective(a), IsInjective(b), IsInjective(c),
           IsInjective(d), IsInjective(e), IsInjective(f),
           Range(a) \cap Range(b) = {},
           (Range(a) \cup Range(b)) \cap Range(c) = {},
           (Range(a) \cup Range(b) \cup Range(c)) \cap Range(d) = {},
           (Range(a) \cup Range(b) \cup Range(c) \cup Range(d)) \cap Range(e) = {},
           (Range(a) \cup Range(b) \cup Range(c) \cup Range(d) \cup Range(e))
              \cap Range(f) = {}
    PROVE  LET row == a \o b \o c \o d \o e \o f
               first == Range(FirstOf(row, n))
           IN  /\ row \in Seq(S) /\ IsInjective(row)
               /\ Range(row) = Range(a) \cup Range(b) \cup Range(c)
                                  \cup Range(d) \cup Range(e) \cup Range(f)
               /\ first \cap Range(b) # {} => Range(a) \subseteq first
               /\ first \cap Range(c) # {} => Range(a) \cup Range(b) \subseteq first
               /\ first \cap Range(e) # {} =>
                     Range(a) \cup Range(b) \cup Range(c) \cup Range(d) \subseteq first
               /\ first \cap Range(f) # {} =>
                     Range(a) \cup Range(b) \cup Range(c) \cup Range(d) \cup Range(e)
                        \subseteq first
<1> DEFINE ab == a \o b
           abc == ab \o c
           abcd == abc \o d
           abcde == abcd \o e
           row == abcde \o f
           first(s) == Range(FirstOf(s, n))
<1>1. /\ ab \in Seq(S) /\ IsInjective(ab) /\ Range(ab) = Range(a) \cup Range(b)
      /\ first(a) \subseteq first(ab) /\ first(ab) \subseteq first(a) \cup Range(b)
      /\ first(ab) \cap Range(b) # {} => Range(a) \subseteq first(ab)
  <2>1. a \in Seq(S) /\ IsInjective(a) /\ Range(a) \cap Range(b) = {}
    OBVIOUS
  <2>2. b \in Seq(S) /\ IsInjective(b)
    OBVIOUS
  <2>3. ab \in Seq(S) /\ Extension(a, b, n)
    BY <2>1, <2>2, Extended
  <2> QED
    BY <2>3 DEF Extension
<1> HIDE DEF ab
<1>2. /\ abc \in Seq(S) /\ IsInjective(abc) /\ Range(abc) = Range(ab) \cup Range(c)
      /\ first(ab) \subseteq first(abc) /\ first(abc) \subseteq first(ab) \cup Range(c)
      /\ first(abc) \cap Range(c) # {} => Range(ab) \subseteq first(abc)
  <2>1. ab \in Seq(S) /\ IsInjective(ab) /\ Range(ab) \cap Range(c) = {}
    BY <1>1
  <2>2. c \in Seq(S) /\ IsInjective(c)
    OBVIOUS
  <2>3. abc \in Seq(S) /\ Extension(ab, c, n)
    BY <2>1, <2>2, Extended
  <2> QED
    BY <2>3 DEF Extension
<1> HIDE DEF abc
<1>3. /\ abcd \in Seq(S) /\ IsInjective(abcd) /\ Range(abcd) = Range(abc) \cup Range(d)
      /\ first(abc) \subseteq first(abcd) /\ first(abcd) \subseteq first(abc) \cup Range(d)
      /\ first(abcd) \cap Range(d) # {} => Range(abc) \subseteq first(abcd)
  <2>1. abc \in Seq(S) /\ IsInjective(abc) /\ Range(abc) \cap Range(d) = {}
    BY <1>1, <1>2
  <2>2. d \in Seq(S) /\ IsInjective(d)
    OBVIOUS
  <2>3. abcd \in Seq(S) /\ Extension(abc, d, n)
    BY <2>1, <2>2, Extended
  <2> QED
    BY <2>3 DEF Extension
<1> HIDE DEF abcd
<1>4. /\ abcde \in Seq(S) /\ IsInjective(abcde) /\ Range(abcde) = Range(abcd) \cup Range(e)
      /\ first(abcd) \subseteq first(abcde) /\ first(abcde) \subseteq first(abcd) \cup Range(e)
      /\ first(abcde) \cap Range(e) # {} => Range(abcd) \subseteq first(abcde)
  <2>1. abcd \in Seq(S) /\ IsInjective(abcd) /\ Range(abcd) \cap Range(e) = {}
    BY <1>1, <1>2, <1>3
  <2>2. e \in Seq(S) /\ IsInjective(e)
    OBVIOUS
  <2>3. abcde \in Seq(S) /\ Extension(abcd, e, n)
    BY <2>1, <2>2, Extended
  <2> QED
    BY <2>3 DEF Extension
<1> HIDE DEF abcde
<1>5. /\ row \in Seq(S) /\ IsInjective(row) /\ Range(row) = Range(abcde) \cup Range(f)
      /\ first(abcde) \subseteq first(row) /\ first(row) \subseteq first(abcde) \cup Range(f)
      /\ first(row) \cap Range(f) # {} => Range(abcde) \subseteq first(row)
  <2>1. abcde \in Seq(S) /\ IsInjective(abcde) /\ Range(abcde) \cap Range(f) = {}
    BY <1>1, <1>2, <1>3, <1>4
  <2>2. f \in Seq(S) /\ IsInjective(f)
    OBVIOUS
  <2>3. row \in Seq(S) /\ Extension(abcde, f, n)
    BY <2>1, <2>2, Extended
  <2> QED
    BY <2>3 DEF Extension
<1> HIDE DEF row
<1>6. row = a \o b \o c \o d \o e \o f
  BY DEF ab, abc, abcd, abcde, row
<1> HIDE DEF first
<1>7. Range(row) = Range(a) \cup Range(b) \cup Range(c)
                      \cup Range(d) \cup Range(e) \cup Range(f)
  BY <1>1, <1>2, <1>3, <1>4, <1>5
<1>8. first(row) \cap Range(f) # {} =>
        Range(a) \cup Range(b) \cup Range(c) \cup Range(d) \cup Range(e)
           \subseteq first(row)
  BY <1>1, <1>2, <1>3, <1>4, <1>5
<1>9. first(row) \cap Range(e) # {} =>
        Range(a) \cup Range(b) \cup Range(c) \cup Range(d) \subseteq first(row)
  <2>1. first(row) \cap Range(e) # {} => first(abcde) \cap Range(e) # {}
    BY <1>5
  <2> QED
    BY <1>1, <1>2, <1>3, <1>4, <1>5, <2>1
<1>10. first(row) \subseteq first(abc) \cup Range(d) \cup Range(e) \cup Range(f)
       /\ first(abc) \subseteq first(row)
  BY <1>3, <1>4, <1>5
<1>11. first(row) \cap Range(c) # {} => Range(a) \cup Range(b) \subseteq first(row)
  <2>1. first(row) \cap Range(c) # {} => first(abc) \cap Range(c) # {}
    BY <1>10
  <2> QED
    BY <1>1, <1>2, <1>10, <2>1
<1>12. first(row) \cap Range(b) # {} => Range(a) \subseteq first(row)
  <2>1. first(row) \cap Range(b) # {} => first(ab) \cap Range(b) # {}
    BY <1>2, <1>10
  <2> QED
    BY <1>1, <1>2, <1>10, <2>1
<1> QED
  BY <1>5, <1>6, <1>7, <1>8, <1>9, <1>11, <1>12 DEF first

\* The choice serves, for any number asked for and any order of the scores.
LEMMA RankingIs ==
    ASSUME NEW count \in Nat, NEW order \in SetToSeqs(Usable)
    PROVE  LET chosen == Ranked(order, count)
               of(t) == {e \in Range(chosen) : TierOf(e) = t}
           IN  /\ Range(chosen) \subseteq Usable
               /\ Cardinality(Range(chosen)) = Len(chosen)
               /\ Len(chosen) = IF count < Len(order) THEN count ELSE Len(order)
               /\ \A d \in Range(chosen), e \in Usable \ Range(chosen) :
                     TierOf(e) < TierOf(d) =>
                        Cardinality(of(TierOf(e))) >= Want(TierOf(e), count)
<1>1. order \in Seq(Usable) /\ IsInjective(order) /\ Range(order) = Usable
  BY OrderIs
<1> DEFINE Q(t) == Quota(order, t, count)
           R(t) == Spill(order, t, count)
<1>2. ASSUME NEW t \in {0, 1, 2}
      PROVE  /\ Q(t) \in Seq(Usable) /\ R(t) \in Seq(Usable)
             /\ IsInjective(Q(t)) /\ IsInjective(R(t))
             /\ Range(Q(t)) \cup Range(R(t)) = {e \in Usable : TierOf(e) = t}
             /\ Range(Q(t)) \cap Range(R(t)) = {}
             /\ Range(R(t)) # {} => Len(Q(t)) = Want(t, count)
  <2>1. /\ Q(t) \in Seq(Usable) /\ R(t) \in Seq(Usable)
        /\ IsInjective(Q(t)) /\ IsInjective(R(t))
        /\ Range(Q(t)) \cup Range(R(t)) = {e \in Range(order) : TierOf(e) = t}
        /\ Range(Q(t)) \cap Range(R(t)) = {}
        /\ Range(R(t)) # {} => Len(Q(t)) = Want(t, count)
    <3> HIDE DEF Q, R
    <3>1. order \in Seq(Usable) /\ IsInjective(order) /\ t \in {0, 1, 2}
      BY <1>1, <1>2
    <3>2. SplitOf(Usable, order, t, count)
      BY <3>1, TierParts
    <3> QED
      BY <3>2 DEF Q, R, SplitOf
  <2> QED
    BY <1>1, <2>1
<1> DEFINE row == Q(0) \o Q(1) \o Q(2) \o R(0) \o R(1) \o R(2)
           chosen == FirstOf(row, count)
           first == Range(chosen)
<1>3. Ranked(order, count) = chosen
  BY DEF Ranked
<1> HIDE DEF Q, R
<1> DEFINE Tiered(t) == {e \in Usable : TierOf(e) = t}
<1>4. /\ Tiered(0) \cap Tiered(1) = {} /\ Tiered(0) \cap Tiered(2) = {}
      /\ Tiered(1) \cap Tiered(2) = {}
      /\ Tiered(0) \cup Tiered(1) \cup Tiered(2) = Usable
  BY TierIsOneOfThree
<1>5. \A t \in {0, 1, 2} : Range(Q(t)) \cup Range(R(t)) = Tiered(t)
                           /\ Range(Q(t)) \cap Range(R(t)) = {}
  BY <1>2
<1> HIDE DEF Tiered
<1>6. /\ Range(Q(0)) \cap Range(Q(1)) = {}
      /\ (Range(Q(0)) \cup Range(Q(1))) \cap Range(Q(2)) = {}
      /\ (Range(Q(0)) \cup Range(Q(1)) \cup Range(Q(2))) \cap Range(R(0)) = {}
      /\ (Range(Q(0)) \cup Range(Q(1)) \cup Range(Q(2)) \cup Range(R(0)))
            \cap Range(R(1)) = {}
      /\ (Range(Q(0)) \cup Range(Q(1)) \cup Range(Q(2)) \cup Range(R(0)) \cup Range(R(1)))
            \cap Range(R(2)) = {}
  BY <1>4, <1>5
<1>7. /\ row \in Seq(Usable) /\ IsInjective(row)
      /\ Range(row) = Range(Q(0)) \cup Range(Q(1)) \cup Range(Q(2))
                         \cup Range(R(0)) \cup Range(R(1)) \cup Range(R(2))
      /\ first \cap Range(Q(1)) # {} => Range(Q(0)) \subseteq first
      /\ first \cap Range(Q(2)) # {} => Range(Q(0)) \cup Range(Q(1)) \subseteq first
      /\ first \cap Range(R(1)) # {} =>
            Range(Q(0)) \cup Range(Q(1)) \cup Range(Q(2)) \cup Range(R(0)) \subseteq first
      /\ first \cap Range(R(2)) # {} =>
            Range(Q(0)) \cup Range(Q(1)) \cup Range(Q(2)) \cup Range(R(0)) \cup Range(R(1))
               \subseteq first
  <2>1. \A t \in {0, 1, 2} : /\ Q(t) \in Seq(Usable) /\ R(t) \in Seq(Usable)
                             /\ IsInjective(Q(t)) /\ IsInjective(R(t))
    BY <1>2
  <2>2. /\ Q(0) \in Seq(Usable) /\ Q(1) \in Seq(Usable) /\ Q(2) \in Seq(Usable)
        /\ R(0) \in Seq(Usable) /\ R(1) \in Seq(Usable) /\ R(2) \in Seq(Usable)
        /\ IsInjective(Q(0)) /\ IsInjective(Q(1)) /\ IsInjective(Q(2))
        /\ IsInjective(R(0)) /\ IsInjective(R(1)) /\ IsInjective(R(2))
    BY <2>1
  <2> QED
    BY <1>6, <2>2, SixInARow
<1> HIDE DEF row
<1>8. Range(row) = Usable
  BY <1>4, <1>5, <1>7
<1>9. Len(row) = Len(order)
  BY <1>1, <1>7, <1>8, AsMany
<1>10. /\ chosen \in Seq(Usable) /\ IsInjective(chosen)
       /\ Range(chosen) \subseteq Usable
       /\ Len(chosen) = IF count < Len(order) THEN count ELSE Len(order)
  <2>1. /\ FirstOf(row, count) \in Seq(Usable) /\ IsInjective(FirstOf(row, count))
        /\ Range(FirstOf(row, count)) \cup Range(RestOf(row, count)) = Range(row)
        /\ Len(FirstOf(row, count)) = IF count < Len(row) THEN count ELSE Len(row)
    BY <1>7, Parted
  <2> QED
    BY <1>8, <1>9, <2>1
<1> HIDE DEF chosen
<1>11. IsFiniteSet(Range(chosen)) /\ Cardinality(Range(chosen)) = Len(chosen)
  BY <1>10, AsMany
<1>12. ASSUME NEW d \in Range(chosen), NEW e \in Usable \ Range(chosen),
              TierOf(e) < TierOf(d)
       PROVE  Cardinality({x \in Range(chosen) : TierOf(x) = TierOf(e)})
                 >= Want(TierOf(e), count)
  <2> DEFINE t == TierOf(e)
  <2>1. t \in {0, 1} /\ TierOf(d) \in {0, 1, 2} /\ TierOf(d) > t
    BY <1>12, TierIsOneOfThree
  <2>2. e \in Range(Q(t)) \cup Range(R(t)) /\ d \in Range(Q(TierOf(d))) \cup Range(R(TierOf(d)))
    BY <1>5, <1>10, <2>1 DEF Tiered
  <2> HIDE DEF t
  <2>3. Range(Q(t)) \subseteq first /\ e \in Range(R(t))
    <3>1. CASE t = 0 /\ TierOf(d) = 1
      BY <1>7, <2>2, <3>1
    <3>2. CASE t = 0 /\ TierOf(d) = 2
      BY <1>7, <2>2, <3>2
    <3>3. CASE t = 1 /\ TierOf(d) = 2
      BY <1>7, <2>2, <3>3
    <3> QED
      BY <2>1, <3>1, <3>2, <3>3
  <2>4. Len(Q(t)) = Want(t, count) /\ Q(t) \in Seq(Usable) /\ IsInjective(Q(t))
    BY <1>2, <2>1, <2>3
  <2>5. Cardinality(Range(Q(t))) = Want(t, count)
    BY <2>4, AsMany
  <2> DEFINE O == {x \in Range(chosen) : TierOf(x) = t}
  <2>6. Range(Q(t)) \subseteq O
    BY <1>5, <2>1, <2>3 DEF Tiered
  <2>7. IsFiniteSet(O)
    BY <1>11, FS_Subset
  <2> HIDE DEF O
  <2>8. Cardinality(Range(Q(t))) <= Cardinality(O) /\ Cardinality(O) \in Nat
    BY <2>6, <2>7, FS_Subset, FS_CardinalityType
  <2>9. Want(t, count) \in Nat
    BY <2>1, WantIsNat
  <2> QED
    BY <2>5, <2>8, <2>9 DEF O, t
<1> QED
  BY <1>3, <1>10, <1>11, <1>12

\* get_ranked_rpc_endpoints (the quota of each tier, then whoever is left): in every
\* state, whatever the scores and the number asked for, as many are chosen as there
\* are, none twice and none out of use, and a worse tier only takes what the quota of
\* a better one leaves.
LEMMA RankingServesHere == RankingServes
<1>1. ASSUME NEW count \in 1 .. MaxCount, NEW order \in SetToSeqs(Usable)
      PROVE  LET chosen == Ranked(order, count)
                 of(t) == {e \in Range(chosen) : TierOf(e) = t}
             IN  /\ Range(chosen) \subseteq Usable
                 /\ Cardinality(Range(chosen)) = Len(chosen)
                 /\ Len(chosen) = IF count < Len(order) THEN count ELSE Len(order)
                 /\ \A d \in Range(chosen), e \in Usable \ Range(chosen) :
                       TierOf(e) < TierOf(d) =>
                          Cardinality(of(TierOf(e))) >= Want(TierOf(e), count)
  <2>1. count \in Nat
    BY RpcAssumption
  <2> QED
    BY <2>1, RankingIs
<1> QED
  BY <1>1 DEF RankingServes

\* get_ranked_rpc_endpoints and get_optimal_rpc: whichever way endpoints are asked
\* for, in any order of the calls, the reports and the rounds of the monitors, the
\* choice serves.
THEOREM SelectionServesAlways == RpcSpec => []SelectionServes
<1>1. SelectionServes <=> RankingServes /\ OptimalServes
  BY DEF SelectionServes
<1> QED
  BY <1>1, RankingServesHere, OptimalServesAlways, PTL

-----------------------------------------------------------------------------
(***************************************************************************)
(* Startup: for any configurations that may lie at the path and any pools  *)
(* that may be discovered.                                                 *)
(***************************************************************************)

Connecting == {"connect", "reconnect"}
Running == {"backfill", "discovery", "resolver", "listen", "serving"}

\* What has been done for a configuration before the connection: nothing.
NothingYet == ~connected /\ queued = {} /\ subscribed = {} /\ heard = {}

\* How far main has got, by its stage.
StagesOK ==
    /\ stage \in Connecting \cup Running
                 \cup {"load", "demo", "write", "refused", "finished"}
    /\ stage \in {"load", "demo", "write", "finished"} \cup Connecting => NothingYet
    /\ stage \in {"load", "demo"} => written = 0
    /\ stage \in {"write", "finished"} => Loads(config)
    /\ stage \in Running => connected
    /\ stage \in Connecting \cup Running =>
          /\ Loads(config) /\ IntoRuntimeConfig(config)
          /\ written = 0
          /\ ConfiguredPools \subseteq typed
    /\ stage = "discovery" => config.discovery
    /\ stage = "serving" => heard = ConfiguredPools

\* A refusal, and what the counters say.
RefusalsOK ==
    /\ stage = "refused" =>
          \/ NothingYet
          \/ written = 0 /\ config.discovery /\ ~config.allowlistParses
    /\ connected => Loads(config) /\ IntoRuntimeConfig(config)
    /\ written > 0 => Loads(config)
    /\ config \in Configs \cup {NoFile}

CountersOK ==
    /\ attempt \in 0 .. MaxAttempts /\ written \in 0 .. DemoRecords + 1
    /\ stage = "reconnect" => attempt < MaxAttempts
    /\ stage = "write" => written <= DemoRecords
    /\ queued \cup subscribed \cup heard \subseteq typed

StartupInv == StagesOK /\ RefusalsOK /\ CountersOK

LEMMA StartupInitInv == StartupInit => StartupInv
  BY DEF StartupInit, StartupInv, StagesOK, RefusalsOK, CountersOK, NothingYet,
         Connecting, Running, MaxAttempts, DemoRecords

LEMMA StartupStepInv == StartupInv /\ [StartupNext]_startupVars => StartupInv'
<1> SUFFICES ASSUME StartupInv, [StartupNext]_startupVars
             PROVE  StartupInv'
  OBVIOUS
<1> USE DEF StartupInv, StagesOK, RefusalsOK, CountersOK, NothingYet,
            Connecting, Running, MaxAttempts, DemoRecords, Becomes
<1>1. CASE Load
  BY <1>1 DEF Load, ConfiguredPools
<1>2. CASE Connected
  BY <1>2 DEF Connected, ConfiguredPools
<1>3. CASE ConnectFails
  BY <1>3 DEF ConnectFails, ConfiguredPools
<1>4. CASE InitialBackfill
  BY <1>4 DEF InitialBackfill, ConfiguredPools
<1>5. CASE DiscoveryRefused \/ DiscoveryFails
  BY <1>5 DEF DiscoveryRefused, DiscoveryFails, ConfiguredPools
<1>6. CASE Discovers
  BY <1>6 DEF Discovers, ConfiguredPools
<1>7. CASE Resolves
  BY <1>7 DEF Resolves, ConfiguredPools
<1>8. CASE ListenTo
  BY <1>8 DEF ListenTo, ConfiguredPools
<1>9. CASE LoadDemo
  BY <1>9 DEF LoadDemo, ConfiguredPools
<1>10. CASE WritesDemo \/ WriteDemoFails
  BY <1>10 DEF WritesDemo, WriteDemoFails, ConfiguredPools
<1>11. CASE UNCHANGED startupVars
  BY <1>11 DEF startupVars, ConfiguredPools
<1> QED
  BY <1>1, <1>2, <1>3, <1>4, <1>5, <1>6, <1>7, <1>8, <1>9, <1>10, <1>11
  DEF StartupNext, StartupOver

\* A configuration that loads and does not leave it to discovery has a pool.
LEMMA PoolsConfigured ==
    ASSUME config \in Configs \cup {NoFile}, Loads(config), ~config.discovery
    PROVE  ConfiguredPools # {}
<1>1. config.pools \in Seq(Range(config.pools)) /\ config.pools # <<>>
  BY StartupAssumption DEF Loads, Validate
<1>2. config.pools[1] \in Range(config.pools)
  BY <1>1 DEF Range
<1> QED
  BY <1>2 DEF ConfiguredPools

LEMMA StartupInvMeans == StartupInv => StartupTypeOK /\ RefusedBeforeEffects
<1> SUFFICES ASSUME StartupInv PROVE StartupTypeOK /\ RefusedBeforeEffects
  OBVIOUS
<1> USE DEF StartupInv, StagesOK, RefusalsOK, CountersOK, NothingYet,
            Connecting, Running
<1>1. StartupTypeOK
  BY DEF StartupTypeOK
<1>2. stage = "serving" => heard # {} \/ config.discovery
  BY PoolsConfigured
<1> QED
  BY <1>1, <1>2 DEF RefusedBeforeEffects

LEMMA StartupAlwaysInv == StartupSpec => []StartupInv
<1> QED
  BY StartupInitInv, StartupStepInv, PTL DEF StartupSpec

\* main refuses a configuration that it will not run before it does anything
\* for it, whatever configuration lies at the path.
THEOREM RefusedBeforeEffectsAlways == StartupSpec => []RefusedBeforeEffects
<1> QED
  BY StartupAlwaysInv, StartupInvMeans, PTL

-----------------------------------------------------------------------------
(***************************************************************************)
(* Enrichment: for any pools, mints and times to live.  The steps of an    *)
(* update that are left say which of its figures must have a cause by now. *)
(***************************************************************************)

JobFields == {"pool", "seen", "coin", "pc", "base", "quote", "failed", "usd",
              "priced", "waiting", "todo"}

ToSend == <<"send">>
ToPrice == <<"price", "send">>
ToQuote == <<"quote", "price", "send">>
ToBase == <<"base", "quote", "price", "send">>
ToBaseOnly == <<"base", "price", "send">>
ToPc == <<"pc", "base", "quote", "price", "send">>
ToCoin == <<"coin", "pc", "base", "quote", "price", "send">>

TodosOf(dex) ==
    CASE dex = "PumpFun"  -> {ToBaseOnly, ToPrice, ToSend}
      [] dex = "PumpSwap" -> {ToBase, ToQuote, ToPrice, ToSend}
      [] dex = "Raydium"  -> {ToCoin, ToPc, ToBase, ToQuote, ToPrice, ToSend}

DexOf == EnrichedPools[job.pool].dex

JobTypeOK ==
    /\ job = [g \in JobFields |-> job[g]]
    /\ job.pool \in DOMAIN EnrichedPools
    /\ job.todo \in TodosOf(DexOf)
    /\ job.seen \in 0 .. swaps
    /\ job.failed \subseteq {"base", "quote"}
    /\ job.priced \in 0 .. instant

\* The vaults that have been read, in their order.
VaultsOK ==
    DexOf = "Raydium" =>
        /\ job.todo # ToCoin => job.coin \in Nat /\ job.seen <= job.coin /\ job.coin <= swaps
        /\ job.todo \notin {ToCoin, ToPc} =>
              job.pc \in Nat /\ job.coin <= job.pc /\ job.pc <= swaps

\* The decimals that have been asked for.
DecimalOK(f) ==
    f \in job.failed \/ job[f] = ChainDecimals[EnrichedPools[job.pool][f]]

DecimalsOK ==
    /\ job.todo \in {ToQuote, ToPrice, ToSend} => DecimalOK("base")
    /\ job.todo \in {ToPrice, ToSend} /\ DexOf # "PumpFun" => DecimalOK("quote")

\* A request for a price is never one for a stable mint.
PriceOK ==
    /\ job.todo = ToSend => PriceExplained(job)
    /\ job.todo = ToPrice /\ job.waiting => EnrichedPools[job.pool].quote \notin StableMints

JobOK == JobTypeOK /\ VaultsOK /\ DecimalsOK /\ PriceOK

\* What the caches hold was said by the chain and by the API.
CachesOK ==
    /\ DOMAIN metadata \subseteq Mints
    /\ \A m \in DOMAIN metadata :
          metadata[m].decimals = ChainDecimals[m] /\ metadata[m].at \in 0 .. instant
    /\ DOMAIN usd \subseteq Mints \ StableMints
    /\ \A m \in DOMAIN usd :
          /\ usd[m].price \in 0 .. quotes /\ usd[m].at \in 0 .. instant
          /\ [mint |-> m, price |-> usd[m].price, at |-> usd[m].at] \in asked

WorldOK == instant \in Nat /\ swaps \in Nat /\ quotes \in Nat

EnrichmentInv == (job = NoJob \/ JobOK) /\ CachesOK /\ WorldOK

LEMMA TodoSteps ==
    /\ Head(ToSend) = "send" /\ Head(ToPrice) = "price" /\ Head(ToQuote) = "quote"
    /\ Head(ToBase) = "base" /\ Head(ToBaseOnly) = "base"
    /\ Head(ToPc) = "pc" /\ Head(ToCoin) = "coin"
    /\ Tail(ToPrice) = ToSend /\ Tail(ToQuote) = ToPrice /\ Tail(ToBase) = ToQuote
    /\ Tail(ToBaseOnly) = ToPrice /\ Tail(ToPc) = ToBase /\ Tail(ToCoin) = ToPc
    /\ <<>> \notin {ToSend, ToPrice, ToQuote, ToBase, ToBaseOnly, ToPc, ToCoin}
<1> USE DEF ToSend, ToPrice, ToQuote, ToBase, ToBaseOnly, ToPc, ToCoin
<1>1. Head(ToSend) = "send" /\ Head(ToPrice) = "price" /\ Head(ToQuote) = "quote"
  OBVIOUS
<1>2. Head(ToBase) = "base" /\ Head(ToBaseOnly) = "base"
  OBVIOUS
<1>3. Head(ToPc) = "pc" /\ Head(ToCoin) = "coin"
  OBVIOUS
<1>4. Tail(ToPrice) = ToSend
  OBVIOUS
<1>5. Tail(ToQuote) = ToPrice
  OBVIOUS
<1>6. Tail(ToBase) = ToQuote
  OBVIOUS
<1>7. Tail(ToBaseOnly) = ToPrice
  OBVIOUS
<1>8. Tail(ToPc) = ToBase
  OBVIOUS
<1>9. Tail(ToCoin) = ToPc
  OBVIOUS
<1>10. <<>> \notin {ToSend, ToPrice, ToQuote, ToBase, ToBaseOnly, ToPc, ToCoin}
  OBVIOUS
<1> QED
  BY <1>1, <1>2, <1>3, <1>4, <1>5, <1>6, <1>7, <1>8, <1>9, <1>10

LEMMA TodosDiffer ==
    /\ ToSend \notin {ToPrice, ToQuote, ToBase, ToBaseOnly, ToPc, ToCoin}
    /\ ToPrice \notin {ToQuote, ToBase, ToBaseOnly, ToPc, ToCoin}
    /\ ToQuote \notin {ToBase, ToBaseOnly, ToPc, ToCoin}
    /\ ToBase \notin {ToBaseOnly, ToPc, ToCoin}
    /\ ToBaseOnly \notin {ToPc, ToCoin}
    /\ ToPc # ToCoin
  BY TodoSteps

LEMMA EnrichmentInitInv == EnrichmentInit => EnrichmentInv
  BY DEF EnrichmentInit, EnrichmentInv, CachesOK, WorldOK

\* A pool has a type and two mints.
LEMMA PoolRecords ==
    ASSUME NEW p \in DOMAIN EnrichedPools
    PROVE  /\ EnrichedPools[p].dex \in {"PumpFun", "PumpSwap", "Raydium"}
           /\ EnrichedPools[p].base \in Mints /\ EnrichedPools[p].quote \in Mints
  BY EnrichmentAssumption DEF DexTypes, AccountSize

\* A job that is left alone stays in order while the world moves on.
LEMMA JobStays ==
    ASSUME EnrichmentInv, job' = job, asked \subseteq asked',
           instant' \in Nat, instant <= instant', swaps' \in Nat, swaps <= swaps'
    PROVE  (job = NoJob \/ JobOK)'
<1>1. SUFFICES ASSUME JobOK PROVE JobOK'
  BY DEF EnrichmentInv
<1>2. JobTypeOK'
  BY <1>1 DEF JobOK, JobTypeOK, EnrichmentInv, WorldOK, DexOf
<1>3. VaultsOK'
  BY <1>1 DEF JobOK, VaultsOK, EnrichmentInv, WorldOK, DexOf
<1>4. DecimalsOK'
  BY <1>1 DEF JobOK, DecimalsOK, DecimalOK, DexOf
<1>5. PriceOK'
  BY <1>1 DEF JobOK, PriceOK, PriceExplained
<1> QED
  BY <1>2, <1>3, <1>4, <1>5 DEF JobOK

\* The caches stay in order while the world moves on.
LEMMA CachesStay ==
    ASSUME CachesOK, WorldOK, UNCHANGED <<metadata, usd>>, asked \subseteq asked',
           instant' \in Nat, instant <= instant', quotes' \in Nat, quotes <= quotes'
    PROVE  CachesOK'
  BY DEF CachesOK, WorldOK

\* What the step of a job changes.
LEMMA GotField ==
    ASSUME JobTypeOK, NEW f \in JobFields \ {"waiting", "todo"}, NEW v, Gets(f, v)
    PROVE  /\ job' = [g \in JobFields |-> job'[g]]
           /\ job'[f] = v
           /\ job'.waiting = FALSE
           /\ job'.todo = Tail(job.todo)
           /\ \A g \in JobFields \ {f, "waiting", "todo"} : job'[g] = job[g]
<1>1. job = [g \in JobFields |-> job[g]]
  BY DEF JobTypeOK
<1>2. job' = [job EXCEPT ![f] = v, !.waiting = FALSE, !.todo = Tail(job.todo)]
  BY DEF Gets
<1>3. {"waiting", "todo"} \subseteq JobFields
  BY DEF JobFields
<1> QED
  BY <1>1, <1>2, <1>3, Zenon

LEMMA JobWaits ==
    ASSUME JobTypeOK, Waits
    PROVE  /\ job' = [g \in JobFields |-> job'[g]]
           /\ job'.waiting = TRUE
           /\ \A g \in JobFields \ {"waiting"} : job'[g] = job[g]
  BY DEF JobTypeOK, Waits, JobFields

\* Where a job is, by the head of its steps.
LEMMA WhereAt ==
    ASSUME EnrichmentInv, NEW steps, At(steps), "send" \notin steps \/ steps = {"send"}
    PROVE  /\ JobOK
           /\ job.todo \in TodosOf(DexOf)
           /\ DexOf \in {"PumpFun", "PumpSwap", "Raydium"}
           /\ Head(job.todo) \in steps
<1>1. job # NoJob
  BY DEF At, NoJob
<1>2. JobOK
  BY <1>1 DEF EnrichmentInv
<1> QED
  BY <1>2, PoolRecords DEF JobOK, JobTypeOK, DexOf, At

LEMMA AtVault ==
    ASSUME EnrichmentInv, At({"coin", "pc"})
    PROVE  /\ JobOK /\ DexOf = "Raydium"
           /\ \/ job.todo = ToCoin /\ Head(job.todo) = "coin" /\ Tail(job.todo) = ToPc
              \/ job.todo = ToPc /\ Head(job.todo) = "pc" /\ Tail(job.todo) = ToBase
<1>1. /\ JobOK /\ job.todo \in TodosOf(DexOf)
      /\ DexOf \in {"PumpFun", "PumpSwap", "Raydium"} /\ Head(job.todo) \in {"coin", "pc"}
  BY WhereAt
<1>2. job.todo \in {ToCoin, ToPc}
  BY <1>1, TodoSteps DEF TodosOf
<1>3. DexOf = "Raydium"
  BY <1>1, <1>2, TodosDiffer DEF TodosOf
<1> QED
  BY <1>1, <1>2, <1>3, TodoSteps

LEMMA AtDecimals ==
    ASSUME EnrichmentInv, At({"base", "quote"})
    PROVE  /\ JobOK
           /\ \/ /\ job.todo = ToBase /\ Head(job.todo) = "base" /\ Tail(job.todo) = ToQuote
                 /\ DexOf # "PumpFun"
              \/ /\ job.todo = ToBaseOnly /\ Head(job.todo) = "base"
                 /\ Tail(job.todo) = ToPrice /\ DexOf = "PumpFun"
              \/ /\ job.todo = ToQuote /\ Head(job.todo) = "quote"
                 /\ Tail(job.todo) = ToPrice /\ DexOf # "PumpFun"
<1>1. /\ JobOK /\ job.todo \in TodosOf(DexOf)
      /\ DexOf \in {"PumpFun", "PumpSwap", "Raydium"} /\ Head(job.todo) \in {"base", "quote"}
  BY WhereAt
<1>2. job.todo \in {ToBase, ToBaseOnly, ToQuote}
  BY <1>1, TodoSteps DEF TodosOf
<1>3. (DexOf = "PumpFun") <=> (job.todo = ToBaseOnly)
  BY <1>1, <1>2, TodosDiffer DEF TodosOf
<1> QED
  BY <1>1, <1>2, <1>3, TodoSteps

LEMMA AtPrice ==
    ASSUME EnrichmentInv, At({"price"})
    PROVE  JobOK /\ job.todo = ToPrice /\ Head(job.todo) = "price" /\ Tail(job.todo) = ToSend
<1>1. /\ JobOK /\ job.todo \in TodosOf(DexOf)
      /\ DexOf \in {"PumpFun", "PumpSwap", "Raydium"} /\ Head(job.todo) \in {"price"}
  BY WhereAt
<1>2. job.todo = ToPrice
  BY <1>1, TodoSteps DEF TodosOf
<1> QED
  BY <1>1, <1>2, TodoSteps

LEMMA AtSend ==
    ASSUME EnrichmentInv, At({"send"})
    PROVE  JobOK /\ job.todo = ToSend
<1>1. /\ JobOK /\ job.todo \in TodosOf(DexOf)
      /\ DexOf \in {"PumpFun", "PumpSwap", "Raydium"} /\ Head(job.todo) \in {"send"}
  BY WhereAt
<1> QED
  BY <1>1, TodoSteps DEF TodosOf

-----------------------------------------------------------------------------
LEMMA HandleUpdateKeeps ==
    ASSUME EnrichmentInv, NEW p \in DOMAIN EnrichedPools, NEW a, HandleUpdate(p, a)
    PROVE  EnrichmentInv'
<1>1. CachesOK' /\ WorldOK'
  BY CachesStay DEF EnrichmentInv, WorldOK, HandleUpdate
<1>2. CASE job' = NoJob
  BY <1>1, <1>2 DEF EnrichmentInv
<1>3. CASE job' = Started(p)
  <2>1. EnrichedPools[p].dex \in {"PumpFun", "PumpSwap", "Raydium"}
    BY PoolRecords
  <2>2. /\ job' = [g \in JobFields |-> job'[g]]
        /\ job'.pool = p /\ job'.seen = swaps /\ job'.failed = {} /\ job'.priced = 0
        /\ job'.waiting = FALSE
        /\ job'.todo = StepsOf[EnrichedPools[p].dex]
    BY <1>3 DEF Started, JobFields
  <2>3. /\ job'.todo \in {ToBaseOnly, ToBase, ToCoin}
        /\ job'.todo \in TodosOf(DexOf')
        /\ DexOf' = "Raydium" => job'.todo = ToCoin
    BY <2>1, <2>2 DEF StepsOf, TodosOf, DexOf, ToBaseOnly, ToBase, ToCoin
  <2>4. JobTypeOK'
    BY <2>2, <2>3 DEF JobTypeOK, HandleUpdate, EnrichmentInv, WorldOK
  <2>5. VaultsOK' /\ DecimalsOK' /\ PriceOK'
    BY <2>2, <2>3, TodosDiffer DEF VaultsOK, DecimalsOK, PriceOK
  <2> QED
    BY <1>1, <2>4, <2>5 DEF EnrichmentInv, JobOK
<1> QED
  BY <1>2, <1>3 DEF HandleUpdate

LEMMA ReadVaultKeeps == EnrichmentInv /\ ReadVault => EnrichmentInv'
<1> SUFFICES ASSUME EnrichmentInv, ReadVault PROVE EnrichmentInv'
  OBVIOUS
<1>1. CachesOK' /\ WorldOK'
  BY CachesStay DEF EnrichmentInv, WorldOK, ReadVault
<1>2. /\ JobOK /\ JobTypeOK /\ VaultsOK /\ DexOf = "Raydium"
      /\ \/ job.todo = ToCoin /\ Head(job.todo) = "coin" /\ Tail(job.todo) = ToPc
         \/ job.todo = ToPc /\ Head(job.todo) = "pc" /\ Tail(job.todo) = ToBase
      /\ instant' = instant /\ swaps' = swaps /\ asked' = asked
  BY AtVault DEF ReadVault, JobOK
<1>3. Gets(Head(job.todo), swaps) /\ Head(job.todo) \in JobFields \ {"waiting", "todo"}
  BY <1>2 DEF ReadVault, JobFields
<1>4. /\ job' = [g \in JobFields |-> job'[g]]
      /\ job'[Head(job.todo)] = swaps
      /\ job'.waiting = FALSE
      /\ job'.todo = Tail(job.todo)
      /\ \A g \in JobFields \ {Head(job.todo), "waiting", "todo"} : job'[g] = job[g]
  <2> HIDE DEF JobFields
  <2> QED
    BY <1>2, <1>3, GotField
<1>5. /\ job'.pool = job.pool /\ job'.seen = job.seen /\ job'.failed = job.failed
      /\ job'.priced = job.priced
  BY <1>2, <1>4 DEF JobFields
<1>6. DexOf' = "Raydium"
  BY <1>2, <1>5 DEF DexOf
<1>7. JobTypeOK'
  BY <1>2, <1>4, <1>5, <1>6 DEF JobTypeOK, TodosOf
<1>8. VaultsOK'
  <2>1. CASE job.todo = ToCoin
    <3>1. Head(job.todo) = "coin" /\ job'.todo = ToPc
      BY <2>1, <1>2, <1>4, TodosDiffer
    <3>2. job'.coin = swaps
      BY <3>1, <1>4
    <3> QED
      BY <3>1, <3>2, <2>1, <1>2, <1>5, TodosDiffer
      DEF VaultsOK, JobTypeOK, EnrichmentInv, WorldOK
  <2>2. CASE job.todo = ToPc
    <3>1. Head(job.todo) = "pc" /\ job'.todo = ToBase
      BY <2>2, <1>2, <1>4, TodosDiffer
    <3>2. job'.pc = swaps
      BY <3>1, <1>4
    <3>3. job'.coin = job.coin
      BY <3>1, <1>4 DEF JobFields
    <3> QED
      BY <3>1, <3>2, <3>3, <2>2, <1>2, <1>5, TodosDiffer
      DEF VaultsOK, JobTypeOK, EnrichmentInv, WorldOK
  <2> QED
    BY <2>1, <2>2, <1>2
<1>9. DecimalsOK' /\ PriceOK'
  BY <1>2, <1>4, TodosDiffer DEF DecimalsOK, PriceOK
<1> QED
  BY <1>1, <1>7, <1>8, <1>9 DEF EnrichmentInv, JobOK

\* The decimals of a mint have come, or their request failed.
LEMMA DecimalsGot ==
    ASSUME EnrichmentInv, At({"base", "quote"}),
           job' = [g \in JobFields |-> job'[g]],
           job'.todo = Tail(job.todo),
           job'.failed \in {job.failed, job.failed \cup {Head(job.todo)}},
           \A g \in JobFields \ {Head(job.todo), "failed", "waiting", "todo"} :
                job'[g] = job[g],
           \/ Head(job.todo) \in job'.failed
           \/ job'[Head(job.todo)] = ChainDecimals[MintAt],
           job'.waiting = FALSE,
           instant' = instant, swaps' = swaps
    PROVE  JobOK'
<1>1. /\ JobOK /\ JobTypeOK /\ VaultsOK /\ DecimalsOK
      /\ \/ /\ job.todo = ToBase /\ Head(job.todo) = "base" /\ Tail(job.todo) = ToQuote
            /\ DexOf # "PumpFun"
         \/ /\ job.todo = ToBaseOnly /\ Head(job.todo) = "base"
            /\ Tail(job.todo) = ToPrice /\ DexOf = "PumpFun"
         \/ /\ job.todo = ToQuote /\ Head(job.todo) = "quote"
            /\ Tail(job.todo) = ToPrice /\ DexOf # "PumpFun"
  BY AtDecimals DEF JobOK
<1>2. Head(job.todo) \in {"base", "quote"}
  BY <1>1
<1>3. /\ job'.pool = job.pool /\ job'.seen = job.seen /\ job'.coin = job.coin
      /\ job'.pc = job.pc /\ job'.priced = job.priced
  BY <1>2 DEF JobFields
<1>4. DexOf' = DexOf
  BY <1>3 DEF DexOf
<1>5. DexOf \in {"PumpFun", "PumpSwap", "Raydium"}
  BY <1>1, PoolRecords DEF JobTypeOK, DexOf
<1>6. JobTypeOK'
  <2>1. job'.todo \in TodosOf(DexOf)
    BY <1>1, <1>5, TodosDiffer DEF JobTypeOK, TodosOf
  <2>2. job'.failed \subseteq {"base", "quote"}
    BY <1>1, <1>2 DEF JobTypeOK
  <2> QED
    BY <2>1, <2>2, <1>1, <1>3, <1>4 DEF JobTypeOK
<1>7. VaultsOK'
  BY <1>1, <1>3, <1>4, TodosDiffer DEF VaultsOK
<1>8. DecimalsOK'
  <2>1. CASE Head(job.todo) = "base"
    <3>1. DecimalOK("base")'
      BY <2>1, <1>3 DEF DecimalOK, MintAt
    <3>2. job'.todo = ToQuote \/ DexOf = "PumpFun"
      BY <2>1, <1>1
    <3> QED
      BY <3>1, <3>2, <1>4, TodosDiffer DEF DecimalsOK
  <2>2. CASE Head(job.todo) = "quote"
    <3>1. DecimalOK("quote")'
      BY <2>2, <1>3 DEF DecimalOK, MintAt
    <3>2. job.todo = ToQuote
      BY <2>2, <1>1
    <3>3. DecimalOK("base")
      BY <3>2, <1>1 DEF DecimalsOK
    <3>4. job'.base = job.base /\ job.failed \subseteq job'.failed
      BY <2>2 DEF JobFields
    <3>5. DecimalOK("base")'
      BY <3>3, <3>4, <1>3 DEF DecimalOK
    <3> QED
      BY <3>1, <3>5 DEF DecimalsOK
  <2> QED
    BY <2>1, <2>2, <1>2
<1>9. PriceOK'
  BY <1>1, TodosDiffer DEF PriceOK
<1> QED
  BY <1>6, <1>7, <1>8, <1>9 DEF JobOK

\* A request is on its way.
LEMMA WaitingKeeps ==
    ASSUME EnrichmentInv, JobOK, Waits, job.todo # ToSend,
           job.todo = ToPrice => EnrichedPools[job.pool].quote \notin StableMints,
           instant' = instant, swaps' = swaps
    PROVE  JobOK'
<1>1. /\ job' = [g \in JobFields |-> job'[g]]
      /\ \A g \in JobFields \ {"waiting"} : job'[g] = job[g]
  BY JobWaits DEF JobOK
<1>2. /\ job'.pool = job.pool /\ job'.seen = job.seen /\ job'.coin = job.coin
      /\ job'.pc = job.pc /\ job'.priced = job.priced /\ job'.base = job.base
      /\ job'.quote = job.quote /\ job'.failed = job.failed /\ job'.todo = job.todo
  BY <1>1 DEF JobFields
<1>3. JobTypeOK'
  BY <1>1, <1>2 DEF JobOK, JobTypeOK, DexOf
<1>4. VaultsOK'
  BY <1>2 DEF JobOK, VaultsOK, DexOf
<1>5. DecimalsOK'
  BY <1>2 DEF JobOK, DecimalsOK, DecimalOK, DexOf
<1>6. PriceOK'
  BY <1>2 DEF PriceOK
<1> QED
  BY <1>3, <1>4, <1>5, <1>6 DEF JobOK

\* An entry put into the cache of the provider.
LEMMA DescribedKeeps ==
    ASSUME CachesOK, WorldOK, NEW m \in Mints, Described(m),
           UNCHANGED <<usd, instant, quotes, asked>>
    PROVE  CachesOK'
<1>1. /\ DOMAIN metadata' = {m} \cup DOMAIN metadata
      /\ metadata'[m] = [decimals |-> ChainDecimals[m], at |-> instant]
      /\ \A n \in DOMAIN metadata \ {m} : metadata'[n] = metadata[n]
  BY DEF Described, Cached
<1>2. DOMAIN metadata' \subseteq Mints
  BY <1>1 DEF CachesOK
<1>3. \A n \in DOMAIN metadata' :
         metadata'[n].decimals = ChainDecimals[n] /\ metadata'[n].at \in 0 .. instant
  BY <1>1 DEF CachesOK, WorldOK
<1> QED
  BY <1>2, <1>3 DEF CachesOK

\* The steps that are about the decimals of a mint.
LEMMA DecimalsStepKeeps ==
    EnrichmentInv /\ (GetDecimals \/ DecimalsArrive \/ DecimalsFail) => EnrichmentInv'
<1> SUFFICES ASSUME EnrichmentInv, GetDecimals \/ DecimalsArrive \/ DecimalsFail
             PROVE  EnrichmentInv'
  OBVIOUS
<1>0. /\ At({"base", "quote"})
      /\ usd' = usd /\ instant' = instant /\ swaps' = swaps /\ quotes' = quotes
      /\ asked' = asked
  BY DEF GetDecimals, DecimalsArrive, DecimalsFail
<1>1. /\ JobOK /\ JobTypeOK
      /\ job.todo \in {ToBase, ToBaseOnly, ToQuote} /\ Head(job.todo) \in {"base", "quote"}
  BY <1>0, AtDecimals DEF JobOK
<1>2. Head(job.todo) \in JobFields \ {"waiting", "todo"}
  BY <1>1 DEF JobFields
<1>3. WorldOK' /\ CachesOK /\ WorldOK
  BY <1>0 DEF EnrichmentInv, WorldOK
<1>4. MintAt \in Mints
  BY <1>1, PoolRecords DEF JobTypeOK, MintAt
<1>5. ASSUME NEW v, Gets(Head(job.todo), v), v = ChainDecimals[MintAt]
      PROVE  JobOK'
  <2>1. /\ job' = [g \in JobFields |-> job'[g]]
        /\ job'[Head(job.todo)] = v
        /\ job'.waiting = FALSE
        /\ job'.todo = Tail(job.todo)
        /\ \A g \in JobFields \ {Head(job.todo), "waiting", "todo"} : job'[g] = job[g]
    BY <1>1, <1>2, <1>5, GotField
  <2>2. job'.failed = job.failed
    BY <2>1, <1>1 DEF JobFields
  <2> QED
    BY <2>1, <2>2, <1>0, <1>5, DecimalsGot
<1>6. CASE GetDecimals
  <2>1. CachesOK'
    BY <1>0, <1>3, <1>6, CachesStay DEF GetDecimals, WorldOK
  <2>2. CASE Fresh(metadata, MintAt, MetadataTtl)
    <3>1. Gets(Head(job.todo), metadata[MintAt].decimals)
      BY <1>6, <2>2 DEF GetDecimals
    <3>2. metadata[MintAt].decimals = ChainDecimals[MintAt]
      BY <1>3, <2>2 DEF Fresh, CachesOK
    <3> QED
      BY <2>1, <3>1, <3>2, <1>3, <1>5 DEF EnrichmentInv
  <2>3. CASE Waits
    <3>1. JobOK'
      BY <2>3, <1>0, <1>1, WaitingKeeps, TodosDiffer
    <3> QED
      BY <2>1, <3>1, <1>3 DEF EnrichmentInv
  <2> QED
    BY <2>2, <2>3, <1>6 DEF GetDecimals
<1>7. CASE DecimalsArrive
  <2>1. CachesOK'
    BY <1>0, <1>3, <1>4, <1>7, DescribedKeeps DEF DecimalsArrive
  <2>2. JobOK'
    BY <1>5, <1>7 DEF DecimalsArrive
  <2> QED
    BY <2>1, <2>2, <1>3 DEF EnrichmentInv
<1>8. CASE DecimalsFail
  <2>1. CachesOK'
    <3>1. metadata' = metadata
      BY <1>8 DEF DecimalsFail
    <3> QED
      BY <3>1, <1>0, <1>3, CachesStay DEF WorldOK
  <2> DEFINE f == Head(job.todo)
  <2>2. /\ job = [g \in JobFields |-> job[g]]
        /\ job' = [job EXCEPT ![f] = 9, !.failed = job.failed \cup {f},
                              !.waiting = FALSE, !.todo = Tail(job.todo)]
    <3>1. job = [g \in JobFields |-> job[g]]
      BY <1>1 DEF JobTypeOK
    <3>2. f # "failed"
      BY <1>1
    <3> QED
      BY <3>1, <3>2, <1>8 DEF DecimalsFail
  <2>3. {"failed", "waiting", "todo", f} \subseteq JobFields /\ f \in {"base", "quote"}
    BY <1>1 DEF JobFields
  <2>4. /\ job' = [g \in JobFields |-> job'[g]]
        /\ job'.failed = job.failed \cup {f}
        /\ job'.waiting = FALSE
        /\ job'.todo = Tail(job.todo)
        /\ \A g \in JobFields \ {f, "failed", "waiting", "todo"} : job'[g] = job[g]
    <3> HIDE DEF f
    <3> QED
      BY <2>2, <2>3
  <2>5. JobOK'
    BY <2>4, <1>0, DecimalsGot
  <2> QED
    BY <2>1, <2>5, <1>3 DEF EnrichmentInv
<1> QED
  BY <1>6, <1>7, <1>8

\* A price has been got: of a stable mint, or with an answer of the API that
\* is young enough.
LEMMA PriceGot ==
    ASSUME EnrichmentInv, At({"price"}), NEW price, Priced(price),
           \/ QuoteMint \in StableMints /\ price = 1
           \/ \E answer \in asked' :
                 /\ answer.mint = QuoteMint /\ answer.price = price
                 /\ answer.at \in 0 .. instant /\ instant - answer.at <= OracleTtl,
           instant' = instant, swaps' = swaps
    PROVE  JobOK'
<1>1. /\ JobOK /\ JobTypeOK /\ VaultsOK /\ DecimalsOK
      /\ job.todo = ToPrice /\ Tail(job.todo) = ToSend
  BY AtPrice DEF JobOK
<1>2. /\ job' = [g \in JobFields |-> job'[g]]
      /\ job'.usd = price /\ job'.priced = instant
      /\ job'.waiting = FALSE /\ job'.todo = ToSend
      /\ \A g \in JobFields \ {"usd", "priced", "waiting", "todo"} : job'[g] = job[g]
  <2>1. /\ job = [g \in JobFields |-> job[g]]
        /\ job' = [job EXCEPT !.usd = price, !.priced = instant, !.waiting = FALSE,
                              !.todo = Tail(job.todo)]
    BY <1>1 DEF JobTypeOK, Priced
  <2>2. {"usd", "priced", "waiting", "todo"} \subseteq JobFields
    BY DEF JobFields
  <2> QED
    BY <2>1, <2>2, <1>1
<1>3. /\ job'.pool = job.pool /\ job'.seen = job.seen /\ job'.coin = job.coin
      /\ job'.pc = job.pc /\ job'.base = job.base /\ job'.quote = job.quote
      /\ job'.failed = job.failed
  BY <1>2 DEF JobFields
<1>4. DexOf' = DexOf
  BY <1>3 DEF DexOf
<1>5. JobTypeOK'
  <2>1. ToSend \in TodosOf(DexOf)
    BY <1>1, PoolRecords DEF JobTypeOK, DexOf, TodosOf
  <2>2. job'.priced \in 0 .. instant'
    BY <1>2 DEF EnrichmentInv, WorldOK
  <2> QED
    BY <2>1, <2>2, <1>1, <1>2, <1>3, <1>4 DEF JobTypeOK
<1>6. VaultsOK'
  BY <1>1, <1>2, <1>3, <1>4, TodosDiffer DEF VaultsOK
<1>7. DecimalsOK'
  BY <1>1, <1>2, <1>3, <1>4 DEF DecimalsOK, DecimalOK
<1>8. PriceExplained(job)'
  BY <1>2, <1>3 DEF PriceExplained, QuoteMint
<1>9. PriceOK'
  BY <1>2, <1>8, TodosDiffer DEF PriceOK
<1> QED
  BY <1>5, <1>6, <1>7, <1>9 DEF JobOK

LEMMA FetchPriceKeeps == EnrichmentInv /\ FetchPriceUsd => EnrichmentInv'
<1> SUFFICES ASSUME EnrichmentInv, FetchPriceUsd PROVE EnrichmentInv'
  OBVIOUS
<1>0. /\ At({"price"})
      /\ UNCHANGED <<metadata, usd, instant, swaps, quotes, updates, asked>>
  BY DEF FetchPriceUsd
<1>1. CachesOK /\ WorldOK /\ CachesOK' /\ WorldOK'
  BY <1>0, CachesStay DEF EnrichmentInv, WorldOK
<1>2. CASE QuoteMint \in StableMints
  <2>1. Priced(1)
    BY <1>2 DEF FetchPriceUsd
  <2>2. JobOK'
    BY <2>1, <1>0, <1>2, PriceGot
  <2> QED
    BY <2>2, <1>1 DEF EnrichmentInv
<1>3. CASE QuoteMint \notin StableMints /\ Fresh(usd, QuoteMint, OracleTtl)
  <2> DEFINE answer == [mint |-> QuoteMint, price |-> usd[QuoteMint].price,
                        at |-> usd[QuoteMint].at]
  <2>1. Priced(usd[QuoteMint].price)
    BY <1>3 DEF FetchPriceUsd
  <2>2. answer \in asked' /\ answer.at \in 0 .. instant /\ instant - answer.at <= OracleTtl
    BY <1>0, <1>1, <1>3 DEF CachesOK, Fresh
  <2>3. JobOK'
    BY <2>1, <2>2, <1>0, PriceGot
  <2> QED
    BY <2>3, <1>1 DEF EnrichmentInv
<1>4. CASE QuoteMint \notin StableMints /\ ~Fresh(usd, QuoteMint, OracleTtl)
  <2>1. Waits
    BY <1>4 DEF FetchPriceUsd
  <2>2. JobOK /\ job.todo # ToSend
    BY <1>0, AtPrice, TodosDiffer
  <2>3. JobOK'
    BY <2>1, <2>2, <1>0, <1>4, WaitingKeeps DEF QuoteMint
  <2> QED
    BY <2>3, <1>1 DEF EnrichmentInv
<1> QED
  BY <1>2, <1>3, <1>4

\* A price that the API gave, or the zero of a failure.
LEMMA FromApiKeeps ==
    ASSUME EnrichmentInv, NEW price \in 0 .. quotes, FromApi(price)
    PROVE  EnrichmentInv'
<1> DEFINE answer == [mint |-> QuoteMint, price |-> price, at |-> instant]
<1>0. /\ At({"price"}) /\ job.waiting /\ Priced(price)
      /\ usd' = Cached(usd, QuoteMint, [price |-> price, at |-> instant])
      /\ asked' = asked \cup {answer}
      /\ metadata' = metadata /\ instant' = instant /\ swaps' = swaps /\ quotes' = quotes
  BY DEF FromApi
<1>1. CachesOK /\ WorldOK /\ WorldOK'
  BY <1>0 DEF EnrichmentInv, WorldOK
<1>2. JobOK'
  <2>1. instant - instant <= OracleTtl /\ instant \in 0 .. instant
    BY <1>1, EnrichmentAssumption DEF WorldOK
  <2>2. answer \in asked'
    BY <1>0
  <2>3. \E a \in asked' :
           /\ a.mint = QuoteMint /\ a.price = price
           /\ a.at \in 0 .. instant /\ instant - a.at <= OracleTtl
    BY <2>1, <2>2
  <2> QED
    BY <2>3, <1>0, PriceGot
<1>3. QuoteMint \in Mints \ StableMints
  BY <1>0, AtPrice, PoolRecords DEF JobOK, JobTypeOK, PriceOK, QuoteMint
<1>4. CachesOK'
  <2>1. /\ DOMAIN usd' = {QuoteMint} \cup DOMAIN usd
        /\ usd'[QuoteMint] = [price |-> price, at |-> instant]
        /\ \A n \in DOMAIN usd \ {QuoteMint} : usd'[n] = usd[n]
    BY <1>0 DEF Cached
  <2>2. DOMAIN usd' \subseteq Mints \ StableMints
    BY <2>1, <1>1, <1>3 DEF CachesOK
  <2>3. ASSUME NEW n \in DOMAIN usd'
        PROVE  /\ usd'[n].price \in 0 .. quotes /\ usd'[n].at \in 0 .. instant
               /\ [mint |-> n, price |-> usd'[n].price, at |-> usd'[n].at] \in asked'
    <3>1. CASE n = QuoteMint
      BY <3>1, <2>1, <1>0, <1>1 DEF WorldOK
    <3>2. CASE n # QuoteMint
      BY <3>2, <2>1, <1>0, <1>1 DEF CachesOK
    <3> QED
      BY <3>1, <3>2
  <2> QED
    BY <2>2, <2>3, <1>0, <1>1 DEF CachesOK
<1> QED
  BY <1>1, <1>2, <1>4 DEF EnrichmentInv

LEMMA EnrichmentStepInv == EnrichmentInv /\ [EnrichmentNext]_enrichmentVars => EnrichmentInv'
<1> SUFFICES ASSUME EnrichmentInv, [EnrichmentNext]_enrichmentVars
             PROVE  EnrichmentInv'
  OBVIOUS
<1>0. CachesOK /\ WorldOK
  BY DEF EnrichmentInv
<1>1. ASSUME NEW p \in DOMAIN EnrichedPools, NEW a, HandleUpdate(p, a)
      PROVE  EnrichmentInv'
  BY <1>1, HandleUpdateKeeps
<1>2. CASE VaultFails \/ SendSnapshot
  <2>1. job' = NoJob /\ UNCHANGED <<metadata, usd, instant, swaps, quotes, updates, asked>>
    BY <1>2 DEF VaultFails, SendSnapshot
  <2> QED
    BY <2>1, <1>0, CachesStay DEF EnrichmentInv, WorldOK
<1>3. ASSUME NEW m \in Mints, Prefetched(m)
      PROVE  EnrichmentInv'
  <2>1. /\ Described(m) /\ job' = job
        /\ UNCHANGED <<usd, instant, swaps, quotes, asked>>
    BY <1>3 DEF Prefetched
  <2>2. CachesOK' /\ WorldOK'
    BY <2>1, <1>0, DescribedKeeps DEF WorldOK
  <2>3. (job = NoJob \/ JobOK)'
    BY <2>1, <1>0, JobStays DEF WorldOK
  <2> QED
    BY <2>2, <2>3 DEF EnrichmentInv
<1>4. CASE ClearMetadata
  <2>1. /\ metadata' = <<>> /\ job' = job
        /\ UNCHANGED <<usd, instant, swaps, quotes, asked>>
    BY <1>4 DEF ClearMetadata
  <2>2. CachesOK' /\ WorldOK'
    BY <2>1, <1>0 DEF CachesOK, WorldOK
  <2>3. (job = NoJob \/ JobOK)'
    BY <2>1, <1>0, JobStays DEF WorldOK
  <2> QED
    BY <2>2, <2>3 DEF EnrichmentInv
<1>5. CASE PriceArrives \/ PriceFails
  <2>1. quotes \in 0 .. quotes /\ 0 \in 0 .. quotes
    BY <1>0 DEF WorldOK
  <2> QED
    BY <2>1, <1>5, FromApiKeeps DEF PriceArrives, PriceFails
<1>6. CASE Swap \/ QuoteMoves \/ InstantPasses \/ UNCHANGED enrichmentVars
  <2>1. /\ UNCHANGED <<job, metadata, usd, asked>>
        /\ instant' \in Nat /\ instant <= instant'
        /\ swaps' \in Nat /\ swaps <= swaps'
        /\ quotes' \in Nat /\ quotes <= quotes'
    BY <1>0, <1>6 DEF Swap, QuoteMoves, InstantPasses, enrichmentVars, WorldOK
  <2>2. CachesOK'
    BY <2>1, <1>0, CachesStay
  <2>3. (job = NoJob \/ JobOK)'
    BY <2>1, JobStays
  <2> QED
    BY <2>1, <2>2, <2>3 DEF EnrichmentInv, WorldOK
<1> QED
  BY <1>1, <1>2, <1>3, <1>4, <1>5, <1>6, ReadVaultKeeps, DecimalsStepKeeps,
     FetchPriceKeeps DEF EnrichmentNext

LEMMA EnrichmentInvMeans == EnrichmentInv => EnrichmentTypeOK /\ SnapshotsAreExplained
<1> SUFFICES ASSUME EnrichmentInv PROVE EnrichmentTypeOK /\ SnapshotsAreExplained
  OBVIOUS
<1>1. EnrichmentTypeOK
  BY DEF EnrichmentInv, CachesOK, JobOK, JobTypeOK, EnrichmentTypeOK
<1>2. ASSUME At({"send"})
      PROVE  DecimalsExplained(job) /\ PriceExplained(job) /\ ReservesExplained(job)
  <2>1. JobOK /\ job.todo = ToSend
    BY <1>2, AtSend
  <2>2. DecimalsExplained(job)
    BY <2>1 DEF JobOK, DecimalsOK, DecimalOK, DexOf, DecimalsExplained
  <2>3. PriceExplained(job)
    BY <2>1 DEF JobOK, PriceOK
  <2>4. ReservesExplained(job)
    BY <2>1, TodosDiffer DEF JobOK, VaultsOK, DexOf, ReservesExplained
  <2> QED
    BY <2>2, <2>3, <2>4
<1> QED
  BY <1>1, <1>2 DEF SnapshotsAreExplained

\* Every figure of a snapshot has a cause in the requests of its own update or
\* in what a cache may still hold, for any times to live and however the chain,
\* the market and the clock move between the steps of handle_update.
THEOREM SnapshotsAreExplainedAlways == EnrichmentSpec => []SnapshotsAreExplained
<1>1. EnrichmentSpec => []EnrichmentInv
  BY EnrichmentInitInv, EnrichmentStepInv, PTL DEF EnrichmentSpec
<1> QED
  BY <1>1, EnrichmentInvMeans, PTL

-----------------------------------------------------------------------------
(***************************************************************************)
(* RaydiumResolver: for any listings and any number of fetches and of      *)
(* queries.                                                                *)
(***************************************************************************)

\* A nonempty set of naturals below a bound has a greatest element.
LEMMA GreatestExists ==
    ASSUME NEW n \in Nat, NEW T \in SUBSET (1 .. n), T # {}
    PROVE  \E x \in T : \A y \in T : x >= y
<1> DEFINE U == {k \in Nat : n - k \in T}
<1>1. U \in SUBSET Nat
  OBVIOUS
<1>2. U # {}
  <2>1. PICK x \in T : TRUE
    OBVIOUS
  <2>2. n - x \in Nat /\ n - (n - x) = x
    BY <2>1
  <2> QED
    BY <2>1, <2>2
<1>3. PICK k \in U : \A j \in U : k <= j
  <2> HIDE DEF U
  <2> QED
    BY <1>1, <1>2, LeastExists
<1>4. n - k \in T
  BY <1>3
<1>5. ASSUME NEW y \in T PROVE n - k >= y
  <2>1. n - y \in U
    BY <1>5
  <2> QED
    BY <1>3, <2>1
<1> QED
  BY <1>4, <1>5

\* The last pool with a key is a pool of the list that has it.
LEMMA LastHasKey ==
    ASSUME NEW S, NEW list \in Seq(S), NEW t, NEW k, k \in Keys(list, t)
    PROVE  LastWith(list, t, k) \in DOMAIN list
<1> DEFINE I == {j \in 1 .. Len(list) : KeyOf(list[j], t) = k}
<1>1. LastWith(list, t, k) = IF I # {} THEN Max(I) ELSE 0
  BY DEF LastWith, SelectLastInSeq
<1>2. I \in SUBSET (1 .. Len(list)) /\ I # {} /\ Len(list) \in Nat
  BY DEF Keys
<1>3. Max(I) \in I
  <2> HIDE DEF I
  <2>1. \E x \in I : \A y \in I : x >= y
    BY <1>2, GreatestExists
  <2> QED
    BY <2>1, Zenon DEF Max
<1> QED
  BY <1>1, <1>2, <1>3

\* The ids that any listing has.
ListedIds == {p.id : p \in UNION {Range(l.official) : l \in Listings}}

AllListings == Listings \cup {NoListing}
TableNames == {"pools", "market", "pair", "lp"}

LEMMA TableRange ==
    /\ Len(Tables) = 4 /\ DOMAIN Tables = 1 .. 4
    /\ Range(Tables) = TableNames
    /\ TableNames = {Tables[i] : i \in 1 .. 4}
    /\ \A i, j \in 1 .. 4 : Tables[i] = Tables[j] => i = j
  BY DEF Tables, Range, TableNames

LEMMA IndexShape ==
    ASSUME NEW l, NEW t
    PROVE  DOMAIN TableOf(l, t) = Keys(l.official, t)
  BY DEF TableOf, Index

\* The index of a listing leads to ids of that listing.
LEMMA IndexLeadsToIds ==
    ASSUME NEW l \in AllListings, NEW t, NEW k \in Keys(l.official, t)
    PROVE  TableOf(l, t)[k] \in ListedIds
<1>1. l \in Listings
  BY DEF AllListings, NoListing, Keys
<1>2. l.official \in Seq(Range(l.official))
  BY <1>1, ResolverAssumption
<1> DEFINE chosen == LastWith(l.official, t, k)
<1>3. chosen \in DOMAIN l.official
  BY <1>2, LastHasKey
<1>4. TableOf(l, t)[k] = l.official[chosen].id
  BY DEF TableOf, Index
<1> HIDE DEF chosen
<1>5. l.official[chosen] \in UNION {Range(m.official) : m \in Listings}
  BY <1>1, <1>3 DEF Range
<1> QED
  BY <1>4, <1>5 DEF ListedIds

-----------------------------------------------------------------------------
IdleFetch == [at |-> "idle"]
Requests ==
    [at : {"request"}, attempt : 1 .. MaxRetries]
        \cup [at : {"backoff"}, attempt : 1 .. MaxRetries - 1]
Writes == [at : {"write"}, listing : Listings, next : 1 .. 4]

FetchesOK ==
    /\ fetch = [f \in Fetchers |-> fetch[f]]
    /\ \A f \in Fetchers : fetch[f] \in {IdleFetch} \cup Requests \cup Writes

\* Each table is the index of the listing that it was built from.
TablesTell ==
    /\ source \in [TableNames -> AllListings]
    /\ table = [t \in TableNames |-> TableOf(source[t], t)]

\* As long as no two fetches write at a time, the tables tell of one listing,
\* or the one fetch that writes has replaced the first of them.
OneWriter ==
    /\ \A f, g \in Fetchers : fetch[f].at = "write" /\ fetch[g].at = "write" => f = g
    /\ \A f \in Fetchers : fetch[f].at = "write" =>
          \A i \in 1 .. 4 : i < fetch[f].next => source[Tables[i]] = fetch[f].listing
    /\ \/ \E f \in Fetchers : fetch[f].at = "write"
       \/ \E l \in AllListings : \A t \in TableNames : source[t] = l

\* A query under way: the tables it has looked into did not have its key in
\* some listing that they held meanwhile.
Reading(r) ==
    LET q == query[r]
        passed == Len(q.asked) - Len(q.path)
    IN  /\ q = [at |-> "reading", key |-> q.key, asked |-> q.asked, path |-> q.path]
        /\ q.asked \in Seq(TableNames) /\ q.path \in Seq(TableNames)
        /\ Len(q.path) \in 1 .. Len(q.asked)
        /\ \A i \in 1 .. Len(q.path) : q.path[i] = q.asked[passed + i]
        /\ \A t \in TableNames : source[t] \in during[r]
        /\ \A i \in 1 .. passed : \E l \in during[r] : i \notin KindsIn(l, q)

Explained(r) ==
    \/ \E l, m \in during[r] : KindsIn(l, query[r]) # KindsIn(m, query[r])
    \/ \E l \in during[r] : query[r].answer = AnswerIn(l, query[r])

QueryOK(r) ==
    \/ query[r].at = "idle"
    \/ Reading(r)
    \/ query[r].at = "done" /\ Explained(r)

QueriesOK ==
    /\ query = [r \in Resolvers |-> query[r]]
    /\ during = [r \in Resolvers |-> during[r]]
    /\ \A r \in Resolvers : QueryOK(r)

ResolverInv == FetchesOK /\ TablesTell /\ (crossed \/ OneWriter) /\ QueriesOK

LEMMA ResolverInitInv == ResolverInit => ResolverInv
<1> SUFFICES ASSUME ResolverInit PROVE ResolverInv
  OBVIOUS
<1>1. FetchesOK
  BY DEF ResolverInit, FetchesOK, IdleFetch
<1>2. TablesTell
  BY TableRange DEF ResolverInit, TablesTell, AllListings
<1>3. OneWriter
  BY <1>2, TableRange DEF ResolverInit, OneWriter, AllListings
<1>4. QueriesOK
  BY DEF ResolverInit, QueriesOK, QueryOK
<1> QED
  BY <1>1, <1>2, <1>3, <1>4 DEF ResolverInv

\* Queries stay in order while the tables they may look into stay as they are.
LEMMA QueriesStay ==
    ASSUME QueriesOK, UNCHANGED <<query, during, source>>
    PROVE  QueriesOK'
  BY DEF QueriesOK, QueryOK, Reading, Explained

\* A fetch that is not writing, before or after, disturbs nobody.
LEMMA FetchMoves ==
    ASSUME ResolverInv, NEW f \in Fetchers, fetch[f].at # "write",
           NEW next \in {IdleFetch} \cup Requests, fetch' = [fetch EXCEPT ![f] = next],
           UNCHANGED <<table, query, source, during, crossed>>
    PROVE  ResolverInv'
<1>1. FetchesOK'
  BY DEF ResolverInv, FetchesOK
<1>2. TablesTell'
  BY DEF ResolverInv, TablesTell
<1>3. next.at # "write"
  BY DEF IdleFetch, Requests
<1>4. \A g \in Fetchers : fetch'[g].at = "write" <=> fetch[g].at = "write"
  BY <1>3 DEF ResolverInv, FetchesOK
<1>5. \A g \in Fetchers : fetch[g].at = "write" => fetch'[g] = fetch[g]
  BY DEF ResolverInv, FetchesOK
<1>6. ASSUME ~crossed PROVE OneWriter'
  <2>1. OneWriter
    BY <1>6 DEF ResolverInv
  <2> QED
    BY <2>1, <1>4, <1>5 DEF OneWriter
<1>7. QueriesOK'
  BY QueriesStay DEF ResolverInv
<1> QED
  BY <1>1, <1>2, <1>6, <1>7 DEF ResolverInv

LEMMA RequestsKeep ==
    ASSUME ResolverInv, NEW f \in Fetchers,
           FetchPoolData(f) \/ RequestFails(f) \/ RetriesRequest(f)
    PROVE  ResolverInv'
<1>1. fetch[f] \in {IdleFetch} \cup Requests \cup Writes
  BY DEF ResolverInv, FetchesOK
<1>2. CASE FetchPoolData(f)
  <2>1. [at |-> "request", attempt |-> 1] \in Requests
    BY DEF Requests, MaxRetries
  <2> QED
    BY <2>1, <1>2, FetchMoves DEF FetchPoolData
<1>3. CASE RequestFails(f)
  <2>1. fetch[f] \in Requests
    BY <1>1, <1>3 DEF RequestFails, IdleFetch, Writes
  <2> DEFINE next == IF fetch[f].attempt < MaxRetries THEN [fetch[f] EXCEPT !.at = "backoff"]
                     ELSE IdleFetch
  <2>2. next \in {IdleFetch} \cup Requests
    BY <2>1 DEF Requests, MaxRetries
  <2>3. fetch' = [fetch EXCEPT ![f] = next]
    BY <1>3 DEF RequestFails, IdleFetch
  <2> HIDE DEF next
  <2> QED
    BY <2>2, <2>3, <1>3, FetchMoves DEF RequestFails
<1>4. CASE RetriesRequest(f)
  <2> DEFINE next == [at |-> "request", attempt |-> fetch[f].attempt + 1]
  <2>1. fetch[f] \in Requests /\ fetch[f].at = "backoff"
    BY <1>1, <1>4 DEF RetriesRequest, IdleFetch, Writes
  <2>2. next \in Requests
    BY <2>1 DEF Requests, MaxRetries
  <2>3. fetch' = [fetch EXCEPT ![f] = next]
    BY <1>4 DEF RetriesRequest
  <2> HIDE DEF next
  <2> QED
    BY <2>1, <2>2, <2>3, <1>4, FetchMoves DEF RetriesRequest
<1> QED
  BY <1>2, <1>3, <1>4

LEMMA AnsweredKeeps ==
    ASSUME ResolverInv, NEW f \in Fetchers, NEW listing \in Listings, Answered(f, listing)
    PROVE  ResolverInv'
<1> DEFINE next == [at |-> "write", listing |-> listing, next |-> 1]
<1>0. /\ fetch[f].at = "request"
      /\ fetch' = [fetch EXCEPT ![f] = next]
      /\ UNCHANGED <<table, query, source, during>>
  BY DEF Answered
<1>1. FetchesOK'
  <2>1. next \in Writes
    BY DEF Writes
  <2> HIDE DEF next
  <2> QED
    BY <2>1, <1>0 DEF ResolverInv, FetchesOK
<1>2. TablesTell'
  BY <1>0 DEF ResolverInv, TablesTell
<1>3. ASSUME ~crossed'
      PROVE  OneWriter'
  <2>1. OneWriter /\ \A g \in Fetchers : fetch[g].at # "write"
    BY <1>3 DEF Answered, ResolverInv
  <2>2. PICK l \in AllListings : \A t \in TableNames : source[t] = l
    BY <2>1 DEF OneWriter
  <2>3. fetch'[f] = next /\ \A g \in Fetchers \ {f} : fetch'[g] = fetch[g]
    BY <1>0 DEF ResolverInv, FetchesOK
  <2>4. \A g \in Fetchers : fetch'[g].at = "write" => g = f
    BY <2>1, <2>3
  <2>5. \A i \in 1 .. 4 : ~(i < 1)
    OBVIOUS
  <2> QED
    BY <2>3, <2>4, <2>5 DEF OneWriter
<1>4. QueriesOK'
  BY <1>0, QueriesStay DEF ResolverInv
<1> QED
  BY <1>1, <1>2, <1>3, <1>4 DEF ResolverInv

\* A query that is reading may have seen one listing more.
LEMMA ReadingSeesMore ==
    ASSUME NEW r \in Resolvers, Reading(r), NEW listing,
           query'[r] = query[r], during'[r] = during[r] \cup {listing},
           \A t \in TableNames : source'[t] \in {source[t], listing}
    PROVE  Reading(r)'
<1>1. \A l : KindsIn(l, query[r])' = KindsIn(l, query[r])
  BY DEF KindsIn
<1>2. \A t \in TableNames : source'[t] \in during'[r]
  BY DEF Reading
<1>3. \A i \in 1 .. Len(query[r].asked) - Len(query[r].path) :
          \E l \in during'[r] : i \notin KindsIn(l, query[r])
  BY DEF Reading
<1> QED
  BY <1>2, <1>3 DEF Reading

LEMMA WriteTableKeeps ==
    ASSUME ResolverInv, NEW f \in Fetchers, WriteTable(f)
    PROVE  ResolverInv'
<1> DEFINE n == fetch[f].next
           t == Tables[n]
           listing == fetch[f].listing
<1>0. fetch[f] \in Writes /\ FetchesOK /\ TablesTell /\ QueriesOK
  BY DEF ResolverInv, FetchesOK, WriteTable, IdleFetch, Requests
<1>1. n \in 1 .. 4 /\ listing \in AllListings /\ t \in TableNames
  BY <1>0, TableRange DEF Writes, AllListings
<1>2. /\ table' = [table EXCEPT ![t] = TableOf(listing, t)]
      /\ source' = [source EXCEPT ![t] = listing]
      /\ during' = [r \in Resolvers |->
            IF Querying(r) THEN during[r] \cup {listing} ELSE during[r]]
      /\ query' = query /\ crossed' = crossed
  BY DEF WriteTable
<1>3. /\ fetch' = [fetch EXCEPT ![f] = fetch'[f]]
      /\ fetch'[f] \in {IdleFetch} \cup Writes
      /\ n < 4 => fetch'[f].at = "write" /\ fetch'[f].next = n + 1 /\ fetch'[f].listing = listing
      /\ n = 4 => fetch'[f].at = "idle"
  <2>1. fetch' = [fetch EXCEPT ![f] = IF n < 4 THEN [fetch[f] EXCEPT !.next = n + 1]
                                      ELSE IdleFetch]
    <3>1. fetch' = [fetch EXCEPT ![f] = IF fetch[f].next < Len(Tables)
                        THEN [fetch[f] EXCEPT !.next = fetch[f].next + 1] ELSE [at |-> "idle"]]
      BY DEF WriteTable
    <3>2. Len(Tables) = 4
      BY TableRange
    <3> QED
      BY <3>1, <3>2 DEF IdleFetch
  <2>2. n < 4 => [fetch[f] EXCEPT !.next = n + 1] \in Writes
    BY <1>0, <1>1 DEF Writes
  <2>3. CASE n < 4
    <3>1. fetch' = [fetch EXCEPT ![f] = [fetch[f] EXCEPT !.next = n + 1]]
      <4> HIDE DEF n
      <4> QED
        BY <2>1, <2>3
    <3> DEFINE next == [fetch[f] EXCEPT !.next = n + 1]
    <3>2. fetch'[f] = next
      <4>1. fetch' = [fetch EXCEPT ![f] = next]
        BY <3>1
      <4> HIDE DEF next
      <4> QED
        BY <4>1, <1>0 DEF FetchesOK
    <3>3. fetch'[f].at = "write" /\ fetch'[f].next = n + 1 /\ fetch'[f].listing = listing
      BY <3>2, <1>0 DEF Writes
    <3> QED
      <4>1. fetch' = [fetch EXCEPT ![f] = fetch'[f]]
        BY <3>1, <3>2
      <4> QED
        BY <4>1, <2>2, <2>3, <3>2, <3>3
  <2>4. CASE n = 4
    <3>1. fetch' = [fetch EXCEPT ![f] = IdleFetch]
      <4> HIDE DEF n
      <4> QED
        BY <2>1, <2>4
    <3>2. fetch'[f] = IdleFetch
      BY <3>1, <1>0 DEF FetchesOK
    <3> QED
      <4>1. fetch' = [fetch EXCEPT ![f] = fetch'[f]]
        BY <3>1, <3>2
      <4>2. fetch'[f].at = "idle"
        BY <3>2 DEF IdleFetch
      <4> QED
        BY <4>1, <4>2, <2>4, <3>2
  <2> QED
    BY <2>3, <2>4, <1>1
<1>4. /\ \A g \in Fetchers \ {f} : fetch'[g] = fetch[g]
      /\ source'[t] = listing /\ \A u \in TableNames \ {t} : source'[u] = source[u]
      /\ \A u \in TableNames : source'[u] \in {source[u], listing}
  BY <1>0, <1>1, <1>2, <1>3 DEF FetchesOK, TablesTell
<1> HIDE DEF n, t, listing
<1>5. FetchesOK'
  BY <1>0, <1>3, <1>4 DEF FetchesOK
<1>6. TablesTell'
  BY <1>0, <1>1, <1>2 DEF TablesTell
<1>7. ASSUME ~crossed
      PROVE  OneWriter'
  <2>1. OneWriter /\ fetch[f].at = "write"
    BY <1>0, <1>7 DEF ResolverInv, Writes
  <2>2. \A g \in Fetchers \ {f} : fetch'[g].at # "write"
    BY <2>1, <1>4 DEF OneWriter
  <2>3. \A i \in 1 .. 4 : i < n => source[Tables[i]] = listing
    BY <2>1 DEF OneWriter, n, listing
  <2>4. \A i \in 1 .. 4 : i < n + 1 => source'[Tables[i]] = listing
    BY <2>3, <1>1, <1>4, TableRange DEF t
  <2>5. CASE n < 4
    BY <2>2, <2>4, <2>5, <1>1, <1>3 DEF OneWriter
  <2>6. CASE n = 4
    <3>1. \A u \in TableNames : source'[u] = listing
      BY <2>4, <2>6, TableRange
    <3>2. \A g \in Fetchers : fetch'[g].at # "write"
      BY <2>2, <2>6, <1>3
    <3> QED
      BY <3>1, <3>2, <1>1 DEF OneWriter
  <2> QED
    BY <2>5, <2>6, <1>1
<1>8. QueriesOK'
  <2>1. ASSUME NEW r \in Resolvers
        PROVE  QueryOK(r)'
    <3>1. CASE Reading(r)
      <4>1. during'[r] = during[r] \cup {listing}
        BY <3>1, <1>2 DEF Reading, Querying
      <4>2. query'[r] = query[r] /\ \A u \in TableNames : source'[u] \in {source[u], listing}
        BY <1>2, <1>4
      <4>3. Reading(r)'
        BY <3>1, <4>1, <4>2, ReadingSeesMore
      <4> QED
        BY <4>3 DEF QueryOK
    <3>2. CASE query[r].at = "done" /\ Explained(r)
      <4>1. during'[r] = during[r]
        BY <3>2, <1>2 DEF Querying
      <4> QED
        BY <3>2, <4>1, <1>2 DEF Explained, QueryOK
    <3>3. CASE query[r].at = "idle"
      BY <3>3, <1>2 DEF QueryOK
    <3> QED
      BY <3>1, <3>2, <3>3, <1>0 DEF QueriesOK, QueryOK
  <2>2. query' = [r \in Resolvers |-> query'[r]] /\ during' = [r \in Resolvers |-> during'[r]]
    BY <1>0, <1>2 DEF QueriesOK
  <2> QED
    BY <2>1, <2>2 DEF QueriesOK
<1> QED
  BY <1>2, <1>5, <1>6, <1>7, <1>8 DEF ResolverInv

\* What a listing says of a query depends on its key and on what it asks.
LEMMA SameQuestion ==
    ASSUME NEW l, NEW q1, NEW q2, q1.key = q2.key, q1.asked = q2.asked
    PROVE  KindsIn(l, q1) = KindsIn(l, q2) /\ AnswerIn(l, q1) = AnswerIn(l, q2)
<1>1. KindsIn(l, q1) = KindsIn(l, q2)
  BY DEF KindsIn
<1> QED
  BY <1>1 DEF AnswerIn

\* Only one query moves.
LEMMA OneQueryMoves ==
    ASSUME ResolverInv, NEW r \in Resolvers,
           query' = [query EXCEPT ![r] = query'[r]], during' = [during EXCEPT ![r] = during'[r]],
           QueryOK(r)', UNCHANGED <<table, fetch, source, crossed>>
    PROVE  ResolverInv'
<1>1. FetchesOK' /\ TablesTell' /\ (crossed \/ OneWriter)'
  BY DEF ResolverInv, FetchesOK, TablesTell, OneWriter
<1>2. ASSUME NEW s \in Resolvers \ {r}
      PROVE  QueryOK(s)'
  <2>1. query'[s] = query[s] /\ during'[s] = during[s] /\ QueryOK(s)
    BY DEF ResolverInv, QueriesOK
  <2> QED
    BY <2>1 DEF QueryOK, Reading, Explained
<1>3. query' = [s \in Resolvers |-> query'[s]] /\ during' = [s \in Resolvers |-> during'[s]]
  BY DEF ResolverInv, QueriesOK
<1>4. QueriesOK'
  BY <1>2, <1>3 DEF QueriesOK
<1> QED
  BY <1>1, <1>4 DEF ResolverInv

PathsAsked == {<<"pools", "market", "lp">>, <<"pair">>, <<"market">>}

LEMMA AsksKeeps ==
    ASSUME ResolverInv, NEW r \in Resolvers, NEW key, NEW path \in PathsAsked,
           Asks(r, key, path)
    PROVE  ResolverInv'
<1> DEFINE new == [at |-> "reading", key |-> key, asked |-> path, path |-> path]
<1>1. path \in Seq(TableNames) /\ Len(path) >= 1
  <2>1. CASE path = <<"pools", "market", "lp">>
    BY <2>1 DEF TableNames
  <2>2. CASE path = <<"pair">>
    BY <2>2 DEF TableNames
  <2>3. CASE path = <<"market">>
    BY <2>3 DEF TableNames
  <2> QED
    BY <2>1, <2>2, <2>3 DEF PathsAsked
<1>2. query'[r] = new
  BY DEF Asks, ResolverInv, QueriesOK
<1>3. during'[r] = {source[t] : t \in TableNames}
  BY TableRange DEF Asks, ResolverInv, QueriesOK
<1>4. query' = [query EXCEPT ![r] = query'[r]] /\ during' = [during EXCEPT ![r] = during'[r]]
  <2>1. query' = [query EXCEPT ![r] = new]
    BY DEF Asks
  <2>2. during' = [during EXCEPT ![r] = {source[t] : t \in TableNames}]
    BY TableRange DEF Asks
  <2> HIDE DEF new
  <2> QED
    BY <2>1, <2>2, <1>2, <1>3
<1>5. UNCHANGED <<table, fetch, source, crossed>>
  BY DEF Asks
<1>6. Reading(r)'
  <2>1. /\ query'[r].asked = path /\ query'[r].path = path
        /\ query'[r] = [at |-> "reading", key |-> query'[r].key, asked |-> query'[r].asked,
                        path |-> query'[r].path]
    BY <1>2
  <2>2. \A t \in TableNames : source'[t] \in during'[r]
    BY <1>3, <1>5
  <2>3. Len(path) \in Nat /\ Len(path) - Len(path) = 0
    BY <1>1
  <2>4. \A i \in 1 .. Len(path) : path[i] = path[0 + i]
    BY <1>1
  <2>5. 1 .. 0 = {}
    OBVIOUS
  <2> QED
    BY <2>1, <2>2, <2>3, <2>4, <2>5, <1>1 DEF Reading
<1> QED
  BY <1>4, <1>5, <1>6, OneQueryMoves DEF QueryOK

LEMMA PathMoves ==
    ASSUME NEW q, NEW path, q.at = "reading",
           q = [at |-> q.at, key |-> q.key, asked |-> q.asked, path |-> q.path]
    PROVE  [q EXCEPT !.path = path]
                = [at |-> "reading", key |-> q.key, asked |-> q.asked, path |-> path]
<1> DEFINE k == q.key
           a == q.asked
           p == q.path
<1>1. q = [at |-> "reading", key |-> k, asked |-> a, path |-> p]
  OBVIOUS
<1> HIDE DEF k, a, p
<1>2. [q EXCEPT !.path = path] = [at |-> "reading", key |-> k, asked |-> a, path |-> path]
  BY <1>1
<1> QED
  BY <1>2 DEF k, a

LEMMA Positions ==
    \A a \in Nat : \A b \in 1 .. a : a - b + 1 \in 1 .. a /\ 1 <= b /\ b <= a
  OBVIOUS

LEMMA LookUpKeeps ==
    ASSUME ResolverInv, NEW r \in Resolvers, LookUp(r)
    PROVE  ResolverInv'
<1> DEFINE q == query[r]
           t == Head(q.path)
           l == source[t]
           n == Len(q.asked) - Len(q.path) + 1
<1>1. QueriesOK /\ TablesTell /\ Reading(r)
  BY DEF ResolverInv, QueriesOK, QueryOK, LookUp, Querying
<1>2. /\ q.asked \in Seq(TableNames) /\ q.path \in Seq(TableNames)
      /\ Len(q.asked) \in Nat /\ Len(q.path) \in Nat
      /\ 1 <= Len(q.path) /\ Len(q.path) <= Len(q.asked)
      /\ \A u \in TableNames : source[u] \in during[r]
      /\ n \in 1 .. Len(q.asked)
      /\ \A i \in 1 .. n - 1 : \E m \in during[r] : i \notin KindsIn(m, q)
      /\ q = [at |-> "reading", key |-> q.key, asked |-> q.asked, path |-> q.path]
      /\ \A i \in 1 .. Len(q.path) : q.path[i] = q.asked[n - 1 + i]
  <2>1. /\ q.asked \in Seq(TableNames) /\ q.path \in Seq(TableNames)
        /\ Len(q.path) \in 1 .. Len(q.asked)
    BY <1>1 DEF Reading
  <2>2. \A u \in TableNames : source[u] \in during[r]
    BY <1>1 DEF Reading
  <2>3. q = [at |-> "reading", key |-> q.key, asked |-> q.asked, path |-> q.path]
    BY <1>1 DEF Reading
  <2>4. Len(q.asked) \in Nat /\ Len(q.path) \in Nat
    BY <2>1
  <2>5. n - 1 = Len(q.asked) - Len(q.path)
    BY <2>4
  <2>6. \A i \in 1 .. n - 1 : \E m \in during[r] : i \notin KindsIn(m, q)
    BY <2>5, <1>1 DEF Reading
  <2>7. \A i \in 1 .. Len(q.path) : q.path[i] = q.asked[n - 1 + i]
    BY <2>5, <1>1 DEF Reading
  <2>8. n \in 1 .. Len(q.asked) /\ 1 <= Len(q.path) /\ Len(q.path) <= Len(q.asked)
    BY <2>1, <2>4, Positions
  <2> HIDE DEF q, n
  <2> QED
    BY <2>1, <2>2, <2>3, <2>4, <2>6, <2>7, <2>8
<1>3. q.path # <<>> /\ t = q.path[1] /\ t \in TableNames /\ t = q.asked[n]
  <2> HIDE DEF q
  <2>1. t = q.path[1] /\ 1 \in 1 .. Len(q.path) /\ n - 1 + 1 = n
    BY <1>2
  <2>2. t = q.asked[n]
    BY <2>1, <1>2
  <2> QED
    BY <2>1, <2>2, <1>2
<1>4. l \in during[r] /\ table[t] = TableOf(l, t) /\ DOMAIN table[t] = Keys(l.official, t)
  BY <1>1, <1>2, <1>3, IndexShape DEF TablesTell
<1>5. (n \in KindsIn(l, q)) <=> (q.key \in DOMAIN table[t])
  <2> HIDE DEF q, n, t, l
  <2>1. n \in DOMAIN q.asked
    BY <1>2
  <2> QED
    BY <2>1, <1>3, <1>4 DEF KindsIn
<1>6. KindsIn(l, q) \subseteq 1 .. Len(q.asked)
  BY <1>2 DEF KindsIn
<1>7. during' = during /\ UNCHANGED <<table, fetch, source, crossed>>
  BY DEF LookUp
<1>8. ASSUME NEW new, query' = [query EXCEPT ![r] = new]
      PROVE  /\ query'[r] = new
             /\ query' = [query EXCEPT ![r] = query'[r]]
             /\ during' = [during EXCEPT ![r] = during'[r]]
  BY <1>1, <1>7, <1>8 DEF QueriesOK
\* If the listings agree on where the key is, none has it in a table before.
<1>9. ASSUME NEW id, query' = [query EXCEPT ![r] = Answers(q, id)],
             (\A m \in during[r] : KindsIn(m, q) = KindsIn(l, q)) => id = AnswerIn(l, q)
      PROVE  ResolverInv'
  <2>1. query'[r] = Answers(q, id)
    BY <1>8, <1>9
  <2>2. query'[r].at = "done" /\ query'[r].key = q.key /\ query'[r].asked = q.asked
        /\ query'[r].answer = id
    BY <2>1 DEF Answers
  <2>3. \A m : KindsIn(m, query'[r]) = KindsIn(m, q) /\ AnswerIn(m, query'[r]) = AnswerIn(m, q)
    BY <2>2, SameQuestion
  <2>4. Explained(r)'
    <3>1. CASE \A m \in during[r] : KindsIn(m, q) = KindsIn(l, q)
      BY <3>1, <2>2, <2>3, <1>4, <1>7, <1>9 DEF Explained
    <3>2. CASE \E m \in during[r] : KindsIn(m, q) # KindsIn(l, q)
      BY <3>2, <2>3, <1>4, <1>7 DEF Explained
    <3> QED
      BY <3>1, <3>2
  <2>5. QueryOK(r)'
    BY <2>2, <2>4 DEF QueryOK
  <2>6. /\ query' = [query EXCEPT ![r] = query'[r]]
        /\ during' = [during EXCEPT ![r] = during'[r]]
    BY <1>8, <1>9
  <2> QED
    BY <2>5, <2>6, <1>7, OneQueryMoves
<1>10. CASE q.key \in DOMAIN table[t]
  <2>1. query' = [query EXCEPT ![r] = Answers(q, table[t][q.key])]
    BY <1>10 DEF LookUp
  <2>2. ASSUME \A m \in during[r] : KindsIn(m, q) = KindsIn(l, q)
        PROVE  table[t][q.key] = AnswerIn(l, q)
    <3>1. n \in KindsIn(l, q) /\ \A i \in KindsIn(l, q) : n <= i
      <4> HIDE DEF q, l, t, n
      <4>1. n \in KindsIn(l, q)
        BY <1>5, <1>10
      <4>2. \A i \in 1 .. n - 1 : i \notin KindsIn(l, q)
        BY <2>2, <1>2
      <4>3. \A i \in 1 .. Len(q.asked) : n <= i \/ i \in 1 .. n - 1
        BY <1>2
      <4> QED
        BY <4>1, <4>2, <4>3, <1>6
    <3>2. Min(KindsIn(l, q)) = n
      <4> DEFINE K == KindsIn(l, q)
      <4>1. n \in K /\ (\A i \in K : n <= i) /\ K \subseteq Int
        <5>1. 1 .. Len(q.asked) \subseteq Int
          OBVIOUS
        <5> HIDE DEF q, l, n
        <5> QED
          BY <3>1, <1>6, <5>1
      <4> HIDE DEF K, n
      <4>2. Min(K) \in K /\ \A i \in K : Min(K) <= i
        BY <4>1 DEF Min
      <4> QED
        BY <4>1, <4>2 DEF K
    <3>3. AnswerIn(l, q) = TableOf(l, q.asked[n])[q.key]
      BY <3>1, <3>2 DEF AnswerIn, TableOf
    <3> QED
      BY <3>3, <1>3, <1>4
  <2> QED
    BY <2>1, <2>2, <1>9
<1>11. CASE q.key \notin DOMAIN table[t] /\ Len(q.path) = 1
  <2>1. query' = [query EXCEPT ![r] = Answers(q, NoAddress)]
    BY <1>11 DEF LookUp
  <2>2. ASSUME \A m \in during[r] : KindsIn(m, q) = KindsIn(l, q)
        PROVE  NoAddress = AnswerIn(l, q)
    <3>1. \A i \in 1 .. n : i \notin KindsIn(l, q)
      <4>1. \A i \in 1 .. n - 1 : i \notin KindsIn(l, q)
        BY <2>2, <1>2
      <4>2. n \notin KindsIn(l, q)
        BY <1>5, <1>11
      <4>3. \A i \in 1 .. n : i = n \/ i \in 1 .. n - 1
        <5> HIDE DEF n, q
        <5> QED
          BY <1>2
      <4> QED
        BY <4>1, <4>2, <4>3
    <3>2. n = Len(q.asked)
      BY <1>2, <1>11
    <3>3. KindsIn(l, q) = {}
      BY <3>1, <3>2, <1>6
    <3> QED
      BY <3>3 DEF AnswerIn
  <2> QED
    BY <2>1, <2>2, <1>9
<1>12. CASE q.key \notin DOMAIN table[t] /\ Len(q.path) # 1
  <2> DEFINE new == [q EXCEPT !.path = Tail(q.path)]
  <2>1. query' = [query EXCEPT ![r] = new]
    BY <1>12 DEF LookUp
  <2>2. query'[r] = new
    <3> HIDE DEF new
    <3> QED
      BY <2>1, <1>8
  <2>3. query'[r] = [at |-> "reading", key |-> q.key, asked |-> q.asked, path |-> Tail(q.path)]
    <3> HIDE DEF q
    <3> QED
      <4>1. q = [at |-> "reading", key |-> q.key, asked |-> q.asked, path |-> q.path]
        BY <1>2
      <4>2. new = [at |-> "reading", key |-> q.key, asked |-> q.asked, path |-> Tail(q.path)]
        <5>1. q.at = "reading" /\ q = [at |-> q.at, key |-> q.key, asked |-> q.asked,
                                       path |-> q.path]
          BY <4>1
        <5> QED
          BY <5>1, PathMoves
      <4> HIDE DEF new
      <4> QED
        BY <2>2, <4>2
  <2>4. /\ Tail(q.path) \in Seq(TableNames) /\ Len(Tail(q.path)) = Len(q.path) - 1
        /\ Len(q.path) >= 2
        /\ \A i \in 1 .. Len(q.path) - 1 : Tail(q.path)[i] = q.path[i + 1]
    <3> HIDE DEF q
    <3> QED
      <4> DEFINE path == q.path
      <4>1. path \in Seq(TableNames) /\ Len(path) \in Nat /\ 1 <= Len(path) /\ Len(path) # 1
        BY <1>2, <1>12
      <4> HIDE DEF path
      <4>2. /\ Tail(path) \in Seq(TableNames) /\ Len(Tail(path)) = Len(path) - 1
            /\ Len(path) >= 2
            /\ \A i \in 1 .. Len(path) - 1 : Tail(path)[i] = path[i + 1]
        BY <4>1
      <4> QED
        BY <4>2 DEF path
  <2>5. \A i \in 1 .. Len(Tail(q.path)) : Tail(q.path)[i] = q.asked[n + i]
    <3>1. ASSUME NEW i \in 1 .. Len(Tail(q.path))
          PROVE  Tail(q.path)[i] = q.asked[n + i]
      <4> HIDE DEF q, n
      <4>1. i + 1 \in 1 .. Len(q.path)
        BY <2>4, <1>2
      <4>2. q.path[i + 1] = q.asked[n - 1 + (i + 1)]
        BY <4>1, <1>2
      <4>3. n - 1 + (i + 1) = n + i
        BY <1>2, <2>4
      <4> QED
        BY <4>2, <4>3, <2>4
    <3> QED
      BY <3>1
  <2>6. \A i \in 1 .. n : \E m \in during[r] : i \notin KindsIn(m, q)
    <3>1. n \notin KindsIn(l, q)
      BY <1>5, <1>12
    <3>2. \A i \in 1 .. n : i = n \/ i \in 1 .. n - 1
      <4> HIDE DEF n, q
      <4> QED
        BY <1>2
    <3> QED
      BY <3>1, <3>2, <1>2, <1>4
  <2>7. \A m : KindsIn(m, query'[r]) = KindsIn(m, q)
    BY <2>3, SameQuestion
  <2>8. Len(q.asked) - Len(Tail(q.path)) = n /\ Len(Tail(q.path)) \in 1 .. Len(q.asked)
    <3> HIDE DEF q
    <3> QED
      BY <2>4, <1>2
  <2>9. Reading(r)'
    <3>1. /\ query'[r].key = q.key /\ query'[r].asked = q.asked
          /\ query'[r].path = Tail(q.path)
      BY <2>3
    <3> HIDE DEF q, n
    <3> QED
      BY <3>1, <2>3, <2>4, <2>5, <2>6, <2>7, <2>8, <1>2, <1>7 DEF Reading
  <2>10. /\ query' = [query EXCEPT ![r] = query'[r]]
         /\ during' = [during EXCEPT ![r] = during'[r]]
    <3> HIDE DEF new
    <3> QED
      BY <2>1, <1>8
  <2> QED
    BY <2>9, <2>10, <1>7, OneQueryMoves DEF QueryOK
<1> QED
  BY <1>10, <1>11, <1>12

LEMMA ResolverStepInv == ResolverInv /\ [ResolverNext]_resolverVars => ResolverInv'
<1> SUFFICES ASSUME ResolverInv, [ResolverNext]_resolverVars
             PROVE  ResolverInv'
  OBVIOUS
<1>1. ASSUME NEW r \in Resolvers, NEW a, Resolve(r, a) \/ ResolveByMarketId(r, a)
      PROVE  ResolverInv'
  BY <1>1, AsksKeeps DEF Resolve, ResolveByMarketId, PathsAsked
<1>2. ASSUME NEW r \in Resolvers, NEW pair, ResolveByMints(r, pair)
      PROVE  ResolverInv'
  BY <1>2, AsksKeeps DEF ResolveByMints, PathsAsked
<1>3. CASE UNCHANGED resolverVars
  <2>1. FetchesOK' /\ TablesTell' /\ (crossed \/ OneWriter)'
    BY <1>3 DEF resolverVars, ResolverInv, FetchesOK, TablesTell, OneWriter
  <2>2. QueriesOK'
    BY <1>3, QueriesStay DEF resolverVars, ResolverInv
  <2> QED
    BY <2>1, <2>2 DEF ResolverInv
<1> QED
  BY <1>1, <1>2, <1>3, RequestsKeep, AnsweredKeeps, WriteTableKeeps, LookUpKeeps
  DEF ResolverNext, ResolverQuiet

LEMMA ReadingIsReading == \A r \in Resolvers : Reading(r) => query[r].at = "reading"
<1> SUFFICES ASSUME NEW r \in Resolvers, Reading(r) PROVE query[r].at = "reading"
  OBVIOUS
<1> DEFINE k == query[r].key
           a == query[r].asked
           p == query[r].path
<1>1. query[r] = [at |-> "reading", key |-> k, asked |-> a, path |-> p]
  BY DEF Reading
<1> HIDE DEF k, a, p
<1> QED
  BY <1>1

LEMMA ResolverInvMeans == ResolverInv => ResolverTypeOK /\ AnswersComeFromListings
<1> SUFFICES ASSUME ResolverInv PROVE ResolverTypeOK /\ AnswersComeFromListings
  OBVIOUS
<1>1. FetchesOK /\ TablesTell /\ (crossed \/ OneWriter) /\ QueriesOK
  BY DEF ResolverInv
<1>2. ASSUME NEW t \in Range(Tables)
      PROVE  table[t] \in [DOMAIN table[t] -> ListedIds]
  <2> DEFINE l == source[t]
  <2>1. t \in TableNames /\ l \in AllListings /\ table[t] = TableOf(l, t)
    BY <1>1, TableRange DEF TablesTell
  <2> HIDE DEF l
  <2>2. table[t] = [k \in Keys(l.official, t) |-> table[t][k]]
    BY <2>1 DEF TableOf, Index
  <2>3. \A k \in Keys(l.official, t) : table[t][k] \in ListedIds
    BY <2>1, IndexLeadsToIds
  <2> QED
    BY <2>2, <2>3
<1>3. ASSUME NEW f \in Fetchers
      PROVE  \/ fetch[f].at = "idle"
             \/ fetch[f].at \in {"request", "backoff"} /\ fetch[f].attempt \in 1 .. MaxRetries
             \/ fetch[f].at = "write" /\ fetch[f].next \in DOMAIN Tables
  <2>1. fetch[f] \in {IdleFetch} \cup Requests \cup Writes
    BY <1>1 DEF FetchesOK
  <2>2. 1 .. MaxRetries - 1 \subseteq 1 .. MaxRetries
    BY DEF MaxRetries
  <2> QED
    BY <2>1, <2>2, TableRange DEF IdleFetch, Requests, Writes
<1>4. \A r \in Resolvers : query[r].at \in {"idle", "reading", "done"}
  <2>1. \A r \in Resolvers : Reading(r) => query[r].at = "reading"
    BY ReadingIsReading
  <2> QED
    BY <2>1, <1>1 DEF QueriesOK, QueryOK
<1>5. ResolverTypeOK
  BY <1>2, <1>3, <1>4 DEF ResolverTypeOK, ListedIds
<1>6. AnswersComeFromAListing
  <2>1. \A r \in Resolvers : Reading(r) => query[r].at = "reading"
    BY ReadingIsReading
  <2>2. \A r \in Resolvers : query[r].at = "done" => Explained(r)
    BY <2>1, <1>1 DEF QueriesOK, QueryOK
  <2> QED
    BY <2>2 DEF Explained, AnswersComeFromAListing
<1>7. TablesAgreeAtRest
  <2>1. ASSUME ~crossed, \A f \in Fetchers : fetch[f].at # "write"
        PROVE  \E l \in AllListings : \A t \in Range(Tables) : table[t] = TableOf(l, t)
    <3>1. PICK l \in AllListings : \A t \in TableNames : source[t] = l
      BY <2>1, <1>1 DEF OneWriter
    <3> QED
      BY <3>1, <1>1, TableRange DEF TablesTell
  <2> QED
    BY <2>1 DEF TablesAgreeAtRest, AllListings, TableOf
<1> QED
  BY <1>5, <1>6, <1>7 DEF AnswersComeFromListings

\* A query answers as one of the listings does that the tables held while it
\* ran, unless they disagree on its key, for any listings and however the four
\* tables are replaced between its looks; at rest the tables tell of the same
\* listing as long as no two fetches wrote at a time.
THEOREM AnswersComeFromListingsAlways == ResolverSpec => []AnswersComeFromListings
<1>1. ResolverSpec => []ResolverInv
  BY ResolverInitInv, ResolverStepInv, PTL DEF ResolverSpec
<1> QED
  BY <1>1, ResolverInvMeans, PTL

-----------------------------------------------------------------------------
(***************************************************************************)
(* PoolDiscovery: for any listings, any filter and any number of callers.  *)
(***************************************************************************)

\* A pool of the listing that passes the filter has been discovered.
Seen(e) == FilterPool(e) => e.address \in discovered

Scannings == [at : {"scanning"}, listing : Chains, next : Nat, new : Seq(ListedAddresses)]
Dones == [at : {"done"}, listing : Chains, new : Seq(ListedAddresses)]

\* In the loop: the turns that are over have missed no pool.
ScanningOK(b) ==
    /\ scan[b] \in Scannings
    /\ scan[b].next \in 1 .. Len(scan[b].listing) + 1
    /\ Len(scan[b].new) <= MaxPools
    /\ \A i \in 1 .. scan[b].next - 1 : Seen(scan[b].listing[i])

DoneOK(b) ==
    /\ scan[b] \in Dones
    /\ Len(scan[b].new) <= MaxPools
    /\ Len(scan[b].new) = MaxPools \/ \A e \in Range(scan[b].listing) : Seen(e)

ScanOK(b) ==
    \/ scan[b] \in [at : {"idle"}] \cup [at : {"listed"}, listing : Chains]
    \/ ScanningOK(b)
    \/ DoneOK(b)

ScansOK ==
    /\ scan = [b \in Backfills |-> scan[b]]
    /\ \A b \in Backfills : ScanOK(b)

FoundOnce ==
    /\ found \in Seq(ListedAddresses)
    /\ Range(found) \subseteq discovered
    /\ discovered \subseteq ListedAddresses
    /\ \A i, j \in DOMAIN found : found[i] = found[j] => i = j

DiscoveryInv == ScansOK /\ FoundOnce

LEMMA DiscoveryInitInv == DiscoveryInit => DiscoveryInv
<1> SUFFICES ASSUME DiscoveryInit PROVE DiscoveryInv
  OBVIOUS
<1>1. ScansOK
  BY DEF DiscoveryInit, ScansOK, ScanOK
<1>2. FoundOnce
  BY DEF DiscoveryInit, FoundOnce, Range
<1> QED
  BY <1>1, <1>2 DEF DiscoveryInv

\* A listing is a sequence, and its addresses are listed.
LEMMA ListingIsSequence ==
    ASSUME NEW l \in Chains
    PROVE  /\ l \in Seq(Range(l)) /\ Len(l) \in Nat /\ DOMAIN l = 1 .. Len(l)
           /\ \A i \in DOMAIN l : l[i] \in Range(l) /\ l[i].address \in ListedAddresses
<1>1. l \in Seq(Range(l))
  BY DiscoveryAssumption
<1>2. \A i \in DOMAIN l : l[i] \in Range(l)
  BY DEF Range
<1> QED
  BY <1>1, <1>2 DEF ListedAddresses

\* One caller moves, and the set of discovered pools does not shrink.
LEMMA ScanMoves ==
    ASSUME ScansOK, NEW b \in Backfills, scan' = [scan EXCEPT ![b] = scan'[b]],
           discovered \subseteq discovered', ScanOK(b)'
    PROVE  ScansOK'
<1>1. ASSUME NEW c \in Backfills \ {b} PROVE ScanOK(c)'
  <2>1. scan'[c] = scan[c] /\ ScanOK(c)
    BY DEF ScansOK
  <2> QED
    BY <2>1 DEF ScanOK, ScanningOK, DoneOK, Seen
<1>2. scan' = [c \in Backfills |-> scan'[c]]
  BY DEF ScansOK
<1> QED
  BY <1>1, <1>2 DEF ScansOK

\* A caller whose step leaves the pools alone.
LEMMA QuietScanMoves ==
    ASSUME DiscoveryInv, NEW b \in Backfills, NEW new, scan' = [scan EXCEPT ![b] = new],
           UNCHANGED <<discovered, found>>, scan'[b] = new => ScanOK(b)'
    PROVE  DiscoveryInv'
<1>1. scan'[b] = new
  BY DEF DiscoveryInv, ScansOK
<1>2. ScansOK'
  BY <1>1, ScanMoves DEF DiscoveryInv
<1> QED
  BY <1>2 DEF DiscoveryInv, FoundOnce

LEMMA ScanningIs ==
    ASSUME DiscoveryInv, NEW b \in Backfills, scan[b].at = "scanning"
    PROVE  ScanningOK(b)
  BY DEF DiscoveryInv, ScansOK, ScanOK, DoneOK, Dones

LEMMA PassOverKeeps ==
    ASSUME DiscoveryInv, NEW b \in Backfills, PassOver(b)
    PROVE  DiscoveryInv'
<1> DEFINE l == scan[b].listing
           n == scan[b].next
           new == [scan[b] EXCEPT !.next = n + 1]
<1>1. ScanningOK(b)
  BY ScanningIs DEF PassOver, InLoop
<1>2. n \in DOMAIN l /\ l \in Chains /\ n \in Nat /\ scan[b] \in Scannings
  BY <1>1 DEF PassOver, InLoop, ScanningOK, Scannings
<1>3. Seen(l[n])
  BY DEF PassOver, IsNew, Turn, Seen
<1>4. scan' = [scan EXCEPT ![b] = new] /\ UNCHANGED <<discovered, found>>
  BY DEF PassOver
<1>5. ASSUME scan'[b] = new PROVE ScanOK(b)'
  <2>1. /\ new \in Scannings /\ new.listing = l /\ new.next = n + 1 /\ new.new = scan[b].new
    BY <1>2 DEF Scannings
  <2>2. n + 1 \in 1 .. Len(l) + 1
    BY <1>2, ListingIsSequence
  <2>3. \A i \in 1 .. (n + 1) - 1 : Seen(l[i])
    <3>1. \A i \in 1 .. (n + 1) - 1 : i = n \/ i \in 1 .. n - 1
      BY <1>2
    <3>2. \A i \in 1 .. n - 1 : Seen(l[i])
      BY <1>1 DEF ScanningOK
    <3> QED
      BY <3>1, <3>2, <1>3
  <2>4. \A i \in 1 .. (n + 1) - 1 : Seen(l[i])'
    BY <2>3, <1>4 DEF Seen
  <2>5. Len(new.new) <= MaxPools
    BY <2>1, <1>1 DEF ScanningOK
  <2> HIDE DEF new
  <2>6. ScanningOK(b)'
    BY <2>1, <2>2, <2>4, <2>5, <1>5 DEF ScanningOK
  <2> QED
    BY <2>6 DEF ScanOK
<1> HIDE DEF new
<1> QED
  BY <1>4, <1>5, QuietScanMoves

\* A caller that goes on to the next turn with one pool more.
LEMMA TurnsOn ==
    ASSUME NEW r \in Scannings, NEW m, NEW g
    PROVE  [r EXCEPT !.next = m, !.new = g] =
             [at |-> "scanning", listing |-> r.listing, next |-> m, new |-> g]
<1> DEFINE k == r.listing
           n == r.next
           w == r.new
<1>1. r = [at |-> "scanning", listing |-> k, next |-> n, new |-> w]
  BY DEF Scannings
<1> HIDE DEF k, n, w
<1>2. [r EXCEPT !.next = m, !.new = g] = [[r EXCEPT !.next = m] EXCEPT !.new = g]
  OBVIOUS
<1>3. [r EXCEPT !.next = m] = [at |-> "scanning", listing |-> k, next |-> m, new |-> w]
  BY <1>1
<1>4. [[at |-> "scanning", listing |-> k, next |-> m, new |-> w] EXCEPT !.new = g]
        = [at |-> "scanning", listing |-> k, next |-> m, new |-> g]
  OBVIOUS
<1> QED
  BY <1>2, <1>3, <1>4 DEF k

LEMMA DiscoverKeeps ==
    ASSUME DiscoveryInv, NEW b \in Backfills, Discover(b)
    PROVE  DiscoveryInv'
<1> DEFINE l == scan[b].listing
           n == scan[b].next
           a == Turn(b).address
           grown == Append(scan[b].new, a)
           new == [at |-> "scanning", listing |-> l, next |-> n + 1, new |-> grown]
<1>1. ScanningOK(b) /\ ScansOK /\ FoundOnce
  BY ScanningIs DEF Discover, InLoop, DiscoveryInv
<1>2. n \in DOMAIN l /\ l \in Chains /\ n \in Nat /\ scan[b] \in Scannings
  BY <1>1 DEF Discover, InLoop, ScanningOK, Scannings
<1>3. a = l[n].address /\ a \in ListedAddresses /\ a \notin discovered
  BY <1>2, ListingIsSequence DEF Discover, IsNew, Turn
<1>4. /\ scan[b].new \in Seq(ListedAddresses)
      /\ grown \in Seq(ListedAddresses) /\ Len(grown) = Len(scan[b].new) + 1
      /\ Len(grown) <= MaxPools
  <2>1. scan[b].new \in Seq(ListedAddresses)
    BY <1>2 DEF Scannings
  <2>2. ~(Len(scan[b].new) >= MaxPools) /\ MaxPools \in Nat
    BY DiscoveryAssumption DEF Discover, IsFull
  <2> HIDE DEF a
  <2> QED
    BY <2>1, <2>2, <1>3
<1>5. scan' = [scan EXCEPT ![b] = new]
  <2>1. scan' = [scan EXCEPT ![b].next = n + 1, ![b].new = grown]
    BY DEF Discover
  <2>2. [scan[b] EXCEPT !.next = n + 1, !.new = grown] = new
    BY <1>2, TurnsOn
  <2> HIDE DEF l, n, grown, new
  <2>3. scan' = [scan EXCEPT ![b] = [scan[b] EXCEPT !.next = n + 1, !.new = grown]]
    BY <2>1, <1>1 DEF ScansOK
  <2> QED
    BY <2>2, <2>3
<1>6. scan'[b] = new
  <2> HIDE DEF new
  <2> QED
    BY <1>5, <1>1 DEF ScansOK
<1>7. discovered' = discovered \cup {a} /\ found' = Append(found, a)
  BY DEF Discover
<1>8. ScanningOK(b)'
  <2>1. /\ new \in Scannings /\ new.listing = l /\ new.next = n + 1 /\ new.new = grown
    BY <1>2, <1>4 DEF Scannings
  <2>2. n + 1 \in 1 .. Len(l) + 1
    BY <1>2, ListingIsSequence
  <2>3. \A i \in 1 .. n - 1 : Seen(l[i])
    BY <1>1 DEF ScanningOK
  <2> HIDE DEF l, n, a, grown, new
  <2>4. \A i \in 1 .. (n + 1) - 1 : i = n \/ i \in 1 .. n - 1
    BY <1>2
  <2>5. \A i \in 1 .. new.next - 1 :
           FilterPool(new.listing[i]) => new.listing[i].address \in discovered'
    BY <2>1, <2>3, <2>4, <1>3, <1>7 DEF Seen
  <2> QED
    BY <2>1, <2>2, <2>5, <1>2, <1>4, <1>6 DEF ScanningOK, Seen
<1> HIDE DEF new
<1>9. ScansOK'
  <2>1. scan' = [scan EXCEPT ![b] = scan'[b]]
    BY <1>5, <1>6
  <2>2. discovered \subseteq discovered' /\ ScanOK(b)'
    BY <1>7, <1>8 DEF ScanOK
  <2> QED
    BY <2>1, <2>2, <1>1, ScanMoves
<1>10. FoundOnce'
  <2> HIDE DEF a
  <2>1. found \in Seq(ListedAddresses) /\ Len(found) \in Nat
    BY <1>1 DEF FoundOnce
  <2>2. found' \in Seq(ListedAddresses)
    BY <2>1, <1>3, <1>7
  <2>3. /\ DOMAIN found' = 1 .. Len(found) + 1
        /\ \A i \in 1 .. Len(found) : found'[i] = found[i]
        /\ found'[Len(found) + 1] = a
    BY <2>1, <1>7
  <2>4. \A i \in 1 .. Len(found) : found[i] \in discovered
    BY <1>1, <2>1 DEF FoundOnce, Range
  <2>5. Range(found') \subseteq discovered'
    <3>1. \A i \in DOMAIN found' : found'[i] \in discovered'
      BY <2>1, <2>3, <2>4, <1>7
    <3> QED
      BY <3>1 DEF Range
  <2>6. discovered' \subseteq ListedAddresses
    BY <1>1, <1>3, <1>7 DEF FoundOnce
  <2>7. \A i, j \in DOMAIN found' : found'[i] = found'[j] => i = j
    <3>1. \A i \in DOMAIN found' : i = Len(found) + 1 \/ i \in 1 .. Len(found)
      BY <2>1, <2>3
    <3>2. \A i, j \in 1 .. Len(found) : found[i] = found[j] => i = j
      BY <1>1, <2>1 DEF FoundOnce
    <3>3. \A i \in 1 .. Len(found) : found'[i] # a
      BY <2>3, <2>4, <1>3
    <3> QED
      BY <3>1, <3>2, <3>3, <2>3
  <2> QED
    BY <2>2, <2>5, <2>6, <2>7 DEF FoundOnce
<1> QED
  BY <1>9, <1>10 DEF DiscoveryInv

LEMMA EndScanKeeps ==
    ASSUME DiscoveryInv, NEW b \in Backfills, EndScan(b)
    PROVE  DiscoveryInv'
<1> DEFINE l == scan[b].listing
           n == scan[b].next
           s == scan[b].new
           new == [at |-> "done", listing |-> l, new |-> s]
<1>1. ScanningOK(b) /\ scan[b] \in Scannings
  BY ScanningIs DEF EndScan, ScanningOK
<1>2. l \in Chains /\ n \in Nat /\ s \in Seq(ListedAddresses) /\ n \in 1 .. Len(l) + 1
      /\ Len(s) <= MaxPools
  BY <1>1 DEF ScanningOK, Scannings
<1>3. Len(s) = MaxPools \/ \A e \in Range(l) : Seen(e)
  <2>1. CASE n \in DOMAIN l
    <3>1. Len(s) >= MaxPools
      BY <2>1 DEF EndScan, InLoop, IsFull
    <3>2. MaxPools \in Nat /\ Len(s) \in Nat
      BY <1>2, DiscoveryAssumption
    <3> HIDE DEF s
    <3> QED
      BY <3>1, <3>2, <1>2
  <2>2. CASE n \notin DOMAIN l
    <3>1. Len(l) \in Nat /\ DOMAIN l = 1 .. Len(l)
      BY <1>2, ListingIsSequence
    <3>2. n - 1 = Len(l)
      <4> HIDE DEF l, n
      <4> QED
        BY <3>1, <2>2, <1>2
    <3>3. \A i \in 1 .. Len(l) : Seen(l[i])
      BY <1>1, <3>2 DEF ScanningOK
    <3> QED
      BY <3>1, <3>3 DEF Range
  <2> QED
    BY <2>1, <2>2
<1>4. scan' = [scan EXCEPT ![b] = new] /\ UNCHANGED <<discovered, found>>
  BY DEF EndScan
<1>5. ASSUME scan'[b] = new PROVE ScanOK(b)'
  <2>1. new \in Dones /\ new.listing = l /\ new.new = s
    BY <1>2 DEF Dones
  <2> HIDE DEF new, l, s
  <2>2. DoneOK(b)'
    BY <2>1, <1>2, <1>3, <1>4, <1>5 DEF DoneOK, Seen
  <2> QED
    BY <2>2 DEF ScanOK
<1> HIDE DEF new
<1> QED
  BY <1>4, <1>5, QuietScanMoves

LEMMA BeginScanKeeps ==
    ASSUME DiscoveryInv, NEW b \in Backfills, BeginScan(b)
    PROVE  DiscoveryInv'
<1> DEFINE l == scan[b].listing
           new == [at |-> "scanning", listing |-> l, next |-> 1, new |-> <<>>]
<1>1. l \in Chains
  BY DEF BeginScan, DiscoveryInv, ScansOK, ScanOK, ScanningOK, Scannings, DoneOK, Dones
<1>2. scan' = [scan EXCEPT ![b] = new] /\ UNCHANGED <<discovered, found>>
  BY DEF BeginScan
<1>3. ASSUME scan'[b] = new PROVE ScanOK(b)'
  <2>1. new \in Scannings /\ new.listing = l /\ new.next = 1 /\ new.new = <<>>
    BY <1>1 DEF Scannings
  <2>2. 1 \in 1 .. Len(l) + 1 /\ Len(<<>>) <= MaxPools /\ 1 .. 1 - 1 = {}
    BY <1>1, ListingIsSequence, DiscoveryAssumption
  <2> HIDE DEF new, l
  <2>3. ScanningOK(b)'
    BY <2>1, <2>2, <1>3 DEF ScanningOK
  <2> QED
    BY <2>3 DEF ScanOK
<1> HIDE DEF new
<1> QED
  BY <1>2, <1>3, QuietScanMoves

LEMMA DiscoveryStepInv == DiscoveryInv /\ [DiscoveryNext]_discoveryVars => DiscoveryInv'
<1> SUFFICES ASSUME DiscoveryInv, [DiscoveryNext]_discoveryVars
             PROVE  DiscoveryInv'
  OBVIOUS
<1>1. ASSUME NEW b \in Backfills, NEW listing \in Chains, Backfill(b, listing)
      PROVE  DiscoveryInv'
  <2> DEFINE new == [at |-> "listed", listing |-> listing]
  <2>1. scan' = [scan EXCEPT ![b] = new] /\ UNCHANGED <<discovered, found>>
    BY <1>1 DEF Backfill
  <2>2. scan'[b] = new => ScanOK(b)'
    BY DEF ScanOK
  <2> HIDE DEF new
  <2> QED
    BY <2>1, <2>2, QuietScanMoves
<1>2. ASSUME NEW b \in Backfills, Returns(b)
      PROVE  DiscoveryInv'
  <2> DEFINE new == [at |-> "idle"]
  <2>1. scan' = [scan EXCEPT ![b] = new] /\ UNCHANGED <<discovered, found>>
    BY <1>2 DEF Returns
  <2>2. scan'[b] = new => ScanOK(b)'
    BY DEF ScanOK
  <2> HIDE DEF new
  <2> QED
    BY <2>1, <2>2, QuietScanMoves
<1>3. ASSUME NEW address \in ListedAddresses, MarkDiscovered(address)
      PROVE  DiscoveryInv'
  <2>1. scan' = scan /\ found' = found /\ discovered' = discovered \cup {address}
    BY <1>3 DEF MarkDiscovered
  <2>2. ScansOK'
    BY <2>1 DEF DiscoveryInv, ScansOK, ScanOK, ScanningOK, DoneOK, Seen
  <2>3. FoundOnce'
    BY <2>1 DEF DiscoveryInv, FoundOnce
  <2> QED
    BY <2>2, <2>3 DEF DiscoveryInv
<1>4. CASE UNCHANGED discoveryVars
  <2>1. UNCHANGED <<scan, found, discovered>>
    BY <1>4 DEF discoveryVars
  <2>2. ScansOK'
    BY <2>1 DEF DiscoveryInv, ScansOK, ScanOK, ScanningOK, DoneOK, Seen
  <2>3. FoundOnce'
    BY <2>1 DEF DiscoveryInv, FoundOnce
  <2> QED
    BY <2>2, <2>3 DEF DiscoveryInv
<1> QED
  BY <1>1, <1>2, <1>3, <1>4, BeginScanKeeps, PassOverKeeps, DiscoverKeeps, EndScanKeeps
  DEF DiscoveryNext, DiscoveryQuiet

LEMMA DiscoveryInvMeans == DiscoveryInv => DiscoveryTypeOK /\ DiscoveredOnce
<1> SUFFICES ASSUME DiscoveryInv PROVE DiscoveryTypeOK /\ DiscoveredOnce
  OBVIOUS
<1>1. ASSUME NEW b \in Backfills
      PROVE  /\ scan[b].at \in {"idle", "listed", "scanning", "done"}
             /\ scan[b].at = "done" => DoneOK(b)
  BY DEF DiscoveryInv, ScansOK, ScanOK, ScanningOK, Scannings, DoneOK, Dones
<1>2. ASSUME NEW b \in Backfills, DoneOK(b)
      PROVE  \/ Len(scan[b].new) = MaxPools
             \/ /\ Len(scan[b].new) < MaxPools
                /\ \A e \in Range(scan[b].listing) : FilterPool(e) => e.address \in discovered
  <2>1. Len(scan[b].new) \in Nat
    BY <1>2 DEF DoneOK, Dones
  <2> QED
    BY <2>1, <1>2, DiscoveryAssumption DEF DoneOK, Seen
<1> QED
  BY <1>1, <1>2 DEF DiscoveryInv, FoundOnce, DiscoveryTypeOK, DiscoveredOnce

\* No pool is returned twice, whichever calls overlap and whatever their
\* listings say, and a call misses a pool of its listing only if it is full.
THEOREM DiscoveredOnceAlways == DiscoverySpec => []DiscoveredOnce
<1>1. DiscoverySpec => []DiscoveryInv
  BY DiscoveryInitInv, DiscoveryStepInv, PTL DEF DiscoverySpec
<1> QED
  BY <1>1, DiscoveryInvMeans, PTL

-----------------------------------------------------------------------------
(***************************************************************************)
(* The services side by side: what each of them keeps to when it moves, it *)
(* keeps to when another one does, for they share no variable.             *)
(***************************************************************************)
ServicesInv ==
    /\ StreamsInv /\ Inv /\ ResolverInv /\ EnrichmentInv
    /\ MappingInv /\ StrikesInv /\ DiscoveryInv /\ StartupInv

LEMMA ServicesInitInv == ServicesInit => ServicesInv
  BY StreamsInitInv, InitInv, ResolverInitInv, EnrichmentInitInv, MappingInitInv,
     InitStrikes, DiscoveryInitInv, StartupInitInv DEF ServicesInit, ServicesInv

\* A step of the services is, for each of them, one of its own or none.
LEMMA EachPartMoves ==
    ASSUME [ServicesNext]_servicesVars
    PROVE  /\ [Next]_vars /\ [RegistryNext]_registryVars /\ [ResolverNext]_resolverVars
           /\ [EnrichmentNext]_enrichmentVars /\ [MappingNext]_mappingVars
           /\ [RpcNext]_rpcVars /\ [DiscoveryNext]_discoveryVars
           /\ [StartupNext]_startupVars
<1>1. CASE ListenerMoves
  BY <1>1 DEF ListenerMoves
<1>2. CASE RegistryMoves
  BY <1>2 DEF RegistryMoves
<1>3. CASE ResolverMoves
  BY <1>3 DEF ResolverMoves
<1>4. CASE EnrichmentMoves
  BY <1>4 DEF EnrichmentMoves
<1>5. CASE MappingMoves
  BY <1>5 DEF MappingMoves
<1>6. CASE RpcMoves
  BY <1>6 DEF RpcMoves
<1>7. CASE DiscoveryMoves
  BY <1>7 DEF DiscoveryMoves
<1>8. CASE StartupMoves
  BY <1>8 DEF StartupMoves
<1>9. CASE UNCHANGED servicesVars
  BY <1>9 DEF servicesVars
<1> QED
  BY <1>1, <1>2, <1>3, <1>4, <1>5, <1>6, <1>7, <1>8, <1>9 DEF ServicesNext

LEMMA ServicesStepInv == ServicesInv /\ [ServicesNext]_servicesVars => ServicesInv'
<1> SUFFICES ASSUME ServicesInv, [ServicesNext]_servicesVars PROVE ServicesInv'
  OBVIOUS
<1>1. StreamsInv'
  BY EachPartMoves, StreamsStepInv DEF ServicesInv
<1>2. Inv'
  BY EachPartMoves, StepInv DEF ServicesInv
<1>3. ResolverInv'
  BY EachPartMoves, ResolverStepInv DEF ServicesInv
<1>4. EnrichmentInv'
  BY EachPartMoves, EnrichmentStepInv DEF ServicesInv
<1>5. MappingInv'
  BY EachPartMoves, MappingStepInv DEF ServicesInv
<1>6. StrikesInv'
  BY EachPartMoves, StepStrikes DEF ServicesInv
<1>7. DiscoveryInv'
  BY EachPartMoves, DiscoveryStepInv DEF ServicesInv
<1>8. StartupInv'
  BY EachPartMoves, StartupStepInv DEF ServicesInv
<1> QED
  BY <1>1, <1>2, <1>3, <1>4, <1>5, <1>6, <1>7, <1>8 DEF ServicesInv

LEMMA ServicesInvMeans == ServicesInv => ServicesTypeOK
  BY StreamsInvMeans, InvMeans, ResolverInvMeans, EnrichmentInvMeans, MappingInvMeans,
     StrikesInvMeans, DiscoveryInvMeans, StartupInvMeans DEF ServicesInv, ServicesTypeOK

\* Every service keeps to its kinds, in whatever order their steps come: the throttle
\* (listen_pool), the registry, the resolver, the providers that enrich a snapshot,
\* the mapping, the RPC manager, discovery and startup.
THEOREM ServicesTypeCorrect == ServicesSpec => []ServicesTypeOK
  BY ServicesInitInv, ServicesStepInv, ServicesInvMeans, PTL DEF ServicesSpec
=============================================================================
