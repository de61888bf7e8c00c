------------------------ MODULE CircuitBreakerProofs ------------------------
(***************************************************************************)
(* For any finite set of concurrent lookups, any threshold and any         *)
(* timeout: the breaker is type correct, its failure counter is bounded    *)
(* and never counts across a success, it implements BreakerContract, and   *)
(* a breaker whose last failure was erased while open is stuck for good.   *)
(***************************************************************************)
EXTENDS CircuitBreaker, FiniteSetTheorems, TLAPS

(***************************************************************************)
(* The inductive invariant.  FailureCountBounded alone is not inductive: a *)
(* lookup in flight may still add one failure, so an open breaker must     *)
(* count the lookups on their way together with the failures recorded.     *)
(***************************************************************************)
OpenCountBounded ==
    state = "open" =>
        failureCount + Cardinality(inflight) < Threshold + Cardinality(Callers)

NotOpenCountBounded == state # "open" => failureCount < Threshold

\* The last failure of an open breaker is no older than its opening.
LastFailureSinceOpening ==
    state = "open" /\ sinceFailure # Never => sinceFailure <= openFor

IInv ==
    /\ TypeOK
    /\ OpenCountBounded
    /\ NotOpenCountBounded
    /\ CountsOnlyFailuresInARow
    /\ LastFailureSinceOpening

USE ThresholdAssumption, TimeoutAssumption DEF Never

-----------------------------------------------------------------------------
\* A set of lookups in flight is finite and no larger than Callers.
LEMMA InflightCardinality ==
    ASSUME NEW S \in SUBSET Callers
    PROVE  /\ IsFiniteSet(S)
           /\ Cardinality(S) \in Nat
           /\ Cardinality(Callers) \in Nat
           /\ Cardinality(S) <= Cardinality(Callers)
    BY CallersAssumption, FS_Subset, FS_CardinalityType

\* Recording an outcome takes exactly one lookup out of flight.
LEMMA InflightRemove ==
    ASSUME NEW S \in SUBSET Callers, NEW c \in S
    PROVE  Cardinality(S \ {c}) = Cardinality(S) - 1
    BY InflightCardinality, FS_RemoveElement

-----------------------------------------------------------------------------
LEMMA TypeInit == Init => TypeOK
    BY DEF Init, TypeOK

\* Every action keeps the variables in their types.
LEMMA TypeStep == TypeOK /\ [Next]_vars => TypeOK'
<1> SUFFICES ASSUME TypeOK, [Next]_vars PROVE TypeOK'
    OBVIOUS
<1> USE DEF TypeOK
<1>1. ASSUME NEW c \in Callers, CanRequest(c) PROVE TypeOK'
    BY <1>1 DEF CanRequest
<1>2. ASSUME NEW c \in Callers, RecordSuccess(c) PROVE TypeOK'
    BY <1>2 DEF RecordSuccess
<1>3. ASSUME NEW c \in Callers, RecordFailure(c) PROVE TypeOK'
    BY <1>3 DEF RecordFailure, Trips
<1>4. ASSUME NEW c \in Callers, Abandon(c) PROVE TypeOK'
    BY <1>4 DEF Abandon
<1>5. CASE Reset
    BY <1>5 DEF Reset
<1>6. CASE Tick
    BY <1>6 DEF Tick
<1>7. CASE UNCHANGED vars
    BY <1>7 DEF vars
<1> QED
    BY <1>1, <1>2, <1>3, <1>4, <1>5, <1>6, <1>7 DEF Next, Answer

\* The type invariant of CircuitBreaker, for all values of the constants.
THEOREM TypeCorrect == Spec => []TypeOK
    BY TypeInit, TypeStep, PTL DEF Spec

-----------------------------------------------------------------------------
LEMMA InvInit == Init => IInv
<1> SUFFICES ASSUME Init PROVE IInv
    OBVIOUS
<1> QED
    BY TypeInit DEF Init, IInv, OpenCountBounded, NotOpenCountBounded,
                    CountsOnlyFailuresInARow, LastFailureSinceOpening

LEMMA InvStep == IInv /\ [Next]_vars => IInv'
<1> SUFFICES ASSUME IInv, [Next]_vars PROVE IInv'
    OBVIOUS
<1>t. TypeOK'
    BY TypeStep DEF IInv
<1> USE <1>t DEF IInv, TypeOK, OpenCountBounded, NotOpenCountBounded,
                 CountsOnlyFailuresInARow, LastFailureSinceOpening
<1>c. /\ Cardinality(inflight) \in Nat
      /\ Cardinality(Callers) \in Nat
      /\ Cardinality(inflight) <= Cardinality(Callers)
    BY InflightCardinality
<1>1. ASSUME NEW c \in Callers, CanRequest(c) PROVE IInv'
    \* The breaker is not open afterwards, so only the closed bound is at stake.
    BY <1>1 DEF CanRequest
<1>2. ASSUME NEW c \in Callers, RecordSuccess(c) PROVE IInv'
    <2>1. Cardinality(inflight') = Cardinality(inflight) - 1
        BY <1>2, InflightRemove DEF RecordSuccess
    <2> QED
        BY <1>2, <1>c, <2>1 DEF RecordSuccess
<1>3. ASSUME NEW c \in Callers, RecordFailure(c) PROVE IInv'
    <2>1. Cardinality(inflight') = Cardinality(inflight) - 1
        BY <1>3, InflightRemove DEF RecordFailure
    <2>2. CASE Trips
        <3>1. failureCount' = Threshold
            BY <1>3, <2>2 DEF RecordFailure, Trips
        <3> QED
            BY <1>3, <1>c, <2>1, <2>2, <3>1 DEF RecordFailure
    <2>3. CASE ~Trips
        BY <1>3, <1>c, <2>1, <2>3 DEF RecordFailure, Trips
    <2> QED
        BY <2>2, <2>3
<1>4. ASSUME NEW c \in Callers, Abandon(c) PROVE IInv'
    <2>1. Cardinality(inflight') = Cardinality(inflight) - 1
        BY <1>4, InflightRemove DEF Abandon
    <2> QED
        BY <1>4, <1>c, <2>1 DEF Abandon
<1>5. CASE Reset
    BY <1>5 DEF Reset
<1>6. CASE Tick
    BY <1>6 DEF Tick
<1>7. CASE UNCHANGED vars
    BY <1>7 DEF vars
<1> QED
    BY <1>1, <1>2, <1>3, <1>4, <1>5, <1>6, <1>7 DEF Next, Answer

LEMMA Invariance == Spec => []IInv
    BY InvInit, InvStep, PTL DEF Spec

\* failure_count stays below Threshold plus the number of concurrent lookups.
THEOREM CountIsBounded == Spec => []FailureCountBounded
<1>1. IInv => FailureCountBounded
    BY InflightCardinality
    DEF IInv, TypeOK, OpenCountBounded, NotOpenCountBounded, FailureCountBounded
<1> QED
    BY <1>1, Invariance, PTL

\* failure_count never exceeds the failures recorded since the last success.
THEOREM CountIsInARow == Spec => []CountsOnlyFailuresInARow
<1>1. IInv => CountsOnlyFailuresInARow
    BY DEF IInv
<1> QED
    BY <1>1, Invariance, PTL

-----------------------------------------------------------------------------
\* Every step of the breaker is a step of the contract or leaves it alone.
LEMMA ContractStep == IInv /\ [Next]_vars => [Contract!Next]_(Contract!vars)
<1> SUFFICES ASSUME IInv, [Next]_vars PROVE [Contract!Next]_(Contract!vars)
    OBVIOUS
<1> USE DEF IInv, TypeOK, Contract!vars, Contract!Next
<1>1. ASSUME NEW c \in Callers, CanRequest(c)
      PROVE  Contract!Probe \/ UNCHANGED Contract!vars
    BY <1>1 DEF CanRequest, Contract!Probe, LastFailureSinceOpening
<1>2. ASSUME NEW c \in Callers, RecordSuccess(c)
      PROVE  Contract!Heal \/ UNCHANGED Contract!vars
    BY <1>2 DEF RecordSuccess, Contract!Heal
<1>3. ASSUME NEW c \in Callers, RecordFailure(c)
      PROVE  Contract!Trip \/ UNCHANGED Contract!vars
    BY <1>3 DEF RecordFailure, Trips, Contract!Trip
<1>4. ASSUME NEW c \in Callers, Abandon(c)
      PROVE  UNCHANGED Contract!vars
    BY <1>4 DEF Abandon
<1>5. ASSUME Reset PROVE Contract!Restart
    BY <1>5 DEF Reset, Contract!Restart
<1>6. ASSUME Tick PROVE Contract!TimePasses \/ UNCHANGED Contract!vars
    BY <1>6 DEF Tick, Contract!TimePasses
<1>7. ASSUME UNCHANGED vars PROVE UNCHANGED Contract!vars
    BY <1>7 DEF vars
<1> QED
    BY <1>1, <1>2, <1>3, <1>4, <1>5, <1>6, <1>7 DEF Next, Answer

\* The breaker implements its contract: an open breaker stays open for at
\* least Timeout and is closed again only by a probe's success or a reset.
THEOREM ImplementsContract == Spec => ContractSpec
<1>1. Init => Contract!Init
    BY DEF Init, Contract!Init
<1> QED
    BY <1>1, ContractStep, Invariance, PTL DEF Spec, ContractSpec, Contract!Spec

-----------------------------------------------------------------------------
\* Once an open breaker has lost its last failure time and no lookup is on its
\* way, no step but a reset changes that.
THEOREM StuckForGood == Spec => StuckIsPermanent
<1>1. TypeOK /\ [Next]_vars => [Stuck => Stuck' \/ Reset]_vars
    <2> SUFFICES ASSUME TypeOK, Next, Stuck, ~Reset PROVE Stuck'
        BY DEF TypeOK
    <2> USE DEF Stuck
    <2>1. ASSUME NEW c \in Callers PROVE ~CanRequest(c) /\ ~Answer(c)
        BY DEF CanRequest, Answer, RecordSuccess, RecordFailure, Abandon
    <2>2. CASE Tick
        BY <2>2 DEF Tick
    <2> QED
        BY <2>1, <2>2 DEF Next
<1> QED
    BY <1>1, TypeCorrect, PTL DEF Spec, StuckIsPermanent
=============================================================================
