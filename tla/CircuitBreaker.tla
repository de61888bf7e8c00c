---------------------------- MODULE CircuitBreaker ----------------------------
(***************************************************************************)
(* The CircuitBreaker of price_provider.rs, shared by every concurrent     *)
(* price lookup of one provider.  Each breaker method runs under the       *)
(* provider's write lock and is one action; between can_request and the    *)
(* record_* call of the same lookup the HTTP request is awaited with the   *)
(* lock released, so the answers of several lookups come back in any       *)
(* order, and after other lookups have moved the breaker.                  *)
(*                                                                         *)
(* Time is the age of the last recorded failure, counted in ticks and      *)
(* capped at Timeout: can_request only asks whether it has reached         *)
(* self.timeout.                                                           *)
(***************************************************************************)
EXTENDS Naturals, FiniteSets

CONSTANTS Callers,    \* the concurrent price lookups
          Threshold,  \* failures that open the breaker
          Timeout     \* how long it stays open, in ticks

ASSUME CallersAssumption == IsFiniteSet(Callers) /\ Callers # {}
ASSUME ThresholdAssumption == Threshold \in Nat \ {0}
ASSUME TimeoutAssumption == Timeout \in Nat \ {0}

VARIABLES state,         \* CircuitBreakerState
          failureCount,  \* failure_count
          sinceFailure,  \* age of last_failure_time, Never for None
          inflight,      \* lookups admitted whose outcome is not recorded yet
          openFor,       \* history: ticks since the breaker last opened, capped
          streak         \* history: failures recorded in a row, capped

vars == <<state, failureCount, sinceFailure, inflight, openFor, streak>>

Never == Timeout + 1  \* last_failure_time = None

TypeOK ==
    /\ state \in {"closed", "open", "halfopen"}
    /\ failureCount \in Nat
    /\ sinceFailure \in 0 .. Never
    /\ inflight \subseteq Callers
    /\ openFor \in 0 .. Timeout
    /\ streak \in 0 .. Threshold

Init ==
    /\ state = "closed"
    /\ failureCount = 0
    /\ sinceFailure = Never
    /\ inflight = {}
    /\ openFor = Timeout
    /\ streak = 0

-----------------------------------------------------------------------------
(* Mutant: a missing last failure is taken for an old one. *)
CanRequest_NoneIsOld(c) ==
    /\ c \notin inflight
    /\ state = "open" => sinceFailure \in {Timeout, Never}
    /\ state' = IF state = "open" THEN "halfopen" ELSE state
    /\ failureCount' = IF state = "open" THEN 0 ELSE failureCount
    /\ inflight' = inflight \cup {c}
    /\ UNCHANGED <<sinceFailure, openFor, streak>>

(* Mutant: a refusal of an open breaker counts as a failure just made. *)
CanRequest_RefusalRestarts(c) ==
    /\ c \notin inflight
    /\ IF state = "open" /\ sinceFailure < Timeout
       THEN sinceFailure' = 0 /\ UNCHANGED <<state, failureCount, inflight>>
       ELSE /\ state = "open" => sinceFailure = Timeout
            /\ state' = IF state = "open" THEN "halfopen" ELSE state
            /\ failureCount' = IF state = "open" THEN 0 ELSE failureCount
            /\ inflight' = inflight \cup {c}
            /\ UNCHANGED sinceFailure
    /\ UNCHANGED <<openFor, streak>>

\* can_request returns true.  An open breaker whose last failure is old enough
\* turns half open and forgets the failures it counted; without a last failure
\* it refuses.  A refusal changes nothing.
CanRequest(c) ==
    /\ c \notin inflight
    /\ \/ /\ state # "open"
          /\ UNCHANGED <<state, failureCount>>
       \/ /\ state = "open"
          /\ sinceFailure = Timeout
          /\ state' = "halfopen"
          /\ failureCount' = 0
    /\ inflight' = inflight \cup {c}
    /\ UNCHANGED <<sinceFailure, openFor, streak>>

\* Mutant: only a half-open breaker resets the count.
RecordSuccess_KeepsCount(c) ==
    /\ c \in inflight
    /\ state' = IF state = "halfopen" THEN "closed" ELSE state
    /\ failureCount' = IF state = "halfopen" THEN 0 ELSE failureCount
    /\ sinceFailure' = Never
    /\ inflight' = inflight \ {c}
    /\ streak' = 0
    /\ UNCHANGED openFor

\* record_success, whatever state the breaker is in by now.
RecordSuccess(c) ==
    /\ c \in inflight
    /\ state' = IF state = "halfopen" THEN "closed" ELSE state
    /\ failureCount' = 0
    /\ sinceFailure' = Never
    /\ inflight' = inflight \ {c}
    /\ streak' = 0
    /\ UNCHANGED openFor

\* The failure being recorded reaches the threshold of a breaker not yet open.
Trips == failureCount + 1 >= Threshold /\ state # "open"

(* Mutant of record_failure: the failure that opens the breaker does not
   refresh last_failure_time. *)
RecordFailure_KeepsAge(c) ==
    /\ c \in inflight
    /\ failureCount' = failureCount + 1
    /\ sinceFailure' = IF Trips THEN sinceFailure ELSE 0
    /\ state' = IF Trips THEN "open" ELSE state
    /\ openFor' = IF Trips THEN 0 ELSE openFor
    /\ inflight' = inflight \ {c}
    /\ streak' = IF streak < Threshold THEN streak + 1 ELSE streak

\* record_failure: the age restarts even when the breaker is already open.
RecordFailure(c) ==
    /\ c \in inflight
    /\ failureCount' = failureCount + 1
    /\ sinceFailure' = 0
    /\ state' = IF Trips THEN "open" ELSE state
    /\ openFor' = IF Trips THEN 0 ELSE openFor
    /\ inflight' = inflight \ {c}
    /\ streak' = IF streak < Threshold THEN streak + 1 ELSE streak

\* A lookup that ends without an outcome: CoinGeckoPriceProvider returns when
\* the mint has no token id, after can_request has admitted it.
Abandon(c) ==
    /\ c \in inflight
    /\ inflight' = inflight \ {c}
    /\ UNCHANGED <<state, failureCount, sinceFailure, openFor, streak>>

Reset ==
    /\ state' = "closed"
    /\ failureCount' = 0
    /\ sinceFailure' = Never
    /\ UNCHANGED <<inflight, openFor, streak>>

Tick ==
    /\ sinceFailure < Timeout \/ openFor < Timeout
    /\ sinceFailure' = IF sinceFailure < Timeout THEN sinceFailure + 1 ELSE sinceFailure
    /\ openFor' = IF openFor < Timeout THEN openFor + 1 ELSE openFor
    /\ UNCHANGED <<state, failureCount, inflight, streak>>

Answer(c) == RecordSuccess(c) \/ RecordFailure(c) \/ Abandon(c)

Next ==
    \/ \E c \in Callers : CanRequest(c) \/ Answer(c)
    \/ Reset
    \/ Tick

Spec == Init /\ [][Next]_vars

\* Time passes, every request is answered (the HTTP client has a 30 s timeout),
\* and lookups keep being made.  Nobody has to call reset: the program never does.
Fairness ==
    /\ WF_vars(Tick)
    /\ \A c \in Callers : WF_vars(CanRequest(c)) /\ WF_vars(Answer(c))

FairSpec == Spec /\ Fairness

-----------------------------------------------------------------------------
(* Safety *)

\* failure_count cannot run away although record_failure keeps incrementing it
\* in an open breaker: every lookup that can still fail was admitted before the
\* breaker opened.
FailureCountBounded == failureCount < Threshold + Cardinality(Callers)

\* The counter never exceeds the failures really recorded in a row: a success
\* in between, even one admitted long before, always prevents an opening.
CountsOnlyFailuresInARow == failureCount <= streak \/ streak = Threshold

\* An open breaker that has no last failure and no lookup on its way is stuck:
\* can_request refuses, no outcome can change it, only a reset (which the
\* program never does) ends it.
Stuck == state = "open" /\ sinceFailure = Never /\ inflight = {}

StuckIsPermanent == [][Stuck => Stuck' \/ Reset]_vars

\* The breaker goes through the documented states only, and lets a probe
\* through no earlier than Timeout after it opened.
Contract == INSTANCE BreakerContract WITH phase <- state, blockedFor <- openFor
ContractSpec == Contract!Spec

\* Nothing else keeps it open: while lookups are made and answered, an open
\* breaker lets one through in the end, unless it is stuck.
RecoversUnlessStuck == state = "open" ~> state # "open" \/ Stuck

-----------------------------------------------------------------------------
(* What the documents promise *)

\* STAGE4_IMPLEMENTATION.md:114 "Transitions to half-open state after timeout":
\* an open breaker does not stay open for ever while lookups keep coming.
RecoversFromOpen == state = "open" ~> state # "open"
=============================================================================
