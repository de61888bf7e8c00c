--------------------------- MODULE BreakerContract ---------------------------
(***************************************************************************)
(* What a circuit breaker promises, whatever it counts and whoever asks:   *)
(* the state machine of ARCHITECTURE.md ("Circuit Breaker State Machine")  *)
(* and the blocking time of STAGE4_IMPLEMENTATION.md.  A breaker that      *)
(* trips stays open for at least Timeout before it lets a probe through,   *)
(* and only a probe that succeeded closes it again.                        *)
(*                                                                         *)
(* CircuitBreaker.tla implements this module (see Contract there).         *)
(***************************************************************************)
EXTENDS Naturals

CONSTANT Timeout      \* how long an open breaker refuses, in clock ticks

VARIABLES phase,      \* "closed", "open" or "halfopen"
          blockedFor  \* ticks since the breaker last tripped, capped at Timeout

vars == <<phase, blockedFor>>

Init ==
    /\ phase = "closed"
    /\ blockedFor = Timeout

\* Too many failures.
Trip ==
    /\ phase \in {"closed", "halfopen"}
    /\ phase' = "open"
    /\ blockedFor' = 0

\* The blocking time is over: requests may test the provider.
Probe ==
    /\ phase = "open"
    /\ blockedFor = Timeout
    /\ phase' = "halfopen"
    /\ UNCHANGED blockedFor

\* A probe succeeded.
Heal ==
    /\ phase = "halfopen"
    /\ phase' = "closed"
    /\ UNCHANGED blockedFor

\* The owner resets the breaker by hand.
Restart ==
    /\ phase' = "closed"
    /\ UNCHANGED blockedFor

TimePasses ==
    /\ blockedFor < Timeout
    /\ blockedFor' = blockedFor + 1
    /\ UNCHANGED phase

Next == Trip \/ Probe \/ Heal \/ Restart \/ TimePasses

Spec == Init /\ [][Next]_vars
=============================================================================
