----------------------------- MODULE TokenBucket -----------------------------
(***************************************************************************)
(* A token bucket for each pool: what the documents say the throttle of    *)
(* the notifications is.  A token takes Interval ticks to refill and a     *)
(* bucket holds at most Capacity of them; an update takes a token, and is  *)
(* throttled only when there is no whole token.                            *)
(***************************************************************************)
EXTENDS Naturals

CONSTANTS Pools, Capacity, Interval

VARIABLES
    tokens,   \* of each pool, in ticks
    allowed,  \* the updates let through so far
    skipped   \* the updates throttled so far

vars == <<tokens, allowed, skipped>>

Full == Capacity * Interval

Init ==
    /\ tokens = [p \in Pools |-> Full]
    /\ allowed = [p \in Pools |-> 0]
    /\ skipped = [p \in Pools |-> 0]

Allow(p) ==
    /\ tokens[p] >= Interval
    /\ tokens' = [tokens EXCEPT ![p] = @ - Interval]
    /\ allowed' = [allowed EXCEPT ![p] = @ + 1]
    /\ UNCHANGED skipped

Throttle(p) ==
    /\ tokens[p] < Interval
    /\ skipped' = [skipped EXCEPT ![p] = @ + 1]
    /\ UNCHANGED <<tokens, allowed>>

Refill ==
    /\ tokens' = [p \in Pools |-> IF tokens[p] < Full THEN tokens[p] + 1 ELSE Full]
    /\ UNCHANGED <<allowed, skipped>>

Next == (\E p \in Pools : Allow(p) \/ Throttle(p)) \/ Refill

Spec == Init /\ [][Next]_vars
=============================================================================
