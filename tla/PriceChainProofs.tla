-------------------------- MODULE PriceChainProofs --------------------------
(***************************************************************************)
(* For any number of lookups and mints: a mint that was answered once is   *)
(* never without a price again, CoinGecko serves its mints while it works, *)
(* and the chain uses each breaker as CircuitBreaker expects.              *)
(***************************************************************************)
EXTENDS PriceChain, TLAPS

LEMMA InitType == Init => TypeOK
  BY DEF Init, TypeOK, Steps, J!Init, C!Init

\* A lookup enters a breaker and leaves it with its step.
LEMMA StepType == TypeOK /\ [Next]_vars => TypeOK'
<1> SUFFICES ASSUME TypeOK, [Next]_vars
             PROVE  TypeOK'
  OBVIOUS
<1> USE ChainAssumption DEF TypeOK, Steps
<1>1. ASSUME NEW c \in Callers, Start(c)
      PROVE  TypeOK'
  <2>1. PICK m \in Mints :
           /\ mint' = [mint EXCEPT ![c] = m]
           /\ known' = IF m \in answered THEN known \cup {c} ELSE known
    BY <1>1 DEF Start
  <2> QED
    BY <1>1, <2>1 DEF Start, jupiter, coingecko, caches
<1>2. ASSUME NEW c \in Callers, Jupiter(c)
      PROVE  TypeOK'
  <2>1. CASE CacheHit(c) \/ CacheMiss(c) \/ JupiterRefuses(c)
    BY <2>1 DEF CacheHit, CacheMiss, JupiterRefuses, Goes, jupiter, coingecko, caches
  <2>2. CASE AskJupiter(c)
    BY <2>2 DEF AskJupiter, J!CanRequest, Goes, coingecko, caches
  <2>3. CASE JupiterAnswers(c)
    BY <2>3 DEF JupiterAnswers, Goes, jupiter, coingecko
  <2>4. CASE JupiterSucceeds(c) \/ JupiterFails(c)
    BY <2>4 DEF JupiterSucceeds, JupiterFails, J!RecordSuccess, J!RecordFailure, Goes,
                coingecko, caches
  <2> QED
    BY <1>2, <2>1, <2>2, <2>3, <2>4 DEF Jupiter
<1>3. ASSUME NEW c \in Callers, CoinGecko(c)
      PROVE  TypeOK'
  <2>1. CASE AskMapping(c)
    BY <2>1 DEF AskMapping, C!CanRequest, Goes, jupiter, caches
  <2>2. CASE CoinGeckoRefuses(c) \/ IsMapped(c)
    BY <2>2 DEF CoinGeckoRefuses, IsMapped, Goes, jupiter, coingecko, caches
  <2>3. CASE NotMapped(c)
    BY <2>3 DEF NotMapped, C!Abandon, Goes, jupiter, caches
  <2>4. CASE CoinGeckoSucceeds(c) \/ CoinGeckoFails(c)
    BY <2>4 DEF CoinGeckoSucceeds, CoinGeckoFails, C!RecordSuccess, C!RecordFailure, Goes,
                jupiter, caches
  <2> QED
    BY <1>3, <2>1, <2>2, <2>3, <2>4 DEF CoinGecko
<1>4. ASSUME NEW c \in Callers, Keep(c) \/ StaleHit(c) \/ StaleMiss(c)
      PROVE  TypeOK'
  BY <1>4 DEF Keep, StaleHit, StaleMiss, Answers, Returns, jupiter, coingecko, caches
<1>5. ASSUME NEW m \in Mints, Expire(m)
      PROVE  TypeOK'
  BY <1>5 DEF Expire, jupiter, coingecko
<1>6. CASE Tick
  BY <1>6 DEF Tick, J!Tick, C!Tick, jupiter, coingecko, caches
<1>7. CASE UNCHANGED vars
  BY <1>7 DEF vars, jupiter, coingecko, caches
<1> QED
  BY <1>1, <1>2, <1>3, <1>4, <1>5, <1>6, <1>7 DEF Next

\* Every lookup between the gate of a breaker and its outcome is in flight there,
\* and no other: no outcome is recorded twice or forgotten on the way out.
THEOREM ChainTypeCorrect == Spec => []TypeOK
  BY InitType, StepType, PTL DEF Spec

-----------------------------------------------------------------------------
\* A price that was returned is kept, and a lookup keeps its mint while it runs.
Inv ==
    /\ at \in [Callers -> Steps]
    /\ mint \in [Callers -> Mints \cup {None}]
    /\ known \subseteq Callers
    /\ answered \subseteq stale
    /\ \A c \in known : at[c] # "idle" /\ mint[c] \in answered

LEMMA InitInv == Init => Inv
  BY DEF Init, Inv, Steps

LEMMA StepInv == Inv /\ [Next]_vars => Inv'
<1> SUFFICES ASSUME Inv, [Next]_vars
             PROVE  Inv'
  OBVIOUS
<1> USE DEF Inv, Steps
<1>1. ASSUME NEW c \in Callers, Start(c)
      PROVE  Inv'
  <2>1. PICK m \in Mints :
           /\ mint' = [mint EXCEPT ![c] = m]
           /\ known' = IF m \in answered THEN known \cup {c} ELSE known
    BY <1>1 DEF Start
  <2>2. at' = [at EXCEPT ![c] = "cache"] /\ answered' = answered /\ stale' = stale /\ at[c] = "idle"
    BY <1>1 DEF Start, caches
  <2> QED
    BY <2>1, <2>2
<1>2. ASSUME NEW c \in Callers, Jupiter(c)
      PROVE  Inv'
  <2>1. UNCHANGED <<mint, answered, known, stale>>
    BY <1>2 DEF Jupiter, CacheHit, CacheMiss, AskJupiter, JupiterRefuses, JupiterAnswers,
                JupiterSucceeds, JupiterFails, Goes, caches
  <2>2. \E step \in Steps \ {"idle"} : at' = [at EXCEPT ![c] = step]
    BY <1>2 DEF Jupiter, CacheHit, CacheMiss, AskJupiter, JupiterRefuses, JupiterAnswers,
                JupiterSucceeds, JupiterFails, Goes
  <2> QED
    BY <2>1, <2>2
<1>3. ASSUME NEW c \in Callers, CoinGecko(c)
      PROVE  Inv'
  BY <1>3 DEF CoinGecko, AskMapping, CoinGeckoRefuses, IsMapped, NotMapped,
              CoinGeckoSucceeds, CoinGeckoFails, Goes, caches
<1>4. ASSUME NEW c \in Callers, Keep(c)
      PROVE  Inv'
  BY <1>4 DEF Keep, Answers, Returns
<1>5. ASSUME NEW c \in Callers, StaleHit(c)
      PROVE  Inv'
  BY <1>5 DEF StaleHit, Answers, Returns, caches
<1>6. ASSUME NEW c \in Callers, StaleMiss(c)
      PROVE  Inv'
  BY <1>6 DEF StaleMiss, Returns, caches
<1>7. ASSUME NEW m \in Mints, Expire(m)
      PROVE  Inv'
  BY <1>7 DEF Expire
<1>8. CASE Tick
  BY <1>8 DEF Tick, caches
<1>9. CASE UNCHANGED vars
  BY <1>9 DEF vars, caches
<1> QED
  BY <1>1, <1>2, <1>3, <1>4, <1>5, <1>6, <1>7, <1>8, <1>9 DEF Next

\* A lookup of a mint for which a price was returned before it began finds that
\* price, or a later one, at the end of the chain.
THEOREM AnsweredOnceAnsweredAlways == Spec => []KnownNeverFails
<1>1. Inv => KnownNeverFails
  BY DEF Inv, KnownNeverFails
<1> QED
  BY InitInv, StepInv, <1>1, PTL DEF Spec

-----------------------------------------------------------------------------
\* As long as CoinGecko and the mapping have answered, CoinGecko's breaker stays
\* closed: nothing has told it of a failure.
Served ==
    ~backupFailed =>
        /\ cState = "closed"
        /\ \A c \in Callers : at[c] = "stale" => mint[c] \notin Mapped

LEMMA StepServed == Inv /\ Served /\ [Next]_vars => Served'
<1> SUFFICES ASSUME Inv, Served, [Next]_vars
             PROVE  Served'
  OBVIOUS
<1> USE DEF Inv, Served
<1>1. ASSUME NEW c \in Callers, Start(c)
      PROVE  Served'
  BY <1>1 DEF Start, coingecko
<1>2. ASSUME NEW c \in Callers, Jupiter(c)
      PROVE  Served'
  BY <1>2 DEF Jupiter, CacheHit, CacheMiss, AskJupiter, JupiterRefuses, JupiterAnswers,
              JupiterSucceeds, JupiterFails, Goes, coingecko
<1>3. ASSUME NEW c \in Callers, CoinGecko(c)
      PROVE  Served'
  <2>1. CASE AskMapping(c)
    BY <2>1 DEF AskMapping, Goes, C!CanRequest
  <2>2. CASE IsMapped(c)
    BY <2>2 DEF IsMapped, Goes, coingecko
  <2>3. CASE NotMapped(c)
    BY <2>3 DEF NotMapped, Goes, C!Abandon
  <2>4. CASE CoinGeckoSucceeds(c)
    BY <2>4 DEF CoinGeckoSucceeds, Goes, C!RecordSuccess
  <2> QED
    BY <1>3, <2>1, <2>2, <2>3, <2>4 DEF CoinGecko, CoinGeckoRefuses, CoinGeckoFails, coingecko
<1>4. ASSUME NEW c \in Callers, Keep(c) \/ StaleHit(c) \/ StaleMiss(c)
      PROVE  Served'
  BY <1>4 DEF Keep, StaleHit, StaleMiss, Answers, Returns, coingecko
<1>5. ASSUME NEW m \in Mints, Expire(m)
      PROVE  Served'
  BY <1>5 DEF Expire, coingecko
<1>6. CASE Tick
  BY <1>6 DEF Tick, C!Tick, coingecko
<1>7. CASE UNCHANGED vars
  BY <1>7 DEF vars, coingecko
<1> QED
  BY <1>1, <1>2, <1>3, <1>4, <1>5, <1>6, <1>7 DEF Next

\* Neither an open breaker of Jupiter nor lookups of mints without a CoinGecko id
\* take CoinGecko away from the mints that have one.
THEOREM CoinGeckoBacksUp == Spec => []MappedAreServed
<1>1. Init => Served
  BY DEF Init, Served, C!Init
<1>2. Served => MappedAreServed
  BY DEF Served, MappedAreServed
<1> QED
  BY InitInv, StepInv, StepServed, <1>1, <1>2, PTL DEF Spec

-----------------------------------------------------------------------------
LEMMA JupiterStep == [Next]_vars => [J!Next]_(J!vars)
<1> SUFFICES ASSUME [Next]_vars
             PROVE  [J!Next]_(J!vars)
  OBVIOUS
<1>1. ASSUME NEW c \in Callers, Jupiter(c)
      PROVE  [J!Next]_(J!vars)
  <2>1. CASE AskJupiter(c)
    BY <2>1 DEF AskJupiter, J!Next
  <2>2. CASE JupiterSucceeds(c)
    BY <2>2 DEF JupiterSucceeds, J!Next, J!Answer
  <2>3. CASE JupiterFails(c)
    BY <2>3 DEF JupiterFails, J!Next, J!Answer
  <2>4. CASE CacheHit(c) \/ CacheMiss(c) \/ JupiterRefuses(c) \/ JupiterAnswers(c)
    BY <2>4 DEF CacheHit, CacheMiss, JupiterRefuses, JupiterAnswers, jupiter, J!vars
  <2> QED
    BY <1>1, <2>1, <2>2, <2>3, <2>4 DEF Jupiter
<1>2. ASSUME NEW c \in Callers,
             Start(c) \/ CoinGecko(c) \/ Keep(c) \/ StaleHit(c) \/ StaleMiss(c)
      PROVE  UNCHANGED J!vars
  BY <1>2 DEF Start, CoinGecko, AskMapping, CoinGeckoRefuses, IsMapped, NotMapped,
              CoinGeckoSucceeds, CoinGeckoFails, Keep, StaleHit, StaleMiss, jupiter, J!vars
<1>3. ASSUME NEW m \in Mints, Expire(m)
      PROVE  UNCHANGED J!vars
  BY <1>3 DEF Expire, jupiter, J!vars
<1>4. CASE Tick
  BY <1>4 DEF Tick, J!Next, jupiter, J!vars
<1>5. CASE UNCHANGED vars
  BY <1>5 DEF vars, jupiter, J!vars
<1> QED
  BY <1>1, <1>2, <1>3, <1>4, <1>5 DEF Next

LEMMA CoinGeckoStep == [Next]_vars => [C!Next]_(C!vars)
<1> SUFFICES ASSUME [Next]_vars
             PROVE  [C!Next]_(C!vars)
  OBVIOUS
<1>1. ASSUME NEW c \in Callers, CoinGecko(c)
      PROVE  [C!Next]_(C!vars)
  <2>1. CASE AskMapping(c)
    BY <2>1 DEF AskMapping, C!Next
  <2>2. CASE NotMapped(c)
    BY <2>2 DEF NotMapped, C!Next, C!Answer
  <2>3. CASE CoinGeckoSucceeds(c)
    BY <2>3 DEF CoinGeckoSucceeds, C!Next, C!Answer
  <2>4. CASE CoinGeckoFails(c)
    BY <2>4 DEF CoinGeckoFails, C!Next, C!Answer
  <2>5. CASE CoinGeckoRefuses(c) \/ IsMapped(c)
    BY <2>5 DEF CoinGeckoRefuses, IsMapped, coingecko, C!vars
  <2> QED
    BY <1>1, <2>1, <2>2, <2>3, <2>4, <2>5 DEF CoinGecko
<1>2. ASSUME NEW c \in Callers,
             Start(c) \/ Jupiter(c) \/ Keep(c) \/ StaleHit(c) \/ StaleMiss(c)
      PROVE  UNCHANGED C!vars
  BY <1>2 DEF Start, Jupiter, CacheHit, CacheMiss, AskJupiter, JupiterRefuses, JupiterAnswers,
              JupiterSucceeds, JupiterFails, Keep, StaleHit, StaleMiss, coingecko, C!vars
<1>3. ASSUME NEW m \in Mints, Expire(m)
      PROVE  UNCHANGED C!vars
  BY <1>3 DEF Expire, coingecko, C!vars
<1>4. CASE Tick
  BY <1>4 DEF Tick, C!Next, coingecko, C!vars
<1>5. CASE UNCHANGED vars
  BY <1>5 DEF vars, coingecko, C!vars
<1> QED
  BY <1>1, <1>2, <1>3, <1>4, <1>5 DEF Next

\* Either breaker is told only of lookups it has let through, one outcome each.
THEOREM ChainUsesBreakers == Spec => BreakersAreUsedAsExpected
<1>1. Init => J!Init /\ C!Init
  BY DEF Init
<1>2. Spec => J!Spec
  BY JupiterStep, <1>1, PTL DEF Spec, J!Spec
<1>3. Spec => C!Spec
  BY CoinGeckoStep, <1>1, PTL DEF Spec, C!Spec
<1> QED
  BY <1>2, <1>3 DEF BreakersAreUsedAsExpected
=============================================================================
