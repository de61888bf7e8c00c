----------------------------- MODULE PriceChain -----------------------------
(***************************************************************************)
(* A price lookup of FallbackPriceProvider: Jupiter with its cache and its *)
(* circuit breaker, then CoinGecko with the token mapping and a breaker of *)
(* its own, then the last price anyone got for the mint.                   *)
(*                                                                         *)
(* Each breaker is a CircuitBreaker.  The lookups run concurrently; a step *)
(* ends where a lookup awaits an answer or takes the next lock.  A price   *)
(* is left out: what matters is for which mints there is one.  That a      *)
(* cached price expires is left to chance; the clock only moves the        *)
(* breakers.                                                               *)
(***************************************************************************)
EXTENDS Naturals, FiniteSets

CONSTANTS
    Callers,    \* the concurrent lookups
    Mints,      \* token mints
    Mapped,     \* the mints that have a CoinGecko id
    Threshold,  \* failures that open a breaker
    Timeout,    \* how long it stays open, in ticks
    None        \* no mint

ASSUME ChainAssumption ==
    /\ Mapped \subseteq Mints
    /\ None \notin Mints

VARIABLES
    \* the breaker of Jupiter, and the one of CoinGecko
    jState, jCount, jAge, jInflight, jOpenFor, jStreak,
    cState, cCount, cAge, cInflight, cOpenFor, cStreak,
    fresh,         \* the mints with an unexpired price in the cache of Jupiter
    stale,         \* the mints with a price in stale_cache
    at,            \* the step of each lookup that comes next
    mint,          \* the mint it is about
    answered,      \* history: the mints a price was returned for
    backupFailed,  \* history: CoinGecko or the mapping has failed a request
    known          \* history: the lookups that began when their mint was answered

jupiter == <<jState, jCount, jAge, jInflight, jOpenFor, jStreak>>
coingecko == <<cState, cCount, cAge, cInflight, cOpenFor, cStreak, backupFailed>>
caches == <<fresh, stale>>
vars == <<jupiter, coingecko, caches, at, mint, answered, known>>

J == INSTANCE CircuitBreaker WITH
    state <- jState, failureCount <- jCount, sinceFailure <- jAge,
    inflight <- jInflight, openFor <- jOpenFor, streak <- jStreak

C == INSTANCE CircuitBreaker WITH
    state <- cState, failureCount <- cCount, sinceFailure <- cAge,
    inflight <- cInflight, openFor <- cOpenFor, streak <- cStreak

Steps == {"idle", "cache", "gate", "jupiter", "cached",
          "mapGate", "mapping", "coingecko", "keep", "stale"}

Init ==
    /\ J!Init /\ C!Init
    /\ fresh = {} /\ stale = {}
    /\ at = [c \in Callers |-> "idle"]
    /\ mint = [c \in Callers |-> None]
    /\ answered = {} /\ known = {} /\ backupFailed = FALSE

-----------------------------------------------------------------------------
Goes(c, step) == at' = [at EXCEPT ![c] = step] /\ UNCHANGED <<mint, answered, known>>

\* The lookup is over, with a price or with an error.
Returns(c) ==
    /\ at' = [at EXCEPT ![c] = "idle"]
    /\ mint' = [mint EXCEPT ![c] = None]
    /\ known' = known \ {c}

Answers(c) == Returns(c) /\ answered' = answered \cup {mint[c]}

\* FallbackPriceProvider::fetch_price.
Start(c) ==
    /\ at[c] = "idle"
    /\ \E m \in Mints :
          /\ mint' = [mint EXCEPT ![c] = m]
          /\ known' = IF m \in answered THEN known \cup {c} ELSE known
    /\ at' = [at EXCEPT ![c] = "cache"]
    /\ UNCHANGED <<jupiter, coingecko, caches, answered>>

-----------------------------------------------------------------------------
(* JupiterPriceProvider. *)

\* Mutant: a price from the cache counts as a success of Jupiter.
CacheHit_Records(c) ==
    /\ at[c] = "cache"
    /\ mint[c] \in fresh
    /\ jCount' = 0 /\ jAge' = J!Never
    /\ Goes(c, "keep")
    /\ UNCHANGED <<jState, jInflight, jOpenFor, jStreak, coingecko, caches>>

\* Mutant: a price from the cache is returned at once.
CacheHit_Returns(c) ==
    /\ at[c] = "cache"
    /\ mint[c] \in fresh
    /\ Answers(c)
    /\ UNCHANGED <<jupiter, coingecko, caches>>

\* A price from the cache does not ask the breaker.
CacheHit(c) ==
    /\ at[c] = "cache"
    /\ mint[c] \in fresh
    /\ Goes(c, "keep")
    /\ UNCHANGED <<jupiter, coingecko, caches>>

CacheMiss(c) ==
    /\ at[c] = "cache"
    /\ mint[c] \notin fresh
    /\ Goes(c, "gate")
    /\ UNCHANGED <<jupiter, coingecko, caches>>

AskJupiter(c) ==
    /\ at[c] = "gate"
    /\ J!CanRequest(c)
    /\ Goes(c, "jupiter")
    /\ UNCHANGED <<coingecko, caches>>

JupiterRefuses(c) ==
    /\ at[c] = "gate"
    /\ jState = "open" /\ jAge # Timeout
    /\ Goes(c, "mapGate")
    /\ UNCHANGED <<jupiter, coingecko, caches>>

\* The price goes to the cache before the breaker hears of the success.
JupiterAnswers(c) ==
    /\ at[c] = "jupiter"
    /\ fresh' = fresh \cup {mint[c]}
    /\ Goes(c, "cached")
    /\ UNCHANGED <<jupiter, coingecko, stale>>

JupiterSucceeds(c) ==
    /\ at[c] = "cached"
    /\ J!RecordSuccess(c)
    /\ Goes(c, "keep")
    /\ UNCHANGED <<coingecko, caches>>

\* No answer, an error status, a body that cannot be read, an unknown token.
JupiterFails(c) ==
    /\ at[c] = "jupiter"
    /\ J!RecordFailure(c)
    /\ Goes(c, "mapGate")
    /\ UNCHANGED <<coingecko, caches>>

-----------------------------------------------------------------------------
(* CoinGeckoPriceProvider. *)

AskMapping(c) ==
    /\ at[c] = "mapGate"
    /\ C!CanRequest(c)
    /\ Goes(c, "mapping")
    /\ UNCHANGED <<jupiter, caches, backupFailed>>

CoinGeckoRefuses(c) ==
    /\ at[c] = "mapGate"
    /\ cState = "open" /\ cAge # Timeout
    /\ Goes(c, "stale")
    /\ UNCHANGED <<jupiter, coingecko, caches>>

IsMapped(c) ==
    /\ at[c] = "mapping"
    /\ mint[c] \in Mapped
    /\ Goes(c, "coingecko")
    /\ UNCHANGED <<jupiter, coingecko, caches>>

\* Mutant: a mint without a CoinGecko id counts as a failure of CoinGecko.
NotMapped_Records(c) ==
    /\ at[c] = "mapping"
    /\ backupFailed' = (backupFailed \/ mint[c] \in Mapped)
    /\ C!RecordFailure(c)
    /\ Goes(c, "stale")
    /\ UNCHANGED <<jupiter, caches>>

\* No CoinGecko id, or no answer from the mapping: "?" leaves the breaker
\* without an outcome.
NotMapped(c) ==
    /\ at[c] = "mapping"
    /\ backupFailed' = (backupFailed \/ mint[c] \in Mapped)
    /\ C!Abandon(c)
    /\ Goes(c, "stale")
    /\ UNCHANGED <<jupiter, caches>>

CoinGeckoSucceeds(c) ==
    /\ at[c] = "coingecko"
    /\ C!RecordSuccess(c)
    /\ Goes(c, "keep")
    /\ UNCHANGED <<jupiter, caches, backupFailed>>

CoinGeckoFails(c) ==
    /\ at[c] = "coingecko"
    /\ backupFailed' = TRUE
    /\ C!RecordFailure(c)
    /\ Goes(c, "stale")
    /\ UNCHANGED <<jupiter, caches>>

-----------------------------------------------------------------------------
(* The end of the chain. *)

Keep(c) ==
    /\ at[c] = "keep"
    /\ stale' = stale \cup {mint[c]}
    /\ Answers(c)
    /\ UNCHANGED <<jupiter, coingecko, fresh>>

\* However old it is, the last price is better than none.
StaleHit(c) ==
    /\ at[c] = "stale"
    /\ mint[c] \in stale
    /\ Answers(c)
    /\ UNCHANGED <<jupiter, coingecko, caches>>

StaleMiss(c) ==
    /\ at[c] = "stale"
    /\ mint[c] \notin stale
    /\ Returns(c)
    /\ UNCHANGED <<jupiter, coingecko, caches, answered>>

Expire(m) ==
    /\ m \in fresh
    /\ fresh' = fresh \ {m}
    /\ UNCHANGED <<jupiter, coingecko, stale, at, mint, answered, known>>

\* One clock for both breakers.
Tick ==
    /\ IF jAge < Timeout \/ jOpenFor < Timeout THEN J!Tick ELSE UNCHANGED jupiter
    /\ IF cAge < Timeout \/ cOpenFor < Timeout THEN C!Tick ELSE UNCHANGED coingecko
    /\ UNCHANGED <<caches, at, mint, answered, known, backupFailed>>

Jupiter(c) ==
    \/ CacheHit(c) \/ CacheMiss(c) \/ AskJupiter(c) \/ JupiterRefuses(c)
    \/ JupiterAnswers(c) \/ JupiterSucceeds(c) \/ JupiterFails(c)

CoinGecko(c) ==
    \/ AskMapping(c) \/ CoinGeckoRefuses(c) \/ IsMapped(c) \/ NotMapped(c)
    \/ CoinGeckoSucceeds(c) \/ CoinGeckoFails(c)

Next ==
    \/ \E c \in Callers :
          Start(c) \/ Jupiter(c) \/ CoinGecko(c) \/ Keep(c) \/ StaleHit(c) \/ StaleMiss(c)
    \/ \E m \in Mints : Expire(m)
    \/ Tick

Spec == Init /\ [][Next]_vars
-----------------------------------------------------------------------------
(* Properties. *)

\* A breaker has a lookup in flight exactly while the lookup is between its gate
\* and its outcome: no outcome is recorded twice or forgotten on the way out.
TypeOK ==
    /\ jInflight = {c \in Callers : at[c] \in {"jupiter", "cached"}}
    /\ cInflight = {c \in Callers : at[c] \in {"mapping", "coingecko"}}
    /\ fresh \subseteq Mints /\ stale \subseteq Mints
    /\ backupFailed \in BOOLEAN
    /\ at \in [Callers -> Steps]
    /\ mint \in [Callers -> Mints \cup {None}]
    /\ \A c \in Callers : (mint[c] = None) <=> (at[c] = "idle")
    /\ answered \subseteq Mints /\ known \subseteq Callers

\* Once a lookup has returned a price of a mint, no lookup that begins later
\* fails for it, whatever happens to the providers, to their breakers and to
\* Jupiter's cache.
KnownNeverFails ==
    \A c \in known : at[c] = "stale" => mint[c] \in stale

\* As long as CoinGecko and the mapping have answered every request, a mint with
\* a CoinGecko id gets its price from a provider: neither an open breaker of
\* Jupiter nor the lookups of mints without an id stand in the way.
MappedAreServed ==
    ~backupFailed =>
        \A c \in Callers : at[c] = "stale" => mint[c] \notin Mapped

\* The chain uses both breakers as CircuitBreaker expects: every outcome is that
\* of a lookup the breaker has let through, so what is shown there holds here.
BreakersAreUsedAsExpected == J!Spec /\ C!Spec
=============================================================================
