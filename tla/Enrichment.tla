----------------------------- MODULE Enrichment -----------------------------
(***************************************************************************)
(* How handle_update of the orchestrator makes a snapshot of an update:    *)
(* decode the account, for Raydium read the two vaults from the chain, ask *)
(* the metadata provider for the decimals of both mints and the Jupiter    *)
(* oracle for the price of the quote mint.  The provider and the oracle    *)
(* keep a cache each, with a time to live.                                 *)
(*                                                                         *)
(* One receiver handles one update at a time; the chain, the market and    *)
(* the clock move on between any two of its steps.  The amount a vault     *)
(* holds is the number of swaps the pool has seen, and the price of a mint *)
(* the number of its changes, from one.                                    *)
(***************************************************************************)
EXTENDS Decoders, Sequences

CONSTANTS
    EnrichedPools,  \* the registered pools: address to dex, base and quote mint
    Accounts,       \* the accounts that updates may bring
    StableMints,    \* stable_mints of OracleConfig
    ChainDecimals,  \* the decimals of each mint on the chain
    MetadataTtl,    \* cache_ttl of the metadata provider
    OracleTtl,      \* cache_ttl of the oracle
    MaxUpdates,     \* bound: updates handled
    MaxMoves,       \* bound: swaps, and changes of a price
    MaxInstant      \* bound: the clock

Mints == DOMAIN ChainDecimals

ASSUME EnrichmentAssumption ==
    /\ {MetadataTtl, OracleTtl, MaxUpdates, MaxMoves, MaxInstant} \subseteq Nat
    /\ EnrichedPools \in
          [DOMAIN EnrichedPools -> [dex : DexTypes, base : Mints, quote : Mints]]

VARIABLES
    job,        \* the update being handled, and the rest of its steps
    metadata,   \* the cache of TokenMetadataProvider: mint to decimals and time
    usd,        \* the cache of JupiterQuoteOracle: mint to price and time
    instant,    \* Instant::now()
    swaps,      \* swaps of the pools, and the amount in their vaults
    quotes,     \* the price of a mint that is not stable
    updates,    \* updates handled
    asked       \* history: what the API answered for each mint, and when

enrichmentVars ==
    <<job, metadata, usd, instant, swaps, quotes, updates, asked>>

NoJob == [todo |-> <<>>]

EnrichmentInit ==
    /\ job = NoJob
    /\ metadata = <<>> /\ usd = <<>>
    /\ instant = 0 /\ swaps = 0 /\ updates = 0
    /\ quotes = 1
    /\ asked = {}

-----------------------------------------------------------------------------
(* An update.  The branches of handle_update differ in their steps: a Pump *)
(* account holds its reserves, and the quote of Pump.fun is SOL, of nine   *)
(* decimals.                                                               *)

StepsOf == [
    PumpFun  |-> <<"base", "price", "send">>,
    PumpSwap |-> <<"base", "quote", "price", "send">>,
    Raydium  |-> <<"coin", "pc", "base", "quote", "price", "send">>]

Decodable(dex, a) == IF dex = "Raydium" THEN GetVaultInfo(a).ok ELSE DecodeReserves(dex, a).ok

Started(p) ==
    [pool |-> p, seen |-> swaps, coin |-> 0, pc |-> 0, base |-> 9, quote |-> 9,
     failed |-> {}, usd |-> 0, priced |-> 0, waiting |-> FALSE,
     todo |-> StepsOf[EnrichedPools[p].dex]]

\* An account that cannot be decoded is dropped.
HandleUpdate(p, a) ==
    /\ job = NoJob
    /\ updates < MaxUpdates
    /\ updates' = updates + 1
    /\ job' = IF Decodable(EnrichedPools[p].dex, a) THEN Started(p) ELSE NoJob
    /\ UNCHANGED <<metadata, usd, instant, swaps, quotes, asked>>

At(steps) == job.todo # <<>> /\ Head(job.todo) \in steps

\* The step is over with value v for its field f.
Gets(f, v) == job' = [job EXCEPT ![f] = v, !.waiting = FALSE, !.todo = Tail(@)]

\* get_account_data of a vault: what it holds now.
ReadVault ==
    /\ At({"coin", "pc"})
    /\ Gets(Head(job.todo), swaps)
    /\ UNCHANGED <<metadata, usd, instant, swaps, quotes, updates, asked>>

\* The request fails, or the answer is no token account: no snapshot.
VaultFails ==
    /\ At({"coin", "pc"})
    /\ job' = NoJob
    /\ UNCHANGED <<metadata, usd, instant, swaps, quotes, updates, asked>>

-----------------------------------------------------------------------------
(* The two caches.  An entry is used for as long as its time to live, and  *)
(* its last instant belongs to it.                                         *)

\* HashMap::insert
Cached(cache, m, entry) ==
    [n \in DOMAIN cache \cup {m} |-> IF n = m THEN entry ELSE cache[n]]

Fresh(cache, m, ttl) == m \in DOMAIN cache /\ instant - cache[m].at <= ttl

Waits == job' = [job EXCEPT !.waiting = TRUE]

MintAt == EnrichedPools[job.pool][Head(job.todo)]
QuoteMint == EnrichedPools[job.pool].quote

GetDecimals ==
    /\ At({"base", "quote"}) /\ ~job.waiting
    /\ IF Fresh(metadata, MintAt, MetadataTtl)
       THEN Gets(Head(job.todo), metadata[MintAt].decimals)
       ELSE Waits
    /\ UNCHANGED <<metadata, usd, instant, swaps, quotes, updates, asked>>

Described(m) ==
    metadata' = Cached(metadata, m, [decimals |-> ChainDecimals[m], at |-> instant])

DecimalsArrive ==
    /\ At({"base", "quote"}) /\ job.waiting
    /\ Described(MintAt)
    /\ Gets(Head(job.todo), ChainDecimals[MintAt])
    /\ UNCHANGED <<usd, instant, swaps, quotes, updates, asked>>

\* Mutant: the default is cached like an answer.
DecimalsFail_Cached ==
    /\ At({"base", "quote"}) /\ job.waiting
    /\ metadata' = Cached(metadata, MintAt, [decimals |-> 9, at |-> instant])
    /\ job' = [job EXCEPT ![Head(job.todo)] = 9, !.failed = @ \cup {Head(job.todo)},
                          !.waiting = FALSE, !.todo = Tail(@)]
    /\ UNCHANGED <<usd, instant, swaps, quotes, updates, asked>>

\* unwrap_or(9): the cache is left alone.
DecimalsFail ==
    /\ At({"base", "quote"}) /\ job.waiting
    /\ job' = [job EXCEPT ![Head(job.todo)] = 9, !.failed = @ \cup {Head(job.todo)},
                          !.waiting = FALSE, !.todo = Tail(@)]
    /\ UNCHANGED <<metadata, usd, instant, swaps, quotes, updates, asked>>

\* Another user of the provider: get_metadata, prefetch_metadata, clear_cache.
Prefetched(m) == Described(m) /\ UNCHANGED <<job, usd, instant, swaps, quotes, updates, asked>>
ClearMetadata ==
    /\ metadata' = <<>>
    /\ UNCHANGED <<job, usd, instant, swaps, quotes, updates, asked>>

Priced(price) ==
    job' = [job EXCEPT !.usd = price, !.priced = instant, !.waiting = FALSE, !.todo = Tail(@)]

FetchPriceUsd ==
    /\ At({"price"}) /\ ~job.waiting
    /\ CASE QuoteMint \in StableMints -> Priced(1)
         [] QuoteMint \notin StableMints /\ Fresh(usd, QuoteMint, OracleTtl) ->
                Priced(usd[QuoteMint].price)
         [] OTHER -> Waits
    /\ UNCHANGED <<metadata, usd, instant, swaps, quotes, updates, asked>>

\* fetch_from_api, and the cache: a failure is a price of zero.
FromApi(price) ==
    /\ At({"price"}) /\ job.waiting
    /\ usd' = Cached(usd, QuoteMint, [price |-> price, at |-> instant])
    /\ asked' = asked \cup {[mint |-> QuoteMint, price |-> price, at |-> instant]}
    /\ Priced(price)
    /\ UNCHANGED <<metadata, instant, swaps, quotes, updates>>

PriceArrives == FromApi(quotes)
PriceFails == FromApi(0)

SendSnapshot ==
    /\ At({"send"})
    /\ job' = NoJob
    /\ UNCHANGED <<metadata, usd, instant, swaps, quotes, updates, asked>>

-----------------------------------------------------------------------------
(* The world. *)

MayMove == swaps + quotes <= MaxMoves

Swap ==
    /\ MayMove
    /\ swaps' = swaps + 1
    /\ UNCHANGED <<job, metadata, usd, instant, quotes, updates, asked>>

QuoteMoves ==
    /\ MayMove
    /\ quotes' = quotes + 1
    /\ UNCHANGED <<job, metadata, usd, instant, swaps, updates, asked>>

InstantPasses ==
    /\ instant < MaxInstant
    /\ instant' = instant + 1
    /\ UNCHANGED <<job, metadata, usd, swaps, quotes, updates, asked>>

EnrichmentNext ==
    \/ \E p \in DOMAIN EnrichedPools, a \in Accounts : HandleUpdate(p, a)
    \/ ReadVault \/ VaultFails
    \/ GetDecimals \/ DecimalsArrive \/ DecimalsFail
    \/ \E m \in Mints : Prefetched(m)
    \/ ClearMetadata
    \/ FetchPriceUsd \/ PriceArrives \/ PriceFails
    \/ SendSnapshot
    \/ Swap \/ QuoteMoves \/ InstantPasses

EnrichmentSpec == EnrichmentInit /\ [][EnrichmentNext]_enrichmentVars

-----------------------------------------------------------------------------
(* Properties. *)

EnrichmentTypeOK ==
    /\ DOMAIN metadata \subseteq Mints /\ DOMAIN usd \subseteq Mints \ StableMints
    /\ \A m \in DOMAIN metadata : metadata[m].at \in 0 .. instant
    /\ \A m \in DOMAIN usd : usd[m].price \in 0 .. quotes /\ usd[m].at \in 0 .. instant
    /\ job # NoJob => /\ job.pool \in DOMAIN EnrichedPools
                      /\ job.seen \in 0 .. swaps
                      /\ job.failed \subseteq {"base", "quote"}

\* Decimals differ from those on the chain only if the request of this very
\* update failed: a failure does not outlive its update.
DecimalsExplained(s) ==
    \A f \in {"base", "quote"} \ s.failed :
        (f = "base" \/ EnrichedPools[s.pool].dex # "PumpFun") =>
            s[f] = ChainDecimals[EnrichedPools[s.pool][f]]

\* A price is what the API said of the mint no longer ago than the time to
\* live: in particular, a price of zero means that a request failed since.
PriceExplained(s) ==
    \/ EnrichedPools[s.pool].quote \in StableMints /\ s.usd = 1
    \/ \E answer \in asked :
          /\ answer.mint = EnrichedPools[s.pool].quote
          /\ answer.price = s.usd
          /\ answer.at \in 0 .. s.priced /\ s.priced - answer.at <= OracleTtl

\* The reserves of a Raydium pool are those of two moments after the update,
\* the base no later than the quote: they agree unless a swap came in between.
ReservesExplained(s) ==
    EnrichedPools[s.pool].dex = "Raydium" => s.seen <= s.coin /\ s.coin <= s.pc /\ s.pc <= swaps

\* Every figure of a snapshot that is ready to be sent has a cause in the
\* update's own requests or in what a cache may still hold.
SnapshotsAreExplained ==
    At({"send"}) => DecimalsExplained(job) /\ PriceExplained(job) /\ ReservesExplained(job)
=============================================================================
