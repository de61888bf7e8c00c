---------------------------- MODULE TokenMapping ----------------------------
(***************************************************************************)
(* TokenMappingService: which CoinGecko id a mint has.  A lookup asks the  *)
(* providers in turn and caches the first id, or that there is none, for   *)
(* good; it holds no lock while it asks.  A provider is a function from    *)
(* the mints it knows to their ids, but may fail to say so.                *)
(***************************************************************************)
EXTENDS Naturals, Sequences, SequencesExt

CONSTANTS
    Providers,   \* providers, in their order
    MappedMints, \* the mints that are looked up
    Askers,      \* tasks that call get_token_id
    NoId,        \* None
    MaxLookups,  \* bound: calls of get_token_id
    MaxClears    \* bound: calls of clear_cache

ASSUME MappingAssumption ==
    /\ {MaxLookups, MaxClears} \subseteq Nat
    /\ Len(Providers) \in Nat /\ DOMAIN Providers = 1 .. Len(Providers)

VARIABLES
    ids,      \* cache: mint to id or NoId
    lookup,   \* what each task is doing
    lookups,  \* calls of get_token_id
    clears,   \* calls of clear_cache
    silent    \* history: who failed in the lookup that stored an entry

mappingVars == <<ids, lookup, lookups, clears, silent>>

\* StaticTokenMapping::new: a mint given twice has its last id, and an empty
\* mint or id (NoId) refuses all of them.
StaticMapping(entries) ==
    LET mints == {entries[i].mint : i \in DOMAIN entries}
    IN  IF \E e \in Range(entries) : NoId \in {e.mint, e.id} THEN <<>>
        ELSE [m \in mints |->
                entries[SelectLastInSeq(entries, LAMBDA e : e.mint = m)].id]

MappingInit ==
    /\ ids = <<>> /\ silent = <<>>
    /\ lookup = [k \in Askers |-> [at |-> "idle"]]
    /\ lookups = 0 /\ clears = 0

GetTokenId(k, m) ==
    /\ lookup[k].at = "idle"
    /\ lookups < MaxLookups
    /\ lookups' = lookups + 1
    /\ lookup' = IF m \in DOMAIN ids THEN lookup
                 ELSE [lookup EXCEPT ![k] =
                        [at |-> "asking", mint |-> m, next |-> 1, failed |-> {}]]
    /\ UNCHANGED <<ids, clears, silent>>

Asking(k) == lookup[k].at = "asking" /\ lookup[k].next \in DOMAIN Providers

With(table, m, v) == [n \in DOMAIN table \cup {m} |-> IF n = m THEN v ELSE table[n]]

Stores(k, id) ==
    /\ ids' = With(ids, lookup[k].mint, id)
    /\ silent' = With(silent, lookup[k].mint, lookup[k].failed)
    /\ lookup' = [lookup EXCEPT ![k] = [at |-> "idle"]]
    /\ UNCHANGED <<lookups, clears>>

Moves(k, failed) ==
    /\ lookup' = [lookup EXCEPT ![k].next = @ + 1, ![k].failed = @ \cup failed]
    /\ UNCHANGED <<ids, lookups, clears, silent>>

Said(k) == Providers[lookup[k].next]

\* The id is in hand; it is stored in a step of its own.
ProviderKnows(k) ==
    /\ Asking(k)
    /\ lookup[k].mint \in DOMAIN Said(k)
    /\ lookup' = [lookup EXCEPT ![k] =
            [at |-> "found", mint |-> @.mint, id |-> Said(k)[@.mint], failed |-> @.failed]]
    /\ UNCHANGED <<ids, lookups, clears, silent>>

ProviderDoesNot(k) ==
    /\ Asking(k)
    /\ lookup[k].mint \notin DOMAIN Said(k)
    /\ Moves(k, {})

\* Mutant: the first failure ends the search.
ProviderFails_Breaks(k) ==
    /\ Asking(k)
    /\ lookup' = [lookup EXCEPT ![k].next = Len(Providers) + 1,
                                ![k].failed = @ \cup {lookup[k].next}]
    /\ UNCHANGED <<ids, lookups, clears, silent>>

ProviderFails(k) ==
    /\ Asking(k)
    /\ Moves(k, {lookup[k].next})

StoreId(k) == lookup[k].at = "found" /\ Stores(k, lookup[k].id)

StoreNone(k) ==
    /\ lookup[k].at = "asking" /\ ~Asking(k)
    /\ Stores(k, NoId)

ClearCache ==
    /\ clears < MaxClears
    /\ clears' = clears + 1
    /\ ids' = <<>> /\ silent' = <<>>
    /\ UNCHANGED <<lookup, lookups>>

MappingQuiet ==
    /\ lookups = MaxLookups /\ clears = MaxClears
    /\ \A k \in Askers : lookup[k].at = "idle"
    /\ UNCHANGED mappingVars

MappingNext ==
    \/ \E k \in Askers :
          \/ \E m \in MappedMints : GetTokenId(k, m)
          \/ ProviderKnows(k) \/ ProviderDoesNot(k) \/ ProviderFails(k)
          \/ StoreId(k) \/ StoreNone(k)
    \/ ClearCache \/ MappingQuiet

MappingSpec == MappingInit /\ [][MappingNext]_mappingVars

-----------------------------------------------------------------------------
(* Properties. *)

MappingTypeOK ==
    /\ DOMAIN ids \subseteq MappedMints /\ DOMAIN silent = DOMAIN ids
    /\ \A m \in DOMAIN silent : silent[m] \subseteq DOMAIN Providers
    /\ \A k \in Askers : lookup[k].at \in {"idle", "asking", "found"}

\* What the cache says of a mint, for good, is what the first provider says
\* that knows it and did not fail in the lookup that stored the entry: a mint
\* is cached as unknown, or under the id of a later provider, only because
\* every earlier provider that knows it failed in that one lookup, whatever
\* other lookups have found meanwhile.
EntriesHaveACause ==
    \A m \in DOMAIN ids :
        LET answering == {i \in DOMAIN Providers \ silent[m] : m \in DOMAIN Providers[i]}
        IN  IF answering = {} THEN ids[m] = NoId
            ELSE \E i \in answering :
                    ids[m] = Providers[i][m] /\ \A j \in answering : i <= j
=============================================================================
