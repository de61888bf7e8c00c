-------------------------- MODULE RaydiumResolver --------------------------
(***************************************************************************)
(* RaydiumResolver: the pools that Raydium's API lists, with an index by   *)
(* market, one by pair of mints and one by LP mint.  The four tables have  *)
(* a lock each and are replaced one after the other; a resolve reads them  *)
(* one after the other, holding no lock in between.                        *)
(*                                                                         *)
(* A listing is what the API answers: the official pools and the           *)
(* unverified ones, each a sequence of records with an id, a market, a     *)
(* pair of mints and an LP mint.                                           *)
(***************************************************************************)
EXTENDS Naturals, Sequences, SequencesExt

CONSTANTS
    Fetchers,    \* tasks that call fetch_pool_data
    Resolvers,   \* tasks that resolve
    Listings,    \* what the API may answer
    Addresses,   \* what is resolved: pool ids, market ids, LP mints
    Pairs,       \* pairs of mints
    NoAddress,   \* the empty string of a field the API left out
    MaxFetches,  \* bound: calls of fetch_pool_data
    MaxResolves  \* bound: calls of the resolve functions

ASSUME ResolverAssumption ==
    /\ {MaxFetches, MaxResolves} \subseteq Nat
    /\ \A l \in Listings : l.official \in Seq(Range(l.official))

VARIABLES
    table,     \* pools, market_index, mint_pair_index, lp_mint_index: key to id
    fetch,     \* what each fetcher is doing
    query,     \* what each resolver is doing
    fetches,   \* calls of fetch_pool_data
    resolves,  \* calls of the resolve functions
    source,    \* history: the listing each table was built from
    during,    \* history: the listings the tables held during each query
    crossed    \* history: two fetches have written at the same time

resolverVars == <<table, fetch, query, fetches, resolves, source, during, crossed>>

MaxRetries == 3

\* The order in which the tables are replaced.
Tables == <<"pools", "market", "pair", "lp">>

NoListing == [official |-> <<>>, unverified |-> <<>>]

-----------------------------------------------------------------------------
(* The indexes. *)

KeyOf(p, t) ==
    CASE t = "pools" -> p.id
      [] t = "market" -> p.market
      [] t = "pair" -> p.pair
      [] t = "lp" -> p.lp

Keys(pools, t) == {KeyOf(pools[i], t) : i \in DOMAIN pools} \ {NoAddress}

LastWith(pools, t, k) == SelectLastInSeq(pools, LAMBDA p : KeyOf(p, t) = k)

\* A key that several pools have leads to the last of them.
Index(pools, t) == [k \in Keys(pools, t) |-> pools[LastWith(pools, t, k)].id]

\* Mutant: the unverified pools are indexed too.
TableOf_Unverified(listing, t) == Index(listing.official \o listing.unverified, t)

TableOf(listing, t) == Index(listing.official, t)

ResolverInit ==
    /\ table = [t \in Range(Tables) |-> TableOf(NoListing, t)]
    /\ fetch = [f \in Fetchers |-> [at |-> "idle"]]
    /\ query = [r \in Resolvers |-> [at |-> "idle"]]
    /\ fetches = 0 /\ resolves = 0
    /\ source = [t \in Range(Tables) |-> NoListing]
    /\ during = [r \in Resolvers |-> {}]
    /\ crossed = FALSE

-----------------------------------------------------------------------------
(* fetch_pool_data. *)

FetchPoolData(f) ==
    /\ fetch[f].at = "idle"
    /\ fetches < MaxFetches
    /\ fetches' = fetches + 1
    /\ fetch' = [fetch EXCEPT ![f] = [at |-> "request", attempt |-> 1]]
    /\ UNCHANGED <<table, query, resolves, source, during, crossed>>

\* Mutant: the old pools are cleared before they are asked for.
RequestFails_Clears(f) ==
    /\ fetch[f].at = "request"
    /\ fetch' = [fetch EXCEPT ![f] =
            IF @.attempt < MaxRetries THEN [@ EXCEPT !.at = "backoff"] ELSE [at |-> "idle"]]
    /\ table' = [table EXCEPT !["pools"] = TableOf(NoListing, "pools")]
    /\ UNCHANGED <<query, fetches, resolves, source, during, crossed>>

\* No answer, an error status or bad JSON: once more, up to three times.
RequestFails(f) ==
    /\ fetch[f].at = "request"
    /\ fetch' = [fetch EXCEPT ![f] =
            IF @.attempt < MaxRetries THEN [@ EXCEPT !.at = "backoff"] ELSE [at |-> "idle"]]
    /\ UNCHANGED <<table, query, fetches, resolves, source, during, crossed>>

RetriesRequest(f) ==
    /\ fetch[f].at = "backoff"
    /\ fetch' = [fetch EXCEPT ![f] = [at |-> "request", attempt |-> @.attempt + 1]]
    /\ UNCHANGED <<table, query, fetches, resolves, source, during, crossed>>

Answered(f, listing) ==
    /\ fetch[f].at = "request"
    /\ fetch' = [fetch EXCEPT ![f] = [at |-> "write", listing |-> listing, next |-> 1]]
    /\ crossed' = (crossed \/ \E g \in Fetchers : fetch[g].at = "write")
    /\ UNCHANGED <<table, query, fetches, resolves, source, during>>

Querying(r) == query[r].at = "reading"

\* One table is replaced under its lock.
WriteTable(f) ==
    /\ fetch[f].at = "write"
    /\ LET t == Tables[fetch[f].next]
           listing == fetch[f].listing
       IN  /\ table' = [table EXCEPT ![t] = TableOf(listing, t)]
           /\ source' = [source EXCEPT ![t] = listing]
           /\ during' = [r \in Resolvers |->
                IF Querying(r) THEN during[r] \cup {listing} ELSE during[r]]
    /\ fetch' = [fetch EXCEPT ![f] =
            IF @.next < Len(Tables) THEN [@ EXCEPT !.next = fetch[f].next + 1]
                                    ELSE [at |-> "idle"]]
    /\ UNCHANGED <<query, fetches, resolves, crossed>>

-----------------------------------------------------------------------------
(* Resolving: the tables a call looks into are its path. *)

Asks(r, key, path) ==
    /\ ~Querying(r)
    /\ resolves < MaxResolves
    /\ resolves' = resolves + 1
    /\ query' = [query EXCEPT ![r] =
            [at |-> "reading", key |-> key, asked |-> path, path |-> path]]
    /\ during' = [during EXCEPT ![r] = {source[t] : t \in Range(Tables)}]
    /\ UNCHANGED <<table, fetch, fetches, source, crossed>>

Resolve(r, address) == Asks(r, address, <<"pools", "market", "lp">>)
ResolveByMints(r, pair) == Asks(r, pair, <<"pair">>)
ResolveByMarketId(r, market) == Asks(r, market, <<"market">>)

Answers(q, id) == [at |-> "done", key |-> q.key, asked |-> q.asked, answer |-> id]

\* A hit ends the call; so does the last table.
LookUp(r) ==
    /\ Querying(r)
    /\ LET q == query[r]
           t == Head(q.path)
       IN  query' = [query EXCEPT ![r] =
                IF q.key \in DOMAIN table[t] THEN Answers(q, table[t][q.key])
                ELSE IF Len(q.path) = 1 THEN Answers(q, NoAddress)
                ELSE [q EXCEPT !.path = Tail(@)]]
    /\ UNCHANGED <<table, fetch, fetches, resolves, source, during, crossed>>

ResolverQuiet ==
    /\ fetches = MaxFetches /\ resolves = MaxResolves
    /\ \A f \in Fetchers : fetch[f].at = "idle"
    /\ \A r \in Resolvers : ~Querying(r)
    /\ UNCHANGED resolverVars

ResolverNext ==
    \/ \E f \in Fetchers :
          \/ FetchPoolData(f) \/ RequestFails(f) \/ RetriesRequest(f) \/ WriteTable(f)
          \/ \E listing \in Listings : Answered(f, listing)
    \/ \E r \in Resolvers :
          \/ \E address \in Addresses : Resolve(r, address) \/ ResolveByMarketId(r, address)
          \/ \E pair \in Pairs : ResolveByMints(r, pair)
          \/ LookUp(r)
    \/ ResolverQuiet

ResolverSpec == ResolverInit /\ [][ResolverNext]_resolverVars

-----------------------------------------------------------------------------
(* Properties. *)

ResolverTypeOK ==
    /\ \A t \in Range(Tables) :
          table[t] \in [DOMAIN table[t] -> {p.id : p \in UNION {Range(l.official) : l \in Listings}}]
    /\ \A f \in Fetchers :
          \/ fetch[f].at = "idle"
          \/ fetch[f].at \in {"request", "backoff"} /\ fetch[f].attempt \in 1 .. MaxRetries
          \/ fetch[f].at = "write" /\ fetch[f].next \in DOMAIN Tables
    /\ \A r \in Resolvers : query[r].at \in {"idle", "reading", "done"}

\* Where a query would find its key in the tables of a listing, and the answer
\* that it would give.
KindsIn(listing, q) ==
    {i \in DOMAIN q.asked : q.key \in Keys(listing.official, q.asked[i])}

AnswerIn(listing, q) ==
    IF KindsIn(listing, q) = {} THEN NoAddress
    ELSE Index(listing.official, q.asked[Min(KindsIn(listing, q))])[q.key]

\* A query that ran while tables were being replaced, even by two fetches at
\* a time, answers as one of the listings does that the tables held meanwhile,
\* unless those disagree on what its key is: an address that stays the LP mint
\* of a pool is never missed, nor is a stranger found.
AnswersComeFromAListing ==
    \A r \in Resolvers : query[r].at = "done" =>
        \/ \E l, m \in during[r] : KindsIn(l, query[r]) # KindsIn(m, query[r])
        \/ \E l \in during[r] : query[r].answer = AnswerIn(l, query[r])

\* However many attempts failed, the four tables tell of the same listing
\* whenever no fetch is replacing them, as long as no two fetches did at once.
TablesAgreeAtRest ==
    \/ crossed
    \/ \E f \in Fetchers : fetch[f].at = "write"
    \/ \E l \in Listings \cup {NoListing} :
          \A t \in Range(Tables) : table[t] = Index(l.official, t)

\* What the resolver answers and what it holds come from listings of the API,
\* at rest and while they are being replaced.
AnswersComeFromListings == AnswersComeFromAListing /\ TablesAgreeAtRest
=============================================================================
