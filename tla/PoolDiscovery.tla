--------------------------- MODULE PoolDiscovery ---------------------------
(***************************************************************************)
(* PoolDiscovery: the PumpSwap pools that the program's accounts on the    *)
(* chain tell of.  backfill_pumpswap_pools asks for the accounts without a *)
(* lock, and then goes through them, one turn of its loop after the other, *)
(* under the write lock of the set of discovered pools; other callers may  *)
(* have come first.                                                        *)
(*                                                                         *)
(* A listing is a sequence of addresses with their accounts.               *)
(***************************************************************************)
EXTENDS Decoders, Sequences, SequencesExt

CONSTANTS
    Backfills,     \* callers of backfill_pumpswap_pools
    Chains,        \* the listings that the chain may answer with
    QuoteAllowlist,\* quote_allowlist
    MinQuote,      \* min_quote_liquidity
    MaxPools,      \* max_pools
    MaxBackfills,  \* bound: calls of backfill_pumpswap_pools
    MaxMarks       \* bound: calls of mark_discovered

ASSUME DiscoveryAssumption ==
    /\ {MinQuote, MaxPools, MaxBackfills, MaxMarks} \subseteq Nat
    /\ \A l \in Chains : l \in Seq(Range(l))

VARIABLES
    discovered,  \* discovered_pools
    scan,        \* what each caller is doing
    backfills,   \* calls of backfill_pumpswap_pools
    marks,       \* calls of mark_discovered
    found        \* history: what the calls return, one after the other

discoveryVars == <<discovered, scan, backfills, marks, found>>

DiscoveryInit ==
    /\ discovered = {}
    /\ scan = [b \in Backfills |-> [at |-> "idle"]]
    /\ backfills = 0 /\ marks = 0
    /\ found = <<>>

\* PoolConfig::validate
ValidPool(address, mint) == address # NoKey /\ mint # NoKey

\* filter_pool: a pool of the list is filtered out, and one that cannot be
\* decoded passed over, alike.
FilterPool(entry) ==
    LET a == entry.account
        reserves == DecodeReserves("PumpSwap", a)
    IN  /\ Holds(a, 40, 32) /\ a.quoteMint \in QuoteAllowlist
        /\ reserves.ok /\ reserves.quote >= MinQuote
        /\ ValidPool(entry.address, a.baseMint)

\* The request; the node keeps to the size it is asked for.
Backfill(b, listing) ==
    /\ scan[b].at = "idle"
    /\ backfills < MaxBackfills
    /\ \A e \in Range(listing) : e.account.size = AccountSize.PumpSwap
    /\ backfills' = backfills + 1
    /\ scan' = [scan EXCEPT ![b] = [at |-> "listed", listing |-> listing]]
    /\ UNCHANGED <<discovered, marks, found>>

\* Who is in the loop holds the lock of the set.
Locked == \E b \in Backfills : scan[b].at = "scanning"

BeginScan(b) ==
    /\ scan[b].at = "listed" /\ ~Locked
    /\ scan' = [scan EXCEPT ![b] =
            [at |-> "scanning", listing |-> @.listing, next |-> 1, new |-> <<>>]]
    /\ UNCHANGED <<discovered, backfills, marks, found>>

InLoop(b) == scan[b].at = "scanning" /\ scan[b].next \in DOMAIN scan[b].listing
Turn(b) == scan[b].listing[scan[b].next]
IsNew(b) == Turn(b).address \notin discovered
IsFull(b) == Len(scan[b].new) >= MaxPools

PassOver(b) ==
    /\ InLoop(b)
    /\ IsNew(b) => ~IsFull(b) /\ ~FilterPool(Turn(b))
    /\ scan' = [scan EXCEPT ![b].next = @ + 1]
    /\ UNCHANGED <<discovered, backfills, marks, found>>

\* Mutant: a pool is returned without being remembered.
Discover_Forgets(b) ==
    /\ InLoop(b) /\ IsNew(b) /\ ~IsFull(b) /\ FilterPool(Turn(b))
    /\ found' = Append(found, Turn(b).address)
    /\ scan' = [scan EXCEPT ![b].next = @ + 1, ![b].new = Append(@, Turn(b).address)]
    /\ UNCHANGED <<discovered, backfills, marks>>

Discover(b) ==
    /\ InLoop(b) /\ IsNew(b) /\ ~IsFull(b) /\ FilterPool(Turn(b))
    /\ discovered' = discovered \cup {Turn(b).address}
    /\ found' = Append(found, Turn(b).address)
    /\ scan' = [scan EXCEPT ![b].next = @ + 1, ![b].new = Append(@, Turn(b).address)]
    /\ UNCHANGED <<backfills, marks>>

\* The list is over, or the call is full: the lock is given back.
EndScan(b) ==
    /\ scan[b].at = "scanning"
    /\ InLoop(b) => IsNew(b) /\ IsFull(b)
    /\ scan' = [scan EXCEPT ![b] = [at |-> "done", listing |-> @.listing, new |-> @.new]]
    /\ UNCHANGED <<discovered, backfills, marks, found>>

\* The request failed, or the caller has taken its answer.
Returns(b) ==
    /\ scan[b].at \in {"listed", "done"}
    /\ scan' = [scan EXCEPT ![b] = [at |-> "idle"]]
    /\ UNCHANGED <<discovered, backfills, marks, found>>

MarkDiscovered(address) ==
    /\ marks < MaxMarks /\ ~Locked
    /\ marks' = marks + 1
    /\ discovered' = discovered \cup {address}
    /\ UNCHANGED <<scan, backfills, found>>

DiscoveryQuiet ==
    /\ backfills = MaxBackfills /\ marks = MaxMarks
    /\ \A b \in Backfills : scan[b].at = "idle"
    /\ UNCHANGED discoveryVars

ListedAddresses == {e.address : e \in UNION {Range(l) : l \in Chains}}

DiscoveryNext ==
    \/ \E b \in Backfills :
          \/ \E listing \in Chains : Backfill(b, listing)
          \/ BeginScan(b) \/ PassOver(b) \/ Discover(b) \/ EndScan(b) \/ Returns(b)
    \/ \E address \in ListedAddresses : MarkDiscovered(address)
    \/ DiscoveryQuiet

DiscoverySpec == DiscoveryInit /\ [][DiscoveryNext]_discoveryVars

-----------------------------------------------------------------------------
(* Properties. *)

DiscoveryTypeOK ==
    /\ discovered \subseteq ListedAddresses
    /\ found \in Seq(ListedAddresses)
    /\ \A b \in Backfills : scan[b].at \in {"idle", "listed", "scanning", "done"}

\* No pool is returned twice, by whichever calls and however their requests
\* overlap, and all that are returned stay discovered.
\* A call returns at most max_pools, and only one that returns as many may
\* leave a pool of its listing that passes the filter undiscovered.
DiscoveredOnce ==
    /\ \A i, j \in DOMAIN found : found[i] = found[j] => i = j
    /\ Range(found) \subseteq discovered
    /\ \A b \in Backfills : scan[b].at = "done" =>
          \/ Len(scan[b].new) = MaxPools
          \/ /\ Len(scan[b].new) < MaxPools
             /\ \A e \in Range(scan[b].listing) : FilterPool(e) => e.address \in discovered
=============================================================================
