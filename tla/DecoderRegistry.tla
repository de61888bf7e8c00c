-------------------------- MODULE DecoderRegistry --------------------------
(***************************************************************************)
(* DecoderRegistry of dex/mod.rs: a decoder and statistics for each pool,  *)
(* used from any number of threads.  A decoder is its DEX type.  The four  *)
(* tables have a lock each; what one call does under one lock, or under    *)
(* locks it holds together, is one step, and calls interleave between      *)
(* steps.  A pool outside the domain of a table has no entry there.        *)
(***************************************************************************)
EXTENDS Decoders, Functions, FiniteSets

CONSTANTS
    RegPools,     \* pool addresses
    Callers,      \* threads
    Samples,      \* the account data they bring
    LogInterval,  \* LOG_INTERVAL_SECONDS
    MaxEpoch,     \* bound: the clock
    MaxCalls      \* bound: calls made

ASSUME RegistryAssumption ==
    /\ {LogInterval, MaxEpoch, MaxCalls} \subseteq Nat
    /\ IsFiniteSet(Callers)

VARIABLES
    decoders,   \* decoders
    poolTypes,  \* pool_types
    stats,      \* stats: success_count and error_count
    lastLog,    \* last_stats_log
    epoch,      \* current_timestamp()
    call,       \* what each thread is in the middle of
    calls,      \* the calls made
    created,    \* history: decoders created on demand, by pool
    tally       \* history: the outcomes of each pool since its statistics were dropped

registryTables == <<decoders, poolTypes, stats, lastLog>>
registryVars == <<registryTables, epoch, call, calls, created, tally>>

Idle == [at |-> "idle"]

NewStats == [ok |-> 0, err |-> 0]

Count(s, ok) == IF ok THEN [s EXCEPT !.ok = @ + 1] ELSE [s EXCEPT !.err = @ + 1]

RegistryInit ==
    /\ decoders = <<>> /\ poolTypes = <<>> /\ stats = <<>>
    /\ lastLog = 0
    /\ epoch = LogInterval  \* long after 1970
    /\ call = [t \in Callers |-> Idle]
    /\ calls = 0
    /\ created = [p \in RegPools |-> 0]
    /\ tally = [p \in RegPools |-> NewStats]

\* HashMap::insert
Put(table, p, v) == [q \in DOMAIN table \cup {p} |-> IF q = p THEN v ELSE table[q]]

Calls(t) == call[t] = Idle /\ calls < MaxCalls /\ calls' = calls + 1
Goes(t, next) == call' = [call EXCEPT ![t] = next]

-----------------------------------------------------------------------------
(* Registration. *)

RegisterPool(t, p, dex) ==
    /\ Calls(t)
    /\ decoders' = Put(decoders, p, dex)
    /\ poolTypes' = Put(poolTypes, p, dex)
    /\ UNCHANGED <<stats, lastLog, epoch, call, created, tally>>

\* Only the type: a decoder that is there already stays.
RegisterPoolType(t, p, dex) ==
    /\ Calls(t)
    /\ poolTypes' = Put(poolTypes, p, dex)
    /\ UNCHANGED <<decoders, stats, lastLog, epoch, call, created, tally>>

-----------------------------------------------------------------------------
(* Decoding.  "create" is the slow path of get_or_create_decoder, "decode" *)
(* is decode_pool_data, "record" its second half.                          *)

\* decode_pool_data_lazy, up to the fast path of get_or_create_decoder.
DecodeLazy(t, p, a) ==
    /\ Calls(t)
    /\ Goes(t, [at |-> IF p \in DOMAIN decoders THEN "decode" ELSE "create",
                pool |-> p, data |-> a])
    /\ UNCHANGED <<registryTables, epoch, created, tally>>

\* Mutant: no second look under the write lock.
CreateDecoder_NoDoubleCheck(t) ==
    /\ call[t].at = "create"
    /\ LET p == call[t].pool
       IN  IF p \notin DOMAIN poolTypes
           THEN Goes(t, Idle) /\ UNCHANGED <<decoders, created>>
           ELSE /\ Goes(t, [call[t] EXCEPT !.at = "decode"])
                /\ decoders' = Put(decoders, p, poolTypes[p])
                /\ created' = [created EXCEPT ![p] = @ + 1]
    /\ UNCHANGED <<poolTypes, stats, lastLog, epoch, calls, tally>>

\* Another thread may have been here since the fast path; without a type the
\* call fails.
CreateDecoder(t) ==
    /\ call[t].at = "create"
    /\ LET p == call[t].pool
           create == p \notin DOMAIN decoders /\ p \in DOMAIN poolTypes
       IN  /\ Goes(t, IF p \in DOMAIN decoders \/ create
                      THEN [call[t] EXCEPT !.at = "decode"] ELSE Idle)
           /\ decoders' = IF create THEN Put(decoders, p, poolTypes[p]) ELSE decoders
           /\ created' = [created EXCEPT ![p] = IF create THEN @ + 1 ELSE @]
    /\ UNCHANGED <<poolTypes, stats, lastLog, epoch, calls, tally>>

\* decode_pool_data, by itself.
DecodePoolData(t, p, a) ==
    /\ Calls(t)
    /\ Goes(t, [at |-> "decode", pool |-> p, data |-> a])
    /\ UNCHANGED <<registryTables, epoch, created, tally>>

\* The read lock is released after this step.
RunDecoder(t) ==
    /\ call[t].at = "decode"
    /\ LET p == call[t].pool
           ok == DecodeReserves(decoders[p], call[t].data).ok
       IN  IF p \notin DOMAIN decoders
           THEN Goes(t, Idle) /\ UNCHANGED tally
           ELSE /\ Goes(t, [at |-> "record", pool |-> p, ok |-> ok])
                /\ tally' = [tally EXCEPT ![p] = Count(@, ok)]
    /\ UNCHANGED <<registryTables, epoch, calls, created>>

StatsOf(p) == IF p \in DOMAIN stats THEN stats[p] ELSE NewStats

\* Mutant: the first outcome of a pool only makes its entry.
RecordStats_DropsFirst(t) ==
    /\ call[t].at = "record"
    /\ LET p == call[t].pool
       IN  stats' = Put(stats, p,
               IF p \in DOMAIN stats THEN Count(stats[p], call[t].ok) ELSE NewStats)
    /\ Goes(t, Idle)
    /\ UNCHANGED <<decoders, poolTypes, lastLog, epoch, calls, created, tally>>

RecordStats(t) ==
    /\ call[t].at = "record"
    /\ LET p == call[t].pool
       IN  stats' = Put(stats, p, Count(StatsOf(p), call[t].ok))
    /\ Goes(t, Idle)
    /\ UNCHANGED <<decoders, poolTypes, lastLog, epoch, calls, created, tally>>

-----------------------------------------------------------------------------
(* Statistics. *)

\* What the statistics hold is dropped; what is on its way to them is not.
Dropped(p) == [ok |-> tally[p].ok - StatsOf(p).ok, err |-> tally[p].err - StatsOf(p).err]

ResetStats(t) ==
    /\ Calls(t)
    /\ stats' = <<>>
    /\ tally' = [p \in RegPools |-> Dropped(p)]
    /\ UNCHANGED <<decoders, poolTypes, lastLog, epoch, call, created>>

ResetPoolStats(t, p) ==
    /\ Calls(t)
    /\ stats' = Restrict(stats, DOMAIN stats \ {p})
    /\ tally' = [tally EXCEPT ![p] = Dropped(p)]
    /\ UNCHANGED <<decoders, poolTypes, lastLog, epoch, call, created>>

\* log_stats: the time is taken before either lock.
LogStats(t, force) ==
    /\ Calls(t)
    /\ Goes(t, [at |-> IF force THEN "stamp" ELSE "check", now |-> epoch])
    /\ UNCHANGED <<registryTables, epoch, created, tally>>

\* now - last_log in u64: another thread may have stamped a later time, and
\* the release build wraps the difference around to one that is long enough.
LoggedLately(now) == now >= lastLog /\ now - lastLog < LogInterval

CheckLog(t) ==
    /\ call[t].at = "check"
    /\ Goes(t, IF LoggedLately(call[t].now) THEN Idle ELSE [call[t] EXCEPT !.at = "stamp"])
    /\ UNCHANGED <<registryTables, epoch, calls, created, tally>>

StampLog(t) ==
    /\ call[t].at = "stamp"
    /\ lastLog' = call[t].now
    /\ Goes(t, Idle)
    /\ UNCHANGED <<decoders, poolTypes, stats, epoch, calls, created, tally>>

TimePasses ==
    /\ epoch < MaxEpoch
    /\ epoch' = epoch + 1
    /\ UNCHANGED <<registryTables, call, calls, created, tally>>

-----------------------------------------------------------------------------
\* The calls of the bound are made.
RegistryQuiet ==
    /\ calls = MaxCalls /\ epoch = MaxEpoch
    /\ \A t \in Callers : call[t] = Idle
    /\ UNCHANGED registryVars

RegistryNext ==
    \/ \E t \in Callers, p \in RegPools :
          \/ \E dex \in DexTypes : RegisterPool(t, p, dex) \/ RegisterPoolType(t, p, dex)
          \/ \E a \in Samples : DecodeLazy(t, p, a) \/ DecodePoolData(t, p, a)
          \/ ResetPoolStats(t, p)
    \/ \E t \in Callers :
          \/ CreateDecoder(t) \/ RunDecoder(t) \/ RecordStats(t)
          \/ CheckLog(t) \/ StampLog(t) \/ ResetStats(t)
          \/ \E force \in BOOLEAN : LogStats(t, force)
    \/ TimePasses \/ RegistryQuiet

RegistrySpec == RegistryInit /\ [][RegistryNext]_registryVars

-----------------------------------------------------------------------------
(* Properties. *)

RegistryTypeOK ==
    /\ DOMAIN stats \subseteq DOMAIN decoders
    /\ DOMAIN decoders \subseteq DOMAIN poolTypes
    /\ DOMAIN poolTypes \subseteq RegPools
    /\ poolTypes \in [DOMAIN poolTypes -> DexTypes]
    /\ decoders \in [DOMAIN decoders -> DexTypes]
    /\ stats \in [DOMAIN stats -> [ok : Nat, err : Nat]]
    /\ lastLog \in 0 .. epoch
    /\ \A t \in Callers :
          call[t].at \in {"idle", "create", "decode", "record", "check", "stamp"}

\* A decoder that is there is never replaced by one made on demand, whatever
\* happens between the two looks of get_or_create_decoder: registrations, and
\* other threads that found nothing either.  So a pool gets at most one.
OnDemandNeverReplaces ==
    [][\A p \in DOMAIN decoders : created'[p] = created[p]]_registryVars

\* The outcomes of a kind that are on their way to the statistics of p.
Pending(p, ok) ==
    Cardinality({t \in Callers : /\ call[t].at = "record"
                                 /\ call[t].pool = p /\ call[t].ok = ok})

\* Every decode of a pool since its statistics were last dropped is counted
\* once, as what it was, although the decoder runs under one lock and the
\* outcome is written later under another, and resets come in between.
DecodesAreCounted ==
    \A p \in RegPools :
        tally[p] = [ok  |-> StatsOf(p).ok + Pending(p, TRUE),
                    err |-> StatsOf(p).err + Pending(p, FALSE)]
=============================================================================
