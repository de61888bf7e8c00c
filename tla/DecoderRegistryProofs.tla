----------------------- MODULE DecoderRegistryProofs -----------------------
(***************************************************************************)
(* For any pools, threads and account data: a decoder is never replaced by *)
(* one made on demand, and the statistics count every decode once.         *)
(***************************************************************************)
EXTENDS DecoderRegistry, FiniteSetTheorems, TLAPS

\* The states of a call, for the pools that have a decoder and the time.
DecodingCall(r) == r \in [at : {"create", "decode"}, pool : RegPools, data : Samples]
RecordingCall(r, known) ==
    r \in [at : {"record"}, pool : RegPools \cap known, ok : BOOLEAN]
LoggingCall(r, now) == r \in [at : {"check", "stamp"}, now : 0 .. now]

CallOK(r, known, now) ==
    r = Idle \/ DecodingCall(r) \/ RecordingCall(r, known) \/ LoggingCall(r, now)

CallsOK ==
    /\ call = [t \in Callers |-> call[t]]
    /\ \A t \in Callers : CallOK(call[t], DOMAIN decoders, epoch)

TablesOK ==
    /\ DOMAIN decoders \subseteq DOMAIN poolTypes
    /\ DOMAIN poolTypes \subseteq RegPools
    /\ poolTypes \in [DOMAIN poolTypes -> DexTypes]
    /\ decoders \in [DOMAIN decoders -> DexTypes]
    /\ created \in [RegPools -> Nat]

StatsOK ==
    /\ DOMAIN stats \subseteq DOMAIN decoders
    /\ stats \in [DOMAIN stats -> [ok : Nat, err : Nat]]
    /\ tally = [p \in RegPools |-> tally[p]]

ClockOK == epoch \in Nat /\ lastLog \in 0 .. epoch

Types == CallsOK /\ TablesOK /\ StatsOK /\ ClockOK

Inv == Types /\ DecodesAreCounted

-----------------------------------------------------------------------------
(* The counting of the calls about to record. *)

\* The threads that Pending counts.
Recording(p, ok) ==
    {t \in Callers : call[t].at = "record" /\ call[t].pool = p /\ call[t].ok = ok}

LEMMA RecordingIsFinite ==
    \A p, ok : IsFiniteSet(Recording(p, ok)) /\ Pending(p, ok) \in Nat
  BY RegistryAssumption, FS_Subset, FS_CardinalityType DEF Recording, Pending

\* Statistics are two counts.
LEMMA StatsType == ASSUME Types, NEW p PROVE StatsOf(p) \in [ok : Nat, err : Nat]
  BY DEF Types, StatsOK, StatsOf, NewStats

\* A step of a thread that records neither before nor after it leaves the counting
\* as it is.
LEMMA SameRecording ==
    ASSUME Types, NEW t \in Callers, call[t].at # "record",
           NEW r, r.at # "record", call' = [call EXCEPT ![t] = r]
    PROVE  \A p, ok : Recording(p, ok)' = Recording(p, ok)
  BY DEF Types, CallsOK, Recording

LEMMA PendingOfRecording ==
    ASSUME NEW p, NEW ok, Recording(p, ok)' = Recording(p, ok)
    PROVE  Pending(p, ok)' = Pending(p, ok)
  BY DEF Recording, Pending

\* A step that touches neither the counting, nor the statistics.
LEMMA SameCounts ==
    ASSUME Inv, UNCHANGED <<stats, tally>>,
           \A p, ok : Pending(p, ok)' = Pending(p, ok)
    PROVE  DecodesAreCounted'
  BY DEF Inv, DecodesAreCounted, StatsOf

-----------------------------------------------------------------------------
LEMMA InitInv == RegistryInit => Inv
<1> SUFFICES ASSUME RegistryInit PROVE Inv
  OBVIOUS
<1>1. Types
  BY RegistryAssumption DEF RegistryInit, Types, CallsOK, TablesOK, StatsOK, ClockOK, CallOK
<1>2. \A p, ok : Recording(p, ok) = {}
  BY DEF RegistryInit, Recording, Idle
<1>3. \A p, ok : Pending(p, ok) = 0
  BY <1>2, FS_EmptySet DEF Pending, Recording
<1>4. ASSUME NEW p \in RegPools
      PROVE  StatsOf(p) = [ok |-> 0, err |-> 0] /\ tally[p] = [ok |-> 0, err |-> 0]
  BY DEF RegistryInit, StatsOf, NewStats
<1>5. ASSUME NEW p \in RegPools
      PROVE  tally[p] = [ok  |-> StatsOf(p).ok + Pending(p, TRUE),
                         err |-> StatsOf(p).err + Pending(p, FALSE)]
  <2> DEFINE yes == Pending(p, TRUE)  no == Pending(p, FALSE)
  <2>1. yes = 0 /\ no = 0
    BY <1>3, Zenon
  <2> HIDE DEF yes, no
  <2>2. tally[p] = [ok |-> StatsOf(p).ok + yes, err |-> StatsOf(p).err + no]
    BY <1>4, <2>1
  <2> QED
    BY <2>2, Zenon DEF yes, no
<1>6. DecodesAreCounted
  BY <1>5, Zenon DEF DecodesAreCounted
<1> QED
  BY <1>1, <1>6 DEF Inv

-----------------------------------------------------------------------------
(* Types. *)

\* Decoders are never removed, and time does not go back.
LEMMA CallStays ==
    ASSUME NEW r, NEW S, NEW T, S \subseteq T, NEW m \in Nat, NEW n \in Nat, m <= n,
           CallOK(r, S, m)
    PROVE  CallOK(r, T, n)
  BY DEF CallOK, RecordingCall, LoggingCall

\* A call moves on while the clock stands still.
LEMMA CallMoves ==
    ASSUME Types, NEW t \in Callers, NEW r, call' = [call EXCEPT ![t] = r],
           DOMAIN decoders \subseteq DOMAIN decoders', epoch' = epoch,
           CallOK(r, DOMAIN decoders', epoch)
    PROVE  CallsOK'
<1>1. call' = [u \in Callers |-> call'[u]]
  BY DEF Types, CallsOK
<1>2. ASSUME NEW u \in Callers
      PROVE  CallOK(call'[u], DOMAIN decoders', epoch')
  <2>1. CASE u = t
    BY <2>1 DEF Types, CallsOK
  <2>2. CASE u # t
    <3>1. call'[u] = call[u] /\ CallOK(call[u], DOMAIN decoders, epoch)
      BY <2>2 DEF Types, CallsOK
    <3> QED
      BY <3>1, CallStays DEF Types, ClockOK
  <2> QED
    BY <2>1, <2>2
<1> QED
  BY <1>1, <1>2 DEF CallsOK, CallOK, DecodingCall, RecordingCall, LoggingCall

\* No call moves.
LEMMA CallsStay ==
    ASSUME Types, call' = call, DOMAIN decoders \subseteq DOMAIN decoders',
           epoch' \in Nat, epoch <= epoch'
    PROVE  CallsOK'
<1>1. ASSUME NEW u \in Callers
      PROVE  CallOK(call[u], DOMAIN decoders', epoch')
  BY CallStays DEF Types, CallsOK, ClockOK
<1> QED
  BY <1>1 DEF Types, CallsOK, CallOK, DecodingCall, RecordingCall, LoggingCall

\* A decoder is put into the table, and the type of its pool with it.
LEMMA TablesPut ==
    ASSUME TablesOK, NEW p \in RegPools, NEW dex \in DexTypes,
           poolTypes' = Put(poolTypes, p, dex) \/ poolTypes' = poolTypes,
           decoders' = Put(decoders, p, dex) \/ decoders' = decoders,
           p \in DOMAIN poolTypes', created' \in [RegPools -> Nat]
    PROVE  TablesOK' /\ DOMAIN decoders \subseteq DOMAIN decoders'
  BY DEF TablesOK, Put

LEMMA TypesStep == Types /\ [RegistryNext]_registryVars => Types'
<1> SUFFICES ASSUME Types, [RegistryNext]_registryVars
             PROVE  Types'
  OBVIOUS
<1> USE DEF Types
<1>1. ASSUME NEW t \in Callers, NEW p \in RegPools, NEW dex \in DexTypes,
             RegisterPool(t, p, dex) \/ RegisterPoolType(t, p, dex)
      PROVE  Types'
  <2>1. /\ poolTypes' = Put(poolTypes, p, dex)
        /\ decoders' = Put(decoders, p, dex) \/ decoders' = decoders
        /\ UNCHANGED <<stats, lastLog, epoch, call, created, tally>>
    BY <1>1 DEF RegisterPool, RegisterPoolType
  <2>2. TablesOK' /\ DOMAIN decoders \subseteq DOMAIN decoders'
    <3>1. p \in DOMAIN poolTypes'
      BY <2>1 DEF Put
    <3> QED
      BY <2>1, <3>1, TablesPut DEF TablesOK
  <2> QED
    BY <2>1, <2>2, CallsStay DEF StatsOK, ClockOK
<1>2. ASSUME NEW t \in Callers, NEW p \in RegPools, NEW a \in Samples,
             DecodeLazy(t, p, a) \/ DecodePoolData(t, p, a)
      PROVE  Types'
  <2>1. PICK s \in {"create", "decode"} :
            call' = [call EXCEPT ![t] = [at |-> s, pool |-> p, data |-> a]]
    BY <1>2 DEF DecodeLazy, DecodePoolData, Goes
  <2>2. UNCHANGED <<registryTables, epoch, created, tally>>
    BY <1>2 DEF DecodeLazy, DecodePoolData
  <2>3. CallOK([at |-> s, pool |-> p, data |-> a], DOMAIN decoders', epoch)
    BY DEF CallOK, DecodingCall
  <2> QED
    BY <2>1, <2>2, <2>3, CallMoves DEF registryTables, TablesOK, StatsOK, ClockOK
\* What a call is at says what it is.
<1>d. ASSUME NEW t \in Callers
      PROVE  /\ call[t].at \in {"create", "decode"} => DecodingCall(call[t])
             /\ call[t].at = "record" => RecordingCall(call[t], DOMAIN decoders)
             /\ call[t].at \in {"check", "stamp"} => LoggingCall(call[t], epoch)
  <2>1. CallOK(call[t], DOMAIN decoders, epoch)
    BY DEF CallsOK
  <2> QED
    BY <2>1 DEF CallOK, Idle, DecodingCall, RecordingCall, LoggingCall
<1>3. ASSUME NEW t \in Callers, CreateDecoder(t)
      PROVE  Types'
  <2> DEFINE p == call[t].pool
             create == p \notin DOMAIN decoders /\ p \in DOMAIN poolTypes
  <2>1. DecodingCall(call[t]) /\ p \in RegPools
    BY <1>d, <1>3 DEF CreateDecoder, DecodingCall
  <2>2. UNCHANGED <<poolTypes, stats, lastLog, epoch, calls, tally>>
    BY <1>3 DEF CreateDecoder
  <2>3. TablesOK' /\ DOMAIN decoders \subseteq DOMAIN decoders'
    <3>1. CASE create
      <4>1. /\ decoders' = Put(decoders, p, poolTypes[p])
            /\ created' = [created EXCEPT ![p] = @ + 1]
        BY <3>1, <1>3 DEF CreateDecoder
      <4> QED
        BY <4>1, <3>1, <2>1, <2>2, TablesPut DEF TablesOK
    <3>2. CASE ~create
      <4>1. decoders' = decoders /\ created' = [created EXCEPT ![p] = @]
        BY <3>2, <1>3 DEF CreateDecoder
      <4> QED
        BY <4>1, <2>1, <2>2 DEF TablesOK
    <3> QED
      BY <3>1, <3>2
  <2>4. CallsOK'
    <3>1. \/ call' = [call EXCEPT ![t] = [call[t] EXCEPT !.at = "decode"]]
          \/ call' = [call EXCEPT ![t] = Idle]
      BY <1>3 DEF CreateDecoder, Goes
    <3>2. DecodingCall([call[t] EXCEPT !.at = "decode"])
      BY <2>1 DEF DecodingCall
    <3> QED
      BY <3>1, <3>2, <2>2, <2>3, CallMoves DEF CallOK
  <2> QED
    BY <2>2, <2>3, <2>4 DEF StatsOK, ClockOK
<1>4. ASSUME NEW t \in Callers, RunDecoder(t)
      PROVE  Types'
  <2> DEFINE p == call[t].pool
             ok == DecodeReserves(decoders[p], call[t].data).ok
  <2>1. DecodingCall(call[t]) /\ p \in RegPools
    BY <1>d, <1>4 DEF RunDecoder, DecodingCall
  <2>2. UNCHANGED <<registryTables, epoch, created>>
    BY <1>4 DEF RunDecoder
  <2>3. ok \in BOOLEAN
    BY DEF DecodeReserves, Reserves, Failed
  <2>4. CASE p \notin DOMAIN decoders
    <3>1. call' = [call EXCEPT ![t] = Idle] /\ tally' = tally
      BY <2>4, <1>4 DEF RunDecoder, Goes
    <3> QED
      BY <3>1, <2>2, CallMoves DEF CallOK, registryTables, TablesOK, StatsOK, ClockOK
  <2>5. CASE p \in DOMAIN decoders
    <3> DEFINE r == [at |-> "record", pool |-> p, ok |-> ok]
    <3>1. call' = [call EXCEPT ![t] = r] /\ tally' = [tally EXCEPT ![p] = Count(@, ok)]
      BY <2>5, <1>4 DEF RunDecoder, Goes
    <3>2. RecordingCall(r, DOMAIN decoders)
      BY <2>1, <2>3, <2>5 DEF RecordingCall
    <3> HIDE DEF r, ok
    <3>3. CallsOK'
      BY <3>1, <3>2, <2>2, CallMoves DEF CallOK, registryTables
    <3> QED
      BY <3>1, <3>3, <2>2 DEF registryTables, TablesOK, StatsOK, ClockOK
  <2> QED
    BY <2>4, <2>5
<1>5. ASSUME NEW t \in Callers, RecordStats(t)
      PROVE  Types'
  <2> DEFINE p == call[t].pool
  <2>1. RecordingCall(call[t], DOMAIN decoders)
    BY <1>d, <1>5 DEF RecordStats
  <2>2. p \in DOMAIN decoders /\ call[t].ok \in BOOLEAN
    BY <2>1 DEF RecordingCall
  <2>3. /\ stats' = Put(stats, p, Count(StatsOf(p), call[t].ok))
        /\ call' = [call EXCEPT ![t] = Idle]
        /\ UNCHANGED <<decoders, poolTypes, lastLog, epoch, calls, created, tally>>
    BY <1>5 DEF RecordStats, Goes
  <2>4. Count(StatsOf(p), call[t].ok) \in [ok : Nat, err : Nat]
    BY StatsType DEF Count
  <2>5. StatsOK'
    BY <2>2, <2>3, <2>4 DEF StatsOK, Put
  <2> QED
    BY <2>3, <2>5, CallMoves DEF CallOK, TablesOK, ClockOK
<1>6. ASSUME NEW t \in Callers, NEW p \in RegPools, ResetPoolStats(t, p)
      PROVE  Types'
  <2>1. UNCHANGED <<decoders, poolTypes, lastLog, epoch, call, created>>
    BY <1>6 DEF ResetPoolStats
  <2>2. stats' = [q \in DOMAIN stats \ {p} |-> stats[q]]
    BY <1>6 DEF ResetPoolStats, Restrict
  <2>3. tally' = [tally EXCEPT ![p] = Dropped(p)]
    BY <1>6 DEF ResetPoolStats
  <2>4. StatsOK'
    BY <2>1, <2>2, <2>3 DEF StatsOK
  <2> QED
    BY <2>1, <2>4, CallsStay DEF TablesOK, ClockOK
<1>7. ASSUME NEW t \in Callers, NEW force \in BOOLEAN, LogStats(t, force)
      PROVE  Types'
  <2>1. PICK s \in {"stamp", "check"} : call' = [call EXCEPT ![t] = [at |-> s, now |-> epoch]]
    BY <1>7 DEF LogStats, Goes
  <2>2. UNCHANGED <<registryTables, epoch, created, tally>>
    BY <1>7 DEF LogStats
  <2>3. CallOK([at |-> s, now |-> epoch], DOMAIN decoders, epoch)
    BY DEF CallOK, LoggingCall, ClockOK
  <2> QED
    BY <2>1, <2>2, <2>3, CallMoves DEF registryTables, TablesOK, StatsOK, ClockOK
<1>8. ASSUME NEW t \in Callers, CheckLog(t)
      PROVE  Types'
  <2>1. LoggingCall(call[t], epoch)
    BY <1>d, <1>8 DEF CheckLog
  <2>2. /\ \/ call' = [call EXCEPT ![t] = Idle]
           \/ call' = [call EXCEPT ![t] = [call[t] EXCEPT !.at = "stamp"]]
        /\ UNCHANGED <<registryTables, epoch, calls, created, tally>>
    BY <1>8 DEF CheckLog, Goes
  <2>3. LoggingCall([call[t] EXCEPT !.at = "stamp"], epoch)
    BY <2>1 DEF LoggingCall
  <2> QED
    BY <2>2, <2>3, CallMoves DEF CallOK, registryTables, TablesOK, StatsOK, ClockOK
<1>9. ASSUME NEW t \in Callers, StampLog(t)
      PROVE  Types'
  <2>1. LoggingCall(call[t], epoch)
    BY <1>d, <1>9 DEF StampLog
  <2>2. /\ lastLog' = call[t].now /\ call' = [call EXCEPT ![t] = Idle]
        /\ UNCHANGED <<decoders, poolTypes, stats, epoch, calls, created, tally>>
    BY <1>9 DEF StampLog, Goes
  <2> QED
    BY <2>1, <2>2, CallMoves DEF CallOK, LoggingCall, TablesOK, StatsOK, ClockOK
<1>10. CASE TimePasses
  BY <1>10, CallsStay DEF TimePasses, registryTables, TablesOK, StatsOK, ClockOK
<1>11. CASE UNCHANGED registryVars
  BY <1>11, CallsStay DEF registryVars, registryTables, TablesOK, StatsOK, ClockOK
<1>12. ASSUME NEW t \in Callers, ResetStats(t) PROVE Types'
  <2>1. UNCHANGED <<decoders, poolTypes, lastLog, epoch, call, created>>
    BY <1>12 DEF ResetStats
  <2>2. StatsOK'
    BY <1>12 DEF StatsOK, ResetStats
  <2> QED
    BY <2>1, <2>2, CallsStay DEF TablesOK, ClockOK
<1> QED
  BY <1>1, <1>2, <1>3, <1>4, <1>5, <1>6, <1>7, <1>8, <1>9, <1>10, <1>11, <1>12
     DEF RegistryNext, RegistryQuiet

-----------------------------------------------------------------------------
(* Counting. *)

\* A thread comes to record an outcome of p, or has recorded it.
LEMMA OneMoreRecording ==
    ASSUME NEW t \in Callers, NEW p, NEW ok, t \notin Recording(p, ok),
           Recording(p, ok)' = Recording(p, ok) \cup {t}
    PROVE  Pending(p, ok)' = Pending(p, ok) + 1
<1>1. Cardinality(Recording(p, ok) \cup {t}) = Cardinality(Recording(p, ok)) + 1
  BY RecordingIsFinite, FS_AddElement
<1> QED
  BY <1>1 DEF Recording, Pending

LEMMA OneLessRecording ==
    ASSUME NEW t \in Callers, NEW p, NEW ok, t \in Recording(p, ok),
           Recording(p, ok)' = Recording(p, ok) \ {t}
    PROVE  Pending(p, ok) = Pending(p, ok)' + 1
<1>1. Cardinality(Recording(p, ok) \ {t}) = Cardinality(Recording(p, ok)) - 1
  BY RecordingIsFinite, FS_RemoveElement
<1>2. Pending(p, ok) = Cardinality(Recording(p, ok))
  BY Zenon DEF Recording, Pending
<1>3. Pending(p, ok)' = Cardinality(Recording(p, ok)')
  BY Zenon DEF Recording, Pending
<1>4. Pending(p, ok) \in Nat
  BY RecordingIsFinite, Zenon
<1> QED
  BY <1>1, <1>2, <1>3, <1>4

\* A thread that comes to record an outcome counts for no other pool, and for no
\* other kind.
LEMMA StartsElsewhere ==
    ASSUME Types, NEW t \in Callers, NEW p, NEW b, call[t].at # "record",
           call' = [call EXCEPT ![t] = [at |-> "record", pool |-> p, ok |-> b]],
           NEW q, NEW k, q # p
    PROVE  Pending(q, k)' = Pending(q, k)
<1>1. call'[t] = [at |-> "record", pool |-> p, ok |-> b]
  BY DEF Types, CallsOK
<1>2. \A u \in Callers \ {t} : call'[u] = call[u]
  BY DEF Types, CallsOK
<1>3. Recording(q, k)' = Recording(q, k)
  BY <1>1, <1>2 DEF Recording
<1> QED
  BY <1>3, PendingOfRecording

LEMMA StartsOtherwise ==
    ASSUME Types, NEW k, NEW q, NEW p, NEW b, NEW t, t \in Callers, k # b,
           call[t].at # "record",
           call' = [call EXCEPT ![t] = [at |-> "record", pool |-> p, ok |-> b]]
    PROVE  Pending(q, k)' = Pending(q, k)
<1>1. call'[t] = [at |-> "record", pool |-> p, ok |-> b]
  BY DEF Types, CallsOK
<1>2. \A u \in Callers \ {t} : call'[u] = call[u]
  BY DEF Types, CallsOK
<1>3. Recording(q, k)' = Recording(q, k)
  BY <1>1, <1>2 DEF Recording
<1> QED
  BY <1>3, PendingOfRecording

\* Nor does one that has recorded it.
LEMMA EndsElsewhere ==
    ASSUME Types, NEW t \in Callers, call' = [call EXCEPT ![t] = Idle],
           NEW q, NEW k, call[t].pool # q
    PROVE  Pending(q, k)' = Pending(q, k)
<1>1. call'[t].at # "record"
  BY DEF Types, CallsOK, Idle
<1>2. \A u \in Callers \ {t} : call'[u] = call[u]
  BY DEF Types, CallsOK
<1>3. Recording(q, k)' = Recording(q, k)
  BY <1>1, <1>2 DEF Recording
<1> QED
  BY <1>3, PendingOfRecording

LEMMA EndsOtherwise ==
    ASSUME Types, NEW t \in Callers, call' = [call EXCEPT ![t] = Idle],
           NEW q, NEW k, call[t].ok # k
    PROVE  Pending(q, k)' = Pending(q, k)
<1>1. call'[t].at # "record"
  BY DEF Types, CallsOK, Idle
<1>2. \A u \in Callers \ {t} : call'[u] = call[u]
  BY DEF Types, CallsOK
<1>3. Recording(q, k)' = Recording(q, k)
  BY <1>1, <1>2 DEF Recording
<1> QED
  BY <1>3, PendingOfRecording

\* A thread comes to record an outcome, which adds it to the others of its kind.
LEMMA StartsRecording ==
    ASSUME Types, NEW t \in Callers, NEW p, NEW b, call[t].at # "record",
           call' = [call EXCEPT ![t] = [at |-> "record", pool |-> p, ok |-> b]]
    PROVE  Pending(p, b)' = Pending(p, b) + 1
<1>1. call'[t] = [at |-> "record", pool |-> p, ok |-> b]
  BY DEF Types, CallsOK
<1>2. \A u \in Callers \ {t} : call'[u] = call[u]
  BY DEF Types, CallsOK
<1>3. t \notin Recording(p, b) /\ Recording(p, b)' = Recording(p, b) \cup {t}
  BY <1>1, <1>2 DEF Recording
<1> QED
  BY <1>3, OneMoreRecording

\* It has recorded it.
LEMMA EndsRecording ==
    ASSUME Types, NEW t \in Callers, NEW p, NEW b, call[t].at = "record",
           call[t].pool = p, call[t].ok = b, call' = [call EXCEPT ![t] = Idle]
    PROVE  Pending(p, b) = Pending(p, b)' + 1
<1>1. call'[t].at # "record"
  BY DEF Types, CallsOK, Idle
<1>2. \A u \in Callers \ {t} : call'[u] = call[u]
  BY DEF Types, CallsOK
<1>3. t \in Recording(p, b)
  BY DEF Recording
<1>4. Recording(p, b)' = Recording(p, b) \ {t}
  BY <1>1, <1>2 DEF Recording
<1> QED
  BY <1>3, <1>4, OneLessRecording

\* The statistics of a pool in numbers, before and after a step.
LEMMA CountsNow ==
    ASSUME DecodesAreCounted, NEW q \in RegPools
    PROVE  \E y \in Nat, n \in Nat :
              /\ Pending(q, TRUE) = y /\ Pending(q, FALSE) = n
              /\ tally[q] = [ok |-> StatsOf(q).ok + y, err |-> StatsOf(q).err + n]
<1>1. Pending(q, TRUE) \in Nat /\ Pending(q, FALSE) \in Nat
  BY RecordingIsFinite, Zenon
<1>2. tally[q] = [ok |-> StatsOf(q).ok + Pending(q, TRUE),
                  err |-> StatsOf(q).err + Pending(q, FALSE)]
  BY Zenon DEF DecodesAreCounted
<1> QED
  BY <1>1, <1>2, Zenon

LEMMA CountsNext ==
    ASSUME \A q \in RegPools : \E y, n :
              /\ Pending(q, TRUE)' = y /\ Pending(q, FALSE)' = n
              /\ tally'[q] = [ok |-> StatsOf(q)'.ok + y, err |-> StatsOf(q)'.err + n]
    PROVE  DecodesAreCounted'
<1>1. ASSUME NEW q \in RegPools
      PROVE  tally'[q] = [ok |-> StatsOf(q)'.ok + Pending(q, TRUE)',
                          err |-> StatsOf(q)'.err + Pending(q, FALSE)']
  <2>1. PICK y, n :
              /\ Pending(q, TRUE)' = y /\ Pending(q, FALSE)' = n
              /\ tally'[q] = [ok |-> StatsOf(q)'.ok + y, err |-> StatsOf(q)'.err + n]
    BY Zenon
  <2> QED
    BY <2>1, Zenon
<1> QED
  BY <1>1, Zenon DEF DecodesAreCounted

\* What Count adds.
LEMMA CountSuccess ==
    ASSUME NEW c, NEW x, NEW y, c = [ok |-> x, err |-> y]
    PROVE  Count(c, TRUE) = [ok |-> x + 1, err |-> y]
  BY DEF Count

LEMMA CountFailure ==
    ASSUME NEW c, NEW x, NEW y, c = [ok |-> x, err |-> y]
    PROVE  Count(c, FALSE) = [ok |-> x, err |-> y + 1]
  BY DEF Count

\* A decode counts as under way.
LEMMA DecodeCounts ==
    ASSUME Types, DecodesAreCounted, NEW t \in Callers, call[t].at # "record",
           NEW p \in RegPools, NEW b \in BOOLEAN,
           call' = [call EXCEPT ![t] = [at |-> "record", pool |-> p, ok |-> b]],
           tally' = [tally EXCEPT ![p] = Count(@, b)], stats' = stats
    PROVE  DecodesAreCounted'
<1>1. \A q : StatsOf(q)' = StatsOf(q)
  BY DEF StatsOf
<1>3. ASSUME NEW q, NEW k, k # b PROVE Pending(q, k)' = Pending(q, k)
  BY <1>3, StartsOtherwise
<1>2. ASSUME NEW q \in RegPools
      PROVE  \E y, n :
          /\ Pending(q, TRUE)' = y /\ Pending(q, FALSE)' = n
          /\ tally'[q] = [ok |-> StatsOf(q)'.ok + y, err |-> StatsOf(q)'.err + n]
  <2>1. PICK y \in Nat, n \in Nat :
          /\ Pending(q, TRUE) = y /\ Pending(q, FALSE) = n
          /\ tally[q] = [ok |-> StatsOf(q).ok + y, err |-> StatsOf(q).err + n]
    BY CountsNow, Zenon
  <2> DEFINE x == StatsOf(q).ok + y  z == StatsOf(q).err + n
  <2>2. StatsOf(q).ok \in Nat /\ StatsOf(q).err \in Nat
    BY StatsType
  <2>3. x \in Nat /\ z \in Nat
    BY <2>2
  <2>4. StatsOf(q).ok + (y + 1) = x + 1 /\ StatsOf(q).err + (n + 1) = z + 1
    BY <2>2
  <2>5. CASE q # p
    <3>1. Pending(q, TRUE)' = Pending(q, TRUE)
      BY <2>5, StartsElsewhere, Zenon
    <3>2. Pending(q, FALSE)' = Pending(q, FALSE)
      BY <2>5, StartsElsewhere, Zenon
    <3>3. tally'[q] = tally[q]
      BY <2>5 DEF Types, StatsOK
    <3> QED
      BY <3>1, <3>2, <3>3, <2>1, <1>1, Zenon
  <2>6. CASE q = p
    <3>1. tally'[q] = Count(tally[q], b)
      BY <2>6 DEF Types, StatsOK
    <3>2. CASE b = TRUE
      <4>1. Pending(q, TRUE)' = Pending(q, TRUE) + 1
        BY <2>6, <3>2, StartsRecording, Zenon
      <4>3. Pending(q, FALSE)' = Pending(q, FALSE)
        BY <1>3, <3>2, Zenon
      <4>4. tally'[q] = Count(tally[q], TRUE)
        BY <3>1, <3>2, Zenon
      <4>5. tally'[q] = [ok |-> StatsOf(q).ok + (y + 1), err |-> StatsOf(q).err + n]
        <5>1. Count(tally[q], TRUE) = [ok |-> x + 1, err |-> z]
          BY <2>1, CountSuccess, Zenon
        <5> QED
          BY <5>1, <2>4, <4>4, Zenon
      <4> QED
        BY <4>1, <4>3, <4>5, <2>1, <1>1, Zenon
    <3>3. CASE b = FALSE
      <4>1. Pending(q, FALSE)' = Pending(q, FALSE) + 1
        BY <2>6, <3>3, StartsRecording, Zenon
      <4>3. Pending(q, TRUE)' = Pending(q, TRUE)
        BY <1>3, <3>3, Zenon
      <4>4. tally'[q] = Count(tally[q], FALSE)
        BY <3>1, <3>3, Zenon
      <4>5. tally'[q] = [ok |-> StatsOf(q).ok + y, err |-> StatsOf(q).err + (n + 1)]
        <5>1. Count(tally[q], FALSE) = [ok |-> x, err |-> z + 1]
          BY <2>1, CountFailure, Zenon
        <5> QED
          BY <5>1, <2>4, <4>4, Zenon
      <4> QED
        BY <4>1, <4>3, <4>5, <2>1, <1>1, Zenon
    <3> QED
      BY <3>2, <3>3, Zenon
  <2> QED
    BY <2>5, <2>6
<1> QED
  BY <1>2, CountsNext, Zenon

\* Its outcome moves from the decodes under way to the statistics.
LEMMA RecordCounts ==
    ASSUME Types, DecodesAreCounted, NEW t \in Callers, call[t].at = "record",
           NEW p \in RegPools, NEW b \in BOOLEAN, call[t].pool = p, call[t].ok = b,
           call' = [call EXCEPT ![t] = Idle],
           stats' = Put(stats, p, Count(StatsOf(p), b)), tally' = tally
    PROVE  DecodesAreCounted'
<1>1. StatsOf(p)' = Count(StatsOf(p), b) /\ \A q : q # p => StatsOf(q)' = StatsOf(q)
  BY DEF StatsOf, Put
<1>2. ASSUME NEW q \in RegPools
      PROVE  \E y, n :
          /\ Pending(q, TRUE)' = y /\ Pending(q, FALSE)' = n
          /\ tally'[q] = [ok |-> StatsOf(q)'.ok + y, err |-> StatsOf(q)'.err + n]
  <2>1. PICK y \in Nat, n \in Nat :
          /\ Pending(q, TRUE) = y /\ Pending(q, FALSE) = n
          /\ tally[q] = [ok |-> StatsOf(q).ok + y, err |-> StatsOf(q).err + n]
    BY CountsNow, Zenon
  <2> DEFINE x == StatsOf(q).ok  z == StatsOf(q).err
  <2>2. x \in Nat /\ z \in Nat /\ StatsOf(q) = [ok |-> x, err |-> z]
    BY StatsType
  <2>3. Pending(q, TRUE)' \in Nat /\ Pending(q, FALSE)' \in Nat
    <3>1. \A k : Pending(q, k)' \in Nat
      <4>1. \A k : IsFiniteSet(Recording(q, k)')
        BY RegistryAssumption, FS_Subset DEF Recording
      <4> QED
        BY <4>1, FS_CardinalityType DEF Recording, Pending
    <3> QED
      BY <3>1, Zenon
  <2>5. CASE q # p
    <3>1. Pending(q, TRUE)' = Pending(q, TRUE)
      BY <2>5, EndsElsewhere, Zenon
    <3>2. Pending(q, FALSE)' = Pending(q, FALSE)
      BY <2>5, EndsElsewhere, Zenon
    <3> QED
      BY <3>1, <3>2, <2>5, <2>1, <1>1, Zenon
  <2>6. CASE q = p
    <3>1. StatsOf(q)' = Count(StatsOf(q), b)
      BY <1>1, <2>6
    <3>2. CASE b = TRUE
      <4>1. Pending(q, TRUE) = Pending(q, TRUE)' + 1
        BY <2>6, <3>2, EndsRecording, Zenon
      <4>2. TRUE # FALSE
        BY Zenon
      <4>3. Pending(q, FALSE)' = Pending(q, FALSE)
        BY <4>2, <3>2, EndsOtherwise, Zenon
      <4>4. StatsOf(q)' = [ok |-> x + 1, err |-> z]
        BY <3>1, <3>2, <2>2, CountSuccess, Zenon
      <4>5. PICK m \in Nat : Pending(q, TRUE)' = m
        BY <2>3, Zenon
      <4>6. y = m + 1
        BY <4>1, <4>5, <2>1, Zenon
      <4>7. x + y = (x + 1) + m
        BY <4>6, <2>2
      <4>8. StatsOf(q)'.ok = x + 1 /\ StatsOf(q)'.err = z
        BY <4>4
      <4> QED
        BY <4>3, <4>5, <4>7, <4>8, <2>1, Zenon
    <3>3. CASE b = FALSE
      <4>1. Pending(q, FALSE) = Pending(q, FALSE)' + 1
        BY <2>6, <3>3, EndsRecording, Zenon
      <4>2. TRUE # FALSE
        BY Zenon
      <4>3. Pending(q, TRUE)' = Pending(q, TRUE)
        BY <4>2, <3>3, EndsOtherwise, Zenon
      <4>4. StatsOf(q)' = [ok |-> x, err |-> z + 1]
        BY <3>1, <3>3, <2>2, CountFailure, Zenon
      <4>5. PICK m \in Nat : Pending(q, FALSE)' = m
        BY <2>3, Zenon
      <4>6. n = m + 1
        BY <4>1, <4>5, <2>1, Zenon
      <4>7. z + n = (z + 1) + m
        BY <4>6, <2>2
      <4>8. StatsOf(q)'.ok = x /\ StatsOf(q)'.err = z + 1
        BY <4>4
      <4> QED
        BY <4>3, <4>5, <4>7, <4>8, <2>1, Zenon
    <3> QED
      BY <3>2, <3>3, Zenon
  <2> QED
    BY <2>5, <2>6
<1> QED
  BY <1>2, CountsNext, Zenon

\* A reset leaves the decodes under way, which are all that remains to be counted.
LEMMA ResetCounts ==
    ASSUME Types, DecodesAreCounted, call' = call, NEW S \in SUBSET RegPools,
           \A q \in RegPools : q \in S => StatsOf(q)' = NewStats /\ tally'[q] = Dropped(q),
           \A q \in RegPools : q \notin S => StatsOf(q)' = StatsOf(q) /\ tally'[q] = tally[q]
    PROVE  DecodesAreCounted'
<1>1. \A q, k : Pending(q, k)' = Pending(q, k)
  BY Zenon DEF Pending
<1>2. ASSUME NEW q \in RegPools
      PROVE  \E y, n :
          /\ Pending(q, TRUE)' = y /\ Pending(q, FALSE)' = n
          /\ tally'[q] = [ok |-> StatsOf(q)'.ok + y, err |-> StatsOf(q)'.err + n]
  <2>1. PICK y \in Nat, n \in Nat :
          /\ Pending(q, TRUE) = y /\ Pending(q, FALSE) = n
          /\ tally[q] = [ok |-> StatsOf(q).ok + y, err |-> StatsOf(q).err + n]
    BY CountsNow, Zenon
  <2>2. StatsOf(q).ok \in Nat /\ StatsOf(q).err \in Nat
    BY StatsType
  <2>3. tally'[q] = [ok |-> StatsOf(q)'.ok + y, err |-> StatsOf(q)'.err + n]
    <3>1. Dropped(q) = [ok |-> 0 + y, err |-> 0 + n]
      BY <2>1, <2>2 DEF Dropped
    <3> QED
      BY <3>1, <2>1 DEF NewStats
  <2> QED
    BY <2>3, <2>1, <1>1, Zenon
<1> QED
  BY <1>2, CountsNext, Zenon

\* Each step keeps the counting: only a decode, its recording and a reset change
\* what is counted.
LEMMA CountsStep ==
    Inv /\ [RegistryNext]_registryVars => DecodesAreCounted'
<1> SUFFICES ASSUME Inv, [RegistryNext]_registryVars
             PROVE  DecodesAreCounted'
  OBVIOUS
<1>0. Types /\ DecodesAreCounted
  BY DEF Inv
\* The steps of a thread that do not record.
<1>a. ASSUME NEW t \in Callers, call[t].at # "record", NEW r, r.at # "record",
             call' = [call EXCEPT ![t] = r], UNCHANGED <<stats, tally>>
      PROVE  DecodesAreCounted'
  <2>1. \A p, ok : Recording(p, ok)' = Recording(p, ok)
    BY <1>a, <1>0, SameRecording
  <2>2. \A p, ok : Pending(p, ok)' = Pending(p, ok)
    BY <2>1, PendingOfRecording
  <2> QED
    BY <2>2, <1>a, SameCounts
<1>b. ASSUME call' = call, UNCHANGED <<stats, tally>>
      PROVE  DecodesAreCounted'
  <2>1. \A p, ok : Pending(p, ok)' = Pending(p, ok)
    BY <1>b, Zenon DEF Pending
  <2> QED
    BY <2>1, <1>b, SameCounts
<1>1. ASSUME NEW t \in Callers, NEW p \in RegPools, NEW dex \in DexTypes,
             RegisterPool(t, p, dex) \/ RegisterPoolType(t, p, dex)
      PROVE  DecodesAreCounted'
  BY <1>1, <1>b DEF RegisterPool, RegisterPoolType
<1>2. ASSUME NEW t \in Callers, NEW p \in RegPools, NEW a \in Samples,
             DecodeLazy(t, p, a) \/ DecodePoolData(t, p, a)
      PROVE  DecodesAreCounted'
  BY <1>2, <1>a DEF DecodeLazy, DecodePoolData, Goes, Calls, Idle, registryTables
<1>3. ASSUME NEW t \in Callers, CreateDecoder(t)
      PROVE  DecodesAreCounted'
  <2>1. \/ call' = [call EXCEPT ![t] = [call[t] EXCEPT !.at = "decode"]]
        \/ call' = [call EXCEPT ![t] = Idle]
    BY <1>3 DEF CreateDecoder, Goes
  <2>2. [call[t] EXCEPT !.at = "decode"].at # "record"
    <3>1. DecodingCall(call[t])
      BY <1>3, <1>0 DEF CreateDecoder, Types, CallsOK, CallOK, Idle, RecordingCall, LoggingCall
    <3> QED
      BY <3>1 DEF DecodingCall
  <2>3. call[t].at # "record" /\ UNCHANGED <<stats, tally>>
    BY <1>3 DEF CreateDecoder
  <2>4. Idle.at # "record"
    BY DEF Idle
  <2> QED
    BY <2>1, <2>2, <2>3, <2>4, <1>a
<1>7. ASSUME NEW t \in Callers, NEW force \in BOOLEAN, LogStats(t, force)
      PROVE  DecodesAreCounted'
  <2>1. PICK s \in {"stamp", "check"} : call' = [call EXCEPT ![t] = [at |-> s, now |-> epoch]]
    BY <1>7 DEF LogStats, Goes
  <2>2. call[t].at # "record" /\ UNCHANGED <<stats, tally>>
    BY <1>7 DEF LogStats, Calls, Idle, registryTables
  <2> QED
    BY <2>1, <2>2, <1>a
<1>8. ASSUME NEW t \in Callers, CheckLog(t)
      PROVE  DecodesAreCounted'
  <2>1. \/ call' = [call EXCEPT ![t] = [call[t] EXCEPT !.at = "stamp"]]
        \/ call' = [call EXCEPT ![t] = Idle]
    BY <1>8 DEF CheckLog, Goes
  <2>2. [call[t] EXCEPT !.at = "stamp"].at # "record"
    <3>1. LoggingCall(call[t], epoch)
      BY <1>8, <1>0 DEF CheckLog, Types, CallsOK, CallOK, Idle, RecordingCall, DecodingCall
    <3> QED
      BY <3>1 DEF LoggingCall
  <2> QED
    BY <2>1, <2>2, <1>8, <1>a DEF CheckLog, Idle, registryTables
<1>9. ASSUME NEW t \in Callers, StampLog(t)
      PROVE  DecodesAreCounted'
  BY <1>9, <1>a DEF StampLog, Goes, Idle
<1>10. CASE TimePasses \/ UNCHANGED registryVars
  BY <1>10, <1>b DEF TimePasses, registryVars, registryTables
<1>4. ASSUME NEW t \in Callers, RunDecoder(t)
      PROVE  DecodesAreCounted'
  <2> DEFINE p == call[t].pool
             ok == DecodeReserves(decoders[p], call[t].data).ok
  <2>1. p \in RegPools
    BY <1>4, <1>0 DEF RunDecoder, Types, CallsOK, CallOK, Idle, DecodingCall,
                      RecordingCall, LoggingCall
  <2>2. stats' = stats /\ call[t].at # "record"
    BY <1>4 DEF RunDecoder, registryTables
  <2>3. ok \in BOOLEAN
    BY DEF DecodeReserves, Reserves, Failed
  <2>4. CASE p \notin DOMAIN decoders
    BY <2>2, <2>4, <1>4, <1>a DEF RunDecoder, Goes, Idle
  <2>5. CASE p \in DOMAIN decoders
    <3>1. /\ call' = [call EXCEPT ![t] = [at |-> "record", pool |-> p, ok |-> ok]]
          /\ tally' = [tally EXCEPT ![p] = Count(@, ok)]
      BY <2>5, <1>4 DEF RunDecoder, Goes
    <3> HIDE DEF p, ok
    <3> QED
      BY <3>1, <2>1, <2>2, <2>3, <1>0, DecodeCounts
  <2> QED
    BY <2>4, <2>5
<1>5. ASSUME NEW t \in Callers, RecordStats(t)
      PROVE  DecodesAreCounted'
  <2>1. RecordingCall(call[t], DOMAIN decoders)
    BY <1>5, <1>0 DEF RecordStats, Types, CallsOK, CallOK, Idle, DecodingCall, LoggingCall
  <2>2. call[t].pool \in RegPools /\ call[t].ok \in BOOLEAN
    BY <2>1 DEF RecordingCall
  <2>3. /\ call[t].at = "record" /\ call' = [call EXCEPT ![t] = Idle]
        /\ stats' = Put(stats, call[t].pool, Count(StatsOf(call[t].pool), call[t].ok))
        /\ tally' = tally
    BY <1>5 DEF RecordStats, Goes
  <2> QED
    BY <2>2, <2>3, <1>0, RecordCounts
<1>6. ASSUME NEW t \in Callers, NEW p \in RegPools, ResetPoolStats(t, p)
      PROVE  DecodesAreCounted'
  <2>1. call' = call /\ tally' = [tally EXCEPT ![p] = Dropped(p)]
    BY <1>6 DEF ResetPoolStats
  <2>2. stats' = [q \in DOMAIN stats \ {p} |-> stats[q]]
    BY <1>6 DEF ResetPoolStats, Restrict
  <2>3. \A q \in RegPools : q \in {p} => StatsOf(q)' = NewStats /\ tally'[q] = Dropped(q)
    BY <2>1, <2>2, <1>0 DEF StatsOf, Types, StatsOK
  <2>4. \A q \in RegPools : q \notin {p} => StatsOf(q)' = StatsOf(q) /\ tally'[q] = tally[q]
    BY <2>1, <2>2, <1>0 DEF StatsOf, Types, StatsOK
  <2> QED
    BY <2>1, <2>3, <2>4, <1>0, ResetCounts
<1>11. ASSUME NEW t \in Callers, ResetStats(t)
       PROVE  DecodesAreCounted'
  <2>1. call' = call /\ stats' = <<>> /\ tally' = [p \in RegPools |-> Dropped(p)]
    BY <1>11 DEF ResetStats
  <2>2. \A q \in RegPools : q \in RegPools => StatsOf(q)' = NewStats /\ tally'[q] = Dropped(q)
    BY <2>1 DEF StatsOf
  <2> QED
    BY <2>1, <2>2, <1>0, ResetCounts
<1> QED
  BY <1>1, <1>2, <1>3, <1>4, <1>5, <1>6, <1>7, <1>8, <1>9, <1>10, <1>11
     DEF RegistryNext, RegistryQuiet

LEMMA StepInv == Inv /\ [RegistryNext]_registryVars => Inv'
  BY TypesStep, CountsStep DEF Inv

LEMMA AlwaysInv == RegistrySpec => []Inv
  BY InitInv, StepInv, PTL DEF RegistrySpec

LEMMA InvMeans == Inv => RegistryTypeOK
  BY DEF Inv, Types, CallsOK, CallOK, TablesOK, StatsOK, ClockOK, RegistryTypeOK, Idle,
         DecodingCall, RecordingCall, LoggingCall

-----------------------------------------------------------------------------
\* The tables hold what they should, and a pool with statistics has a decoder.
THEOREM RegistryTypeCorrect == RegistrySpec => []RegistryTypeOK
  BY InvMeans, AlwaysInv, PTL

\* Every decode of a pool since its statistics were last dropped is counted once
\* (get_or_create_decoder, decode_pool_data, reset_stats and reset_pool_stats).
THEOREM EveryDecodeCounted == RegistrySpec => []DecodesAreCounted
<1>1. Inv => DecodesAreCounted
  BY DEF Inv
<1> QED
  BY <1>1, AlwaysInv, PTL

\* get_or_create_decoder makes a decoder only for a pool that has none.
THEOREM OnDemandKeeps == RegistrySpec => OnDemandNeverReplaces
<1>1. ASSUME Inv, [RegistryNext]_registryVars, NEW p \in DOMAIN decoders
      PROVE  created'[p] = created[p]
  <2>1. ASSUME NEW t \in Callers, CreateDecoder(t)
        PROVE  created'[p] = created[p]
    <3>1. CASE call[t].pool = p
      BY <2>1, <3>1, <1>1 DEF CreateDecoder, Inv, Types, TablesOK
    <3>2. CASE call[t].pool # p
      BY <2>1, <3>2, <1>1 DEF CreateDecoder, Inv, Types, TablesOK
    <3> QED
      BY <3>1, <3>2
  <2>2. CASE created' = created
    BY <2>2
  <2> QED
    BY <2>1, <2>2, <1>1
       DEF RegistryNext, RegistryQuiet, registryVars, RegisterPool, RegisterPoolType,
           DecodeLazy, DecodePoolData, RunDecoder, RecordStats, ResetStats, ResetPoolStats,
           LogStats, CheckLog, StampLog, TimePasses
<1>2. Inv /\ [RegistryNext]_registryVars =>
          [\A p \in DOMAIN decoders : created'[p] = created[p]]_registryVars
  BY <1>1
<1> QED
  BY <1>2, AlwaysInv, PTL DEF RegistrySpec, OnDemandNeverReplaces
=============================================================================
