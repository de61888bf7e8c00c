------------------------- MODULE PriceFetcherProofs -------------------------
(***************************************************************************)
(* What PriceFetcher keeps for any number of callers and tokens, any time  *)
(* to live, time-out and number of attempts: its types; that a price that  *)
(* counts as fresh was the endpoint's a short while ago; that a call       *)
(* returns what it can; and how old the refresh loop lets a price become.  *)
(***************************************************************************)
EXTENDS PriceFetcher, TLAPS

\* A call of task c: what TypeOK says of it, and why the times and the attempts
\* stay within their bounds.
CallOK(r, c) ==
    /\ r \in Call
    /\ r.found \cup r.todo \cup r.known \subseteq r.asked
    /\ r.at \in {"request", "backoff", "pause"} => r.token \in r.asked
    /\ r.at = "ended" => c = Refresher
    /\ r.at \in {"request", "batch"} => r.since <= Flight
    /\ r.at = "sleep" => r.since <= Nap
    /\ r.at = "backoff" => r.tries < MaxRetries

CallsOK == call \in [Tasks -> Call] /\ \A c \in Tasks : CallOK(call[c], c)

\* An entry was put there at most Flight ticks after the endpoint held its price.
CacheOK ==
    /\ cache \in [Tokens -> Entry \cup {None}]
    /\ \A t \in Fresh : cache[t].seen <= cache[t].age + Flight

Inv == CallsOK /\ CacheOK /\ signal \in {"open", "sent", "dropped"} /\ faulted \in BOOLEAN

-----------------------------------------------------------------------------
(* The calls. *)

LEMMA Ranges ==
  /\ 0 \in 0 .. MaxRetries /\ 1 \in 0 .. MaxRetries
  /\ 0 \in 0 .. Flight + Nap /\ 0 <= Nap /\ 0 <= Flight
  BY FetcherAssumption

LEMMA AsleepOK == \A c \in Tasks : CallOK(Asleep, c)
  BY Ranges DEF CallOK, Call, Asleep

\* A request of one of the tokens of a call.
LEMMA RequestingOK ==
  ASSUME NEW c \in Tasks, NEW r, CallOK(r, c), NEW t \in r.asked, NEW n \in 0 .. MaxRetries
  PROVE  CallOK(Requesting(r, t, n), c)
<1> DEFINE new == Requesting(r, t, n)
<1>1. r \in Call /\ t \in Tokens
  BY DEF CallOK, Call
<1>2. new \in Call
  BY <1>1, Ranges DEF Call, Requesting
<1>3. /\ new.at = "request" /\ new.token = t /\ new.since = 0 /\ new.asked = r.asked
      /\ new.found = r.found /\ new.todo = r.todo /\ new.known = r.known
  BY <1>1 DEF Call, Requesting
<1> HIDE DEF new
<1>4. CallOK(new, c)
  BY <1>2, <1>3, Ranges DEF CallOK
<1> QED
  BY <1>4 DEF new

LEMMA DoneOK ==
  ASSUME NEW c \in Tasks, NEW r, CallOK(r, c), NEW found \in SUBSET r.asked
  PROVE  CallOK(Done(r, found), c)
<1> DEFINE new == Done(r, found)
<1>1. r \in Call /\ found \in SUBSET Tokens
  BY DEF CallOK, Call
<1>2. new \in Call
  BY <1>1, Ranges DEF Call, Done
<1>3. /\ new.at = "done" /\ new.asked = r.asked
      /\ new.found = found /\ new.todo = {} /\ new.known = r.known
  BY <1>1 DEF Call, Done
<1> HIDE DEF new
<1>4. CallOK(new, c)
  BY <1>2, <1>3 DEF CallOK
<1> QED
  BY <1>4 DEF new

LEMMA PausedOK ==
  ASSUME NEW c \in Tasks, NEW r, CallOK(r, c), r.at = "request",
         NEW prices \in SUBSET {r.token}
  PROVE  CallOK(Paused(r, prices), c)
<1> DEFINE new == Paused(r, prices)
<1>1. r \in Call /\ r.token \in r.asked
  BY DEF CallOK
<1>2. prices \in SUBSET r.asked /\ r.asked \in SUBSET Tokens /\ r.found \in SUBSET Tokens
  BY <1>1 DEF Call
<1>3. new \in Call
  BY <1>1, <1>2, Ranges DEF Call, Paused
<1>4. /\ new.at = "pause" /\ new.asked = r.asked /\ new.token = r.token
      /\ new.found = r.found \cup prices /\ new.todo = r.todo /\ new.known = r.known
  BY <1>1 DEF Call, Paused
<1> HIDE DEF new
<1>5. CallOK(new, c)
  BY <1>1, <1>2, <1>3, <1>4 DEF CallOK
<1> QED
  BY <1>5 DEF new

\* One call changes.
LEMMA BecomesOK ==
  ASSUME CallsOK, NEW c \in Tasks, NEW r, CallOK(r, c), Becomes(c, r)
  PROVE  CallsOK'
  BY DEF CallsOK, Becomes, CallOK

LEMMA StartPriceOK ==
  ASSUME CallsOK, NEW c \in Tasks, NEW t \in Tokens, StartPrice(c, t)
  PROVE  CallsOK'
<1> DEFINE begun == [Asleep EXCEPT !.op = "price", !.asked = {t}, !.known = {t} \cap Cached]
<1>1. CallOK(begun, c) /\ begun.asked = {t}
  BY Ranges DEF CallOK, Call, Asleep
<1>2. 1 \in 0 .. MaxRetries
  BY Ranges
<1> HIDE DEF begun
<1>3. CallOK(Done(begun, {t}), c) /\ CallOK(Requesting(begun, t, 1), c)
  BY <1>1, <1>2, DoneOK, RequestingOK
<1>4. Becomes(c, IF t \in Fresh THEN Done(begun, {t}) ELSE Requesting(begun, t, 1))
  BY DEF StartPrice, begun
<1> QED
  BY <1>3, <1>4, BecomesOK

LEMMA PricesOK ==
  ASSUME CallsOK, NEW c \in Tasks, NEW ts \in SUBSET Tokens, Prices(c, ts)
  PROVE  CallsOK'
<1> DEFINE hits == ts \cap Fresh
           begun == [Asleep EXCEPT !.op = "prices", !.asked = ts, !.todo = ts \ hits,
                                   !.known = ts \cap Cached, !.found = hits]
           asking == [begun EXCEPT !.at = "batch"]
<1>1. CallOK(begun, c) /\ begun.asked = ts
  BY Ranges DEF CallOK, Call, Asleep
<1>2. CallOK(asking, c)
  BY Ranges DEF CallOK, Call, Asleep
<1>3. Becomes(c, IF hits = ts THEN Done(begun, hits) ELSE asking)
  BY DEF Prices
<1> HIDE DEF begun, asking
<1>4. CallOK(Done(begun, hits), c)
  BY <1>1, DoneOK
<1> QED
  BY <1>2, <1>3, <1>4, BecomesOK

LEMMA StepOK ==
  ASSUME CallsOK, NEW c \in Tasks, Step(c) \/ FallBack(c)
  PROVE  CallsOK'
<1> DEFINE r == call[c]
<1>0. CallOK(r, c) /\ r \in Call
  BY DEF CallsOK, CallOK
<1>1. CASE RequestAnswered(c)
  <2>1. r.token \in r.asked
    BY <1>0, <1>1 DEF CallOK, RequestAnswered
  <2>2. CallOK(Paused(r, {r.token}), c) /\ CallOK(Done(r, {r.token}), c)
    BY <1>0, <1>1, <2>1, PausedOK, DoneOK DEF RequestAnswered
  <2> QED
    BY <1>1, <2>2, BecomesOK DEF RequestAnswered
<1>2. CASE RequestFails(c)
  <2> DEFINE new == [r EXCEPT !.at = "backoff", !.since = 0]
  <2>1. new \in Call
    BY <1>0, Ranges DEF Call
  <2>2. /\ new.at = "backoff" /\ new.asked = r.asked /\ new.token = r.token
        /\ new.tries = r.tries
        /\ new.found = r.found /\ new.todo = r.todo /\ new.known = r.known
    BY <1>0 DEF Call
  <2>3. Becomes(c, new) /\ r.at = "request" /\ r.tries < MaxRetries
    BY <1>2 DEF RequestFails
  <2> HIDE DEF new
  <2>4. CallOK(new, c)
    BY <1>0, <2>1, <2>2, <2>3 DEF CallOK
  <2> QED
    BY <2>3, <2>4, BecomesOK
<1>3. CASE LastTryFails(c)
  <2>1. CallOK(Paused(r, {r.token} \cap Cached), c) /\ CallOK(Done(r, {}), c)
    BY <1>0, <1>3, PausedOK, DoneOK DEF LastTryFails
  <2> QED
    BY <1>3, <2>1, BecomesOK DEF LastTryFails
<1>4. CASE RetryRequest(c)
  <2>1. r.token \in r.asked /\ r.tries + 1 \in 0 .. MaxRetries
    BY <1>0, <1>4, FetcherAssumption DEF RetryRequest, CallOK, Call
  <2>2. CallOK(Requesting(r, r.token, r.tries + 1), c)
    BY <1>0, <2>1, RequestingOK
  <2> QED
    BY <1>4, <2>2, BecomesOK DEF RetryRequest
<1>5. CASE BatchAnswered(c)
  <2>1. PICK priced \in SUBSET r.todo : Becomes(c, Done(r, r.found \cup priced))
    BY <1>5 DEF BatchAnswered
  <2>2. r.found \cup priced \in SUBSET r.asked
    BY <1>0 DEF CallOK
  <2> QED
    BY <1>0, <2>1, <2>2, DoneOK, BecomesOK
<1>6. CASE BatchRefused(c)
  <2> DEFINE each == [r EXCEPT !.op = "each", !.asked = r.todo,
                               !.known = @ \cap r.todo, !.found = {}]
  <2>1. PICK t \in r.todo : Becomes(c, Requesting(each, t, 1))
    BY <1>6 DEF BatchRefused
  <2>2. CallOK(each, c) /\ each.asked = r.todo
    BY <1>0, <1>6 DEF BatchRefused, CallOK, Call
  <2>3. 1 \in 0 .. MaxRetries
    BY FetcherAssumption
  <2> HIDE DEF each
  <2> QED
    BY <2>1, <2>2, <2>3, RequestingOK, BecomesOK
<1>7. CASE BatchUnreadable(c)
  BY <1>0, <1>7, DoneOK, BecomesOK DEF BatchUnreadable
<1>8. CASE NextToken(c)
  <2> DEFINE left == r.todo \ {r.token}
             rest == [r EXCEPT !.todo = left]
  <2>1. \/ Becomes(c, Done(r, r.found))
        \/ \E t \in left : Becomes(c, Requesting(rest, t, 1))
    BY <1>8 DEF NextToken
  <2>2. CallOK(Done(r, r.found), c)
    <3>1. r.found \in SUBSET r.asked
      BY <1>0 DEF CallOK
    <3> QED
      BY <1>0, <3>1, DoneOK
  <2>3. CallOK(rest, c) /\ left \subseteq rest.asked
    BY <1>0, <1>8 DEF NextToken, CallOK, Call
  <2>4. 1 \in 0 .. MaxRetries
    BY FetcherAssumption
  <2> HIDE DEF rest, left
  <2>5. \A t \in left : CallOK(Requesting(rest, t, 1), c)
    BY <2>3, <2>4, RequestingOK
  <2> QED
    BY <2>1, <2>2, <2>5, BecomesOK
<1>9. CASE Return(c)
  BY <1>9, AsleepOK, BecomesOK DEF Return
<1>10. CASE FallBack(c)
  <2> DEFINE back == [r EXCEPT !.op = "fallback"]
  <2>1. CallOK(back, c) /\ back.asked = r.asked
    BY <1>0, <1>10 DEF FallBack, CallOK, Call
  <2>2. Becomes(c, Done(back, r.asked \cap Cached))
    BY <1>10 DEF FallBack
  <2> HIDE DEF back
  <2> QED
    BY <2>1, <2>2, DoneOK, BecomesOK
<1> QED
  BY <1>1, <1>2, <1>3, <1>4, <1>5, <1>6, <1>7, <1>8, <1>9, <1>10 DEF Step

LEMMA LoopOK ==
  ASSUME CallsOK, LoopStep
  PROVE  CallsOK'
<1>1. Refresher \in Tasks /\ Refreshed \in SUBSET Tokens
  BY FetcherAssumption DEF Tasks
<1>2. CASE Step(Refresher)
  BY <1>1, <1>2, StepOK
<1>3. CASE Refresh
  BY <1>1, <1>3, PricesOK DEF Refresh, StartPrices
<1>4. CASE LoopEnds
  <2>1. CallOK([Asleep EXCEPT !.at = "ended"], Refresher)
    BY Ranges DEF CallOK, Call, Asleep
  <2> QED
    BY <1>1, <1>4, <2>1, BecomesOK DEF LoopEnds
<1>5. CASE LoopSpins
  BY <1>1, <1>5, AsleepOK, BecomesOK DEF LoopSpins
<1> QED
  BY <1>2, <1>3, <1>4, <1>5 DEF LoopStep

\* A tick leaves a request below its time-out and a sleep below its end.
LEMMA TickCallsOK ==
  ASSUME CallsOK, Tick
  PROVE  CallsOK'
<1>1. ASSUME NEW c \in Tasks
      PROVE  CallOK(call'[c], c)
  <2> DEFINE r == call[c]
  <2>1. CallOK(r, c) /\ CanWait(c)
    BY DEF CallsOK, Tick
  <2>2. CASE ~Counts(c)
    BY <2>1, <2>2 DEF Tick
  <2>3. CASE Counts(c)
    <3>1. call'[c] = [r EXCEPT !.since = @ + 1]
      BY <2>3 DEF Tick
    <3>2. CASE r.at \in {"request", "batch"}
      <4>1. r.since < Flight
        BY <2>1, <3>2 DEF CanWait
      <4> QED
        BY <2>1, <3>1, <3>2, <4>1, FetcherAssumption DEF CallOK, Call
    <3>3. CASE c = Refresher /\ r.at = "sleep"
      <4>1. r.since # Nap
        BY <2>1, <3>3 DEF CanWait, NapIsOver
      <4> QED
        BY <2>1, <3>1, <3>3, <4>1, FetcherAssumption DEF CallOK, Call
    <3> QED
      BY <2>3, <3>2, <3>3 DEF Counts
  <2> QED
    BY <2>2, <2>3
<1>2. call' = [c \in Tasks |-> call'[c]]
  BY DEF Tick
<1> QED
  BY <1>1, <1>2 DEF CallsOK, CallOK

-----------------------------------------------------------------------------
(* The cache. *)

LEMMA InsertOK ==
  ASSUME CacheOK, NEW ts \in SUBSET Tokens, NEW seen \in 0 .. Flight, Insert(ts, seen)
  PROVE  CacheOK'
<1>1. [age |-> 0, seen |-> seen] \in Entry
  BY FetcherAssumption DEF Entry, RefreshBound, CacheTtl, MaxSeen
<1>2. cache' \in [Tokens -> Entry \cup {None}]
  BY <1>1 DEF CacheOK, Insert
<1>3. ASSUME NEW t \in Fresh'
      PROVE  cache'[t].seen <= cache'[t].age + Flight
  <2>1. t \in Tokens /\ cache'[t] # None /\ cache'[t].age <= CacheTtl
    BY <1>3 DEF Fresh, Cached, CacheTtl
  <2>2. CASE t \in ts
    BY <2>1, <2>2, FetcherAssumption DEF Insert
  <2>3. CASE t \notin ts
    <3>1. cache'[t] = cache[t]
      BY <2>1, <2>3 DEF Insert
    <3> QED
      BY <2>1, <3>1 DEF CacheOK, Fresh, Cached
  <2> QED
    BY <2>2, <2>3
<1> QED
  BY <1>2, <1>3 DEF CacheOK

\* An entry that is fresh after a tick was so before, and both its ages grew.
LEMMA TickCacheOK ==
  ASSUME CacheOK, Tick
  PROVE  CacheOK'
<1>1. ASSUME NEW e \in Entry
      PROVE  /\ Older(e) \in Entry
             /\ Older(e).age <= CacheTtl => Older(e).age = e.age + 1
             /\ Older(e).seen <= e.seen + 1
  BY FetcherAssumption
     DEF Older, AtMost, Entry, MaxAge, RefreshBound, CacheTtl, MaxSeen
<1>2. \A t \in Tokens : cache'[t] = IF t \in Cached THEN Older(cache[t]) ELSE None
  BY DEF Tick
<1>3. \A t \in Cached : cache[t] \in Entry
  BY DEF CacheOK, Cached
<1>4. cache' \in [Tokens -> Entry \cup {None}]
  BY <1>1, <1>2, <1>3 DEF Tick, Cached
<1>5. ASSUME NEW t \in Fresh'
      PROVE  cache'[t].seen <= cache'[t].age + Flight
  <2>1. t \in Tokens /\ cache'[t] # None /\ cache'[t].age <= CacheTtl
    BY <1>5 DEF Fresh, Cached, CacheTtl
  <2>2. t \in Cached /\ cache'[t] = Older(cache[t])
    BY <1>2, <2>1
  <2>3. cache[t] \in Entry
    BY <1>3, <2>2
  <2>4. /\ cache'[t].age = cache[t].age + 1
        /\ cache'[t].seen <= cache[t].seen + 1
        /\ cache'[t] \in Entry
    BY <1>1, <2>1, <2>2, <2>3
  <2>5. t \in Fresh
    BY <2>1, <2>2, <2>3, <2>4, FetcherAssumption DEF Fresh, Entry, CacheTtl
  <2>6. cache[t].seen <= cache[t].age + Flight
    BY <2>5 DEF CacheOK
  <2> QED
    BY <2>3, <2>4, <2>6, FetcherAssumption DEF Entry
<1> QED
  BY <1>4, <1>5 DEF CacheOK

LEMMA SameCacheOK == CacheOK /\ UNCHANGED cache => CacheOK'
  BY DEF CacheOK, Fresh, Cached

\* Only an answer of the endpoint enters the cache.
LEMMA AnswerOK ==
  ASSUME CallsOK, CacheOK, NEW c \in Tasks, RequestAnswered(c) \/ BatchAnswered(c)
  PROVE  CacheOK'
<1>1. call[c] \in Call /\ call[c].since \in 0 .. Flight
  BY FetcherAssumption DEF CallsOK, CallOK, Call, RequestAnswered, BatchAnswered
<1>2. CASE RequestAnswered(c)
  <2>1. PICK seen \in 0 .. call[c].since :
           IF call[c].op = "each" THEN UNCHANGED cache ELSE Insert({call[c].token}, seen)
    BY <1>2 DEF RequestAnswered
  <2>2. {call[c].token} \in SUBSET Tokens
    BY <1>1, <1>2 DEF RequestAnswered, CallsOK, CallOK, Call
  <2>3. seen \in 0 .. Flight
    BY <1>1, FetcherAssumption
  <2> QED
    BY <2>1, <2>2, <2>3, InsertOK, SameCacheOK
<1>3. CASE BatchAnswered(c)
  <2>1. PICK priced \in SUBSET call[c].todo, seen \in 0 .. call[c].since : Insert(priced, seen)
    BY <1>3 DEF BatchAnswered
  <2>2. priced \in SUBSET Tokens
    BY <1>1 DEF Call
  <2>3. seen \in 0 .. Flight
    BY <1>1, FetcherAssumption
  <2> QED
    BY <2>1, <2>2, <2>3, InsertOK
<1> QED
  BY <1>2, <1>3

-----------------------------------------------------------------------------
(* The invariant. *)

LEMMA InitInv == Init => Inv
<1> SUFFICES ASSUME Init
             PROVE  Inv
  OBVIOUS
<1>1. CallsOK
  BY AsleepOK DEF Init, CallsOK, CallOK
<1>2. CacheOK
  BY DEF Init, CacheOK, Fresh, Cached
<1> QED
  BY <1>1, <1>2 DEF Init, Inv

LEMMA FlagsInv ==
  ASSUME Inv, Next
  PROVE  signal' \in {"open", "sent", "dropped"} /\ faulted' \in BOOLEAN
<1> USE DEF Inv
<1>1. ASSUME NEW c \in Tasks, Step(c) \/ FallBack(c)
      PROVE  signal' = signal /\ faulted' \in BOOLEAN
  BY <1>1 DEF Step, FallBack, RequestAnswered, RequestFails, LastTryFails, RetryRequest,
              BatchAnswered, BatchRefused, BatchUnreadable, NextToken, Return
<1>2. CASE \E c \in Callers, t \in Tokens : StartPrice(c, t)
  BY <1>2 DEF StartPrice
<1>3. CASE \E c \in Tasks : \E ts : StartPrices(c, ts)
  BY <1>3 DEF StartPrices
<1>4. CASE LoopEnds \/ LoopSpins \/ SendShutdown \/ DropSender \/ Tick
  BY <1>4 DEF LoopEnds, LoopSpins, SendShutdown, DropSender, Tick
<1> QED
  BY <1>1, <1>2, <1>3, <1>4 DEF Next, LoopStep, Refresh, Tasks

LEMMA StepInv == Inv /\ [Next]_vars => Inv'
<1> SUFFICES ASSUME Inv, Next
             PROVE  CallsOK' /\ CacheOK'
  <2>1. CASE Next
    BY <2>1, FlagsInv DEF Inv
  <2>2. CASE UNCHANGED vars
    BY <2>2 DEF vars, Inv, CallsOK, CallOK, CacheOK, Fresh, Cached
  <2> QED
    BY <2>1, <2>2
<1>0. CallsOK /\ CacheOK
  BY DEF Inv
<1>1. ASSUME NEW c \in Callers, NEW t \in Tokens, StartPrice(c, t)
      PROVE  CallsOK' /\ CacheOK'
  BY <1>0, <1>1, StartPriceOK, SameCacheOK DEF StartPrice, Tasks
<1>2. ASSUME NEW c \in Callers, NEW ts \in SUBSET Tokens, StartPrices(c, ts)
      PROVE  CallsOK' /\ CacheOK'
  BY <1>0, <1>2, PricesOK, SameCacheOK DEF StartPrices, Tasks
<1>3. ASSUME NEW c \in Tasks, Step(c) \/ FallBack(c)
      PROVE  CacheOK'
  <2>1. CASE RequestAnswered(c) \/ BatchAnswered(c)
    BY <1>0, <2>1, AnswerOK
  <2>2. CASE ~(RequestAnswered(c) \/ BatchAnswered(c))
    BY <1>0, <1>3, <2>2, SameCacheOK
       DEF Step, FallBack, RequestFails, LastTryFails, RetryRequest, BatchRefused,
           BatchUnreadable, NextToken, Return
  <2> QED
    BY <2>1, <2>2
<1>4. ASSUME NEW c \in Callers, Step(c) \/ FallBack(c)
      PROVE  CallsOK' /\ CacheOK'
  BY <1>0, <1>3, <1>4, StepOK DEF Tasks
<1>5. CASE LoopStep
  <2>1. CacheOK'
    BY <1>0, <1>3, <1>5, SameCacheOK
       DEF LoopStep, Refresh, StartPrices, LoopEnds, LoopSpins, Tasks
  <2> QED
    BY <1>0, <1>5, <2>1, LoopOK
<1>6. CASE SendShutdown \/ DropSender
  <2>1. UNCHANGED <<cache, call>>
    BY <1>6 DEF SendShutdown, DropSender
  <2> QED
    BY <1>0, <2>1, SameCacheOK DEF CallsOK, CallOK
<1>7. CASE Tick
  BY <1>0, <1>7, TickCallsOK, TickCacheOK
<1> QED
  BY <1>1, <1>2, <1>4, <1>5, <1>6, <1>7 DEF Next

\* The variables keep their types, for any number of callers and tokens and any
\* times: every call stays about its tokens and within its attempts.
THEOREM TypeCorrect == Spec => []TypeOK
<1>1. Inv => TypeOK
  BY DEF Inv, CallsOK, CacheOK, CallOK, TypeOK
<1> QED
  BY <1>1, InitInv, StepInv, PTL DEF Spec

\* A price that counts as fresh was the endpoint's at most the time to live and
\* one request ago, whatever fails and however the calls of the tasks interleave.
THEOREM FreshPricesAreRecent == Spec => []FreshIsRecent
<1>1. Inv => FreshIsRecent
  <2> SUFFICES ASSUME Inv, NEW t \in Fresh
               PROVE  cache[t].seen <= CacheTtl + Flight
    BY DEF FreshIsRecent
  <2>1. cache[t] \in Entry /\ cache[t].age <= CacheTtl
    BY DEF Inv, CacheOK, Fresh, Cached
  <2>2. cache[t].seen <= cache[t].age + Flight
    BY DEF Inv, CacheOK
  <2> QED
    BY <2>1, <2>2, FetcherAssumption DEF Entry, CacheTtl, MaxSeen, RefreshBound
<1> QED
  BY <1>1, InitInv, StepInv, PTL DEF Spec

-----------------------------------------------------------------------------
(* What the calls return. *)

\* Why a call that began with known tokens, of those cached now, returns what it
\* can; bad says whether the endpoint has ever failed.
Forthcoming(r, cached, bad) ==
    /\ r.known \subseteq cached
    /\ r.op = "price" => r.asked # {}
    /\ r.at \in {"request", "backoff"} => r.op \in {"price", "each"}
    /\ r.at = "batch" => r.op = "prices"
    /\ r.at = "pause" => r.op = "each"
    /\ r.op = "each" =>
        \/ r.at \in {"request", "backoff"} /\ r.known \subseteq r.found \cup r.todo
        \/ r.at = "pause" /\ r.known \subseteq r.found \cup (r.todo \ {r.token})
        \/ r.at = "done" /\ r.known \subseteq r.found
    /\ r.op = "fallback" => r.at = "done" /\ r.known \cap r.asked \subseteq r.found
    /\ ~bad =>
        /\ r.op \in {"none", "price", "prices"} /\ r.at \notin {"backoff", "pause"}
        /\ r.at = "request" => r.asked = {r.token}
        /\ r.at = "batch" => r.asked = r.found \cup r.todo
        /\ r.at = "done" => r.found = r.asked

AnswersInv == \A c \in Tasks : Forthcoming(call[c], Cached, faulted)

LEMMA DoneFields ==
  ASSUME NEW r \in Call, NEW f
  PROVE  LET d == Done(r, f) IN
         /\ d.at = "done" /\ d.op = r.op /\ d.asked = r.asked /\ d.known = r.known
         /\ d.found = f
  BY DEF Call, Done

LEMMA RequestingFields ==
  ASSUME NEW r \in Call, NEW t, NEW n
  PROVE  LET d == Requesting(r, t, n) IN
         /\ d.at = "request" /\ d.op = r.op /\ d.asked = r.asked /\ d.known = r.known
         /\ d.found = r.found /\ d.todo = r.todo /\ d.token = t
  BY DEF Call, Requesting

LEMMA PausedFields ==
  ASSUME NEW r \in Call, NEW f
  PROVE  LET d == Paused(r, f) IN
         /\ d.at = "pause" /\ d.op = r.op /\ d.asked = r.asked /\ d.known = r.known
         /\ d.found = r.found \cup f /\ d.todo = r.todo /\ d.token = r.token
  BY DEF Call, Paused

\* A token stays in the cache.
LEMMA InsertKeeps ==
  ASSUME NEW ts, NEW seen \in Nat, Insert(ts, seen)
  PROVE  Cached \subseteq Cached'
<1>1. [age |-> 0, seen |-> seen] # None
  BY FetcherAssumption
<1> QED
  BY <1>1 DEF Insert, Cached

LEMMA CachedGrows ==
  ASSUME Inv, Next
  PROVE  Cached \subseteq Cached'
<1>1. CASE cache' = cache
  BY <1>1 DEF Cached
<1>2. ASSUME NEW c \in Tasks, RequestAnswered(c) \/ BatchAnswered(c)
      PROVE  Cached \subseteq Cached'
  <2>1. call[c] \in Call
    BY DEF Inv, CallsOK
  <2>2. \A seen \in 0 .. call[c].since : seen \in Nat
    BY <2>1 DEF Call
  <2> QED
    BY <1>2, <1>1, <2>2, InsertKeeps DEF RequestAnswered, BatchAnswered
<1>3. CASE Tick
  <2>1. \A t \in Tokens : cache'[t] = IF t \in Cached THEN Older(cache[t]) ELSE None
    BY <1>3 DEF Tick
  <2>2. ASSUME NEW t \in Cached PROVE Older(cache[t]) # None
    <3>1. cache[t] \in Entry
      BY DEF Inv, CacheOK, Cached
    <3>2. Older(cache[t]) \in [age : Nat, seen : Nat]
      BY <3>1, FetcherAssumption
         DEF Older, AtMost, Entry, MaxAge, RefreshBound, CacheTtl, MaxSeen
    <3> QED
      BY <3>2, FetcherAssumption
  <2> QED
    BY <2>1, <2>2 DEF Cached
<1>4. ASSUME NEW c \in Tasks, Step(c) \/ FallBack(c)
      PROVE  Cached \subseteq Cached'
  BY <1>1, <1>2, <1>4
     DEF Step, FallBack, RequestFails, LastTryFails, RetryRequest, BatchRefused,
         BatchUnreadable, NextToken, Return
<1>5. CASE \E c \in Callers : \/ \E t \in Tokens : StartPrice(c, t)
                              \/ \E ts \in SUBSET Tokens : StartPrices(c, ts)
  BY <1>1, <1>5 DEF StartPrice, StartPrices
<1>6. CASE Refresh \/ LoopEnds \/ LoopSpins \/ SendShutdown \/ DropSender
  BY <1>1, <1>6 DEF Refresh, StartPrices, LoopEnds, LoopSpins, SendShutdown, DropSender
<1> QED
  BY <1>3, <1>4, <1>5, <1>6 DEF Next, LoopStep, Tasks

\* More cached tokens and a failure do not ask more of a call.
LEMMA AnswerKept ==
  ASSUME NEW r, NEW K, NEW L, NEW bad, NEW worse,
         Forthcoming(r, K, bad), K \subseteq L, ~worse => ~bad
  PROVE  Forthcoming(r, L, worse)
  BY DEF Forthcoming

LEMMA BecomesAnswers ==
  ASSUME CallsOK, AnswersInv, NEW c \in Tasks, NEW r, Becomes(c, r),
         Cached \subseteq Cached', ~faulted' => ~faulted, Forthcoming(r, Cached', faulted')
  PROVE  AnswersInv'
<1>1. ASSUME NEW d \in Tasks PROVE Forthcoming(call'[d], Cached', faulted')
  <2>1. CASE d = c
    BY <2>1 DEF Becomes, CallsOK
  <2>2. CASE d # c
    <3>1. call'[d] = call[d] /\ Forthcoming(call[d], Cached, faulted)
      BY <2>2 DEF Becomes, CallsOK, AnswersInv
    <3> QED
      BY <3>1, AnswerKept
  <2> QED
    BY <2>1, <2>2
<1> QED
  BY <1>1 DEF AnswersInv

LEMMA StartPriceAnswers ==
  ASSUME CallsOK, AnswersInv, NEW c \in Tasks, NEW t \in Tokens, StartPrice(c, t)
  PROVE  AnswersInv'
<1> DEFINE begun == [Asleep EXCEPT !.op = "price", !.asked = {t}, !.known = {t} \cap Cached]
<1>1. /\ begun \in Call /\ begun.op = "price" /\ begun.asked = {t}
      /\ begun.known = {t} \cap Cached /\ begun.found = {} /\ begun.todo = {}
  BY Ranges DEF Call, Asleep
<1>2. Becomes(c, IF t \in Fresh THEN Done(begun, {t}) ELSE Requesting(begun, t, 1))
  BY DEF StartPrice
<1>3. faulted' = faulted /\ Cached' = Cached
  BY DEF StartPrice, Cached
<1> HIDE DEF begun
<1>4. Forthcoming(Done(begun, {t}), Cached, faulted)
  BY <1>1, DoneFields DEF Forthcoming
<1>5. Forthcoming(Requesting(begun, t, 1), Cached, faulted)
  BY <1>1, RequestingFields DEF Forthcoming
<1> QED
  BY <1>2, <1>3, <1>4, <1>5, BecomesAnswers

LEMMA PricesAnswers ==
  ASSUME CallsOK, AnswersInv, NEW c \in Tasks, NEW ts \in SUBSET Tokens, StartPrices(c, ts)
  PROVE  AnswersInv'
<1> DEFINE hits == ts \cap Fresh
           begun == [Asleep EXCEPT !.op = "prices", !.asked = ts, !.todo = ts \ hits,
                                   !.known = ts \cap Cached, !.found = hits]
           asking == [begun EXCEPT !.at = "batch"]
<1>1. /\ begun \in Call /\ begun.op = "prices" /\ begun.asked = ts
      /\ begun.known = ts \cap Cached /\ begun.found = hits /\ begun.todo = ts \ hits
  BY Ranges DEF Call, Asleep
<1>2. Becomes(c, IF hits = ts THEN Done(begun, hits) ELSE asking)
  BY DEF StartPrices, Prices
<1>3. faulted' = faulted /\ Cached' = Cached
  BY DEF StartPrices, Cached
<1>4. /\ asking.at = "batch" /\ asking.op = "prices" /\ asking.asked = ts
      /\ asking.known = ts \cap Cached /\ asking.found = hits /\ asking.todo = ts \ hits
  BY <1>1 DEF Call
<1>5. hits \subseteq ts
  OBVIOUS
<1> HIDE DEF begun, asking, hits
<1>6. hits = ts => Forthcoming(Done(begun, hits), Cached, faulted)
  BY <1>1, DoneFields DEF Forthcoming
<1>7. Forthcoming(asking, Cached, faulted)
  BY <1>4, <1>5 DEF Forthcoming
<1> QED
  BY <1>2, <1>3, <1>6, <1>7, BecomesAnswers

LEMMA StepAnswers ==
  ASSUME Inv, AnswersInv, Next, NEW c \in Tasks, Step(c) \/ FallBack(c)
  PROVE  AnswersInv'
<1> DEFINE r == call[c]
<1>0. r \in Call /\ CallOK(r, c) /\ CallsOK /\ Forthcoming(r, Cached, faulted)
  BY DEF Inv, CallsOK, AnswersInv
<1>g. Cached \subseteq Cached'
  BY CachedGrows
<1>f. ~faulted' => ~faulted
  BY DEF Step, FallBack, RequestAnswered, RequestFails, LastTryFails, RetryRequest,
         BatchAnswered, BatchRefused, BatchUnreadable, NextToken, Return
<1>b. ASSUME NEW n, Becomes(c, n), Forthcoming(n, Cached, faulted')
      PROVE  AnswersInv'
  <2>1. Forthcoming(n, Cached', faulted')
    BY <1>b, <1>g, AnswerKept
  <2> QED
    BY <1>0, <1>b, <1>f, <1>g, <2>1, BecomesAnswers
<1> HIDE DEF r
<1>1. CASE RequestAnswered(c)
  <2>1. /\ r.at = "request" /\ faulted' = faulted
        /\ Becomes(c, IF r.op = "each" THEN Paused(r, {r.token}) ELSE Done(r, {r.token}))
    BY <1>1 DEF RequestAnswered, r
  <2>2. r.op = "each" => Forthcoming(Paused(r, {r.token}), Cached, faulted)
    BY <1>0, <2>1, PausedFields DEF Forthcoming
  <2>3. r.op # "each" => Forthcoming(Done(r, {r.token}), Cached, faulted)
    BY <1>0, <2>1, DoneFields DEF Forthcoming
  <2> QED
    BY <1>b, <2>1, <2>2, <2>3
<1>2. CASE RequestFails(c)
  <2> DEFINE new == [r EXCEPT !.at = "backoff", !.since = 0]
  <2>1. r.at = "request" /\ faulted' = TRUE /\ Becomes(c, new)
    BY <1>2 DEF RequestFails, r
  <2>2. /\ new.at = "backoff" /\ new.op = r.op /\ new.asked = r.asked /\ new.known = r.known
        /\ new.found = r.found /\ new.todo = r.todo
    BY <1>0 DEF Call
  <2> HIDE DEF new
  <2>3. Forthcoming(new, Cached, TRUE)
    BY <1>0, <2>1, <2>2 DEF Forthcoming
  <2> QED
    BY <1>b, <2>1, <2>3
<1>3. CASE LastTryFails(c)
  <2>1. /\ r.at = "request" /\ faulted' = TRUE
        /\ Becomes(c, IF r.op = "each" THEN Paused(r, {r.token} \cap Cached) ELSE Done(r, {}))
    BY <1>3 DEF LastTryFails, r
  <2>2. r.op = "each" => Forthcoming(Paused(r, {r.token} \cap Cached), Cached, TRUE)
    <3> DEFINE stale == {r.token} \cap Cached
               new == Paused(r, stale)
    <3>1. /\ new.at = "pause" /\ new.op = r.op /\ new.asked = r.asked /\ new.known = r.known
          /\ new.found = r.found \cup stale /\ new.todo = r.todo /\ new.token = r.token
      BY <1>0, PausedFields
    <3> HIDE DEF new
    <3>2. r.op = "each" => r.known \subseteq (r.found \cup stale) \cup (r.todo \ {r.token})
      BY <1>0, <2>1 DEF Forthcoming
    <3>3. r.op = "each" => Forthcoming(new, Cached, TRUE)
      BY <1>0, <2>1, <3>1, <3>2 DEF Forthcoming
    <3> QED
      BY <3>3 DEF new
  <2>3. r.op # "each" => Forthcoming(Done(r, {}), Cached, TRUE)
    BY <1>0, <2>1, DoneFields DEF Forthcoming
  <2> QED
    BY <1>b, <2>1, <2>2, <2>3
<1>4. CASE RetryRequest(c)
  <2>1. /\ r.at = "backoff" /\ faulted' = faulted
        /\ Becomes(c, Requesting(r, r.token, r.tries + 1))
    BY <1>4 DEF RetryRequest, r
  <2>2. Forthcoming(Requesting(r, r.token, r.tries + 1), Cached, faulted)
    BY <1>0, <2>1, RequestingFields DEF Forthcoming
  <2> QED
    BY <1>b, <2>1, <2>2
<1>5. CASE BatchAnswered(c)
  <2>1. PICK priced \in SUBSET r.todo :
            /\ r.at = "batch" /\ Becomes(c, Done(r, r.found \cup priced))
            /\ faulted' = (faulted \/ priced # r.todo)
    BY <1>5 DEF BatchAnswered, r
  <2>2. ~faulted' => ~faulted /\ priced = r.todo
    BY <2>1
  <2>3. Forthcoming(Done(r, r.found \cup priced), Cached, faulted')
    <3> DEFINE n == Done(r, r.found \cup priced)
    <3>1. /\ n.at = "done" /\ n.op = r.op /\ n.asked = r.asked /\ n.known = r.known
          /\ n.found = r.found \cup priced
      BY <1>0, DoneFields
    <3> HIDE DEF n
    <3>2. r.op = "prices" /\ r.known \subseteq Cached /\ (~faulted => r.asked = r.found \cup r.todo)
      BY <1>0, <2>1 DEF Forthcoming
    <3>3. ~faulted' => n.found = n.asked
      BY <2>2, <3>1, <3>2
    <3>4. Forthcoming(n, Cached, faulted')
      BY <3>1, <3>2, <3>3 DEF Forthcoming
    <3> QED
      BY <3>4 DEF n
  <2> QED
    BY <1>b, <2>1, <2>3
<1>6. CASE BatchRefused(c)
  <2> DEFINE each == [r EXCEPT !.op = "each", !.asked = r.todo,
                               !.known = @ \cap r.todo, !.found = {}]
  <2>1. /\ r.at = "batch" /\ faulted' = TRUE
        /\ \E t \in r.todo : Becomes(c, Requesting(each, t, 1))
    BY <1>6 DEF BatchRefused, r
  <2>2. /\ each \in Call /\ each.op = "each" /\ each.asked = r.todo
        /\ each.known = r.known \cap r.todo /\ each.found = {} /\ each.todo = r.todo
    BY <1>0 DEF Call
  <2> HIDE DEF each
  <2>3. \A t \in r.todo : Forthcoming(Requesting(each, t, 1), Cached, TRUE)
    BY <1>0, <2>2, RequestingFields DEF Forthcoming
  <2> QED
    BY <1>b, <2>1, <2>3
<1>7. CASE BatchUnreadable(c)
  <2>1. r.at = "batch" /\ faulted' = TRUE /\ Becomes(c, Done(r, {}))
    BY <1>7 DEF BatchUnreadable, r
  <2>2. Forthcoming(Done(r, {}), Cached, TRUE)
    BY <1>0, <2>1, DoneFields DEF Forthcoming
  <2> QED
    BY <1>b, <2>1, <2>2
<1>8. CASE NextToken(c)
  <2> DEFINE left == r.todo \ {r.token}
             rest == [r EXCEPT !.todo = left]
  <2>1. /\ r.at = "pause" /\ faulted' = faulted
        /\ \/ left = {} /\ Becomes(c, Done(r, r.found))
           \/ \E t \in left : Becomes(c, Requesting(rest, t, 1))
    BY <1>8 DEF NextToken, r
  <2>2. /\ rest \in Call /\ rest.op = r.op /\ rest.asked = r.asked /\ rest.known = r.known
        /\ rest.found = r.found /\ rest.todo = left
    BY <1>0 DEF Call
  <2>3. r.op = "each" /\ r.known \subseteq r.found \cup left /\ faulted
    BY <1>0, <2>1 DEF Forthcoming
  <2> HIDE DEF rest, left
  <2>4. left = {} => Forthcoming(Done(r, r.found), Cached, faulted)
    BY <1>0, <2>3, DoneFields DEF Forthcoming
  <2>5. \A t \in left : Forthcoming(Requesting(rest, t, 1), Cached, faulted)
    BY <1>0, <2>2, <2>3, RequestingFields DEF Forthcoming
  <2> QED
    BY <1>b, <2>1, <2>4, <2>5
<1>9. CASE Return(c)
  <2>1. Becomes(c, Asleep)
    BY <1>9 DEF Return
  <2>2. Forthcoming(Asleep, Cached, faulted')
    BY DEF Forthcoming, Asleep
  <2> QED
    BY <1>b, <2>1, <2>2
<1>10. CASE FallBack(c)
  <2> DEFINE back == [r EXCEPT !.op = "fallback"]
  <2>1. /\ r.at = "done" /\ r.op = "price" /\ r.found = {} /\ faulted' = faulted
        /\ Becomes(c, Done(back, r.asked \cap Cached))
    BY <1>10 DEF FallBack, r
  <2>2. /\ back \in Call /\ back.op = "fallback" /\ back.asked = r.asked
        /\ back.known = r.known
    BY <1>0 DEF Call
  <2>3. faulted
    BY <1>0, <2>1 DEF Forthcoming
  <2> HIDE DEF back
  <2>4. Forthcoming(Done(back, r.asked \cap Cached), Cached, faulted)
    BY <1>0, <2>1, <2>2, <2>3, DoneFields DEF Forthcoming
  <2> QED
    BY <1>b, <2>1, <2>4
<1> QED
  BY <1>1, <1>2, <1>3, <1>4, <1>5, <1>6, <1>7, <1>8, <1>9, <1>10 DEF Step

LEMMA AnswersStep == Inv /\ AnswersInv /\ [Next]_vars => AnswersInv'
<1> SUFFICES ASSUME Inv, AnswersInv, [Next]_vars PROVE AnswersInv'
  OBVIOUS
<1>0. CallsOK /\ Refresher \in Tasks /\ Callers \subseteq Tasks /\ Refreshed \in SUBSET Tokens
  BY FetcherAssumption DEF Inv, Tasks
<1>1. ASSUME Next, NEW c \in Tasks, Step(c) \/ FallBack(c) PROVE AnswersInv'
  BY <1>1, StepAnswers
<1>2. ASSUME NEW c \in Callers, NEW t \in Tokens, StartPrice(c, t) PROVE AnswersInv'
  BY <1>0, <1>2, StartPriceAnswers
<1>3. ASSUME NEW c \in Tasks, NEW ts \in SUBSET Tokens, StartPrices(c, ts) PROVE AnswersInv'
  BY <1>0, <1>3, PricesAnswers
<1>4. CASE LoopEnds \/ LoopSpins
  <2>1. cache' = cache /\ faulted' = faulted
    BY <1>4 DEF LoopEnds, LoopSpins
  <2>2. Cached' = Cached
    BY <2>1 DEF Cached
  <2>3. /\ Forthcoming(Asleep, Cached, faulted)
        /\ Forthcoming([Asleep EXCEPT !.at = "ended"], Cached, faulted)
    BY DEF Forthcoming, Asleep
  <2>4. Becomes(Refresher, Asleep) \/ Becomes(Refresher, [Asleep EXCEPT !.at = "ended"])
    BY <1>4 DEF LoopEnds, LoopSpins
  <2> QED
    BY <1>0, <2>1, <2>2, <2>3, <2>4, BecomesAnswers
<1>5. CASE SendShutdown \/ DropSender \/ UNCHANGED vars
  <2>1. cache' = cache /\ faulted' = faulted /\ call' = call
    BY <1>5 DEF SendShutdown, DropSender, vars
  <2> QED
    BY <2>1 DEF AnswersInv, Cached
<1>6. CASE Tick
  <2>1. Cached \subseteq Cached' /\ faulted' = faulted
    BY <1>6, CachedGrows DEF Tick, Next
  <2>2. ASSUME NEW c \in Tasks PROVE Forthcoming(call'[c], Cached', faulted')
    <3> DEFINE r == call[c]
    <3>1. r \in Call /\ Forthcoming(r, Cached, faulted)
      BY <1>0 DEF CallsOK, AnswersInv
    <3>2. call'[c] = r \/ call'[c] = [r EXCEPT !.since = @ + 1]
      BY <1>6 DEF Tick
    <3> HIDE DEF r
    <3>3. Forthcoming(call'[c], Cached, faulted)
      <4> DEFINE n == [r EXCEPT !.since = @ + 1]
      <4>1. /\ n.at = r.at /\ n.op = r.op /\ n.asked = r.asked /\ n.known = r.known
            /\ n.found = r.found /\ n.todo = r.todo /\ n.token = r.token
        BY <3>1 DEF Call
      <4> HIDE DEF n
      <4>2. Forthcoming(n, Cached, faulted)
        BY <3>1, <4>1 DEF Forthcoming
      <4> QED
        BY <3>1, <3>2, <4>2 DEF n
    <3> QED
      BY <2>1, <3>3, AnswerKept
  <2> QED
    BY <2>2 DEF AnswersInv
<1> QED
  BY <1>0, <1>1, <1>2, <1>3, <1>4, <1>5, <1>6 DEF Next, LoopStep, Refresh

\* As long as the endpoint answers a call returns everything it was asked for,
\* and where the code falls back on the cache it returns every token that was
\* in it, whatever the other tasks do in between.
THEOREM CallsAnswerWhatTheyCan == Spec => []AnswersWhatItCan
<1>1. Init => AnswersInv
  BY DEF Init, AnswersInv, Forthcoming, Asleep
<1>2. Inv /\ AnswersInv => AnswersWhatItCan
  BY DEF Inv, CallsOK, CallOK, AnswersInv, Forthcoming, AnswersWhatItCan
<1> QED
  BY <1>1, <1>2, InitInv, StepInv, AnswersStep, PTL DEF Spec

-----------------------------------------------------------------------------
(* How old the refresh loop lets a price become. *)

\* The age the loop accounts for.  It sleeps for Nap ticks at most; a price it
\* found fresh is at most CacheTtl old then, and waits for the batch of the
\* others; the next time round it is asked for.
Allowed(r, t) ==
    CASE r.at = "sleep" -> CacheTtl + Flight + r.since
      [] r.at = "batch" /\ t \in r.todo -> CacheTtl + Flight + Nap + r.since
      [] r.at = "batch" /\ t \notin r.todo -> CacheTtl + r.since
      [] OTHER -> CacheTtl + Flight

\* While the endpoint answers the loop is never in individual requests.
LoopOnTime(r) ==
    /\ r.at \in {"sleep", "batch", "done"}
    /\ \A t \in Refreshed \cap Cached : cache[t].age <= Allowed(r, t)

AgeInv == signal = "open" /\ ~faulted => LoopOnTime(call[Refresher])

LEMMA AllowedRange ==
  ASSUME NEW r, CallOK(r, Refresher), NEW t
  PROVE  Allowed(r, t) \in Nat /\ Allowed(r, t) <= RefreshBound /\ r.since \in Nat
<1>1. r.since \in Nat
  BY DEF CallOK, Call
<1>2. (r.at = "sleep" => r.since <= Nap) /\ (r.at = "batch" => r.since <= Flight)
  BY DEF CallOK
<1>3. Flight \in Nat /\ Nap \in Nat
  BY FetcherAssumption
<1>4. CASE r.at = "sleep"
  BY <1>1, <1>2, <1>3, <1>4 DEF Allowed, RefreshBound, CacheTtl
<1>5. CASE r.at = "batch"
  BY <1>1, <1>2, <1>3, <1>5 DEF Allowed, RefreshBound, CacheTtl
<1>6. CASE r.at \notin {"sleep", "batch"}
  BY <1>1, <1>3, <1>6 DEF Allowed, RefreshBound, CacheTtl
<1> QED
  BY <1>1, <1>4, <1>5, <1>6

\* Ages that a step does not make older: an entry is kept or new.
Younger == \A t \in Cached' : cache'[t].age = 0 \/ (t \in Cached /\ cache'[t] = cache[t])

LEMMA InsertYounger ==
  ASSUME CacheOK, NEW ts \in SUBSET Tokens, NEW seen, Insert(ts, seen)
  PROVE  Younger /\ \A t \in ts : cache'[t].age = 0
  BY DEF Insert, Younger, Cached

LEMMA SameYounger == CacheOK /\ cache' = cache => Younger
  BY DEF Younger, Cached

\* The loop is as far as it was, and nothing is older.
LEMMA LoopKept ==
  ASSUME Inv, Younger, LoopOnTime(call[Refresher]), call'[Refresher] = call[Refresher]
  PROVE  LoopOnTime(call[Refresher])'
<1> DEFINE r == call[Refresher]
<1>1. CallOK(r, Refresher)
  BY FetcherAssumption DEF Inv, CallsOK, Tasks
<1>2. \A t : Allowed(r, t) \in Nat
  BY <1>1, AllowedRange
<1>3. r.at \in {"sleep", "batch", "done"} /\ \A t \in Refreshed \cap Cached : cache[t].age <= Allowed(r, t)
  BY DEF LoopOnTime
<1> HIDE DEF r
<1>4. \A t \in Refreshed \cap Cached' : cache'[t].age <= Allowed(r, t)
  BY <1>2, <1>3 DEF Younger
<1>5. call'[Refresher] = r
  BY DEF r
<1> QED
  BY <1>3, <1>4, <1>5 DEF LoopOnTime, Allowed

LEMMA FlagsKept ==
  ASSUME NEW c \in Tasks, Step(c) \/ FallBack(c)
  PROVE  signal' = signal /\ (~faulted' => ~faulted)
<1>1. signal' = signal
  BY DEF Step, FallBack, RequestAnswered, RequestFails, LastTryFails, RetryRequest,
         BatchAnswered, BatchRefused, BatchUnreadable, NextToken, Return
<1>2. ~faulted' => ~faulted
  BY DEF Step, FallBack, RequestAnswered, RequestFails, LastTryFails, RetryRequest,
         BatchAnswered, BatchRefused, BatchUnreadable, NextToken, Return
<1> QED
  BY <1>1, <1>2

LEMMA StepYounger ==
  ASSUME Inv, NEW c \in Tasks, Step(c) \/ FallBack(c)
  PROVE  Younger
<1>0. CacheOK /\ call[c] \in Call
  BY DEF Inv, CallsOK
<1>1. CASE RequestAnswered(c)
  <2>1. {call[c].token} \in SUBSET Tokens
    BY <1>1 DEF Inv, CallsOK, CallOK, Call, RequestAnswered
  <2> QED
    BY <1>0, <1>1, <2>1, InsertYounger, SameYounger DEF RequestAnswered
<1>2. CASE BatchAnswered(c)
  <2>1. \A priced \in SUBSET call[c].todo : priced \in SUBSET Tokens
    BY <1>0 DEF Call
  <2> QED
    BY <1>0, <1>2, <2>1, InsertYounger DEF BatchAnswered
<1>3. CASE ~(RequestAnswered(c) \/ BatchAnswered(c))
  BY <1>0, <1>3, SameYounger
     DEF Step, FallBack, RequestFails, LastTryFails, RetryRequest, BatchRefused,
         BatchUnreadable, NextToken, Return
<1> QED
  BY <1>1, <1>2, <1>3

\* A step of a caller.
LEMMA CallerAge ==
  ASSUME Inv, AgeInv, NEW c \in Callers,
         \/ Step(c) \/ FallBack(c)
         \/ \E t \in Tokens : StartPrice(c, t)
         \/ \E ts \in SUBSET Tokens : StartPrices(c, ts)
  PROVE  AgeInv'
<1>1. Refresher \in Tasks /\ c \in Tasks /\ c # Refresher /\ CacheOK
  BY FetcherAssumption DEF Tasks, Inv
<1>2. \E n : Becomes(c, n)
  BY DEF Step, FallBack, StartPrice, StartPrices, Prices, RequestAnswered, RequestFails,
         LastTryFails, RetryRequest, BatchAnswered, BatchRefused, BatchUnreadable,
         NextToken, Return
<1>3. call'[Refresher] = call[Refresher]
  BY <1>1, <1>2 DEF Becomes, Inv, CallsOK
<1>4. Younger
  BY <1>1, StepYounger, SameYounger DEF StartPrice, StartPrices
<1>5. signal' = signal /\ (~faulted' => ~faulted)
  <2>1. CASE Step(c) \/ FallBack(c)
    BY <1>1, <2>1, FlagsKept
  <2>2. CASE ~(Step(c) \/ FallBack(c))
    <3>1. signal' = signal /\ faulted' = faulted
      BY <2>2 DEF StartPrice, StartPrices
    <3> QED
      BY <3>1
  <2> QED
    BY <2>1, <2>2
<1> QED
  BY <1>3, <1>4, <1>5, LoopKept DEF AgeInv

LEMMA RefreshAge ==
  ASSUME Inv, LoopOnTime(call[Refresher]), Refresh
  PROVE  LoopOnTime(call[Refresher])'
<1> DEFINE r == call[Refresher]
           hits == Refreshed \cap Fresh
           begun == [Asleep EXCEPT !.op = "prices", !.asked = Refreshed,
                                   !.todo = Refreshed \ hits,
                                   !.known = Refreshed \cap Cached, !.found = hits]
           asking == [begun EXCEPT !.at = "batch"]
<1>1. Refresher \in Tasks /\ Refreshed \in SUBSET Tokens
  BY FetcherAssumption DEF Tasks
<1>2. /\ r.at = "sleep" /\ r.since = Nap /\ cache' = cache
      /\ Becomes(Refresher, IF hits = Refreshed THEN Done(begun, hits) ELSE asking)
  BY DEF Refresh, NapIsOver, StartPrices, Prices
<1>3. begun \in Call /\ begun.todo = Refreshed \ hits /\ begun.since = 0
  BY <1>1, Ranges DEF Call, Asleep
<1>4. asking.at = "batch" /\ asking.todo = Refreshed \ hits /\ asking.since = 0
  BY <1>3 DEF Call
<1>5. call'[Refresher] = IF hits = Refreshed THEN Done(begun, hits) ELSE asking
  BY <1>1, <1>2 DEF Becomes, Inv, CallsOK
<1>6. Done(begun, hits).at = "done"
  BY <1>3, DoneFields
<1>7. \A t \in Refreshed \cap Cached :
         /\ cache[t].age \in Nat /\ cache[t].age <= CacheTtl + Flight + Nap
         /\ t \in hits <=> cache[t].age <= CacheTtl
  <2>1. \A t \in Cached : cache[t] \in Entry
    BY DEF Inv, CacheOK, Cached
  <2> QED
    BY <1>2, <2>1 DEF LoopOnTime, Allowed, Fresh, Entry
<1>8. /\ CacheTtl \in Nat /\ Flight \in Nat /\ Nap \in Nat
  BY FetcherAssumption DEF CacheTtl
<1> HIDE DEF begun, asking, hits, r
<1>9. Cached' = Cached
  BY <1>2 DEF Cached
<1>10. CASE hits = Refreshed
  <2>1. call'[Refresher].at = "done"
    BY <1>5, <1>6, <1>10
  <2>2. \A t \in Refreshed \cap Cached : cache[t].age <= CacheTtl + Flight
    BY <1>7, <1>8, <1>10
  <2> QED
    BY <1>2, <1>9, <2>1, <2>2 DEF LoopOnTime, Allowed
<1>11. CASE hits # Refreshed
  <2>1. call'[Refresher] = asking
    BY <1>5, <1>11
  <2>2. ASSUME NEW t \in Refreshed \cap Cached
        PROVE  cache[t].age <= Allowed(asking, t)
    <3>1. CASE t \in hits
      <4>1. Allowed(asking, t) = CacheTtl + 0
        BY <1>4, <3>1 DEF Allowed
      <4> QED
        BY <1>7, <1>8, <3>1, <4>1
    <3>2. CASE t \notin hits
      <4>1. Allowed(asking, t) = CacheTtl + Flight + Nap + 0
        BY <1>4, <3>2 DEF Allowed
      <4> QED
        BY <1>7, <1>8, <4>1
    <3> QED
      BY <3>1, <3>2
  <2> QED
    BY <1>2, <1>4, <1>9, <2>1, <2>2 DEF LoopOnTime, Allowed
<1> QED
  BY <1>10, <1>11

LEMMA LoopStepAge ==
  ASSUME Inv, LoopOnTime(call[Refresher]), ~faulted, ~faulted', Step(Refresher)
  PROVE  LoopOnTime(call[Refresher])'
<1> DEFINE r == call[Refresher]
<1>1. /\ Refresher \in Tasks /\ CallOK(r, Refresher) /\ r \in Call /\ CacheOK
      /\ r.at \in {"sleep", "batch", "done"}
      /\ \A t \in Refreshed \cap Cached : cache[t].age <= Allowed(r, t)
  BY FetcherAssumption DEF Inv, CallsOK, Tasks, LoopOnTime
<1>2. CacheTtl \in Nat /\ Flight \in Nat /\ Nap \in Nat
  BY FetcherAssumption DEF CacheTtl
<1>3. \A n : Becomes(Refresher, n) => call'[Refresher] = n
  BY <1>1 DEF Becomes, Inv, CallsOK
<1>4. \A t \in Cached : cache[t] \in Entry /\ cache[t].age \in Nat
  BY DEF Inv, CacheOK, Cached, Entry
<1> HIDE DEF r
<1>5. CASE BatchAnswered(Refresher)
  <2>1. PICK priced \in SUBSET r.todo, seen \in 0 .. r.since :
            /\ r.at = "batch" /\ Insert(priced, seen)
            /\ Becomes(Refresher, Done(r, r.found \cup priced))
            /\ faulted' = (faulted \/ priced # r.todo)
    BY <1>5 DEF BatchAnswered, r
  <2>2. priced = r.todo
    BY <2>1
  <2>3. call'[Refresher].at = "done"
    BY <1>1, <1>3, <2>1, DoneFields
  <2>4. priced \in SUBSET Tokens
    BY <1>1 DEF Call
  <2>5. Younger /\ \A t \in priced : cache'[t].age = 0
    BY <1>1, <2>1, <2>4, InsertYounger
  <2>6. ASSUME NEW t \in Refreshed \cap Cached'
        PROVE  cache'[t].age <= CacheTtl + Flight
    <3>1. CASE cache'[t].age = 0
      BY <1>2, <3>1
    <3>2. CASE t \in Cached /\ cache'[t] = cache[t] /\ t \notin r.todo
      <4>1. Allowed(r, t) = CacheTtl + r.since
        BY <2>1, <3>2 DEF Allowed
      <4>2. r.since \in Nat /\ r.since <= Flight
        BY <1>1, <2>1 DEF CallOK, Call
      <4>3. cache[t].age <= CacheTtl + r.since /\ cache[t].age \in Nat
        BY <1>1, <1>4, <3>2, <4>1
      <4> QED
        BY <1>2, <3>2, <4>2, <4>3
    <3> QED
      BY <2>2, <2>5, <3>1, <3>2 DEF Younger
  <2> QED
    BY <2>3, <2>6 DEF LoopOnTime, Allowed
<1>6. CASE Return(Refresher)
  <2>1. r.at = "done" /\ call'[Refresher] = Asleep /\ cache' = cache
    BY <1>3, <1>6 DEF Return, r
  <2>2. \A t \in Refreshed \cap Cached : cache[t].age <= CacheTtl + Flight /\ cache[t].age \in Nat
    BY <1>1, <1>4, <2>1 DEF Allowed
  <2>3. call'[Refresher].at = "sleep" /\ call'[Refresher].since = 0
    BY <2>1 DEF Asleep
  <2>4. CacheTtl + Flight + 0 = CacheTtl + Flight
    BY <1>2
  <2> QED
    BY <2>1, <2>2, <2>3, <2>4 DEF LoopOnTime, Allowed, Cached
<1>7. CASE ~(BatchAnswered(Refresher) \/ Return(Refresher))
  BY <1>1, <1>7 DEF Step, RequestAnswered, RequestFails, LastTryFails, RetryRequest,
                    BatchRefused, BatchUnreadable, NextToken, r
<1> QED
  BY <1>5, <1>6, <1>7

\* Time passes only while the loop waits, and its wait counts it.
LEMMA TickAge ==
  ASSUME Inv, LoopOnTime(call[Refresher]), signal = "open", ~faulted, Tick
  PROVE  LoopOnTime(call[Refresher])'
<1> DEFINE r == call[Refresher]
           n == [r EXCEPT !.since = @ + 1]
<1>1. /\ Refresher \in Tasks /\ CallOK(r, Refresher) /\ r \in Call
      /\ r.at \in {"sleep", "batch", "done"}
      /\ \A t \in Refreshed \cap Cached : cache[t].age <= Allowed(r, t)
  BY FetcherAssumption DEF Inv, CallsOK, Tasks, LoopOnTime
<1>2. r.at \in {"sleep", "batch"}
  <2>1. CanWait(Refresher)
    BY <1>1 DEF Tick
  <2> QED
    BY <1>1, <2>1 DEF CanWait
<1>3. call'[Refresher] = n
  BY <1>1, <1>2 DEF Tick, Counts
<1>4. n.at = r.at /\ n.todo = r.todo /\ n.since = r.since + 1 /\ r.since \in Nat
  BY <1>1 DEF Call
<1>5. CacheTtl \in Nat /\ Flight \in Nat /\ Nap \in Nat
  BY FetcherAssumption DEF CacheTtl
<1>6. Cached' \subseteq Cached /\ \A t \in Cached' : cache'[t] = Older(cache[t])
  BY DEF Tick, Cached
<1>7. \A e \in Entry : Older(e).age \in Nat /\ Older(e).age <= e.age + 1 /\ e.age \in Nat
  BY FetcherAssumption
     DEF Older, AtMost, Entry, MaxAge, RefreshBound, CacheTtl, MaxSeen
<1>8. \A t \in Cached : cache[t] \in Entry
  BY DEF Inv, CacheOK, Cached
<1> HIDE DEF r, n
<1>9. \A t : Allowed(n, t) = Allowed(r, t) + 1 /\ Allowed(r, t) \in Nat
  <2> TAKE t
  <2>1. Allowed(r, t) \in Nat
    BY <1>1, AllowedRange
  <2>2. CASE r.at = "sleep"
    BY <1>4, <1>5, <2>1, <2>2 DEF Allowed
  <2>3. CASE r.at = "batch" /\ t \in r.todo
    BY <1>4, <1>5, <2>1, <2>3 DEF Allowed
  <2>4. CASE r.at = "batch" /\ t \notin r.todo
    BY <1>4, <1>5, <2>1, <2>4 DEF Allowed
  <2> QED
    BY <1>2, <2>2, <2>3, <2>4
<1>10. ASSUME NEW t \in Refreshed \cap Cached'
       PROVE  cache'[t].age <= Allowed(n, t)
  <2>1. t \in Cached /\ cache[t] \in Entry /\ cache'[t] = Older(cache[t])
    BY <1>6, <1>8
  <2>2. cache'[t].age <= cache[t].age + 1 /\ cache[t].age <= Allowed(r, t)
        /\ cache[t].age \in Nat /\ cache'[t].age \in Nat
    BY <1>1, <1>7, <2>1
  <2> QED
    BY <1>9, <2>2
<1>11. \A t \in Refreshed \cap Cached' : cache'[t].age <= Allowed(call'[Refresher], t)
  BY <1>3, <1>10
<1> QED
  BY <1>2, <1>3, <1>4, <1>11 DEF LoopOnTime, Allowed

LEMMA AgeStep == Inv /\ AgeInv /\ [Next]_vars => AgeInv'
<1> SUFFICES ASSUME Inv, AgeInv, [Next]_vars PROVE AgeInv'
  OBVIOUS
<1>1. CASE \E c \in Callers :
             \/ \E t \in Tokens : StartPrice(c, t)
             \/ \E ts \in SUBSET Tokens : StartPrices(c, ts)
             \/ FallBack(c) \/ Step(c)
  BY <1>1, CallerAge
<1>2. CASE Step(Refresher)
  <2>1. signal' = signal /\ (~faulted' => ~faulted)
    BY <1>2, FlagsKept DEF Tasks
  <2> QED
    BY <1>2, <2>1, LoopStepAge DEF AgeInv
<1>3. CASE Refresh
  BY <1>3, RefreshAge DEF AgeInv, Refresh, StartPrices
<1>4. CASE LoopEnds \/ LoopSpins \/ SendShutdown \/ DropSender
  BY <1>4 DEF LoopEnds, LoopSpins, SendShutdown, DropSender, AgeInv
<1>5. CASE Tick
  BY <1>5, TickAge DEF AgeInv, Tick
<1>6. CASE UNCHANGED vars
  <2>1. Younger /\ call' = call /\ signal' = signal /\ faulted' = faulted
    BY <1>6, SameYounger DEF vars, Inv
  <2> QED
    BY <2>1, LoopKept DEF AgeInv
<1> QED
  BY <1>1, <1>2, <1>3, <1>4, <1>5, <1>6 DEF Next, LoopStep

\* While the endpoint answers and nobody shuts the loop down, no price that is
\* refreshed is older than a life and a half and two requests: for any time to
\* live, any time-out and any number of callers that fill the cache in between.
THEOREM RefreshBoundsAgeAlways == Spec => []RefreshBoundsAge
<1>1. Init => AgeInv
  BY DEF Init, AgeInv, LoopOnTime, Cached, Asleep, Tasks
<1>2. Inv /\ AgeInv => RefreshBoundsAge
  <2> SUFFICES ASSUME Inv, AgeInv, signal = "open", ~faulted,
                      NEW t \in Refreshed \cap Cached
               PROVE  cache[t].age <= RefreshBound
    BY DEF RefreshBoundsAge
  <2>1. CallOK(call[Refresher], Refresher)
    BY DEF Inv, CallsOK, Tasks
  <2>2. /\ Allowed(call[Refresher], t) \in Nat
        /\ Allowed(call[Refresher], t) <= RefreshBound
    BY <2>1, AllowedRange
  <2>3. cache[t].age <= Allowed(call[Refresher], t) /\ cache[t].age \in Nat
    BY DEF AgeInv, LoopOnTime, Inv, CacheOK, Cached, Entry
  <2>4. RefreshBound \in Nat
    BY FetcherAssumption DEF RefreshBound, CacheTtl
  <2> QED
    BY <2>2, <2>3, <2>4
<1> QED
  BY <1>1, <1>2, InitInv, StepInv, AgeStep, PTL DEF Spec
=============================================================================
