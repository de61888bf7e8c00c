---------------------------- MODULE PriceFetcher ----------------------------
(***************************************************************************)
(* price_fetcher.rs: prices of CoinGecko behind a cache with a time to     *)
(* live, asked for one by one or in a batch, by concurrent callers and by  *)
(* the task of start_refresh_loop.                                         *)
(*                                                                         *)
(* A step of a call ends where it awaits the endpoint or sleeps.  A price  *)
(* is known by when the endpoint held it; time is counted in ticks of the  *)
(* time-out of a request.  The pauses between two attempts or two tokens   *)
(* are far shorter than a tick: they end sooner or later.  The counters of *)
(* PriceFetcherMetrics decide nothing and are left out.                    *)
(***************************************************************************)
EXTENDS Naturals, FiniteSets

CONSTANTS
    Callers,     \* the tasks that ask for prices
    Refresher,   \* the task of start_refresh_loop
    Tokens,      \* CoinGecko ids
    Refreshed,   \* the tokens of the refresh loop
    MaxRetries,  \* attempts for one token; the callers pass 3
    Flight,      \* the time-out of a request, in ticks
    Nap,         \* half the time to live, in ticks: the refresh interval
    None         \* no entry, no token

ASSUME FetcherAssumption ==
    /\ Refresher \notin Callers
    /\ Refreshed \subseteq Tokens /\ Refreshed # {}
    /\ None \notin Tokens /\ None \notin [age : Nat, seen : Nat]
    /\ {MaxRetries, Flight, Nap} \subseteq Nat \ {0}

CacheTtl == 2 * Nap
Tasks == Callers \cup {Refresher}

\* How old the refresh loop lets a cached price become.
RefreshBound == CacheTtl + Nap + 2 * Flight

VARIABLES
    cache,    \* of each token: when the price was put there, and how old it is; or None
    call,     \* the call each task is in
    signal,   \* the watch channel of the shutdown: "open", "sent" or "dropped"
    faulted   \* history: a request got no answer, an error, or not every price

vars == <<cache, call, signal, faulted>>

\* Bounds: ages beyond these are not told apart, since no property does.
MaxAge == IF signal = "open" /\ ~faulted THEN RefreshBound + 1 ELSE CacheTtl + 1
MaxSeen == CacheTtl + Flight + 1

Entry == [age : 0 .. RefreshBound + 1, seen : 0 .. MaxSeen]

\* What a task has under way: the operation, the tokens it is about, those left
\* to ask for, the one being asked for and how often it was, since when the task
\* sleeps or waits, and what the call has found.  known is history: the tokens
\* that were cached when it began.
Call == [op : {"none", "price", "fallback", "prices", "each"},
         at : {"sleep", "request", "backoff", "batch", "pause", "done", "ended"},
         asked : SUBSET Tokens, todo : SUBSET Tokens, token : Tokens \cup {None},
         tries : 0 .. MaxRetries, since : 0 .. Flight + Nap,
         found : SUBSET Tokens, known : SUBSET Tokens]

Asleep == [op |-> "none", at |-> "sleep", asked |-> {}, todo |-> {}, token |-> None,
           tries |-> 0, since |-> 0, found |-> {}, known |-> {}]

Cached == {t \in Tokens : cache[t] # None}

\* !is_expired(cache_ttl).
Fresh == {t \in Cached : cache[t].age <= CacheTtl}

Init ==
    /\ cache = [t \in Tokens |-> None]
    /\ call = [c \in Tasks |-> Asleep]
    /\ signal = "open"
    /\ faulted = FALSE

Becomes(c, new) == call' = [call EXCEPT ![c] = new]

Insert(ts, seen) ==
    cache' = [t \in Tokens |-> IF t \in ts THEN [age |-> 0, seen |-> seen] ELSE cache[t]]

\* A request for one token goes out, for the n-th time.
Requesting(old, t, n) ==
    [old EXCEPT !.at = "request", !.token = t, !.tries = n, !.since = 0]

Done(old, found) ==
    [old EXCEPT !.at = "done", !.found = found, !.todo = {}, !.token = None,
                !.tries = 0, !.since = 0]

\* Between two individual requests.
Paused(old, prices) ==
    [old EXCEPT !.at = "pause", !.since = 0, !.found = @ \cup prices]

-----------------------------------------------------------------------------
(* The beginning of a call looks at the cache. *)

\* fetch_price, also when get_price_with_fallback calls it.
StartPrice(c, t) ==
    /\ call[c].at = "sleep"
    /\ LET begun == [Asleep EXCEPT !.op = "price", !.asked = {t}, !.known = {t} \cap Cached] IN
       Becomes(c, IF t \in Fresh THEN Done(begun, {t}) ELSE Requesting(begun, t, 1))
    /\ UNCHANGED <<cache, signal, faulted>>

\* fetch_prices asks for the tokens the cache cannot answer, in one batch.
Prices(c, ts) ==
    LET hits == ts \cap Fresh
        begun == [Asleep EXCEPT !.op = "prices", !.asked = ts, !.todo = ts \ hits,
                                !.known = ts \cap Cached, !.found = hits]
    IN  Becomes(c, IF hits = ts THEN Done(begun, hits) ELSE [begun EXCEPT !.at = "batch"])

StartPrices(c, ts) ==
    /\ call[c].at = "sleep"
    /\ Prices(c, ts)
    /\ UNCHANGED <<cache, signal, faulted>>

-----------------------------------------------------------------------------
(* A request for one token: fetch_with_retry. *)

\* The price for the caller: the cache of fetch_price keeps it, but not that of
\* fetch_prices_individually.
RequestAnswered(c) ==
    /\ call[c].at = "request"
    /\ \E seen \in 0 .. call[c].since :
          IF call[c].op = "each" THEN UNCHANGED cache ELSE Insert({call[c].token}, seen)
    /\ Becomes(c, IF call[c].op = "each"
                  THEN Paused(call[c], {call[c].token})
                  ELSE Done(call[c], {call[c].token}))
    /\ UNCHANGED <<signal, faulted>>

\* No connection, no answer in time, an error status, a body that does not parse
\* or lacks the token; all are tried again.
RequestFails(c) ==
    /\ call[c].at = "request"
    /\ call[c].tries < MaxRetries
    /\ Becomes(c, [call[c] EXCEPT !.at = "backoff", !.since = 0])
    /\ faulted' = TRUE
    /\ UNCHANGED <<cache, signal>>

RetryRequest(c) ==
    /\ call[c].at = "backoff"
    /\ Becomes(c, Requesting(call[c], call[c].token, call[c].tries + 1))
    /\ UNCHANGED <<cache, signal, faulted>>

\* Mutant: the stale price returned is cached as a new one.
LastTryFails_Restamps(c) ==
    /\ call[c].at = "request"
    /\ call[c].tries = MaxRetries
    /\ LET stale == {call[c].token} \cap Cached IN
       IF call[c].op = "each"
       THEN /\ Becomes(c, Paused(call[c], stale))
            /\ \A t \in stale : Insert(stale, cache[t].seen)
            /\ stale = {} => UNCHANGED cache
       ELSE Becomes(c, Done(call[c], {})) /\ UNCHANGED cache
    /\ faulted' = TRUE
    /\ UNCHANGED signal

\* After the last attempt fetch_prices_individually takes a price from the cache,
\* however old; fetch_price has none.
LastTryFails(c) ==
    /\ call[c].at = "request"
    /\ call[c].tries = MaxRetries
    /\ Becomes(c, IF call[c].op = "each"
                  THEN Paused(call[c], {call[c].token} \cap Cached)
                  ELSE Done(call[c], {}))
    /\ faulted' = TRUE
    /\ UNCHANGED <<cache, signal>>

\* Mutant: the price in the cache only counts if it has not expired.
FallBack_FreshOnly(c) ==
    /\ call[c].at = "done" /\ call[c].op = "price" /\ call[c].found = {}
    /\ Becomes(c, Done([call[c] EXCEPT !.op = "fallback"], call[c].asked \cap Fresh))
    /\ UNCHANGED <<cache, signal, faulted>>

\* get_price_with_fallback looks at the cache when fetch_price has returned an error.
FallBack(c) ==
    /\ call[c].at = "done" /\ call[c].op = "price" /\ call[c].found = {}
    /\ Becomes(c, Done([call[c] EXCEPT !.op = "fallback"], call[c].asked \cap Cached))
    /\ UNCHANGED <<cache, signal, faulted>>

-----------------------------------------------------------------------------
(* The batch, and the individual requests when it is refused. *)

\* The response has a price for some or all of the tokens asked for.
BatchAnswered(c) ==
    /\ call[c].at = "batch"
    /\ \E priced \in SUBSET call[c].todo :
          /\ \E seen \in 0 .. call[c].since : Insert(priced, seen)
          /\ Becomes(c, Done(call[c], call[c].found \cup priced))
          /\ faulted' = (faulted \/ priced # call[c].todo)
    /\ UNCHANGED signal

\* No connection or an error status: the call goes on as
\* fetch_prices_individually(to_fetch), and what the cache had is left behind.
BatchRefused(c) ==
    /\ call[c].at = "batch"
    /\ \E t \in call[c].todo :
          Becomes(c, Requesting([call[c] EXCEPT !.op = "each", !.asked = call[c].todo,
                                                !.known = @ \cap call[c].todo,
                                                !.found = {}], t, 1))
    /\ faulted' = TRUE
    /\ UNCHANGED <<cache, signal>>

\* A body that cannot be read or parsed is an error of the whole call.
BatchUnreadable(c) ==
    /\ call[c].at = "batch"
    /\ Becomes(c, Done(call[c], {}))
    /\ faulted' = TRUE
    /\ UNCHANGED <<cache, signal>>

\* The next token after a pause, in any order of the caller's.
NextToken(c) ==
    /\ call[c].at = "pause"
    /\ LET left == call[c].todo \ {call[c].token} IN
       \/ left = {} /\ Becomes(c, Done(call[c], call[c].found))
       \/ \E t \in left : Becomes(c, Requesting([call[c] EXCEPT !.todo = left], t, 1))
    /\ UNCHANGED <<cache, signal, faulted>>

\* The refresh loop logs its result and sleeps again.
Return(c) ==
    /\ call[c].at = "done"
    /\ Becomes(c, Asleep)
    /\ UNCHANGED <<cache, signal, faulted>>

-----------------------------------------------------------------------------
(* The refresh loop. *)

\* Mutant: the loop sleeps as long as a price lives.
NapIsOver_Full == call[Refresher].since = CacheTtl

NapIsOver == call[Refresher].since = Nap

Refresh ==
    /\ NapIsOver
    /\ StartPrices(Refresher, Refreshed)

\* Mutant: the value of the signal is not looked at.
LoopEnds_Ignores ==
    /\ call[Refresher].at = "sleep"
    /\ signal = "sent"
    /\ Becomes(Refresher, Asleep)
    /\ UNCHANGED <<cache, signal, faulted>>

LoopEnds ==
    /\ call[Refresher].at = "sleep"
    /\ signal = "sent"
    /\ Becomes(Refresher, [Asleep EXCEPT !.at = "ended"])
    /\ UNCHANGED <<cache, signal, faulted>>

\* Without a sender changed() is ready at once, every time: select! begins a new
\* sleep with every round, and none of them gets to its end.
LoopSpins ==
    /\ call[Refresher].at = "sleep"
    /\ signal = "dropped"
    /\ Becomes(Refresher, Asleep)
    /\ UNCHANGED <<cache, signal, faulted>>

\* The owner of the sender shuts the loop down, or forgets about it.
SendShutdown ==
    /\ signal = "open"
    /\ signal' = "sent"
    /\ UNCHANGED <<cache, call, faulted>>

DropSender ==
    /\ signal = "open"
    /\ signal' = "dropped"
    /\ UNCHANGED <<cache, call, faulted>>

-----------------------------------------------------------------------------
(* Time. *)

AtMost(n, bound) == IF n < bound THEN n ELSE bound

Older(entry) ==
    [age |-> AtMost(entry.age + 1, MaxAge), seen |-> AtMost(entry.seen + 1, MaxSeen)]

\* A request ends by its time-out, and a task that can go on does not wait for
\* the next tick.
CanWait(c) ==
    CASE call[c].at \in {"request", "batch"} -> call[c].since < Flight
      [] c = Refresher /\ call[c].at = "sleep" -> signal # "sent" /\ ~NapIsOver
      [] OTHER -> call[c].at # "done"

Counts(c) ==
    \/ call[c].at \in {"request", "batch"}
    \/ c = Refresher /\ call[c].at = "sleep" /\ signal = "open"

Tick ==
    /\ \A c \in Tasks : CanWait(c)
    /\ cache' = [t \in Tokens |-> IF t \in Cached THEN Older(cache[t]) ELSE None]
    /\ call' = [c \in Tasks |-> IF Counts(c) THEN [call[c] EXCEPT !.since = @ + 1] ELSE call[c]]
    /\ UNCHANGED <<signal, faulted>>

-----------------------------------------------------------------------------
Step(c) ==
    \/ RequestAnswered(c) \/ RequestFails(c) \/ LastTryFails(c) \/ RetryRequest(c)
    \/ BatchAnswered(c) \/ BatchRefused(c) \/ BatchUnreadable(c) \/ NextToken(c)
    \/ Return(c)

LoopStep == Step(Refresher) \/ Refresh \/ LoopEnds \/ LoopSpins

Next ==
    \/ \E c \in Callers :
          \/ \E t \in Tokens : StartPrice(c, t)
          \/ \E ts \in SUBSET Tokens : StartPrices(c, ts)
          \/ FallBack(c) \/ Step(c)
    \/ LoopStep
    \/ SendShutdown \/ DropSender
    \/ Tick

Spec == Init /\ [][Next]_vars

\* A request is answered or times out, a sleep comes to its end, and the runtime
\* runs the task then; nobody has to ask for a price or to shut down.
FairSpec == Spec /\ WF_vars(LoopStep) /\ \A c \in Callers : WF_vars(Step(c))

-----------------------------------------------------------------------------
(* Properties. *)

\* A call is about the tokens it was asked for, wherever it is.
TypeOK ==
    /\ cache \in [Tokens -> Entry \cup {None}]
    /\ call \in [Tasks -> Call]
    /\ \A c \in Tasks :
          /\ call[c].found \cup call[c].todo \cup call[c].known \subseteq call[c].asked
          /\ call[c].at \in {"request", "backoff", "pause"} => call[c].token \in call[c].asked
          /\ call[c].at = "ended" => c = Refresher
    /\ signal \in {"open", "sent", "dropped"}
    /\ faulted \in BOOLEAN

\* A price that counts as fresh was the endpoint's at most the time to live and
\* one request ago: neither retries, nor the individual requests, nor the prices
\* returned from an old entry make an old price look new.
FreshIsRecent == \A t \in Fresh : cache[t].seen <= CacheTtl + Flight

\* While the endpoint answers, the loop refreshes what it is told to, although it
\* passes over every price that has not expired yet: it may find one just before
\* it expires and come back half a life later, twice kept waiting by a request.
RefreshBoundsAge ==
    signal = "open" /\ ~faulted =>
        \A t \in Refreshed \cap Cached : cache[t].age <= RefreshBound

\* What a call returns: everything, as long as the endpoint answers; and every
\* token of the call that has ever had a price, where the code falls back on it.
AnswersWhatItCan ==
    \A c \in Tasks : call[c].at = "done" =>
        /\ ~faulted => call[c].found = call[c].asked
        /\ call[c].op \in {"fallback", "each"} =>
              call[c].known \cap call[c].asked \subseteq call[c].found

\* Once the shutdown is sent the loop ends, also in the middle of a refresh whose
\* every request fails.
ShutdownEndsLoop == signal = "sent" ~> call[Refresher].at = "ended"
=============================================================================
