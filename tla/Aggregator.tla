------------------------------ MODULE Aggregator ------------------------------
(***************************************************************************)
(* Concurrent calls of Aggregator.Search over one result cache             *)
(* (internal/aggregator).  A request is one call: it answers from the      *)
(* cache, or asks every provider in a goroutine of its own, waits for all  *)
(* of them, collects, filters and merges what they returned, stores the    *)
(* answer and returns it.                                                  *)
(*                                                                         *)
(* A text a caller gives is a sequence of symbols, its case already folded *)
(* as the handlers and Key do; a symbol stands for a character other than  *)
(* the separator, for a run of such characters, or for the separator.      *)
(*                                                                         *)
(* A flight stands for a dedupe key (number, airports and departure time), *)
(* so its route (origin, destination and local date) is a function of it.  *)
(* A quote is one provider's offer of a flight; the instant the provider   *)
(* answered stands for the price it had then.                              *)
(***************************************************************************)
EXTENDS ResultCache, FiniteSets, Sequences

CONSTANTS
  Requests,         \* the calls of Search, each made at most once
  Impatient,        \* bound: the requests whose client may disconnect
  Symbols,          \* what texts are made of
  Bar,              \* the symbol "|" that separates the fields of a key
  Asked,            \* what callers may ask for
  Flights,
  FlightRoute,      \* the route each flight flies
  Providers,
  Offered,          \* what each provider may answer: sets of flights, whatever
                    \* the route asked for
  ProviderTimeout,  \* PROVIDER_TIMEOUT_MS, in ticks
  MaxTime           \* bound: the clock stops there once no search is under way

Texts == Seq(Symbols)

\* The handlers check the date and the number of passengers, so neither holds
\* a separator; of the other fields they only ask that they are not empty.
Params == [origin : Texts, destination : Texts, date : Symbols \ {Bar}, class : Texts,
           passengers : Symbols \ {Bar}, bypass : BOOLEAN]

Route(p) == <<p.origin, p.destination, p.date>>
Routes == Texts \X Texts \X Symbols

ASSUME AggregatorAssumption ==
  /\ Bar \in Symbols
  /\ Asked \subseteq Params
  /\ FlightRoute \in [Flights -> Routes]
  /\ Offered \in [Providers -> SUBSET SUBSET Flights]
  /\ ProviderTimeout \in Nat
  /\ MaxTime \in Nat

VARIABLES
  params,     \* request -> what it asks for
  pc,         \* request -> "idle", "searching" or "done"
  start,      \* request -> when it began
  outcome,    \* request -> provider -> the slot of results[] it fills
  cancelled,  \* request -> whether its caller's context is cancelled
  answer,     \* request -> the flights and metadata returned
  hit,        \* request -> metadata.cache_hit
  doneAt      \* request -> when it returned

reqVars == <<params, pc, start, outcome, cancelled, answer, hit, doneAt>>
vars == <<clock, items, sweepNow,
          params, pc, start, outcome, cancelled, answer, hit, doneAt>>

\* How a provider's Search can fail: by itself (retries exhausted, malformed
\* JSON, an error code), at the deadline, or because the caller has gone.
Faults == {"fault", "deadline", "canceled"}

Quotes == [flight : Flights, provider : Providers, at : Nat]
Outcomes == [status : {"pending", "ok"} \cup Faults, flights : SUBSET Flights, at : Nat]
Answers == [flights : SUBSET SUBSET Quotes,
            errors : SUBSET [provider : Providers, kind : Faults]]

Pending == [status |-> "pending", flights |-> {}, at |-> 0]
Failed(kind) == [status |-> kind, flights |-> {}, at |-> 0]
NoAnswer == [flights |-> {}, errors |-> {}]
-----------------------------------------------------------------------------
\* Pure parts of Search.

\* Wrong on purpose: the key leaves the date out.
KeyWithoutDate(p) ==
  p.origin \o <<Bar>> \o p.destination \o <<Bar>> \o p.class \o <<Bar, p.passengers>>

\* The fields are joined as they are: a separator within one is not escaped.
CacheKey(p) ==
  p.origin \o <<Bar>> \o p.destination \o <<Bar, p.date, Bar>>
    \o p.class \o <<Bar, p.passengers>>

ASSUME KeysAssumption == Keys = {CacheKey(p) : p \in Asked}

\* Wrong on purpose: one failed provider makes the whole search fail.
CollectAllOrNothing(o) ==
  IF \E p \in Providers : o[p].status # "ok" THEN {}
  ELSE UNION {{[flight |-> f, provider |-> p, at |-> o[p].at] : f \in o[p].flights} :
                p \in Providers}

\* The loop over results[]: a provider that failed adds an error, no flights.
Collect(o) ==
  UNION {{[flight |-> f, provider |-> p, at |-> o[p].at] : f \in o[p].flights} :
           p \in {x \in Providers : o[x].status = "ok"}}

\* Wrong on purpose: an entry for every provider, failed or not.
ErrorsOfAll(o) == {[provider |-> p, kind |-> o[p].status] : p \in Providers}

Errors(o) ==
  {[provider |-> p, kind |-> o[p].status] : p \in {x \in Providers : o[x].status \in Faults}}

MatchesCriteria(q, p) == FlightRoute[q.flight] = Route(p)

FilterByCriteria(quotes, p) == {q \in quotes : MatchesCriteria(q, p)}

\* One displayed entry per flight, with every quote of it attached; which of
\* them is displayed is a function of the group.
MergeDuplicates(quotes) == {{q \in quotes : q.flight = f} : f \in {q.flight : q \in quotes}}

AnswerOf(o, p) ==
  [flights |-> MergeDuplicates(FilterByCriteria(Collect(o), p)), errors |-> Errors(o)]
-----------------------------------------------------------------------------
Init ==
  /\ CacheInit
  /\ params \in [Requests -> Asked]
  /\ pc = [r \in Requests |-> "idle"]
  /\ start = [r \in Requests |-> 0]
  /\ outcome = [r \in Requests |-> [p \in Providers |-> Pending]]
  /\ cancelled = [r \in Requests |-> FALSE]
  /\ answer = [r \in Requests |-> NoAnswer]
  /\ hit = [r \in Requests |-> FALSE]
  /\ doneAt = [r \in Requests |-> 0]

\* The call returns what Get found.
SearchHit(r) ==
  LET k == CacheKey(params[r])
  IN  /\ pc[r] = "idle"
      /\ ~params[r].bypass
      /\ Live(k)
      /\ pc' = [pc EXCEPT ![r] = "done"]
      /\ start' = [start EXCEPT ![r] = clock]
      /\ answer' = [answer EXCEPT ![r] = items[k].answer]
      /\ hit' = [hit EXCEPT ![r] = TRUE]
      /\ doneAt' = [doneAt EXCEPT ![r] = clock]
      /\ UNCHANGED <<clock, items, sweepNow, params, outcome, cancelled>>

\* The cache is bypassed or has nothing live: one goroutine per provider.
SearchMiss(r) ==
  /\ pc[r] = "idle"
  /\ params[r].bypass \/ ~Live(CacheKey(params[r]))
  /\ pc' = [pc EXCEPT ![r] = "searching"]
  /\ start' = [start EXCEPT ![r] = clock]
  /\ UNCHANGED <<clock, items, sweepNow, params, outcome, cancelled, answer, hit, doneAt>>

\* A goroutine stores what its provider returned in its own slot.
Resolves(r, p, result) ==
  /\ pc[r] = "searching"
  /\ outcome[r][p].status = "pending"
  /\ outcome' = [outcome EXCEPT ![r][p] = result]
  /\ UNCHANGED <<clock, items, sweepNow, params, pc, start, cancelled, answer, hit, doneAt>>

ProviderAnswers(r, p) ==
  \E fs \in Offered[p] : Resolves(r, p, [status |-> "ok", flights |-> fs, at |-> clock])

ProviderFails(r, p) ==
  Resolves(r, p, Failed("fault"))

\* Wrong on purpose: the goroutine has no timeout, only its caller's context.
NoTimeout(r, p) == cancelled[r] /\ Resolves(r, p, Failed("deadline"))

\* The goroutine's own context.WithTimeout has run out.
ProviderTimesOut(r, p) ==
  /\ clock >= start[r] + ProviderTimeout
  /\ Resolves(r, p, Failed("deadline"))

\* The goroutine's context derives from the caller's, which is cancelled.
ProviderCancelled(r, p) ==
  /\ cancelled[r]
  /\ Resolves(r, p, Failed("canceled"))

\* The client goes away: net/http cancels the request's context.  Search
\* itself never looks at it.
Disconnect(r) ==
  /\ r \in Impatient
  /\ pc[r] = "searching"
  /\ ~cancelled[r]
  /\ cancelled' = [cancelled EXCEPT ![r] = TRUE]
  /\ UNCHANGED <<clock, items, sweepNow, params, pc, start, outcome, answer, hit, doneAt>>

\* Wrong on purpose: a refresh answers its caller and stores nothing.
FinishStoringNoRefresh(r) ==
  /\ pc[r] = "searching"
  /\ \A p \in Providers : outcome[r][p].status # "pending"
  /\ IF params[r].bypass THEN UNCHANGED <<clock, items, sweepNow>>
     ELSE Set(CacheKey(params[r]), AnswerOf(outcome[r], params[r]))
  /\ pc' = [pc EXCEPT ![r] = "done"]
  /\ answer' = [answer EXCEPT ![r] = AnswerOf(outcome[r], params[r])]
  /\ doneAt' = [doneAt EXCEPT ![r] = clock]
  /\ UNCHANGED <<params, start, outcome, cancelled, hit>>

\* wg.Wait returns; the rest of Search is local up to the Set that ends it.
Finish(r) ==
  /\ pc[r] = "searching"
  /\ \A p \in Providers : outcome[r][p].status # "pending"
  /\ Set(CacheKey(params[r]), AnswerOf(outcome[r], params[r]))
  /\ pc' = [pc EXCEPT ![r] = "done"]
  /\ answer' = [answer EXCEPT ![r] = AnswerOf(outcome[r], params[r])]
  /\ doneAt' = [doneAt EXCEPT ![r] = clock]
  /\ UNCHANGED <<params, start, outcome, cancelled, hit>>

Janitor == (PurgeStarts \/ PurgeSweeps) /\ UNCHANGED reqVars

\* Providers honour their context: no time passes beyond the deadline of a
\* search that is still under way.
TimePasses ==
  /\ \A r \in Requests : pc[r] = "searching" => clock < start[r] + ProviderTimeout
  /\ clock' = clock + 1
  /\ UNCHANGED <<items, sweepNow>>
  /\ UNCHANGED reqVars

Tick ==
  /\ clock < MaxTime \/ \E r \in Requests : pc[r] = "searching"
  /\ TimePasses

RequestStep(r) ==
  \/ SearchHit(r) \/ SearchMiss(r) \/ Disconnect(r) \/ Finish(r)
  \/ \E p \in Providers :
       \/ ProviderAnswers(r, p) \/ ProviderFails(r, p)
       \/ ProviderTimesOut(r, p) \/ ProviderCancelled(r, p)

Next == (\E r \in Requests : RequestStep(r)) \/ Janitor \/ Tick

Spec == Init /\ [][Next]_vars
-----------------------------------------------------------------------------
\* Every variable has its type.
TypeOK ==
  /\ clock \in Nat
  /\ DOMAIN items \subseteq Keys
  /\ \A k \in DOMAIN items : items[k] \in [answer : Answers, expiresAt : Nat]
  /\ sweepNow \in Nat \cup {Idle}
  /\ params \in [Requests -> Asked]
  /\ pc \in [Requests -> {"idle", "searching", "done"}]
  /\ start \in [Requests -> Nat]
  /\ outcome \in [Requests -> [Providers -> Outcomes]]
  /\ cancelled \in [Requests -> BOOLEAN]
  /\ answer \in [Requests -> Answers]
  /\ hit \in [Requests -> BOOLEAN]
  /\ doneAt \in [Requests -> Nat]
-----------------------------------------------------------------------------
Quoted(r) == UNION answer[r].flights

SameSearch(r, s) == CacheKey(params[r]) = CacheKey(params[s])

\* None of the fields that the handlers leave unchecked holds a separator.
Plain(p) == \A text \in {p.origin, p.destination, p.class} : Bar \notin Range(text)

\* A caller whose own fields hold no separator only sees flights of the route
\* and date asked for, fresh or from the cache, whatever fields others ask with:
\* no key of theirs, however it is joined, is taken for the caller's unless
\* all that the criteria filter looks at is the same
\* (cache.go:27-33, criteria.go:9-20).
ServedMatchRoute ==
  \A r \in Requests : Plain(params[r]) =>
    \A q \in Quoted(r) : FlightRoute[q.flight] = Route(params[r])

\* No price shown is older than the TTL and one provider timeout: what is
\* stored was asked for at most a timeout before it was stored, and no entry
\* is read after its TTL (aggregator.go:31-52, cache.go:39, 51).
StalenessBounded ==
  \A r \in Requests : pc[r] = "done" =>
    \A q \in Quoted(r) : q.at + ProviderTimeout + TTL >= doneAt[r]

\* Once a search has returned, nobody who asks later for the same thing is
\* shown a price that is older than that return by more than one provider
\* timeout: a slower search may replace the stored answer by its own, but not
\* by one that began before the timeout (aggregator.go:31-52, 79).
RefreshBoundsAge ==
  \A r, s \in Requests :
    (/\ pc[r] = "done" /\ ~hit[r]
     /\ pc[s] = "done" /\ start[s] > doneAt[r]
     /\ SameSearch(r, s)) =>
       \A q \in Quoted(s) : q.at + ProviderTimeout >= doneAt[r]

\* Nothing of what the providers returned, the slots o, is lost in the answer
\* ans to p: a provider that failed is named with how it failed, and every
\* flight on the route that one of the others offered is quoted, in exactly one
\* entry, which holds all the quotes of that flight and of no other.
AllAccounted(o, p, ans) ==
  /\ \A x \in Providers :
       IF o[x].status = "ok"
       THEN \A f \in o[x].flights : FlightRoute[f] = Route(p) =>
              [flight |-> f, provider |-> x, at |-> o[x].at] \in UNION ans.flights
       ELSE [provider |-> x, kind |-> o[x].status] \in ans.errors
  /\ \A f \in Flights :
       Cardinality({g \in ans.flights : \E q \in g : q.flight = f}) <= 1
  /\ \A g \in ans.flights : \A q1, q2 \in g : q1.flight = q2.flight

Accounted(r) == AllAccounted(outcome[r], params[r], answer[r])

\* Every response is, whole and unchanged, the result of one search of the
\* same key that returned at most a TTL earlier, with every provider of that
\* search accounted for: flights and error metadata of different searches are
\* never mixed by the cache (aggregator.go:33-37, 54-80).
AnswersComeFromASearch ==
  \A s \in Requests : pc[s] = "done" =>
    \E r \in Requests :
      /\ pc[r] = "done" /\ ~hit[r] /\ SameSearch(r, s)
      /\ doneAt[r] <= doneAt[s] /\ doneAt[s] <= doneAt[r] + TTL
      /\ answer[s] = answer[r]
      /\ Accounted(r)

\* What keeps the freshness and the route of every answer right, part by part.
\* A search under way is within its timeout.
OnTime ==
  \A r \in Requests :
    /\ start[r] <= clock
    /\ pc[r] = "searching" => clock <= start[r] + ProviderTimeout

\* A slot is filled while its search runs, so not before that search began.
SlotsInTime ==
  \A r \in Requests, p \in Providers :
    outcome[r][p].status = "ok" =>
      /\ pc[r] # "idle"
      /\ start[r] <= outcome[r][p].at

\* What is stored was quoted at most a timeout before it was stored.
StoredInTime ==
  \A k \in DOMAIN items : \A q \in UNION items[k].answer.flights :
    q.at + ProviderTimeout + TTL >= items[k].expiresAt

\* It flies the route of something that has the key it is stored under.
StoredOnRoute ==
  \A k \in DOMAIN items : \A q \in UNION items[k].answer.flights :
    \E p \in Asked : CacheKey(p) = k /\ FlightRoute[q.flight] = Route(p)

\* Nor long before the last search of that key returned, whichever it was.
StoredSinceRefresh ==
  \A r \in Requests : \A k \in DOMAIN items :
    (pc[r] = "done" /\ ~hit[r] /\ k = CacheKey(params[r])) =>
      \A q \in UNION items[k].answer.flights : q.at + ProviderTimeout >= doneAt[r]

\* Every request that is done has returned at a moment after its start, and
\* one that is not has no answer yet.
DoneInTime ==
  \A r \in Requests :
    /\ pc[r] = "done" => start[r] <= doneAt[r] /\ doneAt[r] <= clock
    /\ pc[r] # "done" => answer[r] = NoAnswer

FreshnessInv ==
  /\ TypeOK
  /\ OnTime
  /\ SlotsInTime
  /\ StoredInTime
  /\ StoredOnRoute
  /\ StoredSinceRefresh
  /\ DoneInTime
  /\ ServedMatchRoute
  /\ StalenessBounded
  /\ RefreshBoundsAge

\* What is stored was returned by a search of that key, to the letter, and
\* expires a TTL after that search returned.
StoredBySearch ==
  \A k \in DOMAIN items : \E r \in Requests :
    /\ pc[r] = "done" /\ ~hit[r] /\ CacheKey(params[r]) = k
    /\ items[k] = [answer |-> answer[r], expiresAt |-> doneAt[r] + TTL]

\* A request is a hit only when it is done, no purge reads a clock ahead of
\* time, and every search that returned has accounted for its providers.
SearchesAccounted ==
  \A r \in Requests :
    /\ hit[r] => pc[r] = "done"
    /\ pc[r] = "done" => doneAt[r] <= clock
    /\ (pc[r] = "done" /\ ~hit[r]) => Accounted(r)

SweepInPast == sweepNow <= clock

ProvenanceInv ==
  /\ TypeOK
  /\ StoredBySearch
  /\ SearchesAccounted
  /\ SweepInPast
  /\ AnswersComeFromASearch

\* The searches, their goroutines and the janitor implement the read-through
\* store of ReadThrough: a non-refreshing request goes to the providers only
\* when nothing live is stored, a search stores exactly what it returns, and
\* the janitor never removes anything a request could still have been served.
Abstract == INSTANCE ReadThrough WITH
  now <- clock,
  store <- LiveItems,
  params <- [r \in Requests |-> [key |-> CacheKey(params[r]), bypass |-> params[r].bypass]]

ImplementsReadThrough == Abstract!Spec
-----------------------------------------------------------------------------
\* README.md:53 on refresh: "re-query providers, refreshing the cache".  After
\* a refresh has returned, later requests for the same thing would see nothing
\* older than the moment that refresh began.
RefreshSticks ==
  \A r, s \in Requests :
    (/\ pc[r] = "done" /\ params[r].bypass
     /\ pc[s] = "done" /\ start[s] > doneAt[r]
     /\ SameSearch(r, s)) =>
       \A q \in Quoted(s) : q.at >= start[r]

\* README.md:340-341: the cache holds a result set "per (origin, destination,
\* date, cabin_class, passengers) key".  Whatever its fields hold, a request
\* would then only see flights of its own route and date.
ServedOwnRoute ==
  \A r \in Requests : \A q \in Quoted(r) : FlightRoute[q.flight] = Route(params[r])

\* README.md:296-300: provider_errors records "a provider whose retries are
\* exhausted, times out, or returns malformed JSON".  A request whose client
\* is still there would only be shown errors of those kinds.
ServedErrorsAreProviderFaults ==
  \A r \in Requests : ~cancelled[r] =>
    \A e \in answer[r].errors : e.kind \in {"fault", "deadline"}
==============================================================================
