# Flight search: models, checks and proofs

A TLA+ development kept beside the flight-search service (Go, `src/`). The
service answers `GET` searches by asking four airline APIs at once; it
normalises, merges, filters, scores and sorts what they return, and keeps
results for a short while. This directory says what the moving parts do when
several of them move together, checks it with TLC on small instances, and
proves the most important parts for every instance with TLAPS.

## 1. The system

A request flows down and its result back up:

    HTTP client
      -> connection, until a signal           (cmd/server/main.go)
      -> router, recover, search handler      (internal/httpserver, internal/handlers)
           one goroutine per leg: one-way 1, round trip 2, multi-city up to 6
      -> Aggregator.Search                    (internal/aggregator)
           Get / Set on the result cache      (internal/cache, + janitor goroutine)
           one goroutine per provider, context.WithTimeout each, wg.Wait
      -> provider adapter                     (internal/providers/*.go)
      -> resilientClient.fetchJSON            (internal/providers/http.go)
           retry.Do( limiter.Wait ; one HTTP attempt )
                                              (internal/retry, internal/ratelimit)
      <- flights: criteria filter, merge      (internal/aggregator)
      <- filter, score, sort                  (internal/filter, ranking, sortutil)
      <- estimates, combined metadata         (internal/handlers)

| Component | State it keeps | Operations | Hard part | Correct when |
|---|---|---|---|---|
| Result cache | map key -> (result, expiry) under a RWMutex | `Get`, `Set`, `Purge`, janitor ticker | the clock is read outside or inside the lock; expiry races with searches | nothing expired is served, nothing live is removed, memory is reclaimed |
| Aggregator | `results[]`, one slot per provider, per call | `Search`, `filterByCriteria`, `mergeDuplicates` | concurrent calls of one key, partial failure, timeout, client that leaves, slow search against refresh | every answer is one search of the right route, not too old, with every provider accounted for |
| Rate limiter | tokens, last refill under a mutex | `Wait`, `reserve` | unqueued waiters, float and nanosecond truncation | rate and burst hold in every window, no token idles |
| Retry + HTTP client | attempt, last error; the decoded value | `Do`, `backoffDelay`, `fetchJSON` | classes of errors in two packages, two timeouts, shift overflow, limiter inside the loop | only transient failures are retried, every attempt is paid for, the call ends with its context |
| Search handler | leg results of one request | `ServeHTTP`, `searchLeg`, round trip and multi-city parsing, summaries | legs end in any order over a shared cache | each leg in its place, estimate and summary agree with the legs |
| Filters, ranking, sorting | none | `Apply`, `Compute`, `Sort` | degenerate ranges, stability, order of the stages | see section 4, `pipeline` |
| Provider adapters | none | four normalisers | segments against top-level fields, printed offsets against zone names, clocks that run backwards across zones, one bad offer among good ones | what is listed is what was sold: same ends, stops, clocks and price, and an offer that cannot be read costs nobody else |
| Server process | listener, open connections, the shutdown's deadline | accept, read a header, serve, `Shutdown` | a signal while searches, silent clients and slow readers are under way; three timeouts that must fit each other | a signal ends the process; a sufficient grace cuts nothing short |
| Router, health, configuration, currency formatting, mock providers | none or process-wide | wiring | none | not modelled, see section 7 |

Nothing is persisted: a crash or restart begins with an empty cache, and no
property below is about one.

The hazards, each with its line in the source and the properties that watch
it, are in `PROJECT.json` under `hazards`.

## 2. Modules

| Module | Models | Correspondence |
|---|---|---|
| `ResultCache` | `internal/cache/cache.go` | `items` is the map, `Set`, `Live` (what `Get` tests), `PurgeStarts` / `PurgeSweeps` the two halves of `Purge` around the lock. Operations only, composed by `Aggregator` |
| `Aggregator` | `internal/aggregator/aggregator.go`, criteria and merge as sets | `SearchHit`, `SearchMiss` = lines up to the goroutines; `ProviderAnswers/Fails/TimesOut/Cancelled` = a goroutine filling its slot; `Finish` = after `wg.Wait`: collect, filter, merge, `Set`, return; `Disconnect` = net/http cancelling the context; `Janitor` |
| `ReadThrough` | the promise to callers | a store that forgets by itself, with no providers, goroutines or janitor; `Aggregator!ImplementsReadThrough` is the refinement, `store <- LiveItems` |
| `AggregatorProofs` | proofs about `Aggregator`: what is served, where it comes from, and the refinement | |
| `TokenBucket` | the fields of `Limiter` and one locked `reserve` | amounts are integers: a token is `Unit`, a tick earns `Rate` |
| `RateLimiter` | `Wait` loop of many goroutines over `TokenBucket` | `Wait`, `Admit`, `Sleep`, `Fire`, `GiveUp` (`ctx.Done`) |
| `TokenBucketProofs`, `RateLimiterProofs` | lemmas about one `reserve`; proofs about `RateLimiter` | |
| `Fetch` | `providers/http.go` with `retry.Do` inlined, over `TokenBucket` | one action per outcome of an attempt (`Succeed`, `FailRemote`, `FailDecode`, `FailContext`, `FailHung`, `FailConfig`), `BackoffEnds`, `Interrupted`, and the limiter's `Admit`, `Throttle`, `ThrottleEnds` |
| `ProviderCall` | what a goroutine of `Aggregator.Search` relies on when it calls a provider | one result per call, an error of the context only when that is done, one deadline per call; `Fetch!ImplementsProviderCall` is the refinement, `slot <- OutcomeOf(c)` |
| `FetchProofs` | proofs about `Fetch`: its invariants and the refinement | |
| `Server` | `cmd/server/main.go` around `Aggregator` | `Accept`, `Begin` (header read, `Search` called), `CloseUnread` (`ReadHeaderTimeout` or the client leaves), `Written`, `ServeFails` (`log.Fatalf`), `Signal`, `Drained` and `GraceOver` = the two ways `Shutdown` returns; every action of `Aggregator` while the process is up |
| `ServerProofs` | proofs about `Server` | |
| `Listings` | the pure functions a list of flights goes through | one operator per Go function; merge, filter, `Compute`, sort, `CheapestFlight`, the two estimates, `CombinedMetadata` |
| `Adapters` | `internal/providers/{airasia,batikair,garuda,lionair,common}.go`, `timeutil` | one operator per adapter from an offer, with the names of its JSON fields, to a flight or nothing; `BuildFlight` with its validation; `ProviderResults` = `results[]` |
| `LegPipeline` | one leg from the airlines' replies to what is displayed | the stages in the code's order, one action each: `Normalise`, `Merge`, `Filter`, `Score`, `Sort` |
| `ListingsProofs` | lemmas about `Listings`, of any list: selecting, sorting, merging, scoring, concatenating, adding up | |
| `LegPipelineProofs` | proofs about `LegPipeline` and `Adapters`, over `ListingsProofs` | |
| `Itinerary` | `internal/handlers` | `Receive` (parameters parsed and validated, legs started), `LookupHits`, `LookupMisses`, `SearchReturns` (`Aggregator.Search` as one leg sees it), `EndLeg`, `Reply`, `Expire` |
| `ItineraryProofs` | proofs about `Itinerary`, over `ListingsProofs` | |
| `MC*` | instances for TLC | |

`Aggregator` composes `ResultCache`, and `Server` composes `Aggregator`;
`RateLimiter` and `Fetch` compose `TokenBucket`; `LegPipeline` composes
`Adapters` and `Listings`; `Itinerary` composes `Listings`. `Aggregator`
takes a provider as something that answers, fails, times out or is cancelled
with its caller: its `ProviderAnswers/Fails/TimesOut/Cancelled`, `Disconnect`
and `TimePasses` are, for one provider, the actions of `ProviderCall`.
`Fetch!ImplementsProviderCall`, checked and proved, and `Fetch!CallReturns` are
why that is justified; the adapter between the two computes, and can only turn
a success into a fault. `Itinerary` takes
`Aggregator.Search` as something that answers from the store or stores what it
returns, which is what `ReadThrough` says; `ImplementsReadThrough` is checked
and proved.

An operator whose comment begins "Wrong on purpose" is not part of any
specification. It is a mutated form of the definition that follows it, listed
under `mutants`: with it in the place of that definition TLC finds the property
named there violated, so the property does depend on the code.

### What is abstracted

* A flight in `Aggregator` stands for its dedupe key, so its route is a
  function of it; a quote carries the instant it was obtained, in the place of
  a price. Prices, comparisons and orders are in `Listings`.
* Time is a counter of ticks. Every lock-protected operation is one step; a
  clock read outside the lock is a step of its own.
* `Aggregator` and `Fetch` let no time pass beyond the deadline of a call that
  is under way: a goroutine whose context is done is taken to return at once.
  The code has a select or a context in every place it blocks (limiter.go:44,
  retry.go:67, http.go:86); the computation in between takes no time.
* float64 amounts are exact numbers. In the bucket this is a choice of unit.
  The delay's truncation to a nanosecond is kept (`\div`). In the scores
  fractions are exact and rounded as the code rounds.
* A text a caller gives to `Aggregator` (origin, destination, cabin class) is a
  sequence of symbols, one of which is the separator `|`; `CacheKey` joins the
  fields as `Key` does, so that different fields may make the same key. Dates
  and numbers of passengers hold no separator: the handler parses them. In
  `Itinerary` the fields of a leg hold none either and the key is the leg
  itself; `AggregatorProofs!PlainKey` is why this is the same for such legs.
* Texts elsewhere: airports, dates and numbers are as trimming and upper-casing
  leave them. A numeric parameter is a sequence: the number, or nothing when it does
  not parse. A flight number is <<letters, rest>>, which is what
  `ExtractAirlineCode` tells apart. Times of day stay texts, because the filter
  compares them as texts: four digits and a colon, compared place by place.
* A time on the wire is a sequence: nothing when no layout fits it, else the
  clock it shows and the offset printed with it. A zone has one offset: the
  Indonesian zones have no daylight saving.
* Texts for display (formatted durations, prices, baggage, amenities) are left
  out: nothing that is decided depends on them.
* `Journeys` and `AirportOffset` in `LegPipeline` belong to the properties, not
  to the program: they say which journey an offer sells, read from its fields
  without the adapters, and only of offers that are clear (their zones are
  those of their airports, and their fields do not contradict each other except
  where the code says which one wins).
* A connection of `Server` carries one request. A connection that is kept alive
  is idle between two requests; `Shutdown` closes it at once, so its next
  request counts as a new connection. A second signal is ignored, as in the
  code, which no longer receives it.
* The cache clones the lists it stores and hands out, so lists are values.
* A request that goes out with its context already done may still succeed in
  `Fetch`; net/http refuses it. This adds behaviours and hides none.
* A response is a class (which error, or success) and one optional field that
  its body may set.

## 3. Bounds

Each named bound is a CONSTANT and is used in a guard that says so.

* `MaxTime` in `Aggregator`: the clock stops there when no search is under way.
  With TTL 2, timeout 1 and `MaxTime` 3 (`freshness`) an entry is stored,
  read, expires, is swept or replaced, and a search started before a refresh
  ends after it. `search` needs no long time, only every interleaving of two
  searches of two providers.
* `Impatient`: the callers that may leave. One is enough to poison the cache
  for the other.
* `Asked`, `Offered`, `Flights`: one pair of airports on two days; a flight
  offered by both providers, one offered by one, and one of the other day that
  a provider returns whatever it is asked, as the fixtures do. In `search` and
  `shared_keys` two callers ask with a separator in a field (the cabin class
  `2025-12-16|economy` on the first day, the destination `DPS|2025-12-15` on
  the second), and their keys are the same.
* `MaxTime` in `RateLimiter` (no call of `Wait` begins from then on): time for
  the bucket to empty, refill and empty again, with three callers and a burst
  of two, so that one always sleeps.
* `Width` in `Fetch`: bits of a `time.Duration`, 3 in the place of 64, so that
  a delay overflows within three attempts. `JitterParts` is 1 in the place of 5,
  so that the jitter of a small delay is not rounded away. The three
  configurations are three attempts with a delay that is capped, then
  overflows; none asked for (the default three); a negative number (one).
* `MaxTime` in `Fetch`: no call begins later; the calls run on to the end.
* `MaxSegments`: three in the place of six, so that three segments are
  accepted and four rejected.
* `Replies` in `LegPipeline`: `Market`, all ways two airlines of different
  formats fail or offer up to two of seven fares that share numbers, prices,
  times and days; and `Quirks`, every combination of some replies of all four
  airlines with odd offers in them: a time that cannot be read, a zone nobody
  knows or none, no flight number, no price, an arrival before the departure, a
  later clock at an earlier instant, a chain of segments that contradicts the
  top level, a chain of one, a connecting flight that names no stop, a stop
  count that differs from the stops, an error code, and one airline selling
  another's flight, also with the departure written in another zone.
* `Filters`: seven, among them every bound on the clock, one with its leading
  zero missing, and an airline by name and by code.
* `Server`: TTL, provider timeout and header timeout 1, `Grace` 3, the least
  that suffices (3 > 1 + 1). Two requests and one provider: one request can be
  accepted, begun or unread while the other is in any place, before or after
  the signal. `MaxTime` 1 bounds the clock only while the process serves and
  nothing is under way, so the latest signal still has its whole grace.

`CHECK_DEADLOCK FALSE` is used where the model really ends: the limiter and
fetch instances when every call is over and the clock has stopped, a leg when
it is sorted, an itinerary when all requests are answered and the cache is
empty, the server when its process has ended. `Aggregator` never stops (the
janitor runs on) and `search` and `freshness` check it for deadlock.

## 4. Runs

| Run | Question | Result |
|---|---|---|
| `search` | Is every answer, cached or fresh, to a caller whose fields hold no separator of the route asked for, whatever others ask, and is every answer the whole result of one search with every provider accounted for? | holds |
| `freshness` | How old can a served price be; what does a completed search or refresh guarantee to later callers; do the goroutines, cache and janitor implement the read-through store? | TTL + one timeout; nothing older than the return by more than a timeout; yes |
| `progress` | Does a signal end the process, does a sufficient grace cut nothing short, does every search end, and does every expired entry leave memory? | holds under fairness |
| `limiter` | Do rate and burst hold in every window, is no token idle while callers sleep, is the sleep long enough, does somebody always get through? | holds; an individual caller may be overtaken for ever |
| `fetch` | Are only transient failures retried, is every attempt paid for, is the backoff as long as promised and no longer than its cap and jitter, does every call end, and is it the call that `Aggregator` takes it for? | holds |
| `pipeline` | From the airlines' replies on: is every journey sold within the price ceiling listed; is everything listed as it flies; do the bounds on the clock mean local clocks; is a flight whose departure all quotes write alike listed once, with all of them; do better flights score higher, within 0 and 100; is the order stable? | holds |
| `itinerary` | Is each leg in its place, the estimate the cheapest trip, the summary equal to its parts, and does only an orderly journey start searches? | holds |
| `refresh_sticks`, `served_errors`, `shared_keys`, `hung`, `stale_decode` | Statements of the repository's README that the code does not keep | violated, section 6 |

`NothingCutShort` is stated for a grace that is greater than the header timeout
and the provider timeout together (`GraceSuffices`). The code gives the header
5 s and the shutdown 10 s and leaves the provider timeout to the configuration;
its default, 5 s, makes the two sides equal, so there is no margin, and a
greater one lets the shutdown end while searches are under way.

A bound on the clock without its leading zero sorts after every time of day: as
a `depart_after` it filters everything out. One with more than 59 minutes
compares as a text and not as a sum: "08:75" lets 09:05 through, which is before
a quarter past nine. `ClockBoundsHonoured` therefore speaks of well-formed
bounds, five places long with minutes below 60. Likewise `ListedAsFlown` speaks
of offers that do not contradict themselves: what is shown of the others (a
chain of one segment that ends elsewhere, a stop count that differs from the
layovers) is in the run, and no property is about it.

`EachFlightOnceWithItsQuotes` identifies a flight by the instant it departs, as
README.md:130-132 does. `dedupeKey` takes the text of the departure, so the
property claims one entry only of flights whose quotes all write the departure
alike, and it says nothing of when several offers of a single provider are
compared (section 6).

`BackoffRespected` and the first half of `BackoffBounded` are stated where the
shift of `backoffDelay` does not overflow. Where it does, the delay may be none
at all; what holds there is that a capped one stays within cap and jitter. Both
read the configuration themselves (`Configured`), so that they also depend on
what `newResilientClient` makes of a missing one.

`SendsArePaid` and `RateConformance` are stated for rates at which a token
takes a whole number of ticks (`ExactRate`). At other rates the truncated delay
can be 0 with a fraction of the token missing; `Wait` then returns without a
token, and so does every other call within that nanosecond. No bound is claimed
for such rates. `WorkConserving` holds for every rate.

### Fairness

Weak fairness only, and only for what the runtime guarantees: the clock
advances (`Tick`, `ServerTick`), a runnable goroutine runs (`Finish`, `Admit`, `Throttle`,
`Sleep`), a timer that has fired is received (`Fire`, `ThrottleEnds`,
`BackoffEnds`), a context that is done ends what waits on it
(`ProviderTimesOut`, `Interrupted`, `FailContext`), the janitor's ticker keeps
firing, net/http closes a connection whose header is overdue (`CloseUnread` at
its deadline, not before), and `Shutdown` returns when nothing is left
(`Drained`) or its context is done (`GraceOver`). Nothing is assumed of clients
and providers: nobody has to connect, call, answer, read or leave, and nobody
has to send a signal. `Written` is not fair, because there is no `WriteTimeout`
and a client may read for ever. Strong fairness is not assumed for the limiter, whose waiters have
no queue, which is why the property there is that somebody progresses.

## 5. Proofs

For every value of the constants that satisfies the named assumptions
(`TTLAssumption`, `AggregatorAssumption`, `ServerAssumption`,
`BucketAssumption`, `LimiterAssumption`, `FetchAssumption`,
`ItineraryAssumption`, `FoundAssumption`, `QueriesAssumption`,
`RepliesAssumption`, `FiltersAssumption`, `ZonesAssumption`, `KeysAssumption`): durations are
naturals, a key is the join of what some caller may ask for, with any texts for
origin, destination and class, a token is a positive amount earned at a positive rate, a
retry configuration is three integers of any sign, a query is made of texts and
days, a leg of an accepted query is one a search can be made of, a search ends
with a list of flights and of names of providers that failed, a price ceiling is
a number and a bound on the clock any text, and an airline's reply has the types
its JSON is decoded into, with numbers of any sign and lists of any length.
Requests, providers, flights, callers, calls, queries
and replies are any sets.

Every module of proofs has the same shape: an inductive invariant, defined at
the end of the module it is about and checked there by TLC before it was
proved; a lemma for the initial states; a lemma per action or group of actions;
the theorem; the properties the runs check as corollaries.

### What is served: `AggregatorProofs`

* `TypeCorrect`: `Spec => []TypeOK`.
* `Freshness`: `Spec => []FreshnessInv`, the inductive invariant. None of the
  three results on what is served is inductive: an answer may come from the
  cache, so something must be known of stored entries, which come from slots,
  which were filled by goroutines of a search within its timeout. The parts are
  `OnTime` (a search under way is within its timeout), `SlotsInTime` (a slot is
  filled after its search began), `StoredInTime` (an entry was quoted at most
  TTL + timeout before it expires), `StoredOnRoute` (it flies a route that has
  its key), `StoredSinceRefresh` (nor more than a timeout before the last return of a
  search of that key), `DoneInTime`.
* `RoutesServed`, `Staleness`, `RefreshAge`: the corollaries
  `ServedMatchRoute`, `StalenessBounded`, `RefreshBoundsAge`.
  `ServedMatchRoute` speaks of callers whose own fields hold no separator. That
  is enough, whatever the others ask with, because of `PlainKey`: if the join of
  p's fields is the join of r's and r's hold no separator, p and r have the same
  route. It is proved from the texts: the only separators in the key are the four
  that join r's fields, and the four that join p's are among them, in the same
  order, so that each of the fields that make the route begins and ends at the
  same place for both (`Shape`, `KeyShape`, `Join`). Without the hypothesis it is false, see `shared_keys`.

The step is split as the actions are: a hit, a miss, a finish, and the steps
that leave cache and answers alone (`HitStep`, `MissStep`, `FinishStep`,
`QuietStep`); `FinishedQuotes` says where a quote of a new answer comes from.
The lemmas are about `[Moves]_vars`, which allows every action at any time and
the clock to advance within the deadlines, so that they serve `Server` too,
whose actions begin and end searches at other moments.

That every answer is one search's, and the refinement, need another invariant:

* `Provenance`: `Spec => []ProvenanceInv`. That an answer is the result of one
  search is not inductive for the same reason. The parts are `StoredBySearch`
  (an entry is the answer of a search that returned, and expires a TTL after it
  did), `SearchesAccounted` (a search that returned has a provider's flights or
  its error for every provider) and `SweepInPast` (a purge compares with a clock
  that was read, never with one ahead). `Origin` is the corollary
  `AnswersComeFromASearch`.
* `Refinement`: `Spec => ImplementsReadThrough`. The abstract store is what is
  live (`StoreOf`). A hit, a miss and a finish are the abstract actions of the
  same name (`RefinementHit`, `RefinementMiss`, `RefinementFinish`); the passing
  of time may let entries expire, which the abstract store forgets
  (`RefinementTime`); a purge removes only what had expired, because of
  `SweepInPast`, and so is a stutter (`RefinementJanitor`), as are the steps of
  the providers' goroutines.

### The process: `ServerProofs`

* `ServerMoves`: every step of the server is a step of `[Moves]_vars`. From it
  `ServedAsProved` (`FreshnessInv` and `ProvenanceInv` hold of the server) and
  `ServerRefinement`, with no step proved twice.
* `Shutdown`: `FairSpec => []ShutdownInv`, and `GracefulShutdown`, which is
  `NothingCutShort`. `ShutdownInv` relates the clock of a shutdown to what it
  waits for: a search is on an active connection (`SearchesOnConnections`), a
  connection without a header is not overdue (`HeadersInTime`), and while the
  server drains a connection was accepted before the signal and a search began
  at most a header timeout after it (`DrainsInTime`). With `OnTime` the grace
  cannot be over while any of them is left. Fairness is part of the
  specification but is not used: these are safety properties.

### The limiter: `TokenBucketProofs`, `RateLimiterProofs`

* `TypeCorrect`: the bucket is never in debt nor above its capacity.
* `NoTokenIdles`: `Spec => []WorkConserving`, for every rate. It rests on
  `TimersNotLate`: what is in the bucket and what is earned until a timer fires
  is at most a token, and others can only take from it.
* `Conformance`: `Spec => []RateConformance`. The invariant is `Accounts`: for
  every admission in the log, the tokens given out since and those in the
  bucket are covered by the burst and by what was earned since it.
* `TokenAtWake`: `Spec => []SleepIsEnough`, the comment at limiter.go:41-43,
  from `TimersNotEarly`.

Rates and times are multiplied, which the SMT backend does not do well, so the
arithmetic is stated once, in `TokenBucketProofs`, in lemmas about what is
earned (`EarnedAdds`, `EarnedSum`, `Truncated`, `Exact`) and about one
`reserve` (`RefilledFacts`, `ReserveFacts`, `ReserveWhole`, `TokenPaid`,
`RefillPaid`). `Fetch` uses the same ones.

### The client: `FetchProofs`

* `TypeCorrect`, `TransientRetries` (`OnlyTransientRetried`). The invariant adds
  `BackingOff`: a call that sleeps between two attempts failed for a transient
  reason and has an attempt left. A delay is typed by `WrapType`, for any width
  of a duration: what overflows wraps to an integer of that width.
* `PromisedBackoff`: `Spec => BackoffRespected`, an action property. Its
  invariant is `TimersKeepPromise`: a timer is set no earlier than promised,
  counted from the attempt before it. `BackoffFacts` says that jitter and cap
  never shorten a delay below the promise, and why only an overflow does.
* `BoundedBackoff`: `Spec => []BackoffBounded`. A longer delay gets no less
  jitter (`QuotientGrows`, `JitterGrows`), so the cap bounds both together,
  whatever the shift wrapped to. A step that starts no backoff leaves both
  bounds as they are (`TimersStay`).
* `Invariant`, `AttemptsPaid` (`SendsArePaid`). The invariant is `Paid`: the
  tokens of all attempts sent and those left are covered by the burst and by
  what was earned until the last refill. An attempt is counted by a pair <<call,
  number>>, so that the count grows by one exactly when a token is taken; a
  retry is no exception, because the limiter is inside the loop.
* `ProviderRefinement`: `Spec => ImplementsProviderCall`. What the limiter, the
  attempts and the backoffs do between the beginning of a call and its end is
  not seen (`InsideSeen`, and `FailSeen` for a failure that is retried); a
  return is the one result (`ReturnSeen`), the context's error only when the
  context is done; a call that begins gets its one deadline (`BeginSeen`).
  That no time passes beyond it while a call is under way is the assumption of
  section 2 on both sides, not a result.

### The handler: `ItineraryProofs`

* `AcceptedLegs`, `AcceptedOrder`, `AcceptedRoundTrip`: what validation
  promises of the legs of a query it accepts, as lemmas about `StatusOf`.
* `Invariant`: `Spec => []ItineraryInv`. That each leg is in its place needs to
  know what the goroutines hold (`LegsKeepToThemselves`: an outcome of a search
  of their own leg, and, once done, the slot made of it), which may have come
  from the cache (`StoreHoldsSearches`), and that a request searches all legs of
  a query that was accepted or none (`SearchesWhatItAccepted`). A response is
  the body made of the slots of an accepted query's legs (`AnswersAreSlots`);
  what it says then follows from the slots.
* `LegsInPlace` (`EachLegInItsPlace`) and `OrderedTrips`
  (`OnlyOrderedTripsSearched`).
* `Cheapest` (`EstimateIsTheCheapestTrip`), for any number of legs: the flight
  taken from a list is the cheapest of it (`CheapestIs`), the sum of lesser
  numbers is less (`SumsCompare`), and a trip with no estimate has an empty leg
  or two currencies (`EstimateIs`).
* `Summary` (`SummaryAddsUp`): what a slot says of itself (`SlotSays`: as many
  results as flights, an answer or an error per provider) adds up over the legs
  (`SumsAdd`, `SumOfTheSame`), and as many errors are listed as were counted
  (`FlattenLength`).
* `SumSteps` unfolds the community modules' `FoldLeft`, whose definition chooses
  a function on the sets of places; `Upwards` is the induction all of these
  need, with a set in the place of a predicate.

### One leg: `ListingsProofs`, `LegPipelineProofs`

* `Invariant`: `Spec => []PipelineInv`, from which `Merging`
  (`EachFlightOnceWithItsQuotes`), `Sorting` (`SortedStably`), `Dominance`
  (`DominanceRespected`), `Scale` (`ScoreScale`), `Ceiling`
  (`PriceCeilingComplete`), `Flown` (`ListedAsFlown`) and `Clock`
  (`ClockBoundsHonoured`) follow. The invariant is short (the slots are what the
  adapters make of the replies; every list holds flights; a merged list is the
  merge of the leg's offers, with one entry for every flight; a filtered list
  keeps exactly what matches; a scored list respects dominance and the scale; a
  sorted list is what its input sorts to): the work is in what the functions of
  `Adapters` and `Listings` return.
* `Ceiling`, `Flown` and `Clock` compare what is listed with what was sold, by
  the properties' own reading of the offers (`Journeys`). A flight `Renders` a
  journey when it shows what was sold; each adapter `Carries` its offers, none
  lost and none invented (`AirAsiaCarries`, `BatikAirCarries`, `GarudaCarries`,
  `LionAirCarries`), so the collected list carries all journeys
  (`ResultsCarry`). The merge drops flights but keeps a cheapest one of each
  (`MergedCovers`), and what is filtered is kept exactly when it matches
  (`FilterKept`). For the clocks, texts of one shape compare by their first
  difference (`TextsCompare`), and so as the minutes they stand for
  (`ClockOrder`).
* `Merging` rests on `StandsFor(f, fs)`: the entry f quotes all flights of fs
  that merging takes for the same (`SameText`: the departure is written alike),
  is the cheapest of them, and quotes none when it is the only one. Where all
  quotes of a flight write its departure alike these are all there are
  (`QuotesStand`, `InvQuotes`). `MergedStandsFor` says so of what `mergeDuplicates` returns
  (`EntriesFor`), and `FilteredEntries`, `ComputedEntries` and `SortedEntries`
  that what comes after only drops, scores and moves entries (`EntriesMoved`).
  The property counts the offers of all providers, the merge those that met the
  criteria of the leg: `StandsForAll` shows they are as many, since the
  criteria of a leg (route and day) tell no two offers of one flight apart.
* Selecting and sorting are both defined by rank, so they share their proof. If
  A[i] is what is ahead of i in a total order of a finite set, the cardinalities
  of the A[i] are all numbers below its size, each once (`Ranks`), and choosing
  by rank lists everything once, in order (`Ranked`). `KeptInOrder` says so of a
  loop that keeps some elements, `SortingIsStable` and `QuotesAreSorted` of the
  two stable sorts; `OrdersHaveKeys` finds for every order of `sort_by` a number
  it compares, which is why it is a strict weak order.
* `FlattenSteps` unfolds the community modules' `FlattenSeq`, whose definition
  chooses a function, by well-founded induction with the library's `WFMin` (a
  least length at which it would fail).
* `Shares` says that a share falls as what is scored rises, and what it is at
  the ends of the scale; `WeightedKeepsOrder` and `WeightedScale` carry this
  through the weighted sum and its rounding, without dividing: the three
  denominators are multiplied out (`Parts`, `Whole`).
* `Scale` has the hypothesis `NaturalStops`: no airline counts a negative number
  of stops. The adapters copy what they are given, and a negative count would
  lift its flight above 100. The other theorems do without it.

### Only model-checked

* Liveness under fairness, which the prover does not do: `EverySearchAnswers`,
  `ExpiredIsPurged`, `ShutdownEnds`, `SomeoneProgresses`, `CallReturns`.

## 6. Where the repository disagrees with its code

1. `refresh_sticks`: a search that began before a refresh and ends after it
   overwrites the refreshed entry with older prices. `RefreshBoundsAge`, proved,
   is what remains: older by at most one provider timeout.
2. `served_errors`: a client that disconnects makes its pending providers fail
   with "context canceled", and the result is cached: for a TTL other clients
   see healthy providers listed as failed.
3. `hung`: the README says the per-attempt timeout leaves room for a retry. The
   error it produces counts as `context.DeadlineExceeded`, which is never
   retried.
4. `stale_decode`: every attempt decodes into the same value, so fields of a
   body that failed half way survive into the result of the next attempt.
5. `shared_keys`: the README says results are cached per origin, destination,
   date, cabin class and passengers. `Key` joins them with `|` and escapes
   nothing, and only date and passengers are validated, so a caller who puts a
   `|` into the cabin class or an airport can share a key with another such
   caller and be served that one's flights, of another date.

Met while modelling, without a run of their own:

* Stops are divided by their maximum (ranking.go:52), not min-max normalised
  as README.md:332 says: a single listed flight with a stop scores 80.
  `ScoreScale` therefore gives 100 only to a non-stop flight.
* Two fares of one provider for the same flight get a `price_comparison`
  (merge.go:27), which README.md:130-132 promises only for more than one
  provider, and the same instant written with another offset makes a second
  entry (merge.go:10).
* The jitter is added to the capped delay (retry.go:91), so a backoff may
  exceed by a fifth what README.md:404 calls a cap. `BackoffBounded` has both.

## 7. Not modelled

* Router, health handler: fixed routes and a constant answer, without state.
* Configuration and its `.env` file: read once, before anything runs. What it
  yields are the CONSTANTS, and their ASSUMEs say which values are admitted.
* Currency formatting and the other texts for display: conversions nothing is
  decided by.
* Mock providers: a development stand-in; the models allow any answer.
* A panic in a goroutine of a leg or a provider: it has no recover of its own
  and ends the process, after which nothing is left to state a property about.
* A rate of 0 or less and a nil limiter let everybody through.
* Bytes of JSON: an offer is its decoded record, a response a class.

## 8. Plan

All modules of section 2 are written, with the runs of section 4 and the proofs
of section 5; nothing of the plan is left. The order was: cache and aggregator
with the store they implement, limiter, client, one leg, the handler, the
process, and last the client as the provider that the aggregator assumes. What
a change of the code would need first is in `hazards`.
