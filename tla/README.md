# TLA+ models of go-operator-service

The service searches tours: it asks the booking systems of several tour
operators (SAMO) and Tourvisor in parallel, merges what they answer, caches it
in Redis, and streams or returns it to the web site. Most of its hard behaviour
is concurrency inside one process: limits shared by all searches, fan-out over
channels, identical searches that join, background queues, counters in Redis
that survive a crash. These modules model that part, check it with TLC on small
instances, and prove the main safety results with TLAPS for every instance.

## 1. Inventory

| Part | Code | State it keeps | Hard behaviour | Model |
|---|---|---|---|---|
| Operator slots | `services/operator_limit.go` | two channels per operator, used as semaphores | two waits in a row, each with a timer and a context; what is held while giving up | `OperatorLimit`, `SlotBudget` |
| Tourvisor quota | `turvisorsearch/quota.go`, `cache/tourvisor_store.go` | two counters per day in Redis | count first, give back later; failed commands, midnight, crashes | `Quota`, `DailyBudget` |
| Coalescing | `handlers/search_coalesce.go`, `handlers/handlers.go` | map of running calls, result cache | cache check outside the lock, panics, failed saves | `Coalesce` |
| Hotel mapping | `services/hotel_mapping_worker.go`, `cache/hotels_cache.go`, `services/hotel.go`, `services/service.go`, `repository/repository.go` | pending keys, queue, cache, table | full queue, database errors, restart, check-then-act | `HotelMapping` |
| Worker pool | `workers/*.go` | channels and WaitGroups of one search | who closes what and when; cancellation in every select | `WorkerPool` |
| Operators list | `turvisorsearch/operators.go` | list per departure, refreshed without the lock | a late failure overwrites a success | `OperatorsList` |
| Live search | `turvisorsearch/search.go`, `guard.go` | polled search, cached hotels | deadline against progress, users that leave, failed polls and fetches | `LiveSearch` |
| Calendar | `turvisorsearch/calendar.go`, `scheduler/tourvisor_calendar.go` | prices per route, mark of the last run | failed windows keep old prices, a mark before the run | `Calendar` |
| Streaming | `handlers/stream_handler.go`, `stream/*.go` | two bounded channels, the list so far, the stored answer | a user who leaves while producers send; closing order; what is stored then | `StreamSearch` |
| Home offers, hot tours from SAMO | `scheduler/home_offers.go`, `cache/home_offers_cache.go`, their handlers | two Redis keys, a mutex | warm-up by many requests at once, two keys stored in turn, a fallback outside the lock | `HomeOffers` |
| Results | `services/hotel_grouping.go`, `samo_result.go`, `checkin_split.go`, `home_offers.go`, `popular_dest_cache.go` | offers inside tickets that are grouped again and again | duplicates, prices of zero, boundaries of chunks and of the mixed list, a list made before the question | `SearchResults` |
| Request hotel cache | `services/service.go` | a map shared by running searches | cleared by whoever starts or ends | not modelled, see 8 |
| SAMO parameters, currency rates, share links, hot tours feed, photos, SQL, nginx, logging | the rest | little | string building, single exchanges | not modelled |

How they meet: a request goes through `Coalesce`; its load runs the
`WorkerPool` for the SAMO operators and the Tourvisor live search side by side;
every page the pool fetches passes through `OperatorLimit`, every paid
Tourvisor search through `Quota`; every ticket that is transformed resolves its
hotel and may enqueue a `HotelMapping` job; the tickets that come together
become the cards of `SearchResults`. A streamed search (`StreamSearch`) has
workers of its own and takes Tourvisor's batches from `LiveSearch` as they come;
it regroups all tickets for every snapshot. Schedulers use the same pool and the
same quota in the background, and fill what the start page (`HomeOffers`) and
popular destinations are answered from.

What makes each part correct: no token leaks and no limit is exceeded (slots);
never more grants than the budget whatever fails (quota); one search per key
and the right answer for everyone who joined (coalescing); no key stuck, one
job per key, cache and table in step (mapping); one result per job, no send on
a closed channel, termination (pool); nothing paid without permission and
filter, nothing cached that was not shown (live search); near days first, no
price lost to a failed window, one run per interval (calendar); no send after
close and no goroutine that keeps the search from its end, whoever leaves, and
nothing lost for the next user (streaming); one search at a time for the start
page and no list replaced by an older one (home offers); every tour bookable
from one place at the price its card says (results).

## 2. Modules

### OperatorLimit, SlotBudget
`slots[o]` and `extraSlots[o]` are the numbers of tokens in the two channels: a
token is anonymous in Go, so that a goroutine that forgets its receive leaks it
for good, and the model can show it. `pc[r]` walks through a call:
`waitExtra` (the first select of `DoOperatorPage`), `waitSlot` (the select of
`doOperator`), `http` (`client.Do` and `ReadAll`), `releaseExtra` (the deferred
receive of `DoOperatorPage`). `GiveUp` is the timer or the context, possible
although a slot is free, as select chooses. `SlotBudget` is the promise without
channels: enter and leave are atomic and respect a limit; `ImplementsBudget`
says that the set of goroutines in `http` behaves so.

### Quota, DailyBudget
One action per Redis command of `reserveBillable`, each with a variant that
fails before or after it was applied. `day[r]` is the date the request read;
`Midnight` moves `today` under it. `live` and `calendar` count the grants, and
`paidOn[r]` is the day on which Tourvisor got the request that `r` pays for
(history variables): a permission may be used a day after it was given. `Crash`
loses the requests under way and keeps the counters. `DailyBudget` grants in one atomic step.
The grants of the calendar count against the cap of live searches as well
(`liveCap` is compared with the total), so some of the limit may stay unused.

### Coalesce
A result is represented by the request whose search produced it: what can go
wrong is whose answer somebody gets and when, not what is in it. `searchCalls`
is the map, `outcome` and `closed` are a call's result and its channel.
`Deregister` and `Close` are two steps, as in the deferred function.
`skipCache` is not a part of the key, so requests with and without it join.

### HotelMapping
`Resolve`, `Reserve`, `Send`, `Drop` are the steps of `EnqueueHotelMapping`;
`Take`, `Check`, `Insert`, `Remember`, `Clear`, `Exit` those of a worker. The
hotel of a job is any hotel: the match by name depends on the spelling an
operator sends. `Preloads` lets a start see any part of the table, because the
loop over the rows checks neither `rows.Err()` nor fails on a row it cannot
scan. `Restart` is a crash at any point, `Cancel` the SIGTERM path of `main`.

### WorkerPool
One `CollectResults`. `mpc` is its own goroutine, `CloseResults` and
`ClosePages` are the goroutines that wait for a WaitGroup, `page[w][p]` is the
goroutine that fetches page `p` for worker `w`; the unbuffered channel of pages
is the rendezvous `Gather`. `Feed` has the code's `break`, which leaves only the
select. A job is production or test mode, first page only, or with a page limit.
Tickets are the number of their page. `fetched` is a history variable.

### OperatorsList, LiveSearch
`OperatorsList` is `departureOperators` for one departure: the lock is held to
read the entry (`Ask`) and to write it (`ListArrives`, `ListFails`), not during
the request, and `held[c]` is what the caller read before. `LiveSearch` extends
it with `Stream`: one action per step (operators, cache, permission, paid
request, poll, fetch, decision, save), with each way a step can fail. `gone` is
the cancelled context: every request then fails, but nothing else is undone.
`clock` has the two times that matter, `firstFetchAfter` and the deadline less
500 ms. `permits`, `paid` and `seen` (what the user was shown) are history.

### Calendar
`sched` is the scheduler goroutine and the pass it runs, `todo` what the feeder
has not handed out, `job[w]` the local state of `refreshRoute` in worker `w`.
Days are integers: `now` is the day in Moscow, and the windows, the split of
near and far days and what `keepOutside` and `carryOver` keep are computed as in
the code; a price is a day that has one. `Restart` is a crash at any point.
Redis keeps `calendar` and `mark`. `answered` and `blind` are history: the days
that were searched anew, and whether the old calendar could not be read.

### StreamSearch
`phase` is the handler, `present` the user behind `reqCtx`. `jobs`, `idle`,
`taken` are the stream workers, `pages[j]` the page goroutines of a job, which
all send into `results`; `forwarder` moves `results` into `updates` and stops
as soon as the user is gone, after which `results` is drained by nobody. That
is why the send of a page is enabled only with `Room`, and why `updates` may be
closed although workers still stand in a send. `tv` is the goroutine of
`turvisorsearch.Stream`. A batch is `<<source, page>>`; `raw` is `allRaw`.
`saves` are the goroutines that store an answer after the handler has returned.
`fetched` and the fields of an entry (`whole`, `left`) are history.

### HomeOffers
`pc[a]` walks through `WarmHomeOffersCache`, `WarmRecommendedHomeOffersCache`
and `buildAndStore`, for requests and the scheduler alike; `lock` is
`homeOffersWarmupMu`. A list is the number of the search it was selected from,
so that the model can tell an older list from a newer one. `recLast` is the
order in which the two keys were stored, which is the order in which they
expire. `calm` is history: nothing has failed or expired since the request came.

### SearchResults
The operators are those of the code: `Chunks` the split of a range,
`Group`, `Winner`, `Existing`, `HandedIn`, `Dedupe` the grouping, `StableSort`
and its uses the order by a key, `Diversified`, `Turn` and `Interleaved` the
order of hotels with badges, `HomeChoices` and `PopularChoices` what the
schedulers keep. Loops over a list are written as an arrangement of its places
(`Arranged`) rather than by folding or recursion: what each place holds can
then be stated, and proved, without an induction over the list. `path` chooses who uses them: a search with one answer, a stream, the
start page, or popular destinations. Tickets are pointers in Go and a card's
offers are written into the ticket that becomes the card; `offers[t]` is that
field, and what makes grouping twice different from grouping once. Where Go
ranges over a map, or sorts without stability, the model takes any order.

Each `MC*` module extends its component and names the values of the constants;
the `.cfg` files choose among them.

## 3. Runs

| Run | Module, configuration | Bounds | Shows |
|---|---|---|---|
| `slots` | `MCOperatorLimit`, `OperatorLimit.cfg` | 3 goroutines, 2 operators, limit 2 (extra limit 1) | tokens owed, extra pages limited, every call returns, implements `SlotBudget` |
| `quota` | `MCQuota`, `Quota.cfg` | 4 requests, 2 days, limit 2, budget 1, 1 fault | counters cover grants, what a day's permissions pay for, implements `DailyBudget` |
| `coalesce` | `MCCoalesce`, `Coalesce.cfg` | 3 requests, 2 keys, 1 failure or panic | one search per key, right answers, nobody hangs |
| `mapping` | `MCHotelMapping`, `HotelMapping.cfg` | 2 resolvers, 1 worker, 2 keys, 2 hotels, queue of 1, 1 fault | ownership, one job per key, cache and table; reservations end, the worker stops |
| `pool` | `MCWorkerPool`, `WorkerPool.cfg` | 2 jobs, 2 workers, 3 pages, 1 failure, cancellation | one result of each job when an uncancelled search returns, closing order, nothing lost, termination |
| `live` | `MCLiveSearch`, `LiveSearch.cfg` | 2 searches of a query, 2 operators (1 excluded), 2 tours | permissions and filters, honest cache, results kept, every search returns |
| `operators_kept` | `OperatorsList_kept.cfg` | same | a violation, see 6 |
| `calendar` | `MCCalendar`, `Calendar.cfg` | 2 routes, 2 workers, 2 near days and 1 far, windows of 2 days, 1 midnight, 1 restart | near first, prices kept, runs spaced |
| `stream` | `MCStreamSearch`, `StreamSearch.cfg` | 2 requests for a query, 2 jobs of up to 2 pages, a Tourvisor batch, channels of 2 and 1 | closing order, workers drained, only a departure shortens what is stored, every search ends |
| `offers` | `MCHomeOffers`, `HomeOffers.cfg` | the scheduler, a request for either list, 3 searches, 1 failure of Redis | keys stored together, no search repeated, no older list, no empty page without a failure, everybody answered |
| `results` | `MCSearchResults`, `SearchResults.cfg` | 5 tours of 4 hotels, 2 of them recommended, 2 operators, prices from 0 to 2, 5 days, chunks of 2 stretched to 3, runs of 2 between badges, 2 tours kept of a destination | every tour shown once, cards cheapest, recommended apart, popular destinations with the cheapest that was found |
| `regroup` | `MCSearchResults`, `Regrouping.cfg` | same, 2 tours without an id | a violation, see 6 |

Four more configurations are kept for counterexamples that section 6 describes:
`Quota_share.cfg`, `HotelMapping_persist.cfg`, `LiveSearch_paid.cfg` and
`Calendar_kept.cfg`; run them with the `MC*` module of their component.

Why the bounds are enough: each limit is reached and exceeded by one more actor
(three goroutines for two slots, four requests for a limit of two, two jobs for
a queue of one, four tickets of a stream for a channel of two, three tours of a destination that keeps two); two
recommended hotels among five tours stand a full run apart, or meet where the
others run out; the conflicts are between two actors, a third one sees their
result; one failure can strike at any step, and the properties about failures
concern the step it strikes. `MaxFaults` and `MaxTrouble` bound failures,
`LastDay` midnights, `MaxRestarts` restarts of the calendar, `MaxTotal` and `MaxPages` the pages an operator reports, `TvBatches` what
Tourvisor sends, `MaxRequests` the users of a stream, `MaxBuilds` the searches
for the start page. The real values
(32 slots, 60 pages, 10000 jobs) differ in size only; the proofs do not fix them.

Symmetry is used for requests (quota) and workers (calendar), in runs without
liveness. `CHECK_DEADLOCK FALSE` is set where requests are made once and the
system comes to rest (quota, coalescing, pool, live search) or the process has
shut down (mapping, calendar). In `StreamSearch` the server may be at rest only
between requests (`Rest`), so a handler that waits for ever would be found as a
deadlock too.

Fairness is weak fairness of the goroutines' own steps. For an exchange with an
operator it rests on the timeouts of the HTTP client (`workers/testjob.go:19`, and 15 seconds in `getJSON` of the live search)
and of the waits for slots; for a search on those and on
`tourvisorSearchBudget`. In `LiveSearch`
time passes as well (`TimePasses`): the deadline is what ends a search that
Tourvisor never finishes. Fairness is never assumed of arrivals, failures, cancellation
or a free slot. Three choices go beyond that: in `HomeOffers` acquiring the mutex is strongly
fair, since a `sync.Mutex` is handed to those that have waited for a
millisecond; in `HotelMapping` a worker whose
context is done and that goes round its select again and again chooses that
case in the end (strong fairness of `Exit`: Go's select picks at random among
ready cases). In `OperatorLimit` acquiring is not fair at all: a call that is
passed over gives up. In `StreamSearch` the fairness is one for all goroutines
of a request, as no step of a request repeats; whether a page brings tickets is
not the scheduler's choice, so fairness promises progress only where a send
would not block. Goroutines of a user who left may stay in a send for good when
more than `ResultsCap` pages come after that: `StreamsEnd` is about the handler
and the closing of `updates`, which do not wait for them.

## 4. Proofs

| Module | Theorems | Inductive invariant |
|---|---|---|
| `OperatorLimitProofs` | `TypeCorrect`, `NoSlotLeaks`, `LimitRespected`, `BasePagesFindRoom`, `LimiterImplementsBudget` | types and `TokensAreOwed`: the number of tokens is the cardinality of the set of holders; the limits follow because a channel holds no more than its size |
| `QuotaProofs` | `TypeCorrect`, `CountersSafe`, `QuotaRespected`, `SpendingWithinLimit`, `QuotaImplementsBudget` | `CountersCoverGrants` and `ApprovedWithinLimit` (a calendar request between its two counts has its place in the limit), from which the limits follow; `SpendingCovered`: a paid request has a permission of the day it was paid on or of an earlier one, and a day's permissions, used or not, are among its grants |
| `SearchProofs`, of `Coalesce` | `TypeCorrect`, `OneSearch`, `MapIsExact`, `AnswersAreTheSearchs` | the map holds a call exactly while its owner works; what is cached or joined has the key of whoever reads it |
| `SearchProofs`, of `WorkerPool` | `PoolTypeCorrect`, `ChannelsCloseLast`, `EveryJobAnsweredOnce`, `FetchedIsReturned`, `NobodyWaitsForRoom` | `OnePlace` and `NoJobVanishes` (a job is still to be fed, queued, with one worker, answered or gathered, and in one place only), `PagesAreAwaited` (a page goroutine lives while its worker collects), `ExitsLeaveNothing` (a worker ends a search that is not cancelled only when the queue is closed and empty), `MainInOrder`, `FetchedIsKept` (what was fetched for a job is where the job is) |
| `LiveSearchProofs` | `TypeCorrect`, `PaidAllowed`, `CacheHonest`, `ResultsKept` | `Lawful`, what a search has at each of its lines: a filter past the operators, a permission past the quota, a payment once it polls, and what it holds has been shown; a step touches no other search (`OwnStateOnly`) |
| `CalendarProofs` | `TypeCorrect`, `NearBeforeFar`, `RunsSpaced`, `PricesKept` | `OnePassAtATime`, `NearIsTracked` (a route of the near pass is done, to be done, or with a worker), `MarkCoversRun`; for the prices `Covered`: a day that had a price is over, kept, searched anew, without a flight, or in a window still ahead |
| `HotelMappingProofs` | `TypeCorrect`, `NoKeyIsStuck`, `OneJob`, `CacheIsBacked`, `StableMapping` | a pending key has exactly one owner, which passes from resolver to queue to worker; a worker that writes found the cache empty (`WriterFoundNothing`) and one that has written left a row (`WrittenIsStored`) |
| `StreamSearchProofs` | `TypeCorrect`, `NoSendAfterClose`, `ResultsAreDrained`, `StoredListsAreWhole` | `PagesHaveWorkers` (a page is fetched for a worker that waits for it) and `NothingLost`: while the user is there, a fetched batch is in `results`, in `updates` or in the list, and the forwarder ends with `results` empty |
| `OffersProofs`, of `HomeOffers` | `TypeCorrect`, `BothKeysStored`, `OneSearchForAll`, `EmptyHasACause`, `NewestStays` | `LockIsHeld` (who is between check and store holds the mutex), `HoldsTheNewest` (what is about to be stored is the latest search), `SecondKeyFollows`, `CalmFindsHome` |
| `OffersProofs`, of `SearchResults` | `ResultsTypeCorrect`, `CardsSayTheLowest`, `BadgesApart`, `ToursBookedOnce`, `PopularHonest` | `OffersFit` (what any ticket carries, shown or not, is of its own hotel and no cheaper); `SelfOffered`, `AllAreFetched`, `BookedOnce` (a ticket is among the offers it carries, every tour asked for was fetched, and each is in one place); `PopularIsFresh`, `PopularIsChosen` (a stored list has not been grouped yet and holds the cheapest of each destination) |

Assumptions on the constants are the named `ASSUME`s of the components: finite
sets of goroutines, natural limits, a limit of at least one, at least one
worker where there are jobs (`workerCount` is the number of jobs or a setting of
at least 1), a "none" value outside the set it stands for. Nothing else is assumed, and TLC evaluates them
in every passing run. `BasePagesFindRoom` needs two more, in its statement:
streaming off, and a limit above one (with `OPERATOR_MAX_CONCURRENCY=1` the
extra channel still has size one, which is all of it). `PricesKept` needs
`RoutesDistinct`: listed twice, for instance by a repeated id in
`TOURVISOR_CALENDAR_DEPARTURES`, a route may be refreshed by two workers at a
time, and the later write undoes the earlier one. `PopularHonest` needs
`HotelsHavePlaces` (a mapped hotel is in one region, a region in one country:
so the tables are laid out) and `SameIdSameTour` (an id that an operator sends
twice for a hotel has one price and one region): `Dedupe` keeps the first of two
tickets with an id and drops a cheaper second one. Both hold in the instance of
the run.

The proofs about `SearchResults` go up from what the code does with a list to
what a user sees. `ArrangedInOrder` says once what a sort does to a finite set
of places: every place comes once and none before one that it must follow.
From it follow what the stable sorts keep (`StableSortTakes`), that a group has
one card, its cheapest ticket (`CardsOnePerGroup`, `WinnerIsCheapest`), that the
offers of a group hold each id once (`TourOfferedOnce`), and that mixing hotels
with badges among the others loses none (`MixedOnePerGroup`) and keeps them
apart (`MixedApart`, by counting: before the k-th badge stand k - 1 runs of
others). `ChunksCover` says that every day of a range is in a
chunk, for any length of the range and of a chunk.

The theorems `TypeCorrect`, `PoolTypeCorrect`, `ResultsTypeCorrect`,
`LimitRespected`, `QuotaRespected`, `MapIsExact` and `NobodyWaitsForRoom` state
properties that no run lists (`TypeOK`, `PoolTypeOK`, `ResultsTypeOK`, `NeverExceedsLimit`, `GrantsWithinLimits`,
`MapHoldsRunningCalls`, `BuffersHaveRoom`): once proved, checking them on an
instance says nothing more. `NobodyWaitsForRoom` says that the channels of a
search are long enough, so that no worker ever blocks in a send; it counts the
jobs that are elsewhere (`PlacesFit`).

Every safety property of a passing run is the conclusion of a theorem. Only
model-checked are the liveness properties, whose fairness needs ENABLED, which
the prover does not have: `CallsReturn`, `FollowersReturn`, `PendingEnds`,
`WorkersStop`, `SearchReturns`, `StreamReturns`, `StreamsEnd` and
`RequestsAreAnswered`. `ResultsAreKept` is checked with a store that may fail
(`StoreFails = TRUE`) and proved for one that never fails as well. What section 6 lists is false and has no proof.

## 5. What the properties are for

The hazards are listed in `PROJECT.json` with the line where each bites and the
properties that would catch it. Each property of a passing run has a mutant: an
operator named `<Definition>_<Change>` in the same module, which is what the
definition would be with a plausible bug in the code, and with which TLC finds
the property violated.

## 6. Where code and documentation disagree

Found by a run of the project:

* **A known list of operators** (`operators_kept`). A refresh that fails writes
  back what it read before its request, over a list that another refresh has
  stored meanwhile; with nothing read before, live searches skip Tourvisor for
  five minutes. `turvisorsearch/operators.go:105`: "if there is an old list, we
  use that one".
* **Grouping twice** (`regroup`). A card that is grouped again hands in its
  offers and the other tickets of its group are added once more; offers without
  a booking id are never deduplicated, so each snapshot of a stream shows them
  more often. `services/hotel_grouping.go:109-110`: "the function is idempotent".

Found with the four further configurations:

* **The calendar's share** (`CalendarShareUntouched`, `Quota_share.cfg`). Live
  requests count themselves before they are refused; in between a calendar
  request sees the limit reached and is refused, with the calendar's share
  unused. `turvisorsearch/quota.go:85`: "live searches do not touch the
  calendar's share".
* **Saved mappings** (`CacheAgreesWithTable`, `HotelMapping_persist.cfg`). When
  the table already has a row the cache does not know, the insert does nothing
  and the cache takes the job's hotel; searches get that hotel until a restart
  brings the row's back. `services/hotel_mapping_worker.go:149`:
  "SaveHotelMapping persists a mapping when it is not present in cache."
* **Paying twice for a search** (`PaidOnlyForMissing`, `LiveSearch_paid.cfg`).
  The cached results are looked up once, before the permission; a second stream
  of the same search pays although the first has stored its results by then.
  `turvisorsearch/guard.go:40`: "so that the same search does not spend a paid
  request again".
* **Prices of failed windows** (`FailedWindowsKeepPrices`, `Calendar_kept.cfg`).
  A Redis error when the old calendar is read counts as no calendar, so there is
  nothing to carry over. `turvisorsearch/calendar.go:182-183`: "for a window with
  an error the old prices remain".

Read in the code, without a run:

* `DoOperatorDeepPage` takes no extra slot for pages after the ninth, which the
  comment on `BasePages` says use at most half of an operator's slots; it is
  used with `STREAM_SAMO` only, and `ExtraPagesUseAtMostHalf` is stated for the
  setting without it.
* A request that missed the result cache and enters `coalesceSearch` just after
  an identical search has left it searches again, because the cache is not read
  again under the lock.
* The comment at `services/checkin_split.go:35-37` says the chunks of a range
  together take no more pages than one request; `pagesPerChunk` gives each of
  them at least `BasePages`, which `TestPagesPerChunk` expects, so that many
  chunks take more.
* A stream whose user left stores its unfinished list for ten minutes
  (`StreamSearch.Finish`), and an answer from that cache has one page of 100
  cards where the live stream sends all of them.
* The window of a popular destinations' list that was stored before midnight is
  a day behind the one requests are held against; a request without dates may
  then be shown tours of the day before (`SearchResults.Eligible`).
* A recommended list that a request derives (`HomeOffers.StoreDerived`) is
  written outside the lock and may replace a newer one until the next warm-up.
* `BeginSearch` and `EndSearch` ("per-request" in their comments) clear a map
  that all running searches share, without a lock.

## 7. Plan

All components with state or concurrency of their own are modelled, and the map
covers about 35 % of the implementation's lines; most of the rest is conversion.
What is left:

1. Composition of `WorkerPool` with the slot budget in place of free failures.
2. Proofs of what the calendar and the hotel mapping keep over a restart, as
   statements about `Restart` alone, and of `WorkerPool` as an implementation of
   one that answers each job in one step.

## 8. Not modelled, and why

Formatting and transformation of tickets, prices and URLs, SQL queries that only
read, decoding of share tokens, photos, logging, nginx and deployment: no
concurrency or state of their own, or string handling that the properties do not
distinguish. Lazy creation of the slot channels (under a mutex), the unset
Tourvisor store and the unset mapping queue (both only before `main` has set
them) are left out. Times are not numbers: a timer may fire at any moment after
it was set, an expiry may come at any moment; so partial and complete live
results, which differ in their TTL, are one thing, and the interval of the
calendar is taken to be shorter than the seven days its mark is kept. The
operators list is modelled for one departure, since departures share nothing but
the lock, and the polling inside the calendar's `searchWindow` by its outcome.

Of the results, cutting into pages, the summaries of hotels and the separation
of equal names in the recommended home offers are left out; of the schedulers,
the timing of the popular destinations' one, and the refresh of Tourvisor's hot
tours, which gets and sets one key. In the request hotel cache what is cleared
is looked up again, and what happens when a `sync.Map` is overwritten while
another goroutine is inside it lies in the Go runtime. Currency rates are read
or fetched by each caller on its own.
