---------------------------- MODULE StreamSearch ----------------------------
(***************************************************************************)
(* handlers/stream_handler.go with stream/*.go: a search whose snapshots   *)
(* are sent to the user while it runs.  Stream workers take the operator   *)
(* jobs and fetch their pages into the results channel; a forwarder moves  *)
(* them into the updates channel, where Tourvisor's batches arrive too;    *)
(* the handler appends every update to allRaw, writes a snapshot of it,    *)
(* and in the end stores the whole list for ten minutes.  Several users    *)
(* ask the same query one after the other; a user may leave at any time,   *)
(* which cancels the request's context and nothing else.                   *)
(*                                                                         *)
(* A batch of tickets is named by its source and page.  A snapshot is the  *)
(* set of batches in it: how it is grouped and ordered is SearchResults'   *)
(* business.  The job in a select's hand counts as still in its channel.   *)
(***************************************************************************)
EXTENDS Naturals, Sequences, FiniteSets, FiniteSetsExt

CONSTANTS Jobs,        \* operator requests MakeURLs may build
          NumWorkers,  \* 10 in the code
          MaxPages,    \* bound on the pages an operator reports (no cap in the code)
          TvBatches,   \* bound on the batches of a Tourvisor search
          Tourvisor,   \* the source of those batches
          ResultsCap,  \* 1000 in the code
          UpdatesCap,  \* 32 in the code
          MaxRequests  \* bound on the requests for the query

ASSUME JobsAssumption     == IsFiniteSet(Jobs) /\ Tourvisor \notin Jobs
ASSUME WorkersAssumption  == NumWorkers \in Nat \ {0}
ASSUME PagesAssumption    == MaxPages \in Nat \ {0} /\ TvBatches \in Nat
ASSUME CapsAssumption     == ResultsCap \in Nat \ {0} /\ UpdatesCap \in Nat \ {0}
ASSUME RequestsAssumption == MaxRequests \in Nat

VARIABLES mode,      \* runSAMO's flag, runTV and usePopularDestOnly
          phase,     \* where the handler stands
          asked,     \* requests so far
          present,   \* the user is there: reqCtx is not done
          raw,       \* batches in allRaw
          jobs,      \* jobs in the jobs channel
          idle,      \* workers that wait for a job
          taken,     \* jobs that a worker has in hand
          pages,     \* pages[j]: goroutines that still fetch a page of j
          results, resultsClosed,
          forwarder, \* the goroutine between results and updates
          tv,        \* the goroutine of turvisorsearch.Stream
          updates, updatesClosed,
          fetched,   \* batches that were fetched with tickets (history)
          saves,     \* results whose goroutine has yet to store them
          cache      \* what Redis holds for the query: one entry at most

handler == <<phase, asked, present, raw>>
samo    == <<jobs, idle, taken, pages, results, resultsClosed, forwarder>>
merged  == <<tv, updates, updatesClosed>>
stored  == <<saves, cache>>
vars    == <<mode, handler, samo, merged, fetched, stored>>

Batches == (Jobs \X (1..MaxPages)) \cup ({Tourvisor} \X (1..TvBatches))
Error   == <<>>                  \* a models.Result without prices
Ended   == "ended"
Modes   == {m \in [samo : BOOLEAN, tv : BOOLEAN, popular : BOOLEAN] : ~(m.tv /\ m.popular)}
(* What is stored, as far as it matters to those who read it: nothing that *)
(* was fetched is missing; the user had left when the list was finished.   *)
Entries == [whole : BOOLEAN, left : BOOLEAN]

WorkersEnded == idle = 0 /\ taken = {}

-----------------------------------------------------------------------------
Init ==
    /\ mode \in Modes
    /\ phase = "returned" /\ asked = 0 /\ present = FALSE /\ raw = {}
    /\ jobs = {} /\ idle = 0 /\ taken = {} /\ pages = [j \in Jobs |-> {}]
    /\ results = <<>> /\ resultsClosed = TRUE /\ forwarder = Ended
    /\ tv = Ended /\ updates = <<>> /\ updatesClosed = TRUE
    /\ fetched = {} /\ saves = {} /\ cache = {}

(* The handler returns, which ends reqCtx too. *)
Return == phase' = "returned" /\ present' = FALSE

(* A user asks; parameters that cannot be read are answered at once.  What *)
(* an earlier search has left running has channels of its own.             *)
Arrive ==
    /\ phase = "returned" /\ asked < MaxRequests
    /\ asked' = asked + 1
    /\ \/ UNCHANGED <<phase, present>>
       \/ phase' = (IF mode.popular THEN "popular" ELSE "lookup") /\ present' = TRUE
    /\ UNCHANGED <<mode, raw, samo, merged, fetched, stored>>

(* LookupPopularDestCache: a hit whose filtered tickets are not empty is   *)
(* the whole answer; otherwise the search goes on, past the stream cache.  *)
LookupPopular ==
    /\ phase = "popular"
    /\ Return \/ (phase' = "urls" /\ UNCHANGED present)
    /\ UNCHANGED <<mode, asked, raw, samo, merged, fetched, stored>>

CacheHit ==
    /\ phase = "lookup" /\ cache # {}
    /\ Return
    /\ UNCHANGED <<mode, asked, raw, samo, merged, fetched, stored>>

(* Nothing stored, or Redis fails. *)
CacheMiss ==
    /\ phase = "lookup"
    /\ phase' = "urls"
    /\ UNCHANGED <<mode, asked, present, raw, samo, merged, fetched, stored>>

(* MakeURLs fails, or there is neither a job nor Tourvisor to ask. *)
NothingToRun ==
    /\ phase = "urls" /\ (mode.samo \/ ~mode.tv)
    /\ Return
    /\ UNCHANGED <<mode, asked, raw, samo, merged, fetched, stored>>

Start ==
    /\ phase = "urls"
    /\ \E todo \in IF mode.samo THEN SUBSET Jobs ELSE {{}} :
         /\ todo # {} \/ mode.tv
         /\ jobs' = todo
         /\ idle' = IF Cardinality(todo) < NumWorkers THEN Cardinality(todo) ELSE NumWorkers
         /\ resultsClosed' = (todo = {})
         /\ forwarder' = IF todo = {} THEN Ended ELSE "receiving"
    /\ taken' = {} /\ pages' = [j \in Jobs |-> {}] /\ results' = <<>>
    /\ tv' = (IF mode.tv THEN "polling" ELSE Ended)
    /\ updates' = <<>> /\ updatesClosed' = FALSE
    /\ raw' = {} /\ fetched' = {}
    /\ phase' = "search"
    /\ UNCHANGED <<mode, asked, present, stored>>

-----------------------------------------------------------------------------
(* StreamWorker: select takes a job or, once it is ready, the context's    *)
(* end.                                                                    *)
TakeJob(j) ==
    /\ idle > 0 /\ j \in jobs
    /\ jobs' = jobs \ {j} /\ idle' = idle - 1
    /\ taken' = taken \cup {j} /\ pages' = [pages EXCEPT ![j] = {1}]
    /\ UNCHANGED <<mode, handler, results, resultsClosed, forwarder, merged, fetched, stored>>

StopWorker ==
    /\ idle > 0
    /\ ~present \/ jobs = {}
    /\ idle' = idle - 1
    /\ UNCHANGED <<mode, handler, jobs, taken, pages, results, resultsClosed, forwarder, merged, fetched, stored>>

Room == Len(results) < ResultsCap

(* What one request ends with, sent without regard to the context: tickets *)
(* of page p, an error, or nothing at all when no tour can be booked.      *)
Deliver(j, p) ==
    \/ /\ Room
       /\ results' = Append(results, <<j, p>>)
       /\ fetched' = fetched \cup {<<j, p>>}
    \/ UNCHANGED <<results, fetched>>

Fail == Room /\ results' = Append(results, Error) /\ UNCHANGED fetched

(* Mutant: further pages are left out of the WaitGroup. *)
FirstPage_NoWait(j) ==
    /\ 1 \in pages[j]
    /\ \/ Deliver(j, 1) /\ \E total \in 1..MaxPages : pages' = [pages EXCEPT ![j] = 2..total]
       \/ Fail /\ pages' = [pages EXCEPT ![j] = {}]
    /\ taken' = taken \ {j} /\ idle' = idle + 1
    /\ UNCHANGED <<mode, handler, jobs, resultsClosed, forwarder, merged, stored>>

(* StreamHandleProdJob and StreamHandleTestJob: the first page is sent     *)
(* before the others are asked for, all at the same time.                  *)
FirstPage(j) ==
    /\ 1 \in pages[j]
    /\ \/ Deliver(j, 1) /\ \E total \in 1..MaxPages : pages' = [pages EXCEPT ![j] = 2..total]
       \/ Fail /\ pages' = [pages EXCEPT ![j] = {}]
    /\ UNCHANGED <<mode, handler, jobs, idle, taken, resultsClosed, forwarder, merged, stored>>

(* StreamFetchPage, through DoOperatorDeepPage. *)
FetchPage(j, p) ==
    /\ p \in pages[j] \ {1}
    /\ Deliver(j, p) \/ Fail
    /\ pages' = [pages EXCEPT ![j] = @ \ {p}]
    /\ UNCHANGED <<mode, handler, jobs, idle, taken, resultsClosed, forwarder, merged, stored>>

(* wg.Wait: the last page of the worker's job is done. *)
FinishJob(j) ==
    /\ j \in taken /\ pages[j] = {}
    /\ taken' = taken \ {j} /\ idle' = idle + 1
    /\ UNCHANGED <<mode, handler, jobs, pages, results, resultsClosed, forwarder, merged, fetched, stored>>

CloseResults ==
    /\ ~resultsClosed /\ WorkersEnded
    /\ resultsClosed' = TRUE
    /\ UNCHANGED <<mode, handler, jobs, idle, taken, pages, results, forwarder, merged, fetched, stored>>

(* Mutant: the forwarder drops a batch when updates are full. *)
Forward_Drops ==
    /\ forwarder = "receiving" /\ results # <<>>
    /\ results' = Tail(results)
    /\ \/ /\ Head(results) # Error /\ Len(updates) < UpdatesCap
          /\ updates' = Append(updates, Head(results))
       \/ /\ Head(results) = Error \/ Len(updates) = UpdatesCap
          /\ UNCHANGED updates
    /\ UNCHANGED <<mode, handler, jobs, idle, taken, pages, resultsClosed, forwarder, tv, updatesClosed, fetched, stored>>

Forward ==
    /\ forwarder = "receiving" /\ results # <<>>
    /\ \/ Head(results) = Error /\ UNCHANGED updates
       \/ /\ Head(results) # Error /\ Len(updates) < UpdatesCap
          /\ updates' = Append(updates, Head(results))
    /\ results' = Tail(results)
    /\ UNCHANGED <<mode, handler, jobs, idle, taken, pages, resultsClosed, forwarder, tv, updatesClosed, fetched, stored>>

(* Mutant: the forwarder returns at the first failed request. *)
StopForwarding_OnError ==
    /\ forwarder = "receiving"
    /\ \/ results = <<>> /\ resultsClosed /\ UNCHANGED results
       \/ /\ results # <<>> /\ (Head(results) = Error \/ ~present)
          /\ results' = Tail(results)
    /\ forwarder' = Ended
    /\ UNCHANGED <<mode, handler, jobs, idle, taken, pages, resultsClosed, merged, fetched, stored>>

(* The range over results ends, or the user has left and the batch in hand *)
(* is dropped with all that follow: nobody drains results any more.        *)
StopForwarding ==
    /\ forwarder = "receiving"
    /\ \/ results = <<>> /\ resultsClosed /\ UNCHANGED results
       \/ /\ ~present /\ results # <<>> /\ Head(results) # Error
          /\ results' = Tail(results)
    /\ forwarder' = Ended
    /\ UNCHANGED <<mode, handler, jobs, idle, taken, pages, resultsClosed, merged, fetched, stored>>

(* turvisorsearch.Stream hands over a batch; once the user has left, the   *)
(* select may drop it instead.                                             *)
TvEmit ==
    /\ tv = "polling"
    /\ \/ \E k \in 1..TvBatches :
            /\ <<Tourvisor, k>> \notin fetched
            /\ \/ Len(updates) < UpdatesCap /\ updates' = Append(updates, <<Tourvisor, k>>)
               \/ ~present /\ UNCHANGED updates
            /\ fetched' = fetched \cup {<<Tourvisor, k>>}
            /\ UNCHANGED tv
       \/ tv' = Ended /\ UNCHANGED <<updates, fetched>>
    /\ UNCHANGED <<mode, handler, samo, updatesClosed, stored>>

(* Mutant: updates are closed when the workers have ended too. *)
CloseUpdates_AfterWorkers ==
    /\ ~updatesClosed /\ forwarder = Ended /\ tv = Ended /\ resultsClosed
    /\ updatesClosed' = TRUE
    /\ UNCHANGED <<mode, handler, samo, tv, updates, fetched, stored>>

CloseUpdates ==
    /\ ~updatesClosed /\ forwarder = Ended /\ tv = Ended
    /\ updatesClosed' = TRUE
    /\ UNCHANGED <<mode, handler, samo, tv, updates, fetched, stored>>

-----------------------------------------------------------------------------
(* The handler's loop.  The error of the write itself is not looked at.    *)
Collect ==
    /\ phase = "search" /\ updates # <<>>
    /\ raw' = raw \cup {Head(updates)}
    /\ updates' = Tail(updates)
    /\ UNCHANGED <<mode, phase, asked, present, samo, tv, updatesClosed, fetched, stored>>

(* The last snapshot, and the goroutine that is to store it, whatever it   *)
(* holds and whether or not somebody still reads it.                       *)
Finish ==
    /\ phase = "search" /\ updates = <<>> /\ updatesClosed
    /\ saves' = IF mode.popular THEN saves
                ELSE saves \cup {[whole |-> raw = fetched, left |-> ~present]}
    /\ Return
    /\ UNCHANGED <<mode, asked, raw, samo, merged, fetched, cache>>

Store ==
    /\ \E s \in saves :
         /\ cache' \in {{s}, cache}
         /\ saves' = saves \ {s}
    /\ UNCHANGED <<mode, handler, samo, merged, fetched>>

Leave ==
    /\ phase # "returned" /\ present
    /\ present' = FALSE
    /\ UNCHANGED <<mode, phase, asked, raw, samo, merged, fetched, stored>>

Expire ==
    /\ cache # {}
    /\ cache' = {}
    /\ UNCHANGED <<mode, handler, samo, merged, fetched, saves>>

Handle == LookupPopular \/ CacheHit \/ CacheMiss \/ NothingToRun \/ Start \/ Collect \/ Finish

Fetch == \E j \in Jobs : FirstPage(j) \/ \E p \in 2..MaxPages : FetchPage(j, p)

Produce ==
    \/ \E j \in Jobs : TakeJob(j) \/ FinishJob(j)
    \/ StopWorker \/ CloseResults \/ Forward \/ StopForwarding \/ CloseUpdates

(* Between requests the server may be at rest. *)
Rest == phase = "returned" /\ UNCHANGED vars

Next == Arrive \/ Handle \/ Produce \/ Fetch \/ TvEmit \/ Store \/ Leave \/ Expire \/ Rest

Spec == Init /\ [][Next]_vars

(* A goroutine that can go on does: requests to operators and to Tourvisor *)
(* end by their timeouts (stream_testjob.go:19-30).  Whether a request has *)
(* tickets to send is not the scheduler's choice, so it is sure to go on   *)
(* only where a send would.  No step of a request repeats, which makes the *)
(* fairness of all of them together enough.                                *)
FairSpec ==
    Spec /\ WF_vars(\/ Handle \/ Produce \/ Store
                    \/ Room /\ Fetch
                    \/ (Len(updates) < UpdatesCap \/ ~present) /\ TvEmit)

-----------------------------------------------------------------------------
TypeOK ==
    /\ mode \in Modes
    /\ phase \in {"returned", "popular", "lookup", "urls", "search"}
    /\ asked \in 0..MaxRequests /\ present \in BOOLEAN
    /\ raw \subseteq Batches
    /\ jobs \subseteq Jobs /\ idle \in 0..NumWorkers /\ taken \subseteq Jobs
    /\ pages \in [Jobs -> SUBSET (1..MaxPages)]
    /\ results \in Seq(Batches \cup {Error}) /\ Len(results) <= ResultsCap
    /\ resultsClosed \in BOOLEAN
    /\ forwarder \in {"receiving", Ended} /\ tv \in {"polling", Ended}
    /\ updates \in Seq(Batches) /\ Len(updates) <= UpdatesCap
    /\ updatesClosed \in BOOLEAN
    /\ fetched \subseteq Batches
    /\ saves \subseteq Entries
    /\ cache \subseteq Entries /\ Cardinality(cache) <= 1

(* Nobody is left who could send on a channel that is closed, which would  *)
(* bring the process down: results close after every worker and every page *)
(* (stream_handler.go:194-197), updates after both producers (235-238).    *)
ClosedAfterSenders ==
    /\ resultsClosed =>
         /\ WorkersEnded
         /\ \A j \in Jobs : pages[j] = {}
    /\ updatesClosed => forwarder = Ended /\ tv = Ended

(* As long as the user is there, somebody drains results until they are    *)
(* closed, so that no worker is stuck in a send (stream_handler.go:198).   *)
DrainedWhilePresent ==
    phase = "search" /\ present => forwarder = "receiving" \/ resultsClosed

(* What is stored for the next users of the query lacks a batch that was   *)
(* fetched only if the user had left before the search was over.           *)
OnlyLeavingLosesTickets ==
    \A s \in saves \cup cache : s.whole \/ s.left

(* A search comes to its end, whoever leaves: neither the handler nor the  *)
(* two producers of updates wait for a reader that is gone                 *)
(* (stream_handler.go:204-208, 221-224).                                   *)
StreamsEnd == phase = "search" ~> phase = "returned"
=============================================================================
