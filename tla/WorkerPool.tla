----------------------------- MODULE WorkerPool -----------------------------
(***************************************************************************)
(* workers/collect.go, worker.go, prodjob.go, testjob.go and fetchpage.go: *)
(* one search fanned out to a pool.  The search feeds its jobs, one per    *)
(* operator request, into a buffered channel and closes it; each worker    *)
(* asks for the first page, starts one goroutine for every further page    *)
(* the operator has, gathers what they send on an unbuffered channel, and  *)
(* delivers one result per job.  A WaitGroup and a closing goroutine end   *)
(* each of the two gathering loops.                                        *)
(***************************************************************************)
EXTENDS Integers, Sequences, FiniteSets, FiniteSetsExt

CONSTANTS Workers,     \* workerCount goroutines
          NumJobs,     \* len(jobsList)
          Options,     \* what a job may ask for (OptionsAssumption)
          MaxTotal,    \* bound on the number of pages an operator reports
          PageCap,     \* OPERATOR_MAX_PAGES, or 60
          MaxFaults    \* bound on failed exchanges while not cancelled

ASSUME JobsAssumption    == NumJobs \in Nat
ASSUME WorkersAssumption == NumJobs > 0 => Workers # {}  \* len(jobs), or a setting that is at least 1
ASSUME PagesAssumption   == MaxTotal \in Nat /\ PageCap \in Nat \ {0}
ASSUME FaultsAssumption  == MaxFaults \in Nat
ASSUME OptionsAssumption ==
    Options \subseteq [test : BOOLEAN, firstPageOnly : BOOLEAN, maxPages : Nat]

Jobs      == 1..NumJobs
MorePages == 2..MaxTotal
TestPages == 9         \* HandleTestJob stops at page 10

VARIABLES options,     \* options[j] of job j
          mpc, next,   \* where CollectResults stands, the next job to feed
          jobs, jobsClosed,
          results, resultsClosed,
          collected,   \* what CollectResults has drained
          wpc, job,    \* where a worker stands, the job it has in hand
          last,        \* last[w]: the last page it asks for
          page,        \* page[w][p]: the goroutine that fetches page p
          chClosed,    \* chClosed[w]: the channel of its pages is closed
          got,         \* got[w]: pages in formatPrices
          cancelled, faults,
          fetched      \* pages operators have delivered for a job (history)

main     == <<mpc, next, jobsClosed, collected>>
workerV  == <<wpc, job, last, page, chClosed, got>>
settings == <<options, cancelled>>
poolVars == <<settings, main, jobs, results, resultsClosed, workerV, faults, fetched>>

NoPages == [p \in MorePages |-> "none"]

-----------------------------------------------------------------------------
PoolInit ==
    /\ options \in [Jobs -> Options]
    /\ mpc = "feed" /\ next = 1
    /\ jobs = <<>> /\ jobsClosed = FALSE
    /\ results = <<>> /\ resultsClosed = FALSE
    /\ collected = <<>>
    /\ wpc = [w \in Workers |-> "idle"]
    /\ job = [w \in Workers |-> 0]
    /\ last = [w \in Workers |-> 0]
    /\ page = [w \in Workers |-> NoPages]
    /\ chClosed = [w \in Workers |-> FALSE]
    /\ got = [w \in Workers |-> {}]
    /\ cancelled = FALSE
    /\ faults = 0
    /\ fetched = [j \in Jobs |-> {}]

(* An exchange may fail; all of them do at some point once the context is  *)
(* cancelled.                                                              *)
Failure ==
    \/ cancelled /\ UNCHANGED faults
    \/ faults < MaxFaults /\ faults' = faults + 1

(* The buffer has room for every job.  Once the context is done, select    *)
(* may pick that case: break leaves the select only, the job is skipped    *)
(* and the loop goes on.                                                   *)
Feed ==
    /\ mpc = "feed" /\ next <= NumJobs
    /\ \/ Len(jobs) < NumJobs /\ jobs' = Append(jobs, next)
       \/ cancelled /\ UNCHANGED jobs
    /\ next' = next + 1
    /\ UNCHANGED <<settings, mpc, jobsClosed, collected, results, resultsClosed, workerV, faults, fetched>>

(* Mutant: the jobs channel is left open. *)
CloseJobs_Forgotten ==
    /\ mpc = "feed" /\ next > NumJobs
    /\ mpc' = "drain"
    /\ UNCHANGED <<settings, next, jobsClosed, collected, jobs, results, resultsClosed, workerV, faults, fetched>>

CloseJobs ==
    /\ mpc = "feed" /\ next > NumJobs
    /\ jobsClosed' = TRUE
    /\ mpc' = "drain"
    /\ UNCHANGED <<settings, next, collected, jobs, results, resultsClosed, workerV, faults, fetched>>

(* Mutant: results are closed when the jobs are, not when the workers end. *)
CloseResults_Early ==
    /\ jobsClosed /\ ~resultsClosed
    /\ jobs = <<>>
    /\ resultsClosed' = TRUE
    /\ UNCHANGED <<settings, main, jobs, results, workerV, faults, fetched>>

(* The goroutine that waits for the workers. *)
CloseResults ==
    /\ mpc = "drain" /\ ~resultsClosed
    /\ \A w \in Workers : wpc[w] = "exited"
    /\ resultsClosed' = TRUE
    /\ UNCHANGED <<settings, main, jobs, results, workerV, faults, fetched>>

Drain ==
    /\ mpc = "drain" /\ results # <<>>
    /\ collected' = Append(collected, Head(results))
    /\ results' = Tail(results)
    /\ UNCHANGED <<settings, mpc, next, jobsClosed, jobs, resultsClosed, workerV, faults, fetched>>

(* Mutant: the search stops draining when it is cancelled. *)
Return_OnCancel ==
    /\ mpc = "drain"
    /\ cancelled \/ (results = <<>> /\ resultsClosed)
    /\ mpc' = "returned"
    /\ UNCHANGED <<settings, next, jobsClosed, collected, jobs, results, resultsClosed, workerV, faults, fetched>>

(* The range over results ends. *)
Return ==
    /\ mpc = "drain" /\ results = <<>> /\ resultsClosed
    /\ mpc' = "returned"
    /\ UNCHANGED <<settings, next, jobsClosed, collected, jobs, results, resultsClosed, workerV, faults, fetched>>

-----------------------------------------------------------------------------
TakeJob(w) ==
    /\ wpc[w] = "idle" /\ jobs # <<>>
    /\ job' = [job EXCEPT ![w] = Head(jobs)]
    /\ jobs' = Tail(jobs)
    /\ wpc' = [wpc EXCEPT ![w] = "first"]
    /\ UNCHANGED <<settings, main, results, resultsClosed, last, page, chClosed, got, faults, fetched>>

(* Mutant: a default case ends a worker that finds no job at the moment.   *)
Exit_WhenIdle(w) ==
    /\ wpc[w] = "idle"
    /\ cancelled \/ jobs = <<>>
    /\ wpc' = [wpc EXCEPT ![w] = "exited"]
    /\ UNCHANGED <<settings, main, jobs, results, resultsClosed, job, last, page, chClosed, got, faults, fetched>>

Exit(w) ==
    /\ wpc[w] = "idle"
    /\ cancelled \/ (jobsClosed /\ jobs = <<>>)
    /\ wpc' = [wpc EXCEPT ![w] = "exited"]
    /\ UNCHANGED <<settings, main, jobs, results, resultsClosed, job, last, page, chClosed, got, faults, fetched>>

(* How far a job goes when the operator says it has total pages; few: the  *)
(* first page had fewer than 500 tickets.                                  *)
LastPage(o, total, few) ==
    IF o.firstPageOnly \/ total <= 1 \/ (o.test /\ ~few) THEN 1
    ELSE IF o.test THEN Min({total, TestPages})
    ELSE Min({total, PageCap} \cup (IF o.maxPages > 0 THEN {o.maxPages} ELSE {}))

Result(w, pages, error) == [job |-> job[w], pages |-> pages, last |-> last[w], error |-> error]

(* A result is sent and the worker comes back to its loop. *)
Deliver(w, result) ==
    /\ Len(results) < NumJobs
    /\ results' = Append(results, result)
    /\ wpc' = [wpc EXCEPT ![w] = "idle"]
    /\ job' = [job EXCEPT ![w] = 0]
    /\ last' = [last EXCEPT ![w] = 0]
    /\ page' = [page EXCEPT ![w] = NoPages]
    /\ chClosed' = [chClosed EXCEPT ![w] = FALSE]
    /\ got' = [got EXCEPT ![w] = {}]

(* The first page came: the goroutines for the others are started.  When   *)
(* there are none the channel of pages is closed without more ado.         *)
First(w) ==
    /\ wpc[w] = "first"
    /\ \E total \in 0..MaxTotal, few \in BOOLEAN :
         LET until == LastPage(options[job[w]], total, few) IN
         /\ last' = [last EXCEPT ![w] = until]
         /\ page' = [page EXCEPT ![w] =
                       [p \in MorePages |-> IF p <= until THEN "fetching" ELSE "none"]]
    /\ got' = [got EXCEPT ![w] = {1}]
    /\ fetched' = [fetched EXCEPT ![job[w]] = @ \cup {1}]
    /\ wpc' = [wpc EXCEPT ![w] = "pages"]
    /\ UNCHANGED <<settings, main, jobs, results, resultsClosed, job, chClosed, faults>>

(* Signing, the exchange (busy, too), or parsing failed. *)
FirstFails(w) ==
    /\ wpc[w] = "first"
    /\ Failure
    /\ Deliver(w, Result(w, {}, TRUE))
    /\ UNCHANGED <<settings, main, jobs, resultsClosed, fetched>>

(* A page goroutine has its tickets, or nil, and waits to send them. *)
PageArrives(w, p) ==
    /\ page[w][p] = "fetching"
    /\ page' = [page EXCEPT ![w][p] = "tickets"]
    /\ fetched' = [fetched EXCEPT ![job[w]] = @ \cup {p}]
    /\ UNCHANGED <<settings, main, jobs, results, resultsClosed, wpc, job, last, chClosed, got, faults>>

PageFails(w, p) ==
    /\ page[w][p] = "fetching"
    /\ Failure
    /\ page' = [page EXCEPT ![w][p] = "nil"]
    /\ UNCHANGED <<settings, main, jobs, results, resultsClosed, wpc, job, last, chClosed, got, fetched>>

(* The rendezvous on ch. *)
Gather(w, p) ==
    /\ wpc[w] = "pages" /\ ~chClosed[w]
    /\ page[w][p] \in {"tickets", "nil"}
    /\ got' = [got EXCEPT ![w] = IF page[w][p] = "tickets" THEN @ \cup {p} ELSE @]
    /\ page' = [page EXCEPT ![w][p] = "sent"]
    /\ UNCHANGED <<settings, main, jobs, results, resultsClosed, wpc, job, last, chClosed, faults, fetched>>

(* The deferred wg.Done. *)
PageDone(w, p) ==
    /\ page[w][p] = "sent"
    /\ page' = [page EXCEPT ![w][p] = "none"]
    /\ UNCHANGED <<settings, main, jobs, results, resultsClosed, wpc, job, last, chClosed, got, faults, fetched>>

(* Mutant: wg.Add is called in the goroutine, after its fetch. *)
ClosePages_LateAdd(w) ==
    /\ wpc[w] = "pages" /\ ~chClosed[w]
    /\ \A p \in MorePages : page[w][p] \in {"none", "fetching"}
    /\ chClosed' = [chClosed EXCEPT ![w] = TRUE]
    /\ UNCHANGED <<settings, main, jobs, results, resultsClosed, wpc, job, last, page, got, faults, fetched>>

(* The goroutine that waits for the pages. *)
ClosePages(w) ==
    /\ wpc[w] = "pages" /\ ~chClosed[w]
    /\ \A p \in MorePages : page[w][p] = "none"
    /\ chClosed' = [chClosed EXCEPT ![w] = TRUE]
    /\ UNCHANGED <<settings, main, jobs, results, resultsClosed, wpc, job, last, page, got, faults, fetched>>

(* The range over ch ends; the job has its one result. *)
Finish(w) ==
    /\ wpc[w] = "pages" /\ chClosed[w]
    /\ Deliver(w, Result(w, got[w], FALSE))
    /\ UNCHANGED <<settings, main, jobs, resultsClosed, faults, fetched>>

(* The request's or the server's context is cancelled. *)
Cancel ==
    /\ ~cancelled /\ mpc # "returned"
    /\ cancelled' = TRUE
    /\ UNCHANGED <<options, main, jobs, results, resultsClosed, workerV, faults, fetched>>

MainStep == Feed \/ CloseJobs \/ Drain \/ Return

WorkerStep(w) ==
    \/ TakeJob(w) \/ Exit(w) \/ First(w) \/ FirstFails(w)
    \/ ClosePages(w) \/ Finish(w)
    \/ \E p \in MorePages : Gather(w, p)

PageStep(w, p) == PageArrives(w, p) \/ PageFails(w, p) \/ PageDone(w, p)

PoolNext ==
    \/ MainStep \/ CloseResults \/ Cancel
    \/ \E w \in Workers : WorkerStep(w) \/ \E p \in MorePages : PageStep(w, p)

PoolSpec == PoolInit /\ [][PoolNext]_poolVars

(* Goroutines run and exchanges end, in an answer or an error: the slots   *)
(* and the HTTP client have timeouts.                                      *)
FairPoolSpec ==
    /\ PoolSpec
    /\ WF_poolVars(MainStep) /\ WF_poolVars(CloseResults)
    /\ \A w \in Workers :
         /\ WF_poolVars(WorkerStep(w))
         /\ \A p \in MorePages : WF_poolVars(PageStep(w, p))

-----------------------------------------------------------------------------
Results == [job : Jobs, pages : SUBSET (1..MaxTotal \cup {1}), last : Nat, error : BOOLEAN]

PoolTypeOK ==
    /\ options \in [Jobs -> Options]
    /\ mpc \in {"feed", "drain", "returned"} /\ next \in 1..NumJobs + 1
    /\ jobs \in Seq(Jobs) /\ results \in Seq(Results) /\ collected \in Seq(Results)
    /\ {jobsClosed, resultsClosed, cancelled} \subseteq BOOLEAN
    /\ wpc \in [Workers -> {"idle", "first", "pages", "exited"}]
    /\ job \in [Workers -> Jobs \cup {0}]
    /\ \A w \in Workers : job[w] = 0 <=> wpc[w] \in {"idle", "exited"}
    /\ last \in [Workers -> Nat]
    /\ page \in [Workers -> [MorePages -> {"none", "fetching", "tickets", "nil", "sent"}]]
    /\ chClosed \in [Workers -> BOOLEAN]
    /\ got \in [Workers -> SUBSET (1..MaxTotal \cup {1})]
    /\ faults \in 0..MaxFaults
    /\ fetched \in [Jobs -> SUBSET (1..MaxTotal \cup {1})]

(* No goroutine sends on a closed channel, which would bring the process   *)
(* down: results close after the last worker (collect.go:34-37), the       *)
(* pages' channel after the last fetch (prodjob.go:97-100).                *)
ClosedAfterSenders ==
    /\ resultsClosed => \A w \in Workers : wpc[w] = "exited"
    /\ \A w \in Workers :
         chClosed[w] => \A p \in MorePages : page[w][p] \notin {"fetching", "tickets", "nil"}

Answers(j) == {i \in DOMAIN collected : collected[i].job = j}

(* Where a job can be: still to be fed, queued, worked on, or answered.    *)
Places(j) ==
    (IF j >= next THEN 1 ELSE 0)
      + Cardinality({i \in DOMAIN jobs : jobs[i] = j})
      + Cardinality({w \in Workers : job[w] = j})
      + Cardinality({i \in DOMAIN results : results[i].job = j})
      + Cardinality(Answers(j))

(* No job is worked on or answered twice, only a cancelled search loses    *)
(* one, and none is left in a queue or a worker's hand when the search     *)
(* returns: it has one result of every operator request, with an error if  *)
(* need be (collect.go:25-52, worker.go:16-31).                            *)
JobsAreAnsweredOnce ==
    /\ \A j \in Jobs : Places(j) <= 1 /\ (Places(j) = 0 => cancelled)
    /\ mpc = "returned" /\ ~cancelled => \A j \in Jobs : Cardinality(Answers(j)) = 1

(* Whatever an operator has delivered by the time the search returns is in *)
(* what it returns, whether or not pages failed or the search was          *)
(* cancelled meanwhile.                                                    *)
NothingFetchedIsLost ==
    mpc = "returned" =>
        \A j \in Jobs :
            fetched[j] = UNION {collected[i].pages : i \in {k \in DOMAIN collected : collected[k].job = j}}

(* CollectResults returns, cancelled or not (collect.go:47-52). *)
SearchReturns == <>(mpc = "returned")
=============================================================================
