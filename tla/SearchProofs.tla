----------------------------- MODULE SearchProofs -----------------------------
(***************************************************************************)
(* Proofs about the two halves of one search of the operators: Coalesce,   *)
(* which makes identical requests one search, and WorkerPool, which fans   *)
(* that search out; for any requests, keys, workers, jobs, pages and       *)
(* failures.                                                               *)
(*                                                                         *)
(* Coalescing: the invariant adds to the properties what links a follower  *)
(* to its call: the call it joined is for its own key, a call whose        *)
(* channel is closed is over, and a result is written once, before the     *)
(* call is over.                                                           *)
(*                                                                         *)
(* The pool: a job is in one place, a set of facts about who may hold it   *)
(* that needs no counting; what was fetched for it is where the job is;    *)
(* page goroutines live within their worker's wait for them, and workers   *)
(* within the search's.  The counts of JobsAreAnsweredOnce and the room in *)
(* the channels follow from it.                                            *)
(***************************************************************************)
EXTENDS Coalesce, WorkerPool, FiniteSetTheorems, SequenceTheorems, TLAPS

Bookkeeping ==
    \A r \in Requests :
        /\ joined[r] # None =>
              /\ pc[r] \in {"waiting", "paginate", "done", "failed"}
              /\ key[joined[r]] = key[r]
              /\ pc[r] # "waiting" => joined[r] \in closed
        /\ pc[r] = "waiting" => joined[r] # None
        /\ r \in closed => pc[r] \in {"paginate", "done", "failed"}
        /\ outcome[r] # "none" => pc[r] \in {"saving", "deregister", "close", "paginate", "done"}
        /\ pc[r] = "saving" => outcome[r] = "tickets"

(* Only results worth having are stored: an empty search is tried again.   *)
OnlyTicketsAreCached ==
    \A k \in Keys :
        cached[k] # None => key[cached[k]] = k /\ outcome[cached[k]] = "tickets"

IInv ==
    /\ TypeOK
    /\ MapHoldsRunningCalls
    /\ Bookkeeping
    /\ AnswersBelongToTheSearch
    /\ OnlyTicketsAreCached

(* Every step of coalescing keeps the types.                               *)
LEMMA TypeStep == TypeOK /\ [Next]_vars => TypeOK'
<1> SUFFICES ASSUME TypeOK, [Next]_vars
             PROVE  TypeOK'
  OBVIOUS
<1> USE DEF TypeOK, GoTo, Steps, Outcomes, shared
<1>1. ASSUME NEW r \in Requests, Arrive(r) PROVE TypeOK'
  BY <1>1 DEF Arrive
<1>2. ASSUME NEW r \in Requests, Lookup(r) PROVE TypeOK'
  BY <1>2 DEF Lookup
<1>3. ASSUME NEW r \in Requests, Enter(r) PROVE TypeOK'
  BY <1>3 DEF Enter
<1>4. ASSUME NEW r \in Requests, Load(r) PROVE TypeOK'
  BY <1>4 DEF Load
<1>5. ASSUME NEW r \in Requests, Save(r) PROVE TypeOK'
  BY <1>5 DEF Save
<1>6. ASSUME NEW r \in Requests, Deregister(r) PROVE TypeOK'
  BY <1>6 DEF Deregister
<1>7. ASSUME NEW r \in Requests, Close(r) PROVE TypeOK'
  BY <1>7 DEF Close, Take
<1>8. ASSUME NEW r \in Requests, Wake(r) PROVE TypeOK'
  BY <1>8 DEF Wake, Take
<1>9. ASSUME NEW r \in Requests, Paginate(r) PROVE TypeOK'
  BY <1>9 DEF Paginate
<1>10. ASSUME NEW r \in Requests, LookupFails(r) \/ Panic(r) \/ SaveFails(r) PROVE TypeOK'
  BY <1>10, TroubleAssumption DEF LookupFails, Panic, SaveFails, Trouble
<1>11. ASSUME NEW k \in Keys, Expire(k) PROVE TypeOK'
  BY <1>11 DEF Expire
<1>12. CASE UNCHANGED vars
  BY <1>12 DEF vars
<1> QED
  BY <1>1, <1>2, <1>3, <1>4, <1>5, <1>6, <1>7, <1>8, <1>9, <1>10, <1>11, <1>12 DEF Next, Step

(* The map and the goroutines move together: an owner appears in both in   *)
(* the critical section and leaves both in the deferred function.          *)
LEMMA MapStep == TypeOK /\ MapHoldsRunningCalls /\ [Next]_vars => MapHoldsRunningCalls'
<1> SUFFICES ASSUME TypeOK, MapHoldsRunningCalls, [Next]_vars
             PROVE  MapHoldsRunningCalls'
  OBVIOUS
<1> USE NoneAssumption DEF TypeOK, MapHoldsRunningCalls, GoTo, Working, shared
<1>1. ASSUME NEW r \in Requests, Enter(r) PROVE MapHoldsRunningCalls'
  BY <1>1 DEF Enter
<1>2. ASSUME NEW r \in Requests, Deregister(r) PROVE MapHoldsRunningCalls'
  BY <1>2 DEF Deregister
<1>3. ASSUME NEW r \in Requests, Arrive(r) \/ Lookup(r) \/ LookupFails(r)
      PROVE  MapHoldsRunningCalls'
  BY <1>3 DEF Arrive, Lookup, LookupFails
<1>4. ASSUME NEW r \in Requests, Load(r) \/ Panic(r) \/ Save(r) \/ SaveFails(r)
      PROVE  MapHoldsRunningCalls'
  BY <1>4 DEF Load, Panic, Save, SaveFails
<1>5. ASSUME NEW r \in Requests, Close(r) \/ Wake(r) \/ Paginate(r)
      PROVE  MapHoldsRunningCalls'
  BY <1>5 DEF Close, Wake, Paginate, Take
<1>6. ASSUME NEW k \in Keys, Expire(k) PROVE MapHoldsRunningCalls'
  BY <1>6 DEF Expire
<1>7. CASE UNCHANGED vars
  BY <1>7 DEF vars
<1> QED
  BY <1>1, <1>2, <1>3, <1>4, <1>5, <1>6, <1>7 DEF Next, Step

(* What an answer and a stored result are made of never changes again.     *)
LEMMA AnswerStep ==
    IInv /\ [Next]_vars => Bookkeeping' /\ AnswersBelongToTheSearch' /\ OnlyTicketsAreCached'
<1> DEFINE Goal == Bookkeeping' /\ AnswersBelongToTheSearch' /\ OnlyTicketsAreCached'
<1> SUFFICES ASSUME IInv, [Next]_vars
             PROVE  Goal
  OBVIOUS
<1> USE NoneAssumption DEF IInv, TypeOK, Bookkeeping, AnswersBelongToTheSearch,
        OnlyTicketsAreCached, GoTo, shared
<1>1. ASSUME NEW r \in Requests, Arrive(r) PROVE Goal
  BY <1>1 DEF Arrive
<1>2. ASSUME NEW r \in Requests, Lookup(r) PROVE Goal
  BY <1>2 DEF Lookup
<1>3. ASSUME NEW r \in Requests, Enter(r) PROVE Goal
  BY <1>3 DEF Enter, MapHoldsRunningCalls
<1>4. ASSUME NEW r \in Requests, Load(r) PROVE Goal
  BY <1>4 DEF Load
<1>5. ASSUME NEW r \in Requests, Save(r) PROVE Goal
  BY <1>5 DEF Save
<1>6. ASSUME NEW r \in Requests, Deregister(r) PROVE Goal
  BY <1>6 DEF Deregister
<1>7. ASSUME NEW r \in Requests, Close(r) PROVE Goal
  BY <1>7 DEF Close, Take
<1>8. ASSUME NEW r \in Requests, Wake(r) PROVE Goal
  BY <1>8 DEF Wake, Take
<1>9. ASSUME NEW r \in Requests, Paginate(r) PROVE Goal
  BY <1>9 DEF Paginate
<1>10. ASSUME NEW r \in Requests, LookupFails(r) \/ Panic(r) \/ SaveFails(r) PROVE Goal
  BY <1>10 DEF LookupFails, Panic, SaveFails
<1>11. ASSUME NEW k \in Keys, Expire(k) PROVE Goal
  BY <1>11 DEF Expire
<1>12. CASE UNCHANGED vars
  BY <1>12 DEF vars
<1> QED
  BY <1>1, <1>2, <1>3, <1>4, <1>5, <1>6, <1>7, <1>8, <1>9, <1>10, <1>11, <1>12 DEF Next, Step

(* The initial states satisfy the inductive invariant.                     *)
LEMMA InvariantInit == Init => IInv
BY NoneAssumption, TroubleAssumption DEF Init, IInv, TypeOK, Steps, Outcomes, MapHoldsRunningCalls,
   Working, Bookkeeping, AnswersBelongToTheSearch, OnlyTicketsAreCached

(* The inductive invariant holds throughout (its step is proved above).    *)
LEMMA Invariance == Spec => []IInv
<1>1. IInv /\ [Next]_vars => IInv'
  BY TypeStep, MapStep, AnswerStep DEF IInv
<1> QED
  BY <1>1, InvariantInit, PTL DEF Spec

(* Every variable keeps its type. *)
THEOREM TypeCorrect == Spec => []TypeOK
BY Invariance, PTL DEF IInv

(* At most one search runs for a key, whatever panics and whatever Redis   *)
(* loses (search_coalesce.go:31).                                          *)
THEOREM OneSearch == Spec => []OneSearchPerKey
<1>1. IInv => OneSearchPerKey
  BY DEF IInv, TypeOK, MapHoldsRunningCalls, OneSearchPerKey
<1> QED
  BY <1>1, Invariance, PTL

(* A call is in the map exactly while its owner works on it, so a follower *)
(* only ever joins a call that is still to be closed.                      *)
THEOREM MapIsExact == Spec => []MapHoldsRunningCalls
BY Invariance, PTL DEF IInv

(* Every answer is the complete result of a search for the same key, and a *)
(* follower's is the one it joined (search_coalesce.go:16-18, 31-53).      *)
THEOREM AnswersAreTheSearchs == Spec => []AnswersBelongToTheSearch
BY Invariance, PTL DEF IInv

-----------------------------------------------------------------------------
(* The pool: what holds at every step, and who can have a job.             *)

(* The loop that feeds the jobs comes first, the closing of results last.  *)
MainInOrder ==
    /\ jobsClosed <=> mpc # "feed"
    /\ jobsClosed => next > NumJobs
    /\ resultsClosed => jobsClosed /\ \A w \in Workers : wpc[w] = "exited"
    /\ mpc = "returned" => resultsClosed /\ results = <<>>

(* Page goroutines run only while their worker gathers pages, and its      *)
(* channel is closed when there is none any more.                          *)
PagesAreAwaited ==
    \A w \in Workers :
        /\ chClosed[w] => wpc[w] = "pages"
        /\ \A p \in MorePages : page[w][p] # "none" => wpc[w] = "pages" /\ ~chClosed[w]

(* A worker ends a search that is not cancelled when no job is left.       *)
ExitsLeaveNothing ==
    ~cancelled => \A w \in Workers : wpc[w] = "exited" => jobsClosed /\ jobs = <<>>

(* The jobs of results in a sequence are all different.                    *)
AnswersDiffer(q) == \A i, k \in 1..Len(q) : q[i].job = q[k].job => i = k

(* A job that was fed is queued, worked on, answered, or gathered, and in  *)
(* one of these places only.                                               *)
QueuedOnce ==
    /\ \A i, k \in 1..Len(jobs) : jobs[i] = jobs[k] => i = k
    /\ \A i \in 1..Len(jobs) : jobs[i] < next

WorkedOnOnce ==
    \A w \in Workers :
        /\ job[w] < next
        /\ \A v \in Workers : job[v] = job[w] => v = w \/ job[w] = 0
        /\ \A i \in 1..Len(jobs) : jobs[i] # job[w]

AnsweredOnce(q) ==
    /\ AnswersDiffer(q)
    /\ \A i \in 1..Len(q) :
         /\ q[i].job < next
         /\ \A k \in 1..Len(jobs) : jobs[k] # q[i].job
         /\ \A w \in Workers : job[w] # q[i].job

GatheredApart ==
    \A i \in 1..Len(results), k \in 1..Len(collected) : results[i].job # collected[k].job

Answered(q, j) == \E i \in 1..Len(q) : q[i].job = j

SomeoneHas(j) == \E w \in Workers : job[w] = j

NoJobVanishes ==
    \A j \in Jobs :
        \/ cancelled \/ j >= next \/ SomeoneHas(j)
        \/ \E i \in 1..Len(jobs) : jobs[i] = j
        \/ Answered(results, j) \/ Answered(collected, j)

OnePlace ==
    /\ QueuedOnce /\ WorkedOnOnce
    /\ AnsweredOnce(results) /\ AnsweredOnce(collected) /\ GatheredApart

(* What was fetched for a job is with the worker that has it in hand, or   *)
(* in its result.                                                          *)
Waiting(w) == {p \in MorePages : page[w][p] = "tickets"}

FetchedIsKept ==
    /\ \A w \in Workers :
         /\ wpc[w] = "first" => fetched[job[w]] = {}
         /\ wpc[w] = "pages" => fetched[job[w]] = got[w] \cup Waiting(w)
    /\ \A i \in 1..Len(results) : fetched[results[i].job] = results[i].pages
    /\ \A i \in 1..Len(collected) : fetched[collected[i].job] = collected[i].pages
    /\ \A j \in Jobs :
         fetched[j] # {} => SomeoneHas(j) \/ Answered(results, j) \/ Answered(collected, j)

PoolInv ==
    /\ PoolTypeOK
    /\ MainInOrder /\ PagesAreAwaited /\ ExitsLeaveNothing
    /\ OnePlace /\ NoJobVanishes
    /\ FetchedIsKept

(* No one ever waits for room in a buffer. *)
BuffersHaveRoom ==
    /\ mpc = "feed" /\ next <= NumJobs => Len(jobs) < NumJobs
    /\ \A w \in Workers : wpc[w] \in {"first", "pages"} => Len(results) < NumJobs

(* What a channel holds after a send, at each place.                       *)
LEMMA Sent ==
    ASSUME NEW S, NEW q \in Seq(S), NEW e \in S
    PROVE  /\ Append(q, e) \in Seq(S)
           /\ Len(q) \in Nat /\ Len(Append(q, e)) = Len(q) + 1
           /\ \A i \in 1..Len(q) : Append(q, e)[i] = q[i]
           /\ Append(q, e)[Len(q) + 1] = e
BY AppendProperties, LenProperties

(* What a channel holds after a receive.                                   *)
LEMMA Received ==
    ASSUME NEW S, NEW q \in Seq(S), q # <<>>
    PROVE  /\ Tail(q) \in Seq(S)
           /\ Len(q) \in Nat \ {0} /\ Len(Tail(q)) = Len(q) - 1
           /\ Head(q) = q[1] /\ Head(q) \in S
           /\ \A i \in 1..Len(Tail(q)) : Tail(q)[i] = q[i + 1]
BY HeadTailProperties, LenProperties, EmptySeq

(* The elements of a channel are of its type, and an empty one has none.   *)
LEMMA ElementTypes ==
    ASSUME NEW S, NEW q \in Seq(S)
    PROVE  /\ Len(q) \in Nat /\ DOMAIN q = 1..Len(q)
           /\ \A i \in 1..Len(q) : q[i] \in S
           /\ q = <<>> <=> Len(q) = 0
BY ElementOfSeq, LenProperties, EmptySeq

(* However far a job goes, it is a number of pages.                        *)
LEMMA LastPageIsNumber ==
    ASSUME NEW o \in Options, NEW total \in Nat, NEW few
    PROVE  LastPage(o, total, few) \in Nat
<1>1. /\ o.maxPages \in Nat /\ PageCap \in Nat
  BY OptionsAssumption, PagesAssumption
<1>2. ASSUME NEW a \in Nat, NEW b \in Nat
      PROVE  Min({a, b}) \in Nat
  <2>1. \E x \in {a, b} : \A y \in {a, b} : x <= y
    <3>1. CASE a <= b
      BY <3>1
    <3>2. CASE ~(a <= b)
      BY <3>2
    <3> QED
      BY <3>1, <3>2
  <2>2. Min({a, b}) \in {a, b}
    BY <2>1 DEF Min
  <2> QED
    BY <2>2
<1>3. ASSUME NEW a \in Nat, NEW b \in Nat, NEW c \in Nat
      PROVE  Min({a, b} \cup {c}) \in Nat
  <2>1. \E x \in {a, b} \cup {c} : \A y \in {a, b} \cup {c} : x <= y
    <3>1. CASE a <= b /\ a <= c
      BY <3>1
    <3>2. CASE b <= a /\ b <= c
      BY <3>2
    <3>3. CASE c <= a /\ c <= b
      BY <3>3
    <3> QED
      BY <3>1, <3>2, <3>3
  <2>2. Min({a, b} \cup {c}) \in {a, b} \cup {c}
    BY <2>1 DEF Min
  <2> QED
    BY <2>2
<1>4. Min({total, PageCap} \cup {}) \in Nat
  <2>1. {total, PageCap} \cup {} = {total, PageCap}
    OBVIOUS
  <2> QED
    BY <1>1, <1>2, <2>1
<1> QED
  BY <1>1, <1>2, <1>3, <1>4 DEF LastPage, TestPages

-----------------------------------------------------------------------------
(* A delivered result has the type of results. *)
LEMMA DeliverTypes ==
    ASSUME PoolTypeOK, NEW w \in Workers, job[w] # 0,
           NEW pages \in SUBSET (1..MaxTotal \cup {1}), NEW error \in BOOLEAN,
           Deliver(w, Result(w, pages, error)),
           UNCHANGED <<settings, main, jobs, resultsClosed, fetched>>, faults' \in 0..MaxFaults
    PROVE  PoolTypeOK'
<1>1. Result(w, pages, error) \in Results
  BY DEF PoolTypeOK, Result, Results
<1>2. results' \in Seq(Results)
  BY <1>1, Sent DEF PoolTypeOK, Deliver
<1>3. UNCHANGED <<options, mpc, next, jobs, jobsClosed, collected, resultsClosed, cancelled, fetched>>
  BY DEF settings, main
<1>4. /\ wpc' \in [Workers -> {"idle", "first", "pages", "exited"}]
      /\ job' \in [Workers -> Jobs \cup {0}]
      /\ \A v \in Workers : job'[v] = 0 <=> wpc'[v] \in {"idle", "exited"}
  BY DEF PoolTypeOK, Deliver
<1>5. /\ last' \in [Workers -> Nat]
      /\ page' \in [Workers -> [MorePages -> {"none", "fetching", "tickets", "nil", "sent"}]]
  BY DEF PoolTypeOK, Deliver, NoPages
<1>6. /\ chClosed' \in [Workers -> BOOLEAN]
      /\ got' \in [Workers -> SUBSET (1..MaxTotal \cup {1})]
  BY DEF PoolTypeOK, Deliver
<1> QED
  BY <1>2, <1>3, <1>4, <1>5, <1>6 DEF PoolTypeOK

(* A failure stays within the bound.                                       *)
LEMMA FailureBound == PoolTypeOK /\ Failure => faults' \in 0..MaxFaults
BY FaultsAssumption DEF PoolTypeOK, Failure

(* Every step of the pool keeps the types.                                 *)
LEMMA PoolTypeStep == PoolTypeOK /\ [PoolNext]_poolVars => PoolTypeOK'
<1> SUFFICES ASSUME PoolTypeOK, [PoolNext]_poolVars
             PROVE  PoolTypeOK'
  OBVIOUS
<1>1. CASE Feed
  <2>1. next' = next + 1 /\ next \in Jobs /\ next' \in 1..NumJobs + 1
    BY <1>1, JobsAssumption DEF Feed, PoolTypeOK, Jobs
  <2>2. jobs' \in Seq(Jobs)
    <3>1. jobs \in Seq(Jobs) /\ (jobs' = Append(jobs, next) \/ jobs' = jobs)
      BY <1>1 DEF Feed, PoolTypeOK
    <3> QED
      BY <2>1, <3>1, Sent
  <2> QED
    BY <1>1, <2>1, <2>2 DEF Feed, PoolTypeOK, settings, workerV
<1>2. CASE CloseJobs
  BY <1>2 DEF CloseJobs, PoolTypeOK, settings, workerV
<1>3. CASE Drain
  <2>1. collected' \in Seq(Results) /\ results' \in Seq(Results)
    BY <1>3, Received, Sent DEF Drain, PoolTypeOK
  <2> QED
    BY <1>3, <2>1 DEF Drain, PoolTypeOK, settings, workerV
<1>4. CASE Return
  BY <1>4 DEF Return, PoolTypeOK, settings, workerV
<1>5. CASE CloseResults
  BY <1>5 DEF CloseResults, PoolTypeOK, settings, main, workerV
<1>6. CASE Cancel
  BY <1>6 DEF Cancel, PoolTypeOK, main, workerV
<1>7. ASSUME NEW w \in Workers, TakeJob(w)
      PROVE  PoolTypeOK'
  <2>1. Head(jobs) \in Jobs /\ jobs' \in Seq(Jobs)
    BY <1>7, Received DEF TakeJob, PoolTypeOK
  <2>2. Head(jobs) # 0
    BY <2>1 DEF Jobs
  <2> QED
    BY <1>7, <2>1, <2>2 DEF TakeJob, PoolTypeOK, settings, main
<1>8. ASSUME NEW w \in Workers, Exit(w)
      PROVE  PoolTypeOK'
  BY <1>8 DEF Exit, PoolTypeOK, settings, main
<1>9. ASSUME NEW w \in Workers, First(w)
      PROVE  PoolTypeOK'
  <2>1. job[w] # 0 /\ job[w] \in Jobs
    BY <1>9 DEF First, PoolTypeOK
  <2>2. PICK total \in 0..MaxTotal, few \in BOOLEAN :
           /\ last' = [last EXCEPT ![w] = LastPage(options[job[w]], total, few)]
           /\ page' = [page EXCEPT ![w] = [p \in MorePages |->
                 IF p <= LastPage(options[job[w]], total, few) THEN "fetching" ELSE "none"]]
    BY <1>9 DEF First
  <2>3. options[job[w]] \in Options /\ total \in Nat
    BY <2>1, PagesAssumption DEF PoolTypeOK
  <2>4. last' \in [Workers -> Nat]
    BY <2>2, <2>3, LastPageIsNumber DEF PoolTypeOK
  <2>5. page' \in [Workers -> [MorePages -> {"none", "fetching", "tickets", "nil", "sent"}]]
    BY <2>2 DEF PoolTypeOK
  <2>6. /\ got' \in [Workers -> SUBSET (1..MaxTotal \cup {1})]
        /\ fetched' \in [Jobs -> SUBSET (1..MaxTotal \cup {1})]
        /\ wpc' \in [Workers -> {"idle", "first", "pages", "exited"}]
        /\ \A v \in Workers : job[v] = 0 <=> wpc'[v] \in {"idle", "exited"}
    BY <1>9, <2>1 DEF First, PoolTypeOK
  <2> QED
    BY <1>9, <2>4, <2>5, <2>6 DEF First, PoolTypeOK, settings, main
<1>10. ASSUME NEW w \in Workers, FirstFails(w)
       PROVE  PoolTypeOK'
  <2>1. job[w] # 0
    BY <1>10 DEF FirstFails, PoolTypeOK
  <2>2. {} \in SUBSET (1..MaxTotal \cup {1}) /\ TRUE \in BOOLEAN
    OBVIOUS
  <2> QED
    BY <1>10, <2>1, <2>2, FailureBound, DeliverTypes DEF FirstFails
<1>11. ASSUME NEW w \in Workers, ClosePages(w)
       PROVE  PoolTypeOK'
  BY <1>11 DEF ClosePages, PoolTypeOK, settings, main
<1>12. ASSUME NEW w \in Workers, Finish(w)
       PROVE  PoolTypeOK'
  <2>1. job[w] # 0 /\ got[w] \in SUBSET (1..MaxTotal \cup {1}) /\ FALSE \in BOOLEAN
        /\ faults \in 0..MaxFaults
    BY <1>12 DEF Finish, PoolTypeOK
  <2> QED
    BY <1>12, <2>1, DeliverTypes DEF Finish
<1>13. ASSUME NEW w \in Workers, NEW p \in MorePages, Gather(w, p)
       PROVE  PoolTypeOK'
  <2>1. p \in 1..MaxTotal
    BY PagesAssumption DEF MorePages
  <2>2. got' \in [Workers -> SUBSET (1..MaxTotal \cup {1})]
    BY <1>13, <2>1 DEF Gather, PoolTypeOK
  <2>3. page' \in [Workers -> [MorePages -> {"none", "fetching", "tickets", "nil", "sent"}]]
    BY <1>13 DEF Gather, PoolTypeOK
  <2> QED
    BY <1>13, <2>2, <2>3 DEF Gather, PoolTypeOK, settings, main
<1>14. ASSUME NEW w \in Workers, NEW p \in MorePages, PageArrives(w, p)
       PROVE  PoolTypeOK'
  <2>1. p \in 1..MaxTotal
    BY PagesAssumption DEF MorePages
  <2>2. fetched' \in [Jobs -> SUBSET (1..MaxTotal \cup {1})]
    BY <1>14, <2>1 DEF PageArrives, PoolTypeOK
  <2>3. page' \in [Workers -> [MorePages -> {"none", "fetching", "tickets", "nil", "sent"}]]
    BY <1>14 DEF PageArrives, PoolTypeOK
  <2> QED
    BY <1>14, <2>2, <2>3 DEF PageArrives, PoolTypeOK, settings, main
<1>15. ASSUME NEW w \in Workers, NEW p \in MorePages, PageFails(w, p)
       PROVE  PoolTypeOK'
  <2>1. page' \in [Workers -> [MorePages -> {"none", "fetching", "tickets", "nil", "sent"}]]
    BY <1>15 DEF PageFails, PoolTypeOK
  <2>2. faults' \in 0..MaxFaults
    BY <1>15, FailureBound DEF PageFails
  <2> QED
    BY <1>15, <2>1, <2>2 DEF PageFails, PoolTypeOK, settings, main
<1>16. ASSUME NEW w \in Workers, NEW p \in MorePages, PageDone(w, p)
       PROVE  PoolTypeOK'
  BY <1>16 DEF PageDone, PoolTypeOK, settings, main
<1>17. CASE UNCHANGED poolVars
  BY <1>17 DEF poolVars, PoolTypeOK, settings, main, workerV
<1> QED
  BY <1>1, <1>2, <1>3, <1>4, <1>5, <1>6, <1>7, <1>8, <1>9, <1>10, <1>11, <1>12, <1>13, <1>14,
     <1>15, <1>16, <1>17 DEF PoolNext, MainStep, WorkerStep, PageStep

(* A delivered result leaves nobody behind: the pages are done by then.    *)
LEMMA DeliverOrder ==
    ASSUME PoolTypeOK, MainInOrder, PagesAreAwaited, NEW w \in Workers, wpc[w] # "exited",
           NEW result, Deliver(w, result), UNCHANGED <<main, resultsClosed>>
    PROVE  MainInOrder' /\ PagesAreAwaited'
<1>1. /\ wpc' = [wpc EXCEPT ![w] = "idle"] /\ page' = [page EXCEPT ![w] = NoPages]
      /\ chClosed' = [chClosed EXCEPT ![w] = FALSE]
      /\ UNCHANGED <<mpc, next, jobsClosed, resultsClosed>>
  BY DEF Deliver, main
<1>2. ~resultsClosed /\ mpc # "returned"
  BY DEF MainInOrder
<1>3. MainInOrder'
  BY <1>1, <1>2 DEF MainInOrder
<1>4. PagesAreAwaited'
  BY <1>1 DEF PoolTypeOK, PagesAreAwaited, NoPages
<1> QED
  BY <1>3, <1>4

(* What comes first and what comes last, action by action.                 *)
LEMMA OrderStep ==
    PoolTypeOK /\ MainInOrder /\ PagesAreAwaited /\ [PoolNext]_poolVars
        => MainInOrder' /\ PagesAreAwaited'
<1> DEFINE Goal == MainInOrder' /\ PagesAreAwaited'
<1> SUFFICES ASSUME PoolTypeOK, MainInOrder, PagesAreAwaited, [PoolNext]_poolVars
             PROVE  Goal
  OBVIOUS
<1>1. CASE Feed
  <2>1. mpc' = mpc /\ mpc = "feed" /\ UNCHANGED <<jobsClosed, resultsClosed, workerV>>
    BY <1>1 DEF Feed
  <2> QED
    BY <2>1 DEF MainInOrder, PagesAreAwaited, workerV
<1>2. CASE CloseJobs
  <2>1. MainInOrder'
    BY <1>2 DEF CloseJobs, MainInOrder, workerV
  <2> QED
    BY <1>2, <2>1 DEF CloseJobs, PagesAreAwaited, workerV
<1>3. CASE Drain
  BY <1>3 DEF Drain, MainInOrder, PagesAreAwaited, workerV
<1>4. CASE Return
  BY <1>4 DEF Return, MainInOrder, PagesAreAwaited, workerV
<1>5. CASE CloseResults
  BY <1>5 DEF CloseResults, MainInOrder, PagesAreAwaited, main, workerV
<1>6. CASE Cancel
  BY <1>6 DEF Cancel, MainInOrder, PagesAreAwaited, main, workerV
<1>7. ASSUME NEW w \in Workers, TakeJob(w) \/ Exit(w)
      PROVE  Goal
  <2>1. /\ wpc[w] = "idle"
        /\ UNCHANGED <<mpc, next, jobsClosed, results, resultsClosed, page, chClosed>>
    BY <1>7 DEF TakeJob, Exit, main
  <2>2. MainInOrder'
    BY <2>1 DEF MainInOrder
  <2>3. wpc' = [wpc EXCEPT ![w] = "first"] \/ wpc' = [wpc EXCEPT ![w] = "exited"]
    BY <1>7 DEF TakeJob, Exit
  <2> QED
    BY <2>1, <2>2, <2>3 DEF PoolTypeOK, PagesAreAwaited
<1>8. ASSUME NEW w \in Workers, First(w)
      PROVE  Goal
  <2>1. /\ wpc[w] = "first" /\ wpc' = [wpc EXCEPT ![w] = "pages"]
        /\ UNCHANGED <<mpc, next, jobsClosed, results, resultsClosed, chClosed>>
        /\ \A v \in Workers : v # w => page'[v] = page[v]
    BY <1>8 DEF First, main, PoolTypeOK
  <2>2. MainInOrder'
    BY <2>1 DEF MainInOrder
  <2> QED
    BY <2>1, <2>2 DEF PoolTypeOK, PagesAreAwaited
<1>9. ASSUME NEW w \in Workers, FirstFails(w) \/ Finish(w)
      PROVE  Goal
  <2>1. wpc[w] # "exited" /\ UNCHANGED <<main, resultsClosed>> /\ \E result : Deliver(w, result)
    BY <1>9 DEF FirstFails, Finish
  <2> QED
    BY <2>1, DeliverOrder
<1>10. ASSUME NEW w \in Workers, ClosePages(w)
       PROVE  Goal
  <2>1. MainInOrder'
    BY <1>10 DEF ClosePages, MainInOrder, main
  <2> QED
    BY <1>10, <2>1 DEF ClosePages, PoolTypeOK, PagesAreAwaited
<1>11. ASSUME NEW w \in Workers, NEW p \in MorePages, Gather(w, p) \/ PageStep(w, p)
       PROVE  Goal
  <2>1. /\ page[w][p] # "none"
        /\ UNCHANGED <<mpc, next, jobsClosed, results, resultsClosed, wpc, chClosed>>
        /\ \E s : page' = [page EXCEPT ![w][p] = s]
    BY <1>11 DEF Gather, PageStep, PageArrives, PageFails, PageDone, main
  <2>2. MainInOrder'
    BY <2>1 DEF MainInOrder
  <2> QED
    BY <2>1, <2>2 DEF PoolTypeOK, PagesAreAwaited
<1>12. CASE UNCHANGED poolVars
  BY <1>12 DEF poolVars, MainInOrder, PagesAreAwaited, main, workerV
<1> QED
  BY <1>1, <1>2, <1>3, <1>4, <1>5, <1>6, <1>7, <1>8, <1>9, <1>10, <1>11, <1>12
     DEF PoolNext, MainStep, WorkerStep

(* Once a worker has found the queue closed and empty it stays so.         *)
LEMMA ExitStep ==
    PoolTypeOK /\ MainInOrder /\ ExitsLeaveNothing /\ [PoolNext]_poolVars => ExitsLeaveNothing'
<1> SUFFICES ASSUME PoolTypeOK, MainInOrder, ExitsLeaveNothing, [PoolNext]_poolVars
             PROVE  ExitsLeaveNothing'
  OBVIOUS
<1>1. CASE Feed
  <2>1. ~jobsClosed
    BY <1>1 DEF Feed, MainInOrder
  <2>2. UNCHANGED <<cancelled, wpc>>
    BY <1>1 DEF Feed, settings, workerV
  <2> QED
    BY <2>1, <2>2 DEF ExitsLeaveNothing
<1>2. CASE CloseJobs \/ Drain \/ Return \/ CloseResults
  <2>1. UNCHANGED <<cancelled, wpc, jobs>> /\ (jobsClosed => jobsClosed')
    BY <1>2 DEF CloseJobs, Drain, Return, CloseResults, settings, main, workerV
  <2> QED
    BY <2>1 DEF ExitsLeaveNothing
<1>3. CASE Cancel
  BY <1>3 DEF Cancel, ExitsLeaveNothing
<1>4. ASSUME NEW w \in Workers, TakeJob(w)
      PROVE  ExitsLeaveNothing'
  <2>1. /\ jobs # <<>> /\ wpc' = [wpc EXCEPT ![w] = "first"]
        /\ UNCHANGED <<cancelled, jobsClosed>>
    BY <1>4 DEF TakeJob, settings, main
  <2> QED
    BY <2>1 DEF PoolTypeOK, ExitsLeaveNothing
<1>5. ASSUME NEW w \in Workers, Exit(w)
      PROVE  ExitsLeaveNothing'
  <2>1. /\ cancelled \/ (jobsClosed /\ jobs = <<>>)
        /\ UNCHANGED <<cancelled, jobsClosed, jobs>>
    BY <1>5 DEF Exit, settings, main
  <2> QED
    BY <2>1 DEF ExitsLeaveNothing
<1>6. ASSUME NEW w \in Workers, First(w) \/ FirstFails(w) \/ ClosePages(w) \/ Finish(w)
      PROVE  ExitsLeaveNothing'
  <2>1. UNCHANGED <<cancelled, jobsClosed, jobs>>
    BY <1>6 DEF First, FirstFails, ClosePages, Finish, settings, main
  <2>2. \A v \in Workers : wpc'[v] = "exited" => wpc[v] = "exited"
    BY <1>6 DEF First, FirstFails, ClosePages, Finish, Deliver, PoolTypeOK
  <2> QED
    BY <2>1, <2>2 DEF ExitsLeaveNothing
<1>7. ASSUME NEW w \in Workers, NEW p \in MorePages, Gather(w, p) \/ PageStep(w, p)
      PROVE  ExitsLeaveNothing'
  <2>1. UNCHANGED <<cancelled, jobsClosed, jobs, wpc>>
    BY <1>7 DEF Gather, PageStep, PageArrives, PageFails, PageDone, settings, main
  <2> QED
    BY <2>1 DEF ExitsLeaveNothing
<1>8. CASE UNCHANGED poolVars
  BY <1>8 DEF poolVars, settings, main, workerV, ExitsLeaveNothing
<1> QED
  BY <1>1, <1>2, <1>3, <1>4, <1>5, <1>6, <1>7, <1>8 DEF PoolNext, MainStep, WorkerStep

(* Jobs are numbers, wherever they are.                                    *)
LEMMA JobNumbers ==
    ASSUME PoolTypeOK
    PROVE  /\ Len(jobs) \in Nat /\ Len(results) \in Nat /\ Len(collected) \in Nat
           /\ \A i \in 1..Len(jobs) : jobs[i] \in Nat \ {0}
           /\ \A i \in 1..Len(results) : results[i].job \in Nat \ {0}
           /\ \A i \in 1..Len(collected) : collected[i].job \in Nat \ {0}
           /\ \A w \in Workers : job[w] \in Nat
           /\ next \in Nat \ {0}
<1>1. Len(jobs) \in Nat /\ \A i \in 1..Len(jobs) : jobs[i] \in Jobs
  BY ElementTypes DEF PoolTypeOK
<1>2. ASSUME NEW q \in Seq(Results)
      PROVE  Len(q) \in Nat /\ \A i \in 1..Len(q) : q[i].job \in Jobs
  <2>1. Len(q) \in Nat /\ \A i \in 1..Len(q) : q[i] \in Results
    BY ElementTypes
  <2>2. \A x \in Results : x.job \in Jobs
    BY DEF Results
  <2> QED
    BY <2>1, <2>2
<1>3. results \in Seq(Results) /\ collected \in Seq(Results)
  BY DEF PoolTypeOK
<1>4. Jobs \subseteq Nat \ {0}
  BY DEF Jobs
<1>5. next \in Nat \ {0}
  BY JobsAssumption DEF PoolTypeOK
<1>6. \A w \in Workers : job[w] \in Jobs \cup {0}
  BY DEF PoolTypeOK
<1>7. Len(results) \in Nat /\ \A i \in 1..Len(results) : results[i].job \in Jobs
  BY <1>2, <1>3
<1>8. Len(collected) \in Nat /\ \A i \in 1..Len(collected) : collected[i].job \in Jobs
  BY <1>2, <1>3
<1>9. \A w \in Workers : job[w] \in Nat
  BY <1>6 DEF Jobs
<1> QED
  BY <1>1, <1>4, <1>5, <1>7, <1>8, <1>9

(* Steps that move no job leave each where it is.                          *)
LEMMA QuietPlaces ==
    ASSUME OnePlace, NoJobVanishes, UNCHANGED <<next, jobs, job, results, collected>>,
           cancelled => cancelled'
    PROVE  OnePlace' /\ NoJobVanishes'
<1>1. OnePlace'
  BY DEF OnePlace, QueuedOnce, WorkedOnOnce, AnsweredOnce, AnswersDiffer, GatheredApart
<1>2. NoJobVanishes'
  BY DEF NoJobVanishes, SomeoneHas, Answered
<1> QED
  BY <1>1, <1>2

(* A job is fed to the queue or, when the search is cancelled, skipped.    *)
LEMMA FeedPlaces ==
    ASSUME PoolTypeOK, OnePlace, NoJobVanishes, Feed
    PROVE  OnePlace' /\ NoJobVanishes'
<1>1. /\ next \in Nat /\ next' = next + 1 /\ next \in Jobs
      /\ UNCHANGED <<job, results, collected, cancelled>>
  BY JobsAssumption DEF Feed, PoolTypeOK, workerV, settings, Jobs
<1>2. /\ Len(jobs) \in Nat
      /\ \A i \in 1..Len(jobs) : jobs[i] \in Nat
      /\ \A i \in 1..Len(results) : results[i].job \in Nat
      /\ \A i \in 1..Len(collected) : collected[i].job \in Nat
      /\ \A w \in Workers : job[w] \in Nat
  BY JobNumbers
<1>3. CASE jobs' = jobs /\ cancelled
  <2>1. QueuedOnce'
    BY <1>1, <1>2, <1>3 DEF OnePlace, QueuedOnce
  <2>2. WorkedOnOnce'
    BY <1>1, <1>2, <1>3 DEF OnePlace, WorkedOnOnce
  <2>3. AnsweredOnce(results)'
    BY <1>1, <1>2, <1>3 DEF OnePlace, AnsweredOnce, AnswersDiffer
  <2>4. AnsweredOnce(collected)'
    BY <1>1, <1>2, <1>3 DEF OnePlace, AnsweredOnce, AnswersDiffer
  <2>5. GatheredApart'
    BY <1>1, <1>3 DEF OnePlace, GatheredApart
  <2> QED
    BY <1>1, <1>3, <2>1, <2>2, <2>3, <2>4, <2>5 DEF OnePlace, NoJobVanishes
<1>4. CASE jobs' = Append(jobs, next)
  <2>1. /\ Len(jobs') = Len(jobs) + 1 /\ jobs'[Len(jobs) + 1] = next
        /\ \A i \in 1..Len(jobs) : jobs'[i] = jobs[i]
    BY <1>1, <1>4, Sent DEF PoolTypeOK
  <2>2. \A i \in 1..Len(jobs') : i \in 1..Len(jobs) \/ i = Len(jobs) + 1
    BY <1>2, <2>1
  <2>3. QueuedOnce'
    BY <1>1, <1>2, <2>1, <2>2 DEF OnePlace, QueuedOnce
  <2>4. WorkedOnOnce'
    BY <1>1, <1>2, <2>1, <2>2 DEF OnePlace, WorkedOnOnce
  <2>5. AnsweredOnce(results)' /\ AnsweredOnce(collected)' /\ GatheredApart'
    <3>1. ASSUME NEW q, AnsweredOnce(q), \A i \in 1..Len(q) : q[i].job \in Nat
          PROVE  /\ AnswersDiffer(q)
                 /\ \A i \in 1..Len(q) :
                      /\ q[i].job < next'
                      /\ \A k \in 1..Len(jobs') : jobs'[k] # q[i].job
                      /\ \A w \in Workers : job'[w] # q[i].job
      <4>1. AnswersDiffer(q)
        BY <3>1 DEF AnsweredOnce
      <4>2. ASSUME NEW i \in 1..Len(q)
            PROVE  /\ q[i].job < next'
                   /\ \A k \in 1..Len(jobs') : jobs'[k] # q[i].job
                   /\ \A w \in Workers : job'[w] # q[i].job
        <5>1. /\ q[i].job \in Nat /\ q[i].job < next
              /\ \A k \in 1..Len(jobs) : jobs[k] # q[i].job
              /\ \A w \in Workers : job[w] # q[i].job
          BY <3>1 DEF AnsweredOnce
        <5> QED
          BY <1>1, <2>1, <2>2, <5>1
      <4> QED
        BY <4>1, <4>2
    <3>2. AnsweredOnce(results)' /\ AnsweredOnce(collected)'
      BY <1>1, <1>2, <3>1 DEF OnePlace, AnsweredOnce, AnswersDiffer
    <3>3. GatheredApart'
      BY <1>1 DEF OnePlace, GatheredApart
    <3> QED
      BY <3>1, <3>2, <3>3
  <2>6. NoJobVanishes'
    <3> SUFFICES ASSUME NEW j \in Jobs, ~cancelled, j < next + 1, ~SomeoneHas(j),
                        ~Answered(results, j), ~Answered(collected, j)
                 PROVE  \E i \in 1..Len(jobs') : jobs'[i] = j
      BY <1>1 DEF NoJobVanishes, SomeoneHas, Answered, Jobs
    <3>1. CASE j = next
      BY <1>2, <2>1, <3>1
    <3>2. CASE j # next
      <4>1. ~(j >= next)
        BY <1>1, <3>2 DEF Jobs
      <4>2. PICK i \in 1..Len(jobs) : jobs[i] = j
        BY <4>1 DEF NoJobVanishes
      <4> QED
        BY <1>2, <2>1, <4>2
    <3> QED
      BY <3>1, <3>2
  <2> QED
    BY <2>3, <2>4, <2>5, <2>6 DEF OnePlace
<1> QED
  BY <1>3, <1>4 DEF Feed

(* A worker takes the first job of the queue.                              *)
LEMMA TakePlaces ==
    ASSUME PoolTypeOK, OnePlace, NoJobVanishes, NEW w \in Workers, TakeJob(w)
    PROVE  OnePlace' /\ NoJobVanishes'
<1>1. /\ wpc[w] = "idle" /\ job[w] = 0
      /\ UNCHANGED <<next, results, collected, cancelled>>
      /\ job' = [job EXCEPT ![w] = Head(jobs)]
  BY DEF TakeJob, PoolTypeOK, main, settings
<1>2. /\ Len(jobs) \in Nat \ {0} /\ Len(jobs') = Len(jobs) - 1
      /\ Head(jobs) = jobs[1] /\ jobs[1] \in Jobs
      /\ \A i \in 1..Len(jobs') : jobs'[i] = jobs[i + 1] /\ i + 1 \in 1..Len(jobs)
  BY Received DEF TakeJob, PoolTypeOK
<1>3. job'[w] = jobs[1] /\ jobs[1] # 0 /\ \A v \in Workers : v # w => job'[v] = job[v]
  BY <1>1, <1>2 DEF PoolTypeOK, Jobs
<1>4. QueuedOnce'
  BY <1>1, <1>2 DEF OnePlace, QueuedOnce
<1>5. \A v \in Workers, i \in 1..Len(jobs) : jobs[i] # job[v]
  BY DEF OnePlace, WorkedOnOnce
<1>6. \A i \in 1..Len(jobs') : jobs'[i] # jobs[1]
  BY <1>2 DEF OnePlace, QueuedOnce
<1>7. WorkedOnOnce'
  <2>1. jobs[1] < next
    BY <1>2 DEF OnePlace, QueuedOnce
  <2> QED
    BY <1>1, <1>2, <1>3, <1>5, <1>6, <2>1 DEF OnePlace, WorkedOnOnce
<1>8. AnsweredOnce(results)' /\ AnsweredOnce(collected)' /\ GatheredApart'
  BY <1>1, <1>2, <1>3 DEF OnePlace, AnsweredOnce, AnswersDiffer, GatheredApart
<1>9. NoJobVanishes'
  <2> SUFFICES ASSUME NEW j \in Jobs, ~cancelled, ~(j >= next), ~SomeoneHas(j)',
                      ~Answered(results, j), ~Answered(collected, j)
               PROVE  \E i \in 1..Len(jobs') : jobs'[i] = j
    BY <1>1 DEF NoJobVanishes, Answered
  <2>1. j # jobs[1] /\ j # 0
    BY <1>3 DEF SomeoneHas, Jobs
  <2>2. ~SomeoneHas(j)
    BY <1>1, <1>3, <2>1 DEF SomeoneHas
  <2>3. PICK i \in 1..Len(jobs) : jobs[i] = j
    BY <2>2 DEF NoJobVanishes
  <2>4. i - 1 \in 1..Len(jobs') /\ i - 1 + 1 = i
    BY <1>2, <2>1, <2>3
  <2> QED
    BY <1>2, <2>3, <2>4
<1> QED
  BY <1>4, <1>7, <1>8, <1>9 DEF OnePlace

(* A result takes its job's place.                                         *)
LEMMA DeliverPlaces ==
    ASSUME PoolTypeOK, OnePlace, NoJobVanishes, NEW w \in Workers, job[w] # 0,
           NEW result \in Results, result.job = job[w], Deliver(w, result),
           UNCHANGED <<next, jobs, collected, cancelled>>
    PROVE  OnePlace' /\ NoJobVanishes'
<1>1. /\ job'[w] = 0 /\ \A v \in Workers : v # w => job'[v] = job[v]
      /\ \A v \in Workers : job'[v] = 0 \/ job'[v] = job[v]
  BY DEF Deliver, PoolTypeOK
<1>2. /\ Len(results) \in Nat /\ Len(results') = Len(results) + 1
      /\ results'[Len(results) + 1] = result
      /\ \A i \in 1..Len(results) : results'[i] = results[i]
  BY Sent DEF PoolTypeOK, Deliver
<1>3. \A i \in 1..Len(results') : i \in 1..Len(results) \/ i = Len(results) + 1
  BY <1>2
<1>4. /\ \A i \in 1..Len(jobs) : jobs[i] # 0
      /\ \A i \in 1..Len(results) : results[i].job # 0
      /\ \A i \in 1..Len(collected) : collected[i].job # 0
      /\ next \in Nat \ {0}
  BY JobNumbers
<1>5. QueuedOnce'
  BY DEF OnePlace, QueuedOnce
<1>6. WorkedOnOnce'
  BY <1>1, <1>4 DEF OnePlace, WorkedOnOnce
<1>7. AnsweredOnce(results)'
  <2>1. \A i \in 1..Len(results) : results[i].job # job[w]
    BY DEF OnePlace, AnsweredOnce
  <2>2. AnswersDiffer(results)'
    BY <1>2, <1>3, <2>1 DEF OnePlace, AnsweredOnce, AnswersDiffer
  <2>3. \A i \in 1..Len(results') :
          /\ results'[i].job < next /\ \A k \in 1..Len(jobs) : jobs[k] # results'[i].job
    BY <1>2, <1>3 DEF OnePlace, AnsweredOnce, WorkedOnOnce
  <2>4. \A i \in 1..Len(results'), v \in Workers : job'[v] # results'[i].job
    BY <1>1, <1>2, <1>3, <1>4 DEF OnePlace, AnsweredOnce, WorkedOnOnce
  <2> QED
    BY <2>2, <2>3, <2>4 DEF AnsweredOnce
<1>8. AnsweredOnce(collected)'
  BY <1>1, <1>4 DEF OnePlace, AnsweredOnce, AnswersDiffer
<1>9. GatheredApart'
  BY <1>2, <1>3 DEF OnePlace, AnsweredOnce, GatheredApart
<1>10. NoJobVanishes'
  <2>1. \A j \in Jobs : SomeoneHas(j) => SomeoneHas(j)' \/ Answered(results, j)'
    BY <1>1, <1>2 DEF SomeoneHas, Answered
  <2>2. \A j \in Jobs : Answered(results, j) => Answered(results, j)'
    BY <1>2 DEF Answered
  <2>3. \A j \in Jobs : Answered(collected, j)' = Answered(collected, j)
    BY DEF Answered
  <2> QED
    BY <2>1, <2>2, <2>3 DEF NoJobVanishes
<1> QED
  BY <1>5, <1>6, <1>7, <1>8, <1>9, <1>10 DEF OnePlace

(* The search gathers the first result.                                    *)
LEMMA DrainPlaces ==
    ASSUME PoolTypeOK, OnePlace, NoJobVanishes, Drain
    PROVE  OnePlace' /\ NoJobVanishes'
<1>1. UNCHANGED <<next, jobs, job, cancelled>>
  BY DEF Drain, workerV, settings
<1>2. /\ Len(results) \in Nat \ {0} /\ Len(results') = Len(results) - 1
      /\ Head(results) = results[1] /\ results[1] \in Results
      /\ \A i \in 1..Len(results') : results'[i] = results[i + 1] /\ i + 1 \in 1..Len(results)
  BY Received DEF Drain, PoolTypeOK
<1>3. /\ Len(collected) \in Nat /\ Len(collected') = Len(collected) + 1
      /\ collected'[Len(collected) + 1] = results[1]
      /\ \A i \in 1..Len(collected) : collected'[i] = collected[i]
  BY <1>2, Sent DEF PoolTypeOK, Drain
<1>4. \A i \in 1..Len(collected') : i \in 1..Len(collected) \/ i = Len(collected) + 1
  BY <1>3
<1>5. QueuedOnce' /\ WorkedOnOnce'
  BY <1>1 DEF OnePlace, QueuedOnce, WorkedOnOnce
<1>6. AnsweredOnce(results)'
  <2>1. AnswersDiffer(results)'
    BY <1>2 DEF OnePlace, AnsweredOnce, AnswersDiffer
  <2>2. ASSUME NEW i \in 1..Len(results')
        PROVE  /\ results'[i].job < next
               /\ \A k \in 1..Len(jobs) : jobs[k] # results'[i].job
               /\ \A w \in Workers : job[w] # results'[i].job
    <3>1. i + 1 \in 1..Len(results) /\ results'[i] = results[i + 1]
      BY <1>2
    <3> QED
      BY <3>1 DEF OnePlace, AnsweredOnce
  <2> QED
    BY <1>1, <2>1, <2>2 DEF AnsweredOnce
<1>7. AnsweredOnce(collected)'
  <2>1. AnswersDiffer(collected)'
    BY <1>2, <1>3, <1>4 DEF OnePlace, AnsweredOnce, AnswersDiffer, GatheredApart
  <2> QED
    BY <1>1, <1>2, <1>3, <1>4, <2>1 DEF OnePlace, AnsweredOnce
<1>8. GatheredApart'
  BY <1>2, <1>3, <1>4 DEF OnePlace, AnsweredOnce, AnswersDiffer, GatheredApart
<1>9. NoJobVanishes'
  <2>1. \A j \in Jobs : Answered(results, j) => Answered(results, j)' \/ Answered(collected, j)'
    <3> SUFFICES ASSUME NEW j \in Jobs, NEW i \in 1..Len(results), results[i].job = j
                 PROVE  Answered(results, j)' \/ Answered(collected, j)'
      BY DEF Answered
    <3>1. CASE i = 1
      BY <1>3, <3>1 DEF Answered
    <3>2. CASE i # 1
      <4>1. i - 1 \in 1..Len(results') /\ results'[i - 1] = results[i]
        BY <1>2, <3>2
      <4> QED
        BY <4>1 DEF Answered
    <3> QED
      BY <3>1, <3>2
  <2>2. \A j \in Jobs : Answered(collected, j) => Answered(collected, j)'
    BY <1>3 DEF Answered
  <2>3. \A j \in Jobs : SomeoneHas(j) => SomeoneHas(j)'
    BY <1>1 DEF SomeoneHas
  <2> QED
    BY <1>1, <2>1, <2>2, <2>3 DEF NoJobVanishes
<1> QED
  BY <1>5, <1>6, <1>7, <1>8, <1>9 DEF OnePlace

(* Every step of the pool keeps each job in one place.                     *)
LEMMA PlacesStep ==
    PoolTypeOK /\ OnePlace /\ NoJobVanishes /\ [PoolNext]_poolVars
        => OnePlace' /\ NoJobVanishes'
<1> DEFINE Goal == OnePlace' /\ NoJobVanishes'
<1> SUFFICES ASSUME PoolTypeOK, OnePlace, NoJobVanishes, [PoolNext]_poolVars
             PROVE  Goal
  OBVIOUS
<1>1. CASE Feed
  BY <1>1, FeedPlaces
<1>2. CASE Drain
  BY <1>2, DrainPlaces
<1>3. ASSUME NEW w \in Workers, TakeJob(w)
      PROVE  Goal
  BY <1>3, TakePlaces
<1>4. ASSUME NEW w \in Workers, FirstFails(w) \/ Finish(w)
      PROVE  Goal
  <2>1. job[w] # 0 /\ got[w] \in SUBSET (1..MaxTotal \cup {1})
    BY <1>4 DEF FirstFails, Finish, PoolTypeOK
  <2>2. PICK pages \in SUBSET (1..MaxTotal \cup {1}), error \in BOOLEAN :
          Deliver(w, Result(w, pages, error))
    BY <1>4, <2>1 DEF FirstFails, Finish
  <2>3. Result(w, pages, error) \in Results /\ Result(w, pages, error).job = job[w]
    BY <2>1 DEF PoolTypeOK, Result, Results
  <2>4. UNCHANGED <<next, jobs, collected, cancelled>>
    BY <1>4 DEF FirstFails, Finish, main, settings
  <2> QED
    BY <2>1, <2>2, <2>3, <2>4, DeliverPlaces
<1>5. CASE UNCHANGED <<next, jobs, job, results, collected>> /\ (cancelled => cancelled')
  BY <1>5, QuietPlaces
<1>6. CASE CloseJobs \/ Return \/ CloseResults \/ Cancel \/ UNCHANGED poolVars
  BY <1>5, <1>6 DEF CloseJobs, Return, CloseResults, Cancel, poolVars, main, workerV, settings
<1>7. ASSUME NEW w \in Workers, Exit(w) \/ First(w) \/ ClosePages(w)
      PROVE  Goal
  BY <1>5, <1>7 DEF Exit, First, ClosePages, main, settings
<1>8. ASSUME NEW w \in Workers, NEW p \in MorePages, Gather(w, p) \/ PageStep(w, p)
      PROVE  Goal
  BY <1>5, <1>8 DEF Gather, PageStep, PageArrives, PageFails, PageDone, main, settings
<1> QED
  BY <1>1, <1>2, <1>3, <1>4, <1>6, <1>7, <1>8 DEF PoolNext, MainStep, WorkerStep

(* A job that is still to be fed or queued has had nothing fetched for it. *)
LEMMA QueuedIsUnfetched ==
    ASSUME PoolTypeOK, OnePlace, FetchedIsKept, NEW i \in 1..Len(jobs), jobs[i] \in Jobs
    PROVE  fetched[jobs[i]] = {}
BY DEF OnePlace, WorkedOnOnce, AnsweredOnce, FetchedIsKept, SomeoneHas, Answered

(* Steps that fetch nothing and move no job and no page.                   *)
LEMMA QuietFetched ==
    ASSUME FetchedIsKept, UNCHANGED <<job, results, collected, got, page, fetched>>,
           \A w \in Workers : wpc'[w] = wpc[w] \/ wpc'[w] \notin {"first", "pages"}
    PROVE  FetchedIsKept'
<1>1. \A w \in Workers : Waiting(w)' = Waiting(w)
  BY DEF Waiting
<1>2. \A j \in Jobs : /\ SomeoneHas(j)' = SomeoneHas(j)
                      /\ Answered(results, j)' = Answered(results, j)
                      /\ Answered(collected, j)' = Answered(collected, j)
  BY DEF SomeoneHas, Answered
<1> QED
  BY <1>1, <1>2 DEF FetchedIsKept

(* A worker takes a job for which nothing was fetched.                     *)
LEMMA TakeFetched ==
    ASSUME PoolTypeOK, OnePlace, FetchedIsKept, NEW w \in Workers, TakeJob(w)
    PROVE  FetchedIsKept'
<1>1. /\ wpc[w] = "idle" /\ job[w] = 0
      /\ UNCHANGED <<results, collected, got, page, fetched>>
      /\ job' = [job EXCEPT ![w] = Head(jobs)] /\ wpc' = [wpc EXCEPT ![w] = "first"]
  BY DEF TakeJob, PoolTypeOK, main
<1>2. Len(jobs) \in Nat \ {0} /\ Head(jobs) = jobs[1] /\ jobs[1] \in Jobs
  BY Received DEF TakeJob, PoolTypeOK
<1>3. fetched[jobs[1]] = {}
  BY <1>2, QueuedIsUnfetched
<1>4. \A v \in Workers : Waiting(v)' = Waiting(v)
  BY <1>1 DEF Waiting
<1>5. \A v \in Workers :
        /\ wpc'[v] = "first" => fetched'[job'[v]] = {}
        /\ wpc'[v] = "pages" => fetched'[job'[v]] = got'[v] \cup Waiting(v)'
  BY <1>1, <1>2, <1>3, <1>4 DEF PoolTypeOK, FetchedIsKept
<1>6. \A j \in Jobs : SomeoneHas(j) => SomeoneHas(j)'
  BY <1>1 DEF SomeoneHas, PoolTypeOK, Jobs
<1>7. \A j \in Jobs : /\ Answered(results, j)' = Answered(results, j)
                      /\ Answered(collected, j)' = Answered(collected, j)
  BY <1>1 DEF Answered
<1> QED
  BY <1>1, <1>5, <1>6, <1>7 DEF FetchedIsKept

(* The result says all that was fetched for its job.                       *)
LEMMA DeliverFetched ==
    ASSUME PoolTypeOK, OnePlace, FetchedIsKept, NEW w \in Workers, job[w] # 0,
           NEW result \in Results, result.job = job[w], result.pages = fetched[job[w]],
           Deliver(w, result), UNCHANGED <<collected, fetched>>
    PROVE  FetchedIsKept'
<1>1. /\ \A v \in Workers : v # w => /\ wpc'[v] = wpc[v] /\ job'[v] = job[v]
                                     /\ got'[v] = got[v] /\ page'[v] = page[v]
      /\ wpc'[w] = "idle"
  BY DEF Deliver, PoolTypeOK
<1>2. /\ Len(results) \in Nat /\ Len(results') = Len(results) + 1
      /\ results'[Len(results) + 1] = result
      /\ \A i \in 1..Len(results) : results'[i] = results[i]
  BY Sent DEF PoolTypeOK, Deliver
<1>3. \A i \in 1..Len(results') : i \in 1..Len(results) \/ i = Len(results) + 1
  BY <1>2
<1>4. \A v \in Workers : v # w => Waiting(v)' = Waiting(v)
  BY <1>1 DEF Waiting
<1>5. \A v \in Workers :
        /\ wpc'[v] = "first" => fetched'[job'[v]] = {}
        /\ wpc'[v] = "pages" => fetched'[job'[v]] = got'[v] \cup Waiting(v)'
  BY <1>1, <1>4 DEF FetchedIsKept
<1>6. \A i \in 1..Len(results') : fetched'[results'[i].job] = results'[i].pages
  BY <1>2, <1>3 DEF FetchedIsKept
<1>7. \A j \in Jobs : SomeoneHas(j) => SomeoneHas(j)' \/ Answered(results, j)'
  BY <1>1, <1>2 DEF SomeoneHas, Answered
<1>8. \A j \in Jobs : /\ Answered(results, j) => Answered(results, j)'
                      /\ Answered(collected, j)' = Answered(collected, j)
  BY <1>2 DEF Answered
<1>9. \A j \in Jobs : fetched'[j] # {} =>
        SomeoneHas(j)' \/ Answered(results, j)' \/ Answered(collected, j)'
  BY <1>7, <1>8 DEF FetchedIsKept
<1> QED
  BY <1>5, <1>6, <1>9 DEF FetchedIsKept

(* Gathering a result keeps it. *)
LEMMA DrainFetched ==
    ASSUME PoolTypeOK, FetchedIsKept, Drain
    PROVE  FetchedIsKept'
<1>1. UNCHANGED <<wpc, job, got, page, fetched>>
  BY DEF Drain, workerV
<1>2. /\ Len(results) \in Nat \ {0} /\ Len(results') = Len(results) - 1
      /\ Head(results) = results[1] /\ results[1] \in Results
      /\ \A i \in 1..Len(results') : results'[i] = results[i + 1] /\ i + 1 \in 1..Len(results)
  BY Received DEF Drain, PoolTypeOK
<1>3. /\ Len(collected) \in Nat /\ Len(collected') = Len(collected) + 1
      /\ collected'[Len(collected) + 1] = results[1]
      /\ \A i \in 1..Len(collected) : collected'[i] = collected[i]
  BY <1>2, Sent DEF PoolTypeOK, Drain
<1>4. \A i \in 1..Len(collected') : i \in 1..Len(collected) \/ i = Len(collected) + 1
  BY <1>3
<1>5. \A i \in 1..Len(results') : fetched'[results'[i].job] = results'[i].pages
  <2> SUFFICES ASSUME NEW i \in 1..Len(results')
               PROVE  fetched[results'[i].job] = results'[i].pages
    BY <1>1
  <2>1. i + 1 \in 1..Len(results) /\ results'[i] = results[i + 1]
    BY <1>2
  <2> QED
    BY <2>1 DEF FetchedIsKept
<1>6. \A i \in 1..Len(collected') : fetched'[collected'[i].job] = collected'[i].pages
  <2> SUFFICES ASSUME NEW i \in 1..Len(collected')
               PROVE  fetched[collected'[i].job] = collected'[i].pages
    BY <1>1
  <2>1. CASE i \in 1..Len(collected)
    BY <1>3, <2>1 DEF FetchedIsKept
  <2>2. CASE i = Len(collected) + 1
    <3>1. 1 \in 1..Len(results) /\ collected'[i] = results[1]
      BY <1>2, <1>3, <2>2
    <3> QED
      BY <3>1 DEF FetchedIsKept
  <2> QED
    BY <1>4, <2>1, <2>2
<1>7. \A j \in Jobs : Answered(results, j) => Answered(results, j)' \/ Answered(collected, j)'
  <2> SUFFICES ASSUME NEW j \in Jobs, NEW i \in 1..Len(results), results[i].job = j
               PROVE  Answered(results, j)' \/ Answered(collected, j)'
    BY DEF Answered
  <2>1. CASE i = 1
    BY <1>3, <2>1 DEF Answered
  <2>2. CASE i # 1
    <3>1. i - 1 \in 1..Len(results') /\ results'[i - 1] = results[i]
      BY <1>2, <2>2
    <3> QED
      BY <3>1 DEF Answered
  <2> QED
    BY <2>1, <2>2
<1>8. \A j \in Jobs : Answered(collected, j) => Answered(collected, j)'
  BY <1>3 DEF Answered
<1>9. /\ \A j \in Jobs : SomeoneHas(j)' = SomeoneHas(j)
      /\ \A w \in Workers : Waiting(w)' = Waiting(w)
  BY <1>1 DEF SomeoneHas, Waiting
<1> QED
  BY <1>1, <1>5, <1>6, <1>7, <1>8, <1>9 DEF FetchedIsKept

(* A worker or one of its page goroutines moves while its job stays: what  *)
(* is fetched for other jobs does not change.                              *)
LEMMA OwnFetched ==
    ASSUME PoolTypeOK, OnePlace, FetchedIsKept, NEW w \in Workers, job[w] # 0,
           UNCHANGED <<job, results, collected>>,
           \A j \in Jobs : j # job[w] => fetched'[j] = fetched[j],
           \A v \in Workers : v # w => /\ wpc'[v] = wpc[v] /\ got'[v] = got[v]
                                       /\ page'[v] = page[v],
           wpc'[w] = "pages", fetched'[job[w]] = got'[w] \cup Waiting(w)'
    PROVE  FetchedIsKept'
<1>1. \A v \in Workers : v # w => Waiting(v)' = Waiting(v)
  BY DEF Waiting
<1>2. \A v \in Workers : v # w /\ wpc[v] \in {"first", "pages"} =>
        job[v] \in Jobs /\ job[v] # job[w]
  BY DEF OnePlace, WorkedOnOnce, PoolTypeOK
<1>3. \A v \in Workers :
        /\ wpc'[v] = "first" => fetched'[job'[v]] = {}
        /\ wpc'[v] = "pages" => fetched'[job'[v]] = got'[v] \cup Waiting(v)'
  BY <1>1, <1>2 DEF FetchedIsKept
<1>4. /\ \A i \in 1..Len(results) : results[i].job \in Jobs /\ results[i].job # job[w]
      /\ \A i \in 1..Len(collected) : collected[i].job \in Jobs /\ collected[i].job # job[w]
  <2>1. /\ \A i \in 1..Len(results) : results[i] \in Results
        /\ \A i \in 1..Len(collected) : collected[i] \in Results
    BY ElementTypes DEF PoolTypeOK
  <2>2. \A x \in Results : x.job \in Jobs
    BY DEF Results
  <2> QED
    BY <2>1, <2>2 DEF OnePlace, AnsweredOnce
<1>5. /\ \A i \in 1..Len(results') : fetched'[results'[i].job] = results'[i].pages
      /\ \A i \in 1..Len(collected') : fetched'[collected'[i].job] = collected'[i].pages
  BY <1>4 DEF FetchedIsKept
<1>6. \A j \in Jobs : fetched'[j] # {} =>
        SomeoneHas(j)' \/ Answered(results, j)' \/ Answered(collected, j)'
  BY DEF FetchedIsKept, SomeoneHas, Answered
<1> QED
  BY <1>3, <1>5, <1>6 DEF FetchedIsKept

(* The first page is the first to be fetched for its job.                  *)
LEMMA FirstFetched ==
    ASSUME PoolTypeOK, OnePlace, FetchedIsKept, NEW w \in Workers, First(w)
    PROVE  FetchedIsKept'
<1>1. /\ wpc[w] = "first" /\ wpc' = [wpc EXCEPT ![w] = "pages"]
      /\ UNCHANGED <<job, results, collected>>
      /\ got' = [got EXCEPT ![w] = {1}]
      /\ fetched' = [fetched EXCEPT ![job[w]] = fetched[job[w]] \cup {1}]
  BY DEF First, main
<1>2. job[w] # 0 /\ job[w] \in Jobs /\ fetched[job[w]] = {}
  BY <1>1 DEF PoolTypeOK, FetchedIsKept
<1>3. \A p \in MorePages : page'[w][p] # "tickets"
  BY DEF First, PoolTypeOK
<1>4. Waiting(w)' = {}
  BY <1>3 DEF Waiting
<1>5. /\ \A v \in Workers : v # w => wpc'[v] = wpc[v] /\ got'[v] = got[v] /\ page'[v] = page[v]
      /\ \A j \in Jobs : j # job[w] => fetched'[j] = fetched[j]
      /\ wpc'[w] = "pages" /\ got'[w] = {1} /\ fetched'[job[w]] = {1}
  BY <1>1, <1>2 DEF First, PoolTypeOK
<1> QED
  BY <1>1, <1>2, <1>4, <1>5, OwnFetched

(* A page's tickets are kept from its arrival until the worker has them.   *)
LEMMA PageFetched ==
    ASSUME PoolTypeOK, PagesAreAwaited, OnePlace, FetchedIsKept,
           NEW w \in Workers, NEW p \in MorePages, Gather(w, p) \/ PageStep(w, p)
    PROVE  FetchedIsKept'
<1>1. /\ page[w][p] # "none" /\ UNCHANGED <<wpc, job, results, collected>>
  BY DEF Gather, PageStep, PageArrives, PageFails, PageDone, main
<1>2. wpc[w] = "pages" /\ job[w] # 0 /\ job[w] \in Jobs
  BY <1>1 DEF PagesAreAwaited, PoolTypeOK
<1>3. fetched[job[w]] = got[w] \cup Waiting(w)
  BY <1>2 DEF FetchedIsKept
<1>4. \A v \in Workers : v # w => page'[v] = page[v] /\ got'[v] = got[v]
  BY DEF Gather, PageStep, PageArrives, PageFails, PageDone, PoolTypeOK
<1>5. \A q \in MorePages : q # p => page'[w][q] = page[w][q]
  BY DEF Gather, PageStep, PageArrives, PageFails, PageDone, PoolTypeOK
<1>6. CASE PageArrives(w, p)
  <2>1. /\ page'[w][p] = "tickets" /\ got' = got /\ fetched'[job[w]] = fetched[job[w]] \cup {p}
        /\ \A j \in Jobs : j # job[w] => fetched'[j] = fetched[j]
    BY <1>2, <1>6 DEF PageArrives, PoolTypeOK
  <2>2. Waiting(w)' = Waiting(w) \cup {p}
    BY <1>5, <2>1 DEF Waiting
  <2>3. fetched'[job[w]] = got'[w] \cup Waiting(w)'
    BY <1>3, <2>1, <2>2
  <2> QED
    BY <1>1, <1>2, <1>4, <2>1, <2>3, OwnFetched
<1>7. CASE Gather(w, p) /\ page[w][p] = "tickets"
  <2>1. page'[w][p] = "sent" /\ got'[w] = got[w] \cup {p} /\ fetched' = fetched
    BY <1>7 DEF Gather, PoolTypeOK
  <2>2. Waiting(w) = Waiting(w)' \cup {p}
    BY <1>5, <1>7, <2>1 DEF Waiting
  <2>3. fetched'[job[w]] = got'[w] \cup Waiting(w)'
    BY <1>3, <2>1, <2>2
  <2> QED
    BY <1>1, <1>2, <1>4, <2>1, <2>3, OwnFetched
<1>8. CASE PageFails(w, p) \/ PageDone(w, p) \/ (Gather(w, p) /\ page[w][p] # "tickets")
  <2>1. /\ page[w][p] # "tickets" /\ page'[w][p] # "tickets"
        /\ got'[w] = got[w] /\ fetched' = fetched
    BY <1>8 DEF Gather, PageFails, PageDone, PoolTypeOK
  <2>2. Waiting(w)' = Waiting(w)
    BY <1>5, <2>1 DEF Waiting
  <2> QED
    BY <1>1, <1>2, <1>3, <1>4, <2>1, <2>2, OwnFetched
<1> QED
  BY <1>6, <1>7, <1>8 DEF PageStep

(* What was fetched is kept, action by action.                             *)
LEMMA FetchedStep ==
    PoolTypeOK /\ PagesAreAwaited /\ OnePlace /\ FetchedIsKept /\ [PoolNext]_poolVars
        => FetchedIsKept'
<1> SUFFICES ASSUME PoolTypeOK, PagesAreAwaited, OnePlace, FetchedIsKept, [PoolNext]_poolVars
             PROVE  FetchedIsKept'
  OBVIOUS
<1>1. CASE Drain
  BY <1>1, DrainFetched
<1>2. ASSUME NEW w \in Workers, TakeJob(w)
      PROVE  FetchedIsKept'
  BY <1>2, TakeFetched
<1>3. ASSUME NEW w \in Workers, First(w)
      PROVE  FetchedIsKept'
  BY <1>3, FirstFetched
<1>4. ASSUME NEW w \in Workers, NEW p \in MorePages, Gather(w, p) \/ PageStep(w, p)
      PROVE  FetchedIsKept'
  BY <1>4, PageFetched
<1>5. ASSUME NEW w \in Workers, FirstFails(w)
      PROVE  FetchedIsKept'
  <2>1. job[w] # 0 /\ fetched[job[w]] = {}
    BY <1>5 DEF FirstFails, PoolTypeOK, FetchedIsKept
  <2>2. /\ Result(w, {}, TRUE) \in Results /\ Result(w, {}, TRUE).job = job[w]
        /\ Result(w, {}, TRUE).pages = {}
    BY <2>1 DEF PoolTypeOK, Result, Results
  <2>3. Deliver(w, Result(w, {}, TRUE)) /\ UNCHANGED <<collected, fetched>>
    BY <1>5 DEF FirstFails, main
  <2> QED
    BY <2>1, <2>2, <2>3, DeliverFetched
<1>6. ASSUME NEW w \in Workers, Finish(w)
      PROVE  FetchedIsKept'
  <2>1. wpc[w] = "pages" /\ chClosed[w] /\ job[w] # 0
    BY <1>6 DEF Finish, PoolTypeOK
  <2>2. Waiting(w) = {}
    BY <2>1 DEF PagesAreAwaited, Waiting
  <2>3. fetched[job[w]] = got[w]
    BY <2>1, <2>2 DEF FetchedIsKept
  <2>4. /\ Result(w, got[w], FALSE) \in Results /\ Result(w, got[w], FALSE).job = job[w]
        /\ Result(w, got[w], FALSE).pages = got[w]
    BY <2>1 DEF PoolTypeOK, Result, Results
  <2>5. Deliver(w, Result(w, got[w], FALSE)) /\ UNCHANGED <<collected, fetched>>
    BY <1>6 DEF Finish, main
  <2> QED
    BY <2>1, <2>3, <2>4, <2>5, DeliverFetched
<1>7. CASE /\ UNCHANGED <<job, results, collected, got, page, fetched>>
           /\ \A w \in Workers : wpc'[w] = wpc[w] \/ wpc'[w] \notin {"first", "pages"}
  BY <1>7, QuietFetched
<1>8. CASE Feed \/ CloseJobs \/ Return \/ CloseResults \/ Cancel \/ UNCHANGED poolVars
  BY <1>7, <1>8 DEF Feed, CloseJobs, Return, CloseResults, Cancel, poolVars, main, workerV
<1>9. ASSUME NEW w \in Workers, Exit(w) \/ ClosePages(w)
      PROVE  FetchedIsKept'
  <2>1. UNCHANGED <<job, results, collected, got, page, fetched>>
    BY <1>9 DEF Exit, ClosePages, main
  <2>2. \A v \in Workers : wpc'[v] = wpc[v] \/ wpc'[v] \notin {"first", "pages"}
    BY <1>9 DEF Exit, ClosePages, PoolTypeOK
  <2> QED
    BY <1>7, <2>1, <2>2
<1> QED
  BY <1>1, <1>2, <1>3, <1>4, <1>5, <1>6, <1>8, <1>9 DEF PoolNext, MainStep, WorkerStep

(* The initial states satisfy the inductive invariant.                     *)
LEMMA PoolInvariantInit == PoolInit => PoolInv
<1> SUFFICES ASSUME PoolInit
             PROVE  PoolInv
  OBVIOUS
<1>1. /\ <<>> \in Seq(Jobs) /\ <<>> \in Seq(Results) /\ Len(jobs) = 0
      /\ Len(results) = 0 /\ Len(collected) = 0
  BY EmptySeq DEF PoolInit
<1>2. PoolTypeOK
  <2>1. next \in 1..NumJobs + 1 /\ faults \in 0..MaxFaults
    BY JobsAssumption, FaultsAssumption DEF PoolInit
  <2> QED
    BY <1>1, <2>1 DEF PoolInit, PoolTypeOK, NoPages
<1>3. MainInOrder /\ PagesAreAwaited /\ ExitsLeaveNothing
  BY DEF PoolInit, MainInOrder, PagesAreAwaited, NoPages, ExitsLeaveNothing
<1>4. OnePlace
  BY <1>1 DEF PoolInit, OnePlace, QueuedOnce, WorkedOnOnce, AnsweredOnce, AnswersDiffer,
     GatheredApart
<1>5. NoJobVanishes
  BY DEF PoolInit, NoJobVanishes, Jobs
<1>6. FetchedIsKept
  BY <1>1 DEF PoolInit, FetchedIsKept
<1> QED
  BY <1>2, <1>3, <1>4, <1>5, <1>6 DEF PoolInv

(* The inductive invariant holds throughout.                               *)
LEMMA PoolInvariance == PoolSpec => []PoolInv
<1>1. PoolInv /\ [PoolNext]_poolVars => PoolInv'
  BY PoolTypeStep, OrderStep, ExitStep, PlacesStep, FetchedStep DEF PoolInv
<1> QED
  BY <1>1, PoolInvariantInit, PTL DEF PoolSpec

(* Every variable of the pool keeps its type.                              *)
THEOREM PoolTypeCorrect == PoolSpec => []PoolTypeOK
BY PoolInvariance, PTL DEF PoolInv

(* No goroutine sends on a closed channel, neither of results              *)
(* (collect.go:34-37) nor of pages (prodjob.go:97-100), for any number of  *)
(* workers, jobs and pages.                                                *)
THEOREM ChannelsCloseLast == PoolSpec => []ClosedAfterSenders
<1>1. PoolInv => ClosedAfterSenders
  BY DEF PoolInv, MainInOrder, PagesAreAwaited, ClosedAfterSenders
<1> QED
  BY <1>1, PoolInvariance, PTL

(* A set with no two different elements counts as one or none.             *)
LEMMA AtMostOne ==
    ASSUME NEW S, \A x, y \in S : x = y
    PROVE  (S = {} => Cardinality(S) = 0) /\ (S # {} => Cardinality(S) = 1)
<1>1. CASE S = {}
  BY <1>1, FS_EmptySet
<1>2. CASE S # {}
  <2>1. PICK x : x \in S
    BY <1>2
  <2>2. S = {x}
    BY <2>1
  <2> QED
    BY <1>2, <2>2, FS_Singleton
<1> QED
  BY <1>1, <1>2

(* Each job has one place, and none only when the search was cancelled; a  *)
(* search that was not has one result of each when it returns: no request  *)
(* to an operator is made twice, forgotten, or left in the queue           *)
(* (collect.go:25-52, worker.go:16-31).                                    *)
THEOREM EveryJobAnsweredOnce == PoolSpec => []JobsAreAnsweredOnce
<1>1. ASSUME PoolTypeOK, OnePlace, NoJobVanishes, NEW j \in Jobs
      PROVE  Places(j) <= 1 /\ (Places(j) = 0 => cancelled)
  <2> DEFINE Queued    == {i \in DOMAIN jobs : jobs[i] = j}
             WorkedOn  == {w \in Workers : job[w] = j}
             Delivered == {i \in DOMAIN results : results[i].job = j}
             Gathered  == Answers(j)
  <2>1. /\ DOMAIN jobs = 1..Len(jobs) /\ DOMAIN results = 1..Len(results)
        /\ DOMAIN collected = 1..Len(collected)
    BY <1>1, ElementTypes DEF PoolTypeOK
  <2>2. /\ next \in Nat /\ j \in Nat \ {0}
        /\ \A i \in 1..Len(jobs) : jobs[i] \in Nat
        /\ \A i \in 1..Len(results) : results[i].job \in Nat
        /\ \A i \in 1..Len(collected) : collected[i].job \in Nat
        /\ \A w \in Workers : job[w] \in Nat
    BY <1>1, JobNumbers DEF Jobs
  <2>3. \A x, y \in Queued : x = y
    BY <1>1, <2>1 DEF OnePlace, QueuedOnce
  <2>4. \A x, y \in WorkedOn : x = y
    BY <1>1, <2>2 DEF OnePlace, WorkedOnOnce
  <2>5. \A x, y \in Delivered : x = y
    BY <1>1, <2>1 DEF OnePlace, AnsweredOnce, AnswersDiffer
  <2>6. \A x, y \in Gathered : x = y
    BY <1>1, <2>1 DEF OnePlace, AnsweredOnce, AnswersDiffer, Answers
  <2>7. /\ (Queued = {} => Cardinality(Queued) = 0) /\ (Queued # {} => Cardinality(Queued) = 1)
        /\ (WorkedOn = {} => Cardinality(WorkedOn) = 0)
        /\ (WorkedOn # {} => Cardinality(WorkedOn) = 1)
        /\ (Delivered = {} => Cardinality(Delivered) = 0)
        /\ (Delivered # {} => Cardinality(Delivered) = 1)
        /\ (Gathered = {} => Cardinality(Gathered) = 0)
        /\ (Gathered # {} => Cardinality(Gathered) = 1)
    <3>1. (Queued = {} => Cardinality(Queued) = 0) /\ (Queued # {} => Cardinality(Queued) = 1)
      BY <2>3, AtMostOne
    <3>2. /\ (WorkedOn = {} => Cardinality(WorkedOn) = 0)
          /\ (WorkedOn # {} => Cardinality(WorkedOn) = 1)
      BY <2>4, AtMostOne
    <3>3. /\ (Delivered = {} => Cardinality(Delivered) = 0)
          /\ (Delivered # {} => Cardinality(Delivered) = 1)
      BY <2>5, AtMostOne
    <3>4. /\ (Gathered = {} => Cardinality(Gathered) = 0)
          /\ (Gathered # {} => Cardinality(Gathered) = 1)
      BY <2>6, AtMostOne
    <3> QED
      BY <3>1, <3>2, <3>3, <3>4
  <2>8. /\ Queued # {} => j < next /\ WorkedOn = {} /\ Delivered = {} /\ Gathered = {}
        /\ WorkedOn # {} => j < next /\ Delivered = {} /\ Gathered = {}
        /\ Delivered # {} => j < next /\ Gathered = {}
        /\ Gathered # {} => j < next
    <3>1. Queued # {} => j < next /\ WorkedOn = {} /\ Delivered = {} /\ Gathered = {}
      BY <1>1, <2>1 DEF OnePlace, QueuedOnce, WorkedOnOnce, AnsweredOnce, Answers
    <3>2. WorkedOn # {} => j < next /\ Delivered = {} /\ Gathered = {}
      BY <1>1, <2>1 DEF OnePlace, WorkedOnOnce, AnsweredOnce, Answers
    <3>3. Delivered # {} => j < next /\ Gathered = {}
      BY <1>1, <2>1 DEF OnePlace, AnsweredOnce, GatheredApart, Answers
    <3>4. Gathered # {} => j < next
      BY <1>1, <2>1 DEF OnePlace, AnsweredOnce, Answers
    <3> QED
      BY <3>1, <3>2, <3>3, <3>4
  <2>9. \/ cancelled \/ j >= next
        \/ Queued # {} \/ WorkedOn # {} \/ Delivered # {} \/ Gathered # {}
    BY <1>1, <2>1 DEF NoJobVanishes, SomeoneHas, Answered, Answers
  <2>10. Places(j) = (IF j >= next THEN 1 ELSE 0) + Cardinality(Queued)
            + Cardinality(WorkedOn) + Cardinality(Delivered) + Cardinality(Gathered)
    BY DEF Places
  <2> HIDE DEF Queued, WorkedOn, Delivered, Gathered
  <2> QED
    BY <2>2, <2>7, <2>8, <2>9, <2>10
<1>2. ASSUME PoolInv, mpc = "returned", ~cancelled, NEW j \in Jobs
      PROVE  Cardinality(Answers(j)) = 1
  <2>1. /\ DOMAIN collected = 1..Len(collected)
        /\ AnswersDiffer(collected) /\ NoJobVanishes
    BY <1>2, ElementTypes DEF PoolInv, PoolTypeOK, OnePlace, AnsweredOnce
  <2>2. /\ next > NumJobs /\ results = <<>>
        /\ \A w \in Workers : wpc[w] = "exited"
    BY <1>2 DEF PoolInv, MainInOrder
  <2>3. jobs = <<>>
    <3>1. Workers # {}
      BY WorkersAssumption, JobsAssumption DEF Jobs
    <3> QED
      BY <1>2, <2>2, <3>1 DEF PoolInv, ExitsLeaveNothing
  <2>4. Len(jobs) = 0 /\ Len(results) = 0
    BY <2>2, <2>3, EmptySeq
  <2>5. ~(j >= next)
    BY <1>2, <2>2, JobsAssumption DEF Jobs, PoolInv, PoolTypeOK
  <2>6. ~SomeoneHas(j)
    BY <1>2, <2>2 DEF SomeoneHas, PoolInv, PoolTypeOK, Jobs
  <2>7. ~(\E i \in 1..Len(jobs) : jobs[i] = j) /\ ~Answered(results, j)
    BY <2>4 DEF Answered
  <2>8. Answered(collected, j)
    BY <1>2, <2>1, <2>5, <2>6, <2>7 DEF NoJobVanishes
  <2>9. Answers(j) # {} /\ \A x, y \in Answers(j) : x = y
    BY <2>1, <2>8 DEF Answers, Answered, AnswersDiffer
  <2> QED
    BY <2>9, AtMostOne
<1>3. PoolInv => JobsAreAnsweredOnce
  BY <1>1, <1>2 DEF PoolInv, JobsAreAnsweredOnce
<1> QED
  BY <1>3, PoolInvariance, PTL

(* Pages that operators delivered are in what the search returns, although *)
(* other pages may fail and the search may be cancelled at any step        *)
(* (prodjob.go:102-119, collect.go:47-58).                                 *)
THEOREM FetchedIsReturned == PoolSpec => []NothingFetchedIsLost
<1>1. ASSUME PoolInv, mpc = "returned", NEW j \in Jobs
      PROVE  fetched[j] =
               UNION {collected[i].pages : i \in {k \in DOMAIN collected : collected[k].job = j}}
  <2>1. /\ DOMAIN collected = 1..Len(collected)
        /\ results = <<>> /\ \A w \in Workers : wpc[w] = "exited"
    BY <1>1, ElementTypes DEF PoolInv, PoolTypeOK, MainInOrder
  <2>2. ~SomeoneHas(j) /\ ~Answered(results, j)
    BY <1>1, <2>1 DEF PoolInv, PoolTypeOK, SomeoneHas, Answered, Jobs
  <2>3. \A i \in 1..Len(collected) : collected[i].job = j => collected[i].pages = fetched[j]
    BY <1>1 DEF PoolInv, FetchedIsKept
  <2>4. CASE Answered(collected, j)
    BY <2>1, <2>3, <2>4 DEF Answered
  <2>5. CASE ~Answered(collected, j)
    <3>1. fetched[j] = {}
      BY <1>1, <2>2, <2>5 DEF PoolInv, FetchedIsKept
    <3>2. {k \in DOMAIN collected : collected[k].job = j} = {}
      BY <2>1, <2>5 DEF Answered
    <3> QED
      BY <3>1, <3>2
  <2> QED
    BY <2>4, <2>5
<1>2. PoolInv => NothingFetchedIsLost
  BY <1>1 DEF NothingFetchedIsLost
<1> QED
  BY <1>2, PoolInvariance, PTL

(* An interval has as many elements as it says.                            *)
LEMMA IntervalSize ==
    ASSUME NEW n \in Nat
    PROVE  IsFiniteSet(1..n) /\ Cardinality(1..n) = n
<1>1. /\ IsFiniteSet(1..n)
      /\ Cardinality(1..n) = IF 1 > n THEN 0 ELSE n - 1 + 1
  BY FS_Interval
<1> QED
  BY <1>1

(* As many places as different numbers in them fit into the interval.      *)
LEMMA PlacesFit ==
    ASSUME NEW n \in Nat, NEW T, IsFiniteSet(T), NEW place \in [1..n -> T],
           \A x, y \in 1..n : x # y => place[x] # place[y]
    PROVE  n <= Cardinality(T)
<1>1. IsFiniteSet(1..n) /\ Cardinality(1..n) = n /\ Cardinality(T) \in Nat
  BY IntervalSize, FS_CardinalityType
<1>2. CASE Cardinality(T) < n
  <2>1. \E x, y \in 1..n : x # y /\ place[x] = place[y]
    BY <1>1, <1>2, FS_PigeonHole
  <2> QED
    BY <2>1
<1> QED
  BY <1>1, <1>2

(* The channels are made as long as the list of jobs (collect.go:15-16),   *)
(* and that is enough: the search never waits to feed a job and a worker   *)
(* never waits to deliver a result, whether or not anybody receives.       *)
THEOREM NobodyWaitsForRoom == PoolSpec => []BuffersHaveRoom
<1>1. ASSUME PoolTypeOK, OnePlace, mpc = "feed", next <= NumJobs
      PROVE  Len(jobs) < NumJobs
  <2>1. /\ Len(jobs) \in Nat /\ next \in Nat \ {0}
        /\ \A i \in 1..Len(jobs) : jobs[i] \in Nat \ {0} /\ jobs[i] < next
    BY <1>1, JobNumbers DEF OnePlace, QueuedOnce
  <2> DEFINE place == [i \in 1..Len(jobs) |-> jobs[i]]
  <2>2. place \in [1..Len(jobs) -> 1..(next - 1)]
    BY <2>1
  <2>3. \A x, y \in 1..Len(jobs) : x # y => place[x] # place[y]
    BY <1>1 DEF OnePlace, QueuedOnce
  <2>4. next - 1 \in Nat /\ IsFiniteSet(1..(next - 1)) /\ Cardinality(1..(next - 1)) = next - 1
    <3>1. next - 1 \in Nat
      BY <2>1
    <3> QED
      BY <3>1, IntervalSize
  <2>5. Len(jobs) <= next - 1
    BY <2>1, <2>2, <2>3, <2>4, PlacesFit
  <2> QED
    BY <1>1, <2>1, <2>5, JobsAssumption
<1>2. ASSUME PoolTypeOK, OnePlace, NEW w \in Workers, wpc[w] \in {"first", "pages"}
      PROVE  Len(results) < NumJobs
  <2>1. job[w] \in Jobs
    BY <1>2 DEF PoolTypeOK
  <2>2. Len(results) \in Nat /\ \A i \in 1..Len(results) : results[i].job \in Jobs \ {job[w]}
    <3>1. Len(results) \in Nat /\ \A i \in 1..Len(results) : results[i] \in Results
      BY <1>2, ElementTypes DEF PoolTypeOK
    <3>2. \A x \in Results : x.job \in Jobs
      BY DEF Results
    <3> QED
      BY <1>2, <3>1, <3>2 DEF OnePlace, AnsweredOnce
  <2> DEFINE place == [i \in 1..Len(results) |-> results[i].job]
  <2>3. place \in [1..Len(results) -> Jobs \ {job[w]}]
    BY <2>2
  <2>4. \A x, y \in 1..Len(results) : x # y => place[x] # place[y]
    BY <1>2 DEF OnePlace, AnsweredOnce, AnswersDiffer
  <2>5. IsFiniteSet(Jobs) /\ Cardinality(Jobs) = NumJobs
    BY JobsAssumption, IntervalSize DEF Jobs
  <2>6. IsFiniteSet(Jobs \ {job[w]}) /\ Cardinality(Jobs \ {job[w]}) = NumJobs - 1
    BY <2>1, <2>5, FS_RemoveElement
  <2>7. Len(results) <= NumJobs - 1
    BY <2>2, <2>3, <2>4, <2>6, PlacesFit
  <2> QED
    BY <2>2, <2>7, JobsAssumption
<1>3. PoolInv => BuffersHaveRoom
  BY <1>1, <1>2 DEF PoolInv, BuffersHaveRoom
<1> QED
  BY <1>3, PoolInvariance, PTL
=============================================================================
