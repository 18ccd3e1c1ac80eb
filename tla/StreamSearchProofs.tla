-------------------------- MODULE StreamSearchProofs --------------------------
(***************************************************************************)
(* Proofs about StreamSearch for any jobs, workers, pages and channels.    *)
(* The invariant adds to the properties that pages are fetched for a       *)
(* worker that waits for them, and where a batch is that was fetched: as   *)
(* long as the user is there, in one of the channels or in the list.       *)
(***************************************************************************)
EXTENDS StreamSearch, SequenceTheorems, FiniteSetTheorems, TLAPS

HandlerTypes ==
    /\ mode \in Modes /\ asked \in 0..MaxRequests
    /\ phase \in {"returned", "popular", "lookup", "urls", "search"}

PresenceType == present \in BOOLEAN

ClosedTypes == resultsClosed \in BOOLEAN /\ updatesClosed \in BOOLEAN

GoroutineTypes == forwarder \in {"receiving", Ended} /\ tv \in {"polling", Ended}

(* Workers that wait and workers with a job are never more than were       *)
(* started.                                                                *)
WorkerTypes ==
    /\ jobs \subseteq Jobs /\ taken \subseteq Jobs
    /\ idle \in Nat /\ idle + Cardinality(taken) <= NumWorkers

PageTypes == pages \in [Jobs -> SUBSET (1..MaxPages)]

BatchTypes == raw \subseteq Batches /\ fetched \subseteq Batches

ResultTypes == results \in Seq(Batches \cup {Error}) /\ Len(results) <= ResultsCap

UpdateTypes == updates \in Seq(Batches) /\ Len(updates) <= UpdatesCap

StoredTypes == saves \subseteq Entries /\ (cache = {} \/ \E e \in Entries : cache = {e})

PagesHaveWorkers == \A j \in Jobs : pages[j] # {} => j \in taken

InChannel(q) == {q[i] : i \in 1..Len(q)}

(* As long as the user is there, a batch that was fetched is in the list   *)
(* or in a channel that somebody drains.                                   *)
NothingLost ==
    phase = "search" /\ present =>
        /\ fetched = raw \cup InChannel(updates) \cup (InChannel(results) \ {Error})
        /\ forwarder = Ended => results = <<>>

Inv ==
    /\ HandlerTypes /\ PresenceType /\ ClosedTypes /\ GoroutineTypes
    /\ WorkerTypes /\ PageTypes /\ BatchTypes /\ ResultTypes /\ UpdateTypes /\ StoredTypes
    /\ PagesHaveWorkers /\ ClosedAfterSenders /\ DrainedWhilePresent
    /\ NothingLost /\ OnlyLeavingLosesTickets

(* What is in a channel after a send.                                      *)
LEMMA Sent ==
    ASSUME NEW S, NEW q \in Seq(S), NEW e
    PROVE  InChannel(Append(q, e)) = InChannel(q) \cup {e}
<1>1. /\ Len(Append(q, e)) = Len(q) + 1 /\ Append(q, e)[Len(q) + 1] = e
      /\ \A i \in 1..Len(q) : Append(q, e)[i] = q[i]
      /\ Len(q) \in Nat
  OBVIOUS
<1>2. 1..(Len(q) + 1) = (1..Len(q)) \cup {Len(q) + 1}
  BY <1>1
<1>3. ASSUME NEW x \in InChannel(Append(q, e)) PROVE x \in InChannel(q) \cup {e}
  <2>1. PICK i \in 1..Len(Append(q, e)) : x = Append(q, e)[i]
    BY <1>3, Zenon DEF InChannel
  <2>2. QED
    BY <1>1, <1>2, <2>1, Zenon DEF InChannel
<1>4. ASSUME NEW x \in InChannel(q) PROVE x \in InChannel(Append(q, e))
  <2>1. PICK i \in 1..Len(q) : x = q[i]
    BY <1>4, Zenon DEF InChannel
  <2>2. QED
    BY <1>1, <1>2, <2>1, Zenon DEF InChannel
<1>5. e \in InChannel(Append(q, e))
  <2>1. Len(q) + 1 \in 1..Len(Append(q, e))
    BY <1>1
  <2>2. QED
    BY <1>1, <2>1, Zenon DEF InChannel
<1>6. QED
  BY <1>3, <1>4, <1>5

(* What a receive takes from a channel and what it leaves there.           *)
LEMMA Received ==
    ASSUME NEW S, NEW q \in Seq(S), q # <<>>
    PROVE  InChannel(q) = {Head(q)} \cup InChannel(Tail(q))
<1>1. /\ Len(q) \in Nat \ {0} /\ Len(Tail(q)) = Len(q) - 1
      /\ Head(q) = q[1] /\ \A i \in 1..Len(Tail(q)) : Tail(q)[i] = q[i + 1]
  BY EmptySeq, HeadTailProperties
<1>2. ASSUME NEW x \in InChannel(q) PROVE x \in {Head(q)} \cup InChannel(Tail(q))
  <2>1. PICK i \in 1..Len(q) : x = q[i]
    BY <1>2, Zenon DEF InChannel
  <2>2. CASE i = 1
    BY <1>1, <2>1, <2>2
  <2>3. CASE i # 1
    <3>1. i - 1 \in 1..Len(Tail(q)) /\ (i - 1) + 1 = i
      BY <1>1, <2>1, <2>3
    <3>2. x = Tail(q)[i - 1]
      BY <1>1, <2>1, <3>1
    <3>3. QED
      BY <3>1, <3>2, Zenon DEF InChannel
  <2>4. QED
    BY <2>2, <2>3
<1>3. ASSUME NEW x \in InChannel(Tail(q)) PROVE x \in InChannel(q)
  <2>1. PICK i \in 1..Len(Tail(q)) : x = Tail(q)[i]
    BY <1>3, Zenon DEF InChannel
  <2>2. i + 1 \in 1..Len(q) /\ x = q[i + 1]
    BY <1>1, <2>1
  <2>3. QED
    BY <2>2, Zenon DEF InChannel
<1>4. Head(q) \in InChannel(q)
  <2>1. 1 \in 1..Len(q)
    BY <1>1
  <2>2. QED
    BY <1>1, <2>1, Zenon DEF InChannel
<1>5. QED
  BY <1>2, <1>3, <1>4

LEMMA SendTypes ==
    ASSUME NEW S, NEW q \in Seq(S), NEW e \in S
    PROVE  Append(q, e) \in Seq(S) /\ Len(Append(q, e)) = Len(q) + 1 /\ Len(q) \in Nat
  OBVIOUS

LEMMA ReceiveTypes ==
    ASSUME NEW S, NEW q \in Seq(S), q # <<>>
    PROVE  /\ Head(q) \in S /\ Tail(q) \in Seq(S)
           /\ Len(Tail(q)) = Len(q) - 1 /\ Len(q) \in Nat \ {0}
  BY EmptySeq, HeadTailProperties

LEMMA EmptyTypes ==
    ASSUME NEW S
    PROVE  <<>> \in Seq(S) /\ Len(<<>>) = 0
  OBVIOUS

LEMMA PagesAreBatches == \A j \in Jobs : \A p \in 1..MaxPages : <<j, p>> \in Batches
  BY DEF Batches

LEMMA TourvisorsAreBatches == \A k \in 1..TvBatches : <<Tourvisor, k>> \in Batches
  BY DEF Batches

LEMMA NothingInChannel == InChannel(<<>>) = {}
  BY DEF InChannel

LEMMA ErrorIsNoBatch == Error \notin Batches
  BY DEF Error, Batches

(* The handler stands at a line of the code, in a mode that stays.         *)
LEMMA HandlerStep == HandlerTypes /\ [Next]_vars => HandlerTypes'
<1> SUFFICES ASSUME HandlerTypes, [Next]_vars
             PROVE  HandlerTypes'
  OBVIOUS
<1> USE DEF HandlerTypes
<1>1. CASE Arrive
  BY <1>1, RequestsAssumption DEF Arrive, samo, merged, stored
<1>2. CASE LookupPopular
  BY <1>2, RequestsAssumption DEF LookupPopular, Return, samo, merged, stored
<1>3. CASE CacheHit
  BY <1>3, RequestsAssumption DEF CacheHit, Return, samo, merged, stored
<1>4. CASE CacheMiss
  BY <1>4, RequestsAssumption DEF CacheMiss, samo, merged, stored
<1>5. CASE NothingToRun
  BY <1>5, RequestsAssumption DEF NothingToRun, Return, samo, merged, stored
<1>6. CASE Start
  BY <1>6, RequestsAssumption DEF Start, samo, stored
<1>7. CASE Finish
  BY <1>7, RequestsAssumption DEF Finish, Return, samo, merged
<1>8. CASE UNCHANGED <<mode, asked, phase>>
  BY <1>8
<1>9. CASE Collect \/ (\E j \in Jobs : TakeJob(j)) \/ (\E j \in Jobs : FinishJob(j))
           \/ StopWorker \/ CloseResults \/ Forward \/ StopForwarding \/ CloseUpdates
           \/ (\E j \in Jobs : FirstPage(j))
           \/ (\E j \in Jobs, p \in 2..MaxPages : FetchPage(j, p)) \/ TvEmit \/ Store \/ Leave
           \/ Expire \/ Rest \/ UNCHANGED vars
  BY <1>8, <1>9 DEF Collect, samo, stored, TakeJob, handler, merged, FinishJob, StopWorker,
                    CloseResults, WorkersEnded, Forward, StopForwarding, CloseUpdates, FirstPage,
                    Deliver, Fail, Room, FetchPage, TvEmit, Store, Leave, Expire, Rest, vars
<1>10. QED
  BY <1>1, <1>2, <1>3, <1>4, <1>5, <1>6, <1>7, <1>8, <1>9
     DEF Next, Handle, Produce, Fetch

(* The user is there or not.                                               *)
LEMMA PresenceStep == PresenceType /\ [Next]_vars => PresenceType'
<1> SUFFICES ASSUME PresenceType, [Next]_vars
             PROVE  PresenceType'
  OBVIOUS
<1> USE DEF PresenceType
<1>1. CASE Arrive
  BY <1>1 DEF Arrive, samo, merged, stored
<1>2. CASE LookupPopular
  BY <1>2 DEF LookupPopular, Return, samo, merged, stored
<1>3. CASE CacheHit
  BY <1>3 DEF CacheHit, Return, samo, merged, stored
<1>4. CASE NothingToRun
  BY <1>4 DEF NothingToRun, Return, samo, merged, stored
<1>5. CASE Finish
  BY <1>5 DEF Finish, Return, samo, merged
<1>6. CASE Leave
  BY <1>6 DEF Leave, samo, merged, stored
<1>7. CASE UNCHANGED present
  BY <1>7
<1>8. CASE CacheMiss \/ Start \/ Collect \/ (\E j \in Jobs : TakeJob(j))
           \/ (\E j \in Jobs : FinishJob(j)) \/ StopWorker \/ CloseResults \/ Forward
           \/ StopForwarding \/ CloseUpdates \/ (\E j \in Jobs : FirstPage(j))
           \/ (\E j \in Jobs, p \in 2..MaxPages : FetchPage(j, p)) \/ TvEmit \/ Store \/ Expire
           \/ Rest \/ UNCHANGED vars
  BY <1>7, <1>8 DEF CacheMiss, samo, merged, stored, Start, Collect, TakeJob, handler, FinishJob,
                    StopWorker, CloseResults, WorkersEnded, Forward, StopForwarding, CloseUpdates,
                    FirstPage, Deliver, Fail, Room, FetchPage, TvEmit, Store, Expire, Rest, vars
<1>9. QED
  BY <1>1, <1>2, <1>3, <1>4, <1>5, <1>6, <1>7, <1>8
     DEF Next, Handle, Produce, Fetch

(* A channel is closed or not.                                             *)
LEMMA ClosedStep == ClosedTypes /\ [Next]_vars => ClosedTypes'
<1> SUFFICES ASSUME ClosedTypes, [Next]_vars
             PROVE  ClosedTypes'
  OBVIOUS
<1> USE DEF ClosedTypes
<1>1. CASE Start
  BY <1>1 DEF Start, samo, stored
<1>2. CASE CloseResults
  BY <1>2 DEF CloseResults, WorkersEnded, handler, merged, stored
<1>3. CASE CloseUpdates
  BY <1>3 DEF CloseUpdates, handler, samo, stored
<1>4. CASE UNCHANGED <<resultsClosed, updatesClosed>>
  BY <1>4
<1>5. CASE Arrive \/ LookupPopular \/ CacheHit \/ CacheMiss \/ NothingToRun \/ Collect \/ Finish
           \/ (\E j \in Jobs : TakeJob(j)) \/ (\E j \in Jobs : FinishJob(j)) \/ StopWorker
           \/ Forward \/ StopForwarding \/ (\E j \in Jobs : FirstPage(j))
           \/ (\E j \in Jobs, p \in 2..MaxPages : FetchPage(j, p)) \/ TvEmit \/ Store \/ Leave
           \/ Expire \/ Rest \/ UNCHANGED vars
  BY <1>4, <1>5 DEF Arrive, samo, merged, stored, LookupPopular, CacheHit, CacheMiss, NothingToRun,
                    Collect, Finish, TakeJob, handler, FinishJob, StopWorker, Forward,
                    StopForwarding, FirstPage, Deliver, Fail, Room, FetchPage, TvEmit, Store,
                    Leave, Expire, Rest, vars, Return
<1>6. QED
  BY <1>1, <1>2, <1>3, <1>4, <1>5
     DEF Next, Handle, Produce, Fetch

(* The producers of updates run or have ended.                             *)
LEMMA GoroutineStep == GoroutineTypes /\ [Next]_vars => GoroutineTypes'
<1> SUFFICES ASSUME GoroutineTypes, [Next]_vars
             PROVE  GoroutineTypes'
  OBVIOUS
<1> USE DEF GoroutineTypes
<1>1. CASE Start
  BY <1>1 DEF Start, samo, stored
<1>2. CASE StopForwarding
  BY <1>2 DEF StopForwarding, handler, merged, stored
<1>3. CASE TvEmit
  BY <1>3 DEF TvEmit, handler, samo, stored
<1>4. CASE UNCHANGED <<forwarder, tv>>
  BY <1>4
<1>5. CASE Arrive \/ LookupPopular \/ CacheHit \/ CacheMiss \/ NothingToRun \/ Collect \/ Finish
           \/ (\E j \in Jobs : TakeJob(j)) \/ (\E j \in Jobs : FinishJob(j)) \/ StopWorker
           \/ CloseResults \/ Forward \/ CloseUpdates \/ (\E j \in Jobs : FirstPage(j))
           \/ (\E j \in Jobs, p \in 2..MaxPages : FetchPage(j, p)) \/ Store \/ Leave \/ Expire
           \/ Rest \/ UNCHANGED vars
  BY <1>4, <1>5 DEF Arrive, samo, merged, stored, LookupPopular, CacheHit, CacheMiss, NothingToRun,
                    Collect, Finish, TakeJob, handler, FinishJob, StopWorker, CloseResults,
                    WorkersEnded, Forward, CloseUpdates, FirstPage, Deliver, Fail, Room, FetchPage,
                    Store, Leave, Expire, Rest, vars, Return
<1>6. QED
  BY <1>1, <1>2, <1>3, <1>4, <1>5
     DEF Next, Handle, Produce, Fetch

(* No worker is lost or made up.                                           *)
LEMMA WorkerStep == WorkerTypes /\ [Next]_vars => WorkerTypes'
<1> SUFFICES ASSUME WorkerTypes, [Next]_vars
             PROVE  WorkerTypes'
  OBVIOUS
<1> USE DEF WorkerTypes
<1>1. CASE Start
  <2>1. PICK todo \in SUBSET Jobs :
          /\ jobs' = todo
          /\ idle' = IF Cardinality(todo) < NumWorkers THEN Cardinality(todo) ELSE NumWorkers
    BY <1>1 DEF Start
  <2>2. IsFiniteSet(todo) /\ Cardinality(todo) \in Nat
    BY FS_Subset, FS_CardinalityType, JobsAssumption
  <2>3. taken' = {} /\ Cardinality({}) = 0
    BY <1>1, FS_EmptySet DEF Start
  <2>4. QED
    BY <2>1, <2>2, <2>3, WorkersAssumption
<1>2. ASSUME NEW j \in Jobs, TakeJob(j) PROVE WorkerTypes'
  <2>1. IsFiniteSet(taken) /\ Cardinality(taken) \in Nat
    BY FS_Subset, FS_CardinalityType, JobsAssumption
  <2>2. /\ Cardinality(taken \cup {j}) \in {Cardinality(taken), Cardinality(taken) + 1}
        /\ Cardinality(taken \cup {j}) \in Nat
    <3>1. CASE j \in taken
      <4>1. taken \cup {j} = taken
        BY <3>1
      <4>2. QED
        BY <2>1, <4>1
    <3>2. CASE j \notin taken
      <4>1. Cardinality(taken \cup {j}) = Cardinality(taken) + 1
        BY <2>1, <3>2, FS_AddElement, Zenon
      <4>2. QED
        BY <2>1, <4>1
    <3>3. QED
      BY <3>1, <3>2
  <2>3. QED
    BY <1>2, <2>1, <2>2, WorkersAssumption DEF TakeJob
<1>3. ASSUME NEW j \in Jobs, FinishJob(j) PROVE WorkerTypes'
  <2>1. IsFiniteSet(taken) /\ Cardinality(taken) \in Nat
    BY FS_Subset, FS_CardinalityType, JobsAssumption
  <2>2. Cardinality(taken \ {j}) = Cardinality(taken) - 1
    BY <1>3, <2>1, FS_RemoveElement DEF FinishJob
  <2>3. QED
    BY <1>3, <2>1, <2>2, WorkersAssumption DEF FinishJob
<1>4. CASE StopWorker
  BY <1>4, WorkersAssumption, FS_Subset, FS_CardinalityType, JobsAssumption DEF StopWorker,
                                                                                handler, merged,
                                                                                stored
<1>5. CASE UNCHANGED <<jobs, idle, taken>>
  BY <1>5
<1>6. CASE Arrive \/ LookupPopular \/ CacheHit \/ CacheMiss \/ NothingToRun \/ Collect \/ Finish
           \/ CloseResults \/ Forward \/ StopForwarding \/ CloseUpdates
           \/ (\E j \in Jobs : FirstPage(j))
           \/ (\E j \in Jobs, p \in 2..MaxPages : FetchPage(j, p)) \/ TvEmit \/ Store \/ Leave
           \/ Expire \/ Rest \/ UNCHANGED vars
  BY <1>5, <1>6 DEF Arrive, samo, merged, stored, LookupPopular, CacheHit, CacheMiss, NothingToRun,
                    Collect, Finish, CloseResults, WorkersEnded, handler, Forward, StopForwarding,
                    CloseUpdates, FirstPage, Deliver, Fail, Room, FetchPage, TvEmit, Store, Leave,
                    Expire, Rest, vars, Return
<1>7. QED
  BY <1>1, <1>2, <1>3, <1>4, <1>5, <1>6
     DEF Next, Handle, Produce, Fetch

(* Pages are those an operator reports.                                    *)
LEMMA PageStep == PageTypes /\ [Next]_vars => PageTypes'
<1> SUFFICES ASSUME PageTypes, [Next]_vars
             PROVE  PageTypes'
  OBVIOUS
<1> USE DEF PageTypes
<1>1. CASE Start
  BY <1>1, PagesAssumption DEF Start, samo, stored
<1>2. ASSUME NEW j \in Jobs, TakeJob(j) PROVE PageTypes'
  BY <1>2, PagesAssumption DEF TakeJob, handler, merged, stored
<1>3. ASSUME NEW j \in Jobs, FirstPage(j) PROVE PageTypes'
  BY <1>3, PagesAssumption DEF FirstPage, Deliver, Fail, handler, merged, stored, Room
<1>4. ASSUME NEW j \in Jobs, NEW p \in 2..MaxPages, FetchPage(j, p) PROVE PageTypes'
  BY <1>4, PagesAssumption DEF FetchPage, Deliver, Fail, handler, merged, stored, Room
<1>5. CASE UNCHANGED pages
  BY <1>5
<1>6. CASE Arrive \/ LookupPopular \/ CacheHit \/ CacheMiss \/ NothingToRun \/ Collect \/ Finish
           \/ (\E j \in Jobs : FinishJob(j)) \/ StopWorker \/ CloseResults \/ Forward
           \/ StopForwarding \/ CloseUpdates \/ TvEmit \/ Store \/ Leave \/ Expire \/ Rest
           \/ UNCHANGED vars
  BY <1>5, <1>6 DEF Arrive, samo, merged, stored, LookupPopular, CacheHit, CacheMiss, NothingToRun,
                    Collect, Finish, FinishJob, handler, StopWorker, CloseResults, WorkersEnded,
                    Forward, StopForwarding, CloseUpdates, TvEmit, Store, Leave, Expire, Rest,
                    vars, Return
<1>7. QED
  BY <1>1, <1>2, <1>3, <1>4, <1>5, <1>6
     DEF Next, Handle, Produce, Fetch

(* Batches come from a job or from Tourvisor.                              *)
LEMMA BatchStep == BatchTypes /\ PageTypes /\ UpdateTypes /\ [Next]_vars => BatchTypes'
<1> SUFFICES ASSUME BatchTypes, PageTypes, UpdateTypes, [Next]_vars
             PROVE  BatchTypes'
  OBVIOUS
<1> USE DEF BatchTypes
<1>1. CASE Start
  BY <1>1, PagesAssumption DEF Start, samo, stored
<1>2. CASE Collect
  <2>1. Head(updates) \in Batches
    BY <1>2, HeadTailProperties DEF Collect, UpdateTypes
  <2>2. QED
    BY <1>2, <2>1 DEF Collect
<1>3. ASSUME NEW j \in Jobs, FirstPage(j) PROVE BatchTypes'
  <2>1. 1 \in 1..MaxPages
    BY PagesAssumption
  <2>2. fetched' = fetched \/ fetched' = fetched \cup {<<j, 1>>}
    BY <1>3 DEF FirstPage, Deliver, Fail
  <2>3. QED
    BY <1>3, <2>1, <2>2, PagesAreBatches DEF FirstPage, handler
<1>4. ASSUME NEW j \in Jobs, NEW p \in 2..MaxPages, FetchPage(j, p) PROVE BatchTypes'
  <2>1. p \in 1..MaxPages
    BY PagesAssumption
  <2>2. fetched' = fetched \/ fetched' = fetched \cup {<<j, p>>}
    BY <1>4 DEF FetchPage, Deliver, Fail
  <2>3. QED
    BY <1>4, <2>1, <2>2, PagesAreBatches DEF FetchPage, handler
<1>5. CASE TvEmit
  BY <1>5, TourvisorsAreBatches DEF TvEmit, handler
<1>6. CASE UNCHANGED <<raw, fetched>>
  BY <1>6
<1>7. CASE Arrive \/ LookupPopular \/ CacheHit \/ CacheMiss \/ NothingToRun \/ Finish
           \/ (\E j \in Jobs : TakeJob(j)) \/ (\E j \in Jobs : FinishJob(j)) \/ StopWorker
           \/ CloseResults \/ Forward \/ StopForwarding \/ CloseUpdates \/ Store \/ Leave
           \/ Expire \/ Rest \/ UNCHANGED vars
  BY <1>6, <1>7 DEF Arrive, samo, merged, stored, LookupPopular, CacheHit, CacheMiss, NothingToRun,
                    Finish, TakeJob, handler, FinishJob, StopWorker, CloseResults, WorkersEnded,
                    Forward, StopForwarding, CloseUpdates, Store, Leave, Expire, Rest, vars, Return
<1>8. QED
  BY <1>1, <1>2, <1>3, <1>4, <1>5, <1>6, <1>7
     DEF Next, Handle, Produce, Fetch

(* The channel of results holds what it has room for.                      *)
LEMMA ResultStep == ResultTypes /\ PageTypes /\ [Next]_vars => ResultTypes'
<1> SUFFICES ASSUME ResultTypes, PageTypes, [Next]_vars
             PROVE  ResultTypes'
  OBVIOUS
<1> USE DEF ResultTypes
<1>1. CASE Start
  BY <1>1, EmptyTypes, CapsAssumption DEF Start
<1>2. CASE Forward
  BY <1>2, ReceiveTypes, CapsAssumption DEF Forward
<1>3. CASE StopForwarding
  BY <1>3, ReceiveTypes, CapsAssumption DEF StopForwarding
<1>4. ASSUME NEW j \in Jobs, FirstPage(j) PROVE ResultTypes'
  <2>1. <<j, 1>> \in Batches \cup {Error} /\ Error \in Batches \cup {Error}
    BY PagesAssumption, PagesAreBatches
  <2>2. \/ results' = results
        \/ Len(results) < ResultsCap /\ results' = Append(results, <<j, 1>>)
        \/ Len(results) < ResultsCap /\ results' = Append(results, Error)
    BY <1>4 DEF FirstPage, Deliver, Fail, Room
  <2>3. QED
    <3>1. ASSUME NEW e \in Batches \cup {Error}, Len(results) < ResultsCap, results' = Append(results, e)
          PROVE  ResultTypes'
      BY <3>1, SendTypes, CapsAssumption
    <3>2. QED
      BY <2>1, <2>2, <3>1
<1>5. ASSUME NEW j \in Jobs, NEW p \in 2..MaxPages, FetchPage(j, p) PROVE ResultTypes'
  <2>1. <<j, p>> \in Batches \cup {Error} /\ Error \in Batches \cup {Error}
    BY PagesAssumption, PagesAreBatches
  <2>2. \/ results' = results
        \/ Len(results) < ResultsCap /\ results' = Append(results, <<j, p>>)
        \/ Len(results) < ResultsCap /\ results' = Append(results, Error)
    BY <1>5 DEF FetchPage, Deliver, Fail, Room
  <2>3. QED
    <3>1. ASSUME NEW e \in Batches \cup {Error}, Len(results) < ResultsCap, results' = Append(results, e)
          PROVE  ResultTypes'
      BY <3>1, SendTypes, CapsAssumption
    <3>2. QED
      BY <2>1, <2>2, <3>1
<1>6. CASE UNCHANGED results
  BY <1>6
<1>7. CASE Arrive \/ LookupPopular \/ CacheHit \/ CacheMiss \/ NothingToRun \/ Collect \/ Finish
           \/ (\E j \in Jobs : TakeJob(j)) \/ (\E j \in Jobs : FinishJob(j)) \/ StopWorker
           \/ CloseResults \/ CloseUpdates \/ TvEmit \/ Store \/ Leave \/ Expire \/ Rest
           \/ UNCHANGED vars
  BY <1>6, <1>7 DEF Arrive, samo, merged, stored, LookupPopular, CacheHit, CacheMiss, NothingToRun,
                    Collect, Finish, TakeJob, handler, FinishJob, StopWorker, CloseResults,
                    WorkersEnded, CloseUpdates, TvEmit, Store, Leave, Expire, Rest, vars, Return
<1>8. QED
  BY <1>1, <1>2, <1>3, <1>4, <1>5, <1>6, <1>7
     DEF Next, Handle, Produce, Fetch

(* So does the channel of updates.                                         *)
LEMMA UpdateStep == UpdateTypes /\ ResultTypes /\ [Next]_vars => UpdateTypes'
<1> SUFFICES ASSUME UpdateTypes, ResultTypes, [Next]_vars
             PROVE  UpdateTypes'
  OBVIOUS
<1> USE DEF UpdateTypes
<1>1. CASE Start
  BY <1>1, EmptyTypes, CapsAssumption DEF Start
<1>2. CASE Collect
  BY <1>2, ReceiveTypes, CapsAssumption DEF Collect
<1>3. CASE Forward
  <2>1. Head(results) \in Batches \cup {Error}
    BY <1>3, ReceiveTypes DEF Forward, ResultTypes
  <2>2. QED
    BY <1>3, <2>1, SendTypes, CapsAssumption DEF Forward
<1>4. CASE TvEmit
  <2>1. ASSUME NEW k \in 1..TvBatches, Len(updates) < UpdatesCap,
               updates' = Append(updates, <<Tourvisor, k>>)
        PROVE  UpdateTypes'
    <3>1. <<Tourvisor, k>> \in Batches
      BY TourvisorsAreBatches
    <3>2. QED
      BY <2>1, <3>1, SendTypes, CapsAssumption
  <2>2. CASE UNCHANGED updates
    BY <2>2
  <2>3. QED
    BY <1>4, <2>1, <2>2 DEF TvEmit
<1>5. CASE UNCHANGED updates
  BY <1>5
<1>6. CASE Arrive \/ LookupPopular \/ CacheHit \/ CacheMiss \/ NothingToRun \/ Finish
           \/ (\E j \in Jobs : TakeJob(j)) \/ (\E j \in Jobs : FinishJob(j)) \/ StopWorker
           \/ CloseResults \/ StopForwarding \/ CloseUpdates \/ (\E j \in Jobs : FirstPage(j))
           \/ (\E j \in Jobs, p \in 2..MaxPages : FetchPage(j, p)) \/ Store \/ Leave \/ Expire
           \/ Rest \/ UNCHANGED vars
  BY <1>5, <1>6 DEF Arrive, samo, merged, stored, LookupPopular, CacheHit, CacheMiss, NothingToRun,
                    Finish, TakeJob, handler, FinishJob, StopWorker, CloseResults, WorkersEnded,
                    StopForwarding, CloseUpdates, FirstPage, Deliver, Fail, Room, FetchPage, Store,
                    Leave, Expire, Rest, vars, Return
<1>7. QED
  BY <1>1, <1>2, <1>3, <1>4, <1>5, <1>6
     DEF Next, Handle, Produce, Fetch

(* Redis holds at most one entry for the query.                            *)
LEMMA StoredStep == StoredTypes /\ PresenceType /\ [Next]_vars => StoredTypes'
<1> SUFFICES ASSUME StoredTypes, PresenceType, [Next]_vars
             PROVE  StoredTypes'
  OBVIOUS
<1> USE DEF StoredTypes
<1>1. CASE Finish
  <2>1. [whole |-> raw = fetched, left |-> ~present] \in Entries
    <3>1. (raw = fetched) \in BOOLEAN /\ (~present) \in BOOLEAN
      BY Zenon
    <3>2. QED
      BY <3>1, Zenon DEF Entries
  <2>2. saves' = saves \/ saves' = saves \cup {[whole |-> raw = fetched, left |-> ~present]}
    BY <1>1, Zenon DEF Finish
  <2>3. cache' = cache
    BY <1>1 DEF Finish
  <2>4. QED
    BY <2>1, <2>2, <2>3, Zenon
<1>2. CASE Store
  BY <1>2 DEF Store, handler, samo, merged
<1>3. CASE Expire
  BY <1>3 DEF Expire, handler, samo, merged
<1>4. CASE UNCHANGED <<saves, cache>>
  BY <1>4
<1>5. CASE Arrive \/ LookupPopular \/ CacheHit \/ CacheMiss \/ NothingToRun \/ Start \/ Collect
           \/ (\E j \in Jobs : TakeJob(j)) \/ (\E j \in Jobs : FinishJob(j)) \/ StopWorker
           \/ CloseResults \/ Forward \/ StopForwarding \/ CloseUpdates
           \/ (\E j \in Jobs : FirstPage(j))
           \/ (\E j \in Jobs, p \in 2..MaxPages : FetchPage(j, p)) \/ TvEmit \/ Leave \/ Rest
           \/ UNCHANGED vars
  BY <1>4, <1>5 DEF Arrive, samo, merged, stored, LookupPopular, CacheHit, CacheMiss, NothingToRun,
                    Start, Collect, TakeJob, handler, FinishJob, StopWorker, CloseResults,
                    WorkersEnded, Forward, StopForwarding, CloseUpdates, FirstPage, Deliver, Fail,
                    Room, FetchPage, TvEmit, Leave, Rest, vars, Return
<1>6. QED
  BY <1>1, <1>2, <1>3, <1>4, <1>5
     DEF Next, Handle, Produce, Fetch

(* A worker leaves a job only when all its pages are there.                *)
LEMMA PagesStep == PageTypes /\ PagesHaveWorkers /\ [Next]_vars => PagesHaveWorkers'
<1> SUFFICES ASSUME PageTypes, PagesHaveWorkers, [Next]_vars
             PROVE  PagesHaveWorkers'
  OBVIOUS
<1> USE DEF PagesHaveWorkers, PageTypes
<1>1. CASE Start
  BY <1>1 DEF Start, samo, stored
<1>2. ASSUME NEW j \in Jobs, TakeJob(j) PROVE PagesHaveWorkers'
  BY <1>2 DEF TakeJob, handler, merged, stored
<1>3. ASSUME NEW j \in Jobs, FinishJob(j) PROVE PagesHaveWorkers'
  BY <1>3 DEF FinishJob, handler, merged, stored
<1>4. ASSUME NEW j \in Jobs, FirstPage(j) PROVE PagesHaveWorkers'
  BY <1>4 DEF FirstPage, Deliver, Fail, handler, merged, stored, Room
<1>5. ASSUME NEW j \in Jobs, NEW p \in 2..MaxPages, FetchPage(j, p) PROVE PagesHaveWorkers'
  BY <1>5 DEF FetchPage, Deliver, Fail, handler, merged, stored, Room
<1>6. CASE UNCHANGED <<pages, taken>>
  BY <1>6
<1>7. CASE Arrive \/ LookupPopular \/ CacheHit \/ CacheMiss \/ NothingToRun \/ Collect \/ Finish
           \/ StopWorker \/ CloseResults \/ Forward \/ StopForwarding \/ CloseUpdates \/ TvEmit
           \/ Store \/ Leave \/ Expire \/ Rest \/ UNCHANGED vars
  BY <1>6, <1>7 DEF Arrive, samo, merged, stored, LookupPopular, CacheHit, CacheMiss, NothingToRun,
                    Collect, Finish, StopWorker, handler, CloseResults, WorkersEnded, Forward,
                    StopForwarding, CloseUpdates, TvEmit, Store, Leave, Expire, Rest, vars, Return
<1>8. QED
  BY <1>1, <1>2, <1>3, <1>4, <1>5, <1>6, <1>7
     DEF Next, Handle, Produce, Fetch

(* Nobody who could send is left when a channel is closed.                 *)
LEMMA SendersStep ==
    WorkerTypes /\ PageTypes /\ PagesHaveWorkers /\ ClosedAfterSenders /\
    [Next]_vars => ClosedAfterSenders'
<1> SUFFICES ASSUME WorkerTypes, PageTypes, PagesHaveWorkers, ClosedAfterSenders, [Next]_vars
             PROVE  ClosedAfterSenders'
  OBVIOUS
<1> USE DEF ClosedAfterSenders, WorkersEnded
<1>1. CASE Start
  <2>1. PICK todo \in SUBSET Jobs :
          /\ idle' = IF Cardinality(todo) < NumWorkers THEN Cardinality(todo) ELSE NumWorkers
          /\ resultsClosed' = (todo = {})
    BY <1>1 DEF Start
  <2>2. Cardinality({}) = 0
    BY FS_EmptySet
  <2>3. resultsClosed' => idle' = 0 /\ taken' = {} /\ \A j \in Jobs : pages'[j] = {}
    <3>1. taken' = {} /\ pages' = [j \in Jobs |-> {}]
      BY <1>1 DEF Start
    <3>2. ASSUME resultsClosed' PROVE idle' = 0
      <4>1. todo = {}
        BY <2>1, <3>2
      <4>2. QED
        BY <2>1, <2>2, <4>1, WorkersAssumption
    <3>3. QED
      BY <3>1, <3>2
  <2>4. updatesClosed' = FALSE
    BY <1>1 DEF Start
  <2>5. QED
    BY <2>3, <2>4
<1>2. ASSUME NEW j \in Jobs, TakeJob(j) PROVE ClosedAfterSenders'
  BY <1>2 DEF TakeJob, handler, merged, stored
<1>3. ASSUME NEW j \in Jobs, FinishJob(j) PROVE ClosedAfterSenders'
  BY <1>3 DEF FinishJob, handler, merged, stored
<1>4. CASE StopWorker
  BY <1>4 DEF StopWorker, handler, merged, stored
<1>5. CASE CloseResults
  BY <1>5 DEF CloseResults, PagesHaveWorkers, merged
<1>6. CASE StopForwarding
  BY <1>6 DEF StopForwarding, handler, merged, stored
<1>7. CASE CloseUpdates
  BY <1>7 DEF CloseUpdates, handler, samo, stored
<1>8. ASSUME NEW j \in Jobs, FirstPage(j) PROVE ClosedAfterSenders'
  BY <1>8 DEF FirstPage, Deliver, Fail, handler, merged, stored, Room
<1>9. ASSUME NEW j \in Jobs, NEW p \in 2..MaxPages, FetchPage(j, p) PROVE ClosedAfterSenders'
  BY <1>9 DEF FetchPage, Deliver, Fail, handler, merged, stored, Room
<1>10. CASE TvEmit
  BY <1>10 DEF TvEmit, handler, samo, stored
<1>11. CASE UNCHANGED <<idle, taken, pages, resultsClosed, updatesClosed, forwarder, tv>>
  BY <1>11
<1>12. CASE Arrive \/ LookupPopular \/ CacheHit \/ CacheMiss \/ NothingToRun \/ Collect \/ Finish
            \/ Forward \/ Store \/ Leave \/ Expire \/ Rest \/ UNCHANGED vars
  BY <1>11, <1>12 DEF Arrive, samo, merged, stored, LookupPopular, CacheHit, CacheMiss,
                      NothingToRun, Collect, Finish, Forward, handler, Store, Leave, Expire, Rest,
                      vars, Return
<1>13. QED
  BY <1>1, <1>2, <1>3, <1>4, <1>5, <1>6, <1>7, <1>8, <1>9, <1>10, <1>11, <1>12
     DEF Next, Handle, Produce, Fetch

(* The forwarder stays as long as the user does.                           *)
LEMMA DrainedStep == DrainedWhilePresent /\ [Next]_vars => DrainedWhilePresent'
<1> SUFFICES ASSUME DrainedWhilePresent, [Next]_vars
             PROVE  DrainedWhilePresent'
  OBVIOUS
<1> USE DEF DrainedWhilePresent
<1>1. CASE Arrive
  BY <1>1 DEF Arrive, samo, merged, stored
<1>2. CASE LookupPopular
  BY <1>2 DEF LookupPopular, Return, samo, merged, stored
<1>3. CASE CacheHit
  BY <1>3 DEF CacheHit, Return, samo, merged, stored
<1>4. CASE CacheMiss
  BY <1>4 DEF CacheMiss, samo, merged, stored
<1>5. CASE NothingToRun
  BY <1>5 DEF NothingToRun, Return, samo, merged, stored
<1>6. CASE Start
  BY <1>6 DEF Start, samo, stored
<1>7. CASE Finish
  BY <1>7 DEF Finish, Return, samo, merged
<1>8. CASE CloseResults
  BY <1>8 DEF CloseResults, WorkersEnded, handler, merged, stored
<1>9. CASE StopForwarding
  BY <1>9 DEF StopForwarding, handler, merged, stored
<1>10. CASE Leave
  BY <1>10 DEF Leave, samo, merged, stored
<1>11. CASE UNCHANGED <<phase, present, forwarder, resultsClosed>>
  BY <1>11
<1>12. CASE Collect \/ (\E j \in Jobs : TakeJob(j)) \/ (\E j \in Jobs : FinishJob(j))
            \/ StopWorker \/ Forward \/ CloseUpdates \/ (\E j \in Jobs : FirstPage(j))
            \/ (\E j \in Jobs, p \in 2..MaxPages : FetchPage(j, p)) \/ TvEmit \/ Store \/ Expire
            \/ Rest \/ UNCHANGED vars
  BY <1>11, <1>12 DEF Collect, samo, stored, TakeJob, handler, merged, FinishJob, StopWorker,
                      Forward, CloseUpdates, FirstPage, Deliver, Fail, Room, FetchPage, TvEmit,
                      Store, Expire, Rest, vars
<1>13. QED
  BY <1>1, <1>2, <1>3, <1>4, <1>5, <1>6, <1>7, <1>8, <1>9, <1>10, <1>11, <1>12
     DEF Next, Handle, Produce, Fetch

(* A batch goes from one channel to the next and into the list.            *)
LEMMA NothingLostStep ==
    ResultTypes /\ UpdateTypes /\ PageTypes /\ ClosedAfterSenders /\ DrainedWhilePresent /\
    NothingLost /\ [Next]_vars => NothingLost'
<1> SUFFICES ASSUME ResultTypes, UpdateTypes, PageTypes, ClosedAfterSenders, DrainedWhilePresent,
                    NothingLost, [Next]_vars
             PROVE  NothingLost'
  OBVIOUS
<1> USE DEF NothingLost
<1>1. CASE Arrive
  BY <1>1 DEF Arrive, samo, merged, stored
<1>2. CASE LookupPopular
  BY <1>2 DEF LookupPopular, Return, samo, merged, stored
<1>3. CASE CacheHit
  BY <1>3 DEF CacheHit, Return, samo, merged, stored
<1>4. CASE CacheMiss
  BY <1>4 DEF CacheMiss, samo, merged, stored
<1>5. CASE NothingToRun
  BY <1>5 DEF NothingToRun, Return, samo, merged, stored
<1>6. CASE Start
  BY <1>6, NothingInChannel DEF Start
<1>7. CASE Collect
  <2>1. InChannel(updates) = {Head(updates)} \cup InChannel(updates')
    BY <1>7, Received DEF Collect, UpdateTypes
  <2>2. QED
    BY <1>7, <2>1 DEF Collect, samo
<1>8. CASE Finish
  BY <1>8 DEF Finish, Return, samo, merged
<1>9. CASE Forward
  <2>1. InChannel(results) = {Head(results)} \cup InChannel(results')
    BY <1>9, Received DEF Forward, ResultTypes
  <2>2. CASE Head(results) = Error /\ UNCHANGED updates
    BY <1>9, <2>1, <2>2 DEF Forward, handler, Ended
  <2>3. CASE Head(results) # Error /\ updates' = Append(updates, Head(results))
    <3>1. InChannel(updates') = InChannel(updates) \cup {Head(results)}
      BY <2>3, Sent DEF UpdateTypes
    <3>2. CASE Head(results) \in InChannel(results')
      BY <1>9, <2>1, <2>3, <3>1 DEF Forward, handler, Ended
    <3>3. CASE Head(results) \notin InChannel(results')
      BY <1>9, <2>1, <2>3, <3>1 DEF Forward, handler, Ended
    <3>4. QED
      BY <3>2, <3>3
  <2>4. QED
    BY <1>9, <2>2, <2>3 DEF Forward
<1>10. CASE StopForwarding
  BY <1>10 DEF StopForwarding, handler, merged, stored
<1>11. ASSUME NEW j \in Jobs, FirstPage(j) PROVE NothingLost'
  <2> SUFFICES ASSUME phase = "search", present PROVE NothingLost'
    BY <1>11 DEF FirstPage, handler
  <2>1. pages[j] # {} /\ ~resultsClosed /\ forwarder # Ended
    BY <1>11 DEF FirstPage, ClosedAfterSenders, DrainedWhilePresent, Ended
  <2>2. UNCHANGED <<raw, updates, forwarder>>
    BY <1>11 DEF FirstPage, handler, merged
  <2>3. CASE UNCHANGED <<results, fetched>>
    BY <1>11, <2>2, <2>3 DEF FirstPage, handler
  <2>4. CASE results' = Append(results, <<j, 1>>) /\ fetched' = fetched \cup {<<j, 1>>}
    <3>1. <<j, 1>> # Error
      BY DEF Error
    <3>2. InChannel(results') = InChannel(results) \cup {<<j, 1>>}
      BY <2>4, Sent DEF ResultTypes
    <3>3. QED
      BY <2>1, <2>2, <2>4, <3>1, <3>2
  <2>5. CASE results' = Append(results, Error) /\ UNCHANGED fetched
    <3>1. InChannel(results') = InChannel(results) \cup {Error}
      BY <2>5, Sent DEF ResultTypes
    <3>2. QED
      BY <2>1, <2>2, <2>5, <3>1
  <2>6. QED
    BY <1>11, <2>3, <2>4, <2>5 DEF FirstPage, Deliver, Fail
<1>12. ASSUME NEW j \in Jobs, NEW p \in 2..MaxPages, FetchPage(j, p) PROVE NothingLost'
  <2> SUFFICES ASSUME phase = "search", present PROVE NothingLost'
    BY <1>12 DEF FetchPage, handler
  <2>1. pages[j] # {} /\ ~resultsClosed /\ forwarder # Ended
    BY <1>12 DEF FetchPage, ClosedAfterSenders, DrainedWhilePresent, Ended
  <2>2. UNCHANGED <<raw, updates, forwarder>>
    BY <1>12 DEF FetchPage, handler, merged
  <2>3. CASE UNCHANGED <<results, fetched>>
    BY <1>12, <2>2, <2>3 DEF FetchPage, handler
  <2>4. CASE results' = Append(results, <<j, p>>) /\ fetched' = fetched \cup {<<j, p>>}
    <3>1. <<j, p>> # Error
      BY DEF Error
    <3>2. InChannel(results') = InChannel(results) \cup {<<j, p>>}
      BY <2>4, Sent DEF ResultTypes
    <3>3. QED
      BY <2>1, <2>2, <2>4, <3>1, <3>2
  <2>5. CASE results' = Append(results, Error) /\ UNCHANGED fetched
    <3>1. InChannel(results') = InChannel(results) \cup {Error}
      BY <2>5, Sent DEF ResultTypes
    <3>2. QED
      BY <2>1, <2>2, <2>5, <3>1
  <2>6. QED
    BY <1>12, <2>3, <2>4, <2>5 DEF FetchPage, Deliver, Fail
<1>13. CASE TvEmit
  <2> SUFFICES ASSUME phase = "search", present PROVE NothingLost'
    BY <1>13 DEF TvEmit, handler
  <2>1. UNCHANGED <<raw, results, forwarder>>
    BY <1>13 DEF TvEmit, handler, samo
  <2>2. CASE UNCHANGED <<updates, fetched>>
    BY <2>1, <2>2
  <2>3. ASSUME NEW k \in 1..TvBatches, updates' = Append(updates, <<Tourvisor, k>>),
               fetched' = fetched \cup {<<Tourvisor, k>>}
        PROVE  NothingLost'
    <3>1. InChannel(updates') = InChannel(updates) \cup {<<Tourvisor, k>>}
      BY <2>3, Sent DEF UpdateTypes
    <3>2. QED
      BY <2>1, <2>3, <3>1
  <2>4. QED
    BY <1>13, <2>2, <2>3 DEF TvEmit
<1>14. CASE Leave
  BY <1>14 DEF Leave, samo, merged, stored
<1>15. CASE UNCHANGED <<phase, present, fetched, raw, updates, results, forwarder>>
  BY <1>15
<1>16. CASE (\E j \in Jobs : TakeJob(j)) \/ (\E j \in Jobs : FinishJob(j)) \/ StopWorker
            \/ CloseResults \/ CloseUpdates \/ Store \/ Expire \/ Rest \/ UNCHANGED vars
  BY <1>15, <1>16 DEF TakeJob, handler, merged, stored, FinishJob, StopWorker, CloseResults,
                      WorkersEnded, CloseUpdates, samo, Store, Expire, Rest, vars
<1>17. QED
  BY <1>1, <1>2, <1>3, <1>4, <1>5, <1>6, <1>7, <1>8, <1>9, <1>10, <1>11, <1>12, <1>13, <1>14,
     <1>15, <1>16
     DEF Next, Handle, Produce, Fetch

(* What is stored is whole unless the user had left.                       *)
LEMMA WholeStep ==
    HandlerTypes /\ ClosedAfterSenders /\ NothingLost /\ OnlyLeavingLosesTickets /\
    [Next]_vars => OnlyLeavingLosesTickets'
<1> SUFFICES ASSUME HandlerTypes, ClosedAfterSenders, NothingLost, OnlyLeavingLosesTickets,
                    [Next]_vars
             PROVE  OnlyLeavingLosesTickets'
  OBVIOUS
<1> USE DEF OnlyLeavingLosesTickets
<1>1. CASE Finish
  <2>1. present => raw = fetched
    <3> SUFFICES ASSUME present PROVE raw = fetched
      OBVIOUS
    <3>1. phase = "search" /\ updates = <<>> /\ forwarder = Ended
      BY <1>1 DEF Finish, ClosedAfterSenders
    <3>2. fetched = raw \cup InChannel(<<>>) \cup (InChannel(<<>>) \ {Error})
      BY <3>1 DEF NothingLost
    <3>3. QED
      BY <3>2, NothingInChannel
  <2>2. \A s \in saves' : s \in saves \/ s = [whole |-> raw = fetched, left |-> ~present]
    BY <1>1 DEF Finish
  <2>3. \A s \in saves' : s.whole \/ s.left
    <3> SUFFICES ASSUME NEW s \in saves', s \notin saves PROVE s.whole \/ s.left
      OBVIOUS
    <3>1. s.whole = (raw = fetched) /\ s.left = (~present)
      BY <2>2
    <3>2. CASE present
      BY <2>1, <3>1, <3>2
    <3>3. CASE ~present
      BY <3>1, <3>3
    <3>4. QED
      BY <3>2, <3>3
  <2>4. cache' = cache
    BY <1>1 DEF Finish
  <2>5. QED
    BY <2>3, <2>4
<1>2. CASE Store
  BY <1>2 DEF Store, handler, samo, merged
<1>3. CASE Expire
  BY <1>3 DEF Expire, handler, samo, merged
<1>4. CASE UNCHANGED <<saves, cache>>
  BY <1>4
<1>5. CASE Arrive \/ LookupPopular \/ CacheHit \/ CacheMiss \/ NothingToRun \/ Start \/ Collect
           \/ (\E j \in Jobs : TakeJob(j)) \/ (\E j \in Jobs : FinishJob(j)) \/ StopWorker
           \/ CloseResults \/ Forward \/ StopForwarding \/ CloseUpdates
           \/ (\E j \in Jobs : FirstPage(j))
           \/ (\E j \in Jobs, p \in 2..MaxPages : FetchPage(j, p)) \/ TvEmit \/ Leave \/ Rest
           \/ UNCHANGED vars
  BY <1>4, <1>5 DEF Arrive, samo, merged, stored, LookupPopular, CacheHit, CacheMiss, NothingToRun,
                    Start, Collect, TakeJob, handler, FinishJob, StopWorker, CloseResults,
                    WorkersEnded, Forward, StopForwarding, CloseUpdates, FirstPage, Deliver, Fail,
                    Room, FetchPage, TvEmit, Leave, Rest, vars, Return
<1>6. QED
  BY <1>1, <1>2, <1>3, <1>4, <1>5
     DEF Next, Handle, Produce, Fetch

LEMMA InvInit == Init => Inv
<1> SUFFICES ASSUME Init PROVE Inv
  OBVIOUS
<1>1. HandlerTypes /\ PresenceType /\ ClosedTypes /\ GoroutineTypes
  <2>1. HandlerTypes
    BY RequestsAssumption DEF Init, HandlerTypes
  <2>2. PresenceType
    BY DEF Init, PresenceType
  <2>3. ClosedTypes
    BY DEF Init, ClosedTypes
  <2>4. GoroutineTypes
    BY DEF Init, GoroutineTypes
  <2>5. QED
    BY <2>1, <2>2, <2>3, <2>4
<1>2. WorkerTypes /\ PageTypes
  BY FS_EmptySet, WorkersAssumption DEF Init, WorkerTypes, PageTypes
<1>3. BatchTypes /\ ResultTypes /\ UpdateTypes /\ StoredTypes
  BY EmptyTypes, CapsAssumption DEF Init, BatchTypes, ResultTypes, UpdateTypes, StoredTypes
<1>4. PagesHaveWorkers /\ ClosedAfterSenders
  BY DEF Init, PagesHaveWorkers, ClosedAfterSenders, WorkersEnded
<1>5. DrainedWhilePresent /\ NothingLost /\ OnlyLeavingLosesTickets
  BY DEF Init, DrainedWhilePresent, NothingLost, OnlyLeavingLosesTickets
<1>6. QED
  BY <1>1, <1>2, <1>3, <1>4, <1>5 DEF Inv

LEMMA InvStep == Inv /\ [Next]_vars => Inv'
  BY HandlerStep, PresenceStep, ClosedStep, GoroutineStep, WorkerStep, PageStep, BatchStep,
     ResultStep,
     UpdateStep, StoredStep, PagesStep, SendersStep, DrainedStep, NothingLostStep, WholeStep
     DEF Inv

LEMMA Invariant == Spec => []Inv
  BY InvInit, InvStep, PTL DEF Spec

(* Every variable keeps its type: the channels never hold more than they   *)
(* have room for, and no more workers run than were started.               *)
THEOREM TypeCorrect == Spec => []TypeOK
<1>1. WorkerTypes => idle \in 0..NumWorkers
  <2> SUFFICES ASSUME WorkerTypes PROVE idle \in 0..NumWorkers
    OBVIOUS
  <2>1. IsFiniteSet(taken) /\ Cardinality(taken) \in Nat
    BY FS_Subset, FS_CardinalityType, JobsAssumption DEF WorkerTypes
  <2>2. QED
    BY <2>1, WorkersAssumption DEF WorkerTypes
<1>2. StoredTypes => cache \subseteq Entries /\ Cardinality(cache) <= 1
  <2> SUFFICES ASSUME StoredTypes PROVE cache \subseteq Entries /\ Cardinality(cache) <= 1
    OBVIOUS
  <2>1. CASE cache = {}
    BY <2>1, FS_EmptySet
  <2>2. ASSUME NEW e \in Entries, cache = {e}
        PROVE  cache \subseteq Entries /\ Cardinality(cache) <= 1
    <3>1. Cardinality(cache) = 1
      BY <2>2, FS_Singleton, Zenon
    <3>2. QED
      BY <2>2, <3>1
  <2>3. QED
    BY <2>1, <2>2 DEF StoredTypes
<1>3. Inv => TypeOK
  BY <1>1, <1>2
     DEF Inv, TypeOK, HandlerTypes, PresenceType, ClosedTypes, GoroutineTypes, WorkerTypes,
         PageTypes,
         BatchTypes, ResultTypes, UpdateTypes, StoredTypes
<1>4. QED
  BY <1>3, Invariant, PTL

(* For any number of workers and pages, nobody sends on a closed channel.  *)
THEOREM NoSendAfterClose == Spec => []ClosedAfterSenders
<1>1. Inv => ClosedAfterSenders
  BY DEF Inv
<1>2. QED
  BY <1>1, Invariant, PTL

(* Whatever fails, the workers' results find a reader while the user is    *)
(* there.                                                                  *)
THEOREM ResultsAreDrained == Spec => []DrainedWhilePresent
<1>1. Inv => DrainedWhilePresent
  BY DEF Inv
<1>2. QED
  BY <1>1, Invariant, PTL

(* A stored list has every batch that was fetched, unless its user left.   *)
THEOREM StoredListsAreWhole == Spec => []OnlyLeavingLosesTickets
<1>1. Inv => OnlyLeavingLosesTickets
  BY DEF Inv
<1>2. QED
  BY <1>1, Invariant, PTL

=============================================================================
