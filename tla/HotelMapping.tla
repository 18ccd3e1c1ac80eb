---------------------------- MODULE HotelMapping ----------------------------
(***************************************************************************)
(* services/hotel_mapping_worker.go with the mapping cache of              *)
(* cache/hotels_cache.go, the table of repository/repository.go and the    *)
(* callers in services/service.go.  A request that had to match an         *)
(* operator's hotel by name asks for the match to be stored: unless the    *)
(* key is cached or pending, a job goes into a bounded queue, or is        *)
(* dropped when the queue is full.  Workers write the job to the table and *)
(* the cache and then clear the key.  A restart loses queue and cache and  *)
(* reads the table again, as far as the connection lets it: the loop over  *)
(* the rows does not ask why it ended.                                     *)
(***************************************************************************)
EXTENDS Integers, Sequences, FiniteSets

CONSTANTS Resolvers,   \* goroutines that resolve hotels, over and over
          Workers,     \* HOTEL_MAPPING_WORKERS, five by default
          Keys,        \* operator:operatorHotelID
          Hotels,      \* our hotel ids
          None,        \* no hotel
          QueueSize,   \* hotelMappingQueueSize, 10000
          MaxFaults    \* bound on database errors and restarts

ASSUME QueueAssumption  == QueueSize \in Nat \ {0}
ASSUME NoneAssumption   == None \notin Hotels
ASSUME FaultsAssumption == MaxFaults \in Nat

VARIABLES mapped,      \* HotelMappingCache
          row,         \* the table hotel_mapping
          pending,     \* hotelMappingPending
          queue,       \* hotelMappingQueue
          pc, want,    \* where a resolver stands, and the job it has in hand
          wpc, job,    \* where a worker stands, and the job it works on
          cancelled,   \* main has cancelled the workers' context
          faults       \* errors and restarts so far (history)

resolving == <<pc, want>>
working   == <<wpc, job>>
vars      == <<mapped, row, pending, queue, resolving, working, cancelled, faults>>

Jobs  == [key : Keys, hotel : Hotels]
NoJob == [key |-> None, hotel |-> None]

Fault == faults < MaxFaults /\ faults' = faults + 1

(* PreloadHotelMappings: the rows it got to read. *)
Preloads(table) == {m \in [Keys -> Hotels \cup {None}] :
                      \A k \in Keys : m[k] \in {table[k], None}}

-----------------------------------------------------------------------------
Init ==
    /\ row \in [Keys -> Hotels \cup {None}]
    /\ mapped \in Preloads(row)
    /\ pending = {}
    /\ queue = <<>>
    /\ pc = [r \in Resolvers |-> "idle"]
    /\ want = [r \in Resolvers |-> NoJob]
    /\ wpc = [w \in Workers |-> "idle"]
    /\ job = [w \in Workers |-> NoJob]
    /\ cancelled = FALSE
    /\ faults = 0

(* The resolver is done with EnqueueHotelMapping. *)
Return(r) ==
    /\ pc' = [pc EXCEPT ![r] = "idle"]
    /\ want' = [want EXCEPT ![r] = NoJob]

(* resolveHotel matched by name, and the key is not cached.  The match is  *)
(* made from the name the operator gives this time.                        *)
Resolve(r) ==
    /\ pc[r] = "idle"
    /\ \E j \in Jobs :
         /\ mapped[j.key] = None
         /\ want' = [want EXCEPT ![r] = j]
    /\ pc' = [pc EXCEPT ![r] = "reserve"]
    /\ UNCHANGED <<mapped, row, pending, queue, working, cancelled, faults>>

(* Mutant: Load and Store instead of LoadOrStore. *)
Reserve_TwoSteps(r) ==
    /\ pc[r] = "reserve"
    /\ \/ /\ want[r].key \in pending
          /\ Return(r)
          /\ UNCHANGED pending
       \/ /\ pending' = pending \cup {want[r].key}
          /\ pc' = [pc EXCEPT ![r] = "send"]
          /\ UNCHANGED want
    /\ UNCHANGED <<mapped, row, queue, working, cancelled, faults>>

(* LoadOrStore. *)
Reserve(r) ==
    /\ pc[r] = "reserve"
    /\ \/ /\ want[r].key \in pending
          /\ Return(r)
          /\ UNCHANGED pending
       \/ /\ want[r].key \notin pending
          /\ pending' = pending \cup {want[r].key}
          /\ pc' = [pc EXCEPT ![r] = "send"]
          /\ UNCHANGED want
    /\ UNCHANGED <<mapped, row, queue, working, cancelled, faults>>

(* Mutant: a full queue is only logged. *)
Send_KeepsPending(r) ==
    /\ pc[r] = "send"
    /\ queue' = IF Len(queue) < QueueSize THEN Append(queue, want[r]) ELSE queue
    /\ Return(r)
    /\ UNCHANGED <<mapped, row, pending, working, cancelled, faults>>

(* The select with a default: it never blocks. *)
Send(r) ==
    /\ pc[r] = "send"
    /\ \/ /\ Len(queue) < QueueSize
          /\ queue' = Append(queue, want[r])
          /\ Return(r)
       \/ /\ Len(queue) = QueueSize
          /\ pc' = [pc EXCEPT ![r] = "drop"]
          /\ UNCHANGED <<queue, want>>
    /\ UNCHANGED <<mapped, row, pending, working, cancelled, faults>>

Drop(r) ==
    /\ pc[r] = "drop"
    /\ pending' = pending \ {want[r].key}
    /\ Return(r)
    /\ UNCHANGED <<mapped, row, queue, working, cancelled, faults>>

-----------------------------------------------------------------------------
WorkerGoes(w, step) == wpc' = [wpc EXCEPT ![w] = step]

(* Also after the cancellation: select picks any ready case. *)
Take(w) ==
    /\ wpc[w] = "idle"
    /\ queue # <<>>
    /\ job' = [job EXCEPT ![w] = Head(queue)]
    /\ queue' = Tail(queue)
    /\ WorkerGoes(w, "check")
    /\ UNCHANGED <<mapped, row, pending, resolving, cancelled, faults>>

(* Mutant: the worker trusts the check made before the job was queued. *)
Check_Skipped(w) ==
    /\ wpc[w] = "check"
    /\ WorkerGoes(w, "insert")
    /\ UNCHANGED <<mapped, row, pending, queue, resolving, job, cancelled, faults>>

Check(w) ==
    /\ wpc[w] = "check"
    /\ WorkerGoes(w, IF mapped[job[w].key] = None THEN "insert" ELSE "clear")
    /\ UNCHANGED <<mapped, row, pending, queue, resolving, job, cancelled, faults>>

(* INSERT ... ON CONFLICT DO NOTHING. *)
InsertRow(j) == row' = [row EXCEPT ![j.key] = IF @ = None THEN j.hotel ELSE @]

Insert(w) ==
    /\ wpc[w] = "insert"
    /\ InsertRow(job[w])
    /\ WorkerGoes(w, "remember")
    /\ UNCHANGED <<mapped, pending, queue, resolving, job, cancelled, faults>>

(* Mutant: an error is logged, and the mapping cached all the same. *)
InsertFails_Remembers(w) ==
    /\ wpc[w] = "insert"
    /\ (cancelled /\ UNCHANGED faults) \/ Fault
    /\ UNCHANGED row \/ InsertRow(job[w])
    /\ WorkerGoes(w, "remember")
    /\ UNCHANGED <<mapped, pending, queue, resolving, job, cancelled>>

(* Mutant: an error returns before the key is cleared. *)
InsertFails_KeepsPending(w) ==
    /\ wpc[w] = "insert"
    /\ (cancelled /\ UNCHANGED faults) \/ Fault
    /\ UNCHANGED row \/ InsertRow(job[w])
    /\ WorkerGoes(w, "idle")
    /\ job' = [job EXCEPT ![w] = NoJob]
    /\ UNCHANGED <<mapped, pending, queue, resolving, cancelled>>

(* ExecContext ends with an error: the database's, or the context's once   *)
(* it is cancelled.  The row may be there all the same.                    *)
InsertFails(w) ==
    /\ wpc[w] = "insert"
    /\ (cancelled /\ UNCHANGED faults) \/ Fault
    /\ UNCHANGED row \/ InsertRow(job[w])
    /\ WorkerGoes(w, "clear")
    /\ UNCHANGED <<mapped, pending, queue, resolving, job, cancelled>>

Remember(w) ==
    /\ wpc[w] = "remember"
    /\ mapped' = [mapped EXCEPT ![job[w].key] = job[w].hotel]
    /\ WorkerGoes(w, "clear")
    /\ UNCHANGED <<row, pending, queue, resolving, job, cancelled, faults>>

(* The deferred Delete. *)
Clear(w) ==
    /\ wpc[w] = "clear"
    /\ pending' = pending \ {job[w].key}
    /\ job' = [job EXCEPT ![w] = NoJob]
    /\ WorkerGoes(w, "idle")
    /\ UNCHANGED <<mapped, row, queue, resolving, cancelled, faults>>

(* Mutant: workers look at the context only when there is no job. *)
Exit_WhenIdle(w) ==
    /\ wpc[w] = "idle"
    /\ cancelled /\ queue = <<>>
    /\ WorkerGoes(w, "exited")
    /\ UNCHANGED <<mapped, row, pending, queue, resolving, job, cancelled, faults>>

Exit(w) ==
    /\ wpc[w] = "idle"
    /\ cancelled
    /\ WorkerGoes(w, "exited")
    /\ UNCHANGED <<mapped, row, pending, queue, resolving, job, cancelled, faults>>

-----------------------------------------------------------------------------
(* SIGTERM: main cancels the context, then the HTTP server drains. *)
Cancel ==
    /\ ~cancelled
    /\ cancelled' = TRUE
    /\ UNCHANGED <<mapped, row, pending, queue, resolving, working, faults>>

(* The process dies, at any point, and comes up again. *)
Restart ==
    /\ Fault
    /\ mapped' \in Preloads(row)
    /\ pending' = {}
    /\ queue' = <<>>
    /\ pc' = [r \in Resolvers |-> "idle"]
    /\ want' = [r \in Resolvers |-> NoJob]
    /\ wpc' = [w \in Workers |-> "idle"]
    /\ job' = [w \in Workers |-> NoJob]
    /\ cancelled' = FALSE
    /\ UNCHANGED row

ResolverStep(r) == Reserve(r) \/ Send(r) \/ Drop(r)

WorkerStep(w) ==
    \/ Take(w) \/ Check(w) \/ Insert(w) \/ InsertFails(w)
    \/ Remember(w) \/ Clear(w)

Next ==
    \/ \E r \in Resolvers : Resolve(r) \/ ResolverStep(r)
    \/ \E w \in Workers : WorkerStep(w) \/ Exit(w)
    \/ Cancel
    \/ Restart

Spec == Init /\ [][Next]_vars

(* Goroutines run, a query ends, and a select whose context is done and    *)
(* that is tried over and over picks that case in the end.                 *)
FairSpec ==
    /\ Spec
    /\ \A r \in Resolvers : WF_vars(ResolverStep(r))
    /\ \A w \in Workers : WF_vars(WorkerStep(w)) /\ SF_vars(Exit(w))

-----------------------------------------------------------------------------
TypeOK ==
    /\ mapped \in [Keys -> Hotels \cup {None}]
    /\ row \in [Keys -> Hotels \cup {None}]
    /\ pending \in SUBSET Keys
    /\ queue \in Seq(Jobs) /\ Len(queue) <= QueueSize
    /\ pc \in [Resolvers -> {"idle", "reserve", "send", "drop"}]
    /\ want \in [Resolvers -> Jobs \cup {NoJob}]
    /\ \A r \in Resolvers : pc[r] # "idle" => want[r] \in Jobs
    /\ wpc \in [Workers -> {"idle", "check", "insert", "remember", "clear", "exited"}]
    /\ job \in [Workers -> Jobs \cup {NoJob}]
    /\ \A w \in Workers : wpc[w] \in {"idle", "exited"} <=> job[w] = NoJob
    /\ cancelled \in BOOLEAN
    /\ faults \in 0..MaxFaults

(* Who has to clear a pending key: the resolver that reserved it, the      *)
(* queue, or the worker that took it.                                      *)
Reserved(r, k) == pc[r] \in {"send", "drop"} /\ want[r].key = k
Queued(i, k)   == i \in 1..Len(queue) /\ queue[i].key = k
Served(w, k)   == wpc[w] \in {"check", "insert", "remember", "clear"} /\ job[w].key = k

Owned(k) ==
    \/ \E r \in Resolvers : Reserved(r, k)
    \/ \E i \in 1..Len(queue) : Queued(i, k)
    \/ \E w \in Workers : Served(w, k)

(* A key is pending exactly while something is on its way that clears it:  *)
(* a full queue, a database error or an unlucky interleaving never leaves  *)
(* a key behind that could then not be stored until the next restart       *)
(* (hotel_mapping_worker.go:93, 129, 142).                                 *)
PendingIsOwned == \A k \in Keys : k \in pending <=> Owned(k)

(* There is one job per key at a time: two workers never write the same    *)
(* mapping (hotel_mapping_worker.go:121, 128).                             *)
OneJobPerKey ==
    \A k \in Keys :
        /\ \A r, s \in Resolvers : Reserved(r, k) /\ Reserved(s, k) => r = s
        /\ \A i, j \in 1..Len(queue) : Queued(i, k) /\ Queued(j, k) => i = j
        /\ \A v, w \in Workers : Served(v, k) /\ Served(w, k) => v = w
        /\ \A r \in Resolvers, i \in 1..Len(queue) : ~(Reserved(r, k) /\ Queued(i, k))
        /\ \A r \in Resolvers, w \in Workers : ~(Reserved(r, k) /\ Served(w, k))
        /\ \A w \in Workers, i \in 1..Len(queue) : ~(Served(w, k) /\ Queued(i, k))

(* What the cache answers is in the table under the same key, so that it   *)
(* outlives a restart (hotel_mapping_worker.go:155-165).                   *)
CachedIsStored == \A k \in Keys : mapped[k] # None => row[k] # None

(* While the process runs, an operator's hotel does not change: all        *)
(* searches that find it in the cache get the same hotel, although other   *)
(* requests may have matched another one meanwhile                         *)
(* (hotel_mapping_worker.go:151).                                          *)
MappingIsStable ==
    [][Restart \/ \A k \in Keys : mapped[k] # None => mapped'[k] = mapped[k]]_vars

(* SaveHotelMapping "persists a mapping when it is not present in cache"   *)
(* (hotel_mapping_worker.go:149): what a job has put into the cache is     *)
(* what the table holds.                                                   *)
CacheAgreesWithTable ==
    \A k \in Keys : mapped[k] # None => mapped[k] = row[k]

(* A pending key becomes free again: unless the workers are stopped, every *)
(* reservation ends (hotel_mapping_worker.go:93).                          *)
PendingEnds ==
    \A k \in Keys : k \in pending ~> (k \notin pending \/ cancelled)

(* After the cancellation every worker returns, so main's wait ends        *)
(* (hotel_mapping_worker.go:80-82, 170-184).                               *)
WorkersStop == cancelled ~> (\A w \in Workers : wpc[w] = "exited") \/ ~cancelled
=============================================================================
