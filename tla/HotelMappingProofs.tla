------------------------- MODULE HotelMappingProofs -------------------------
(***************************************************************************)
(* Proofs about HotelMapping, for any number of resolvers and workers, any *)
(* queue size and any number of faults.                                    *)
(***************************************************************************)
EXTENDS HotelMapping, SequenceTheorems, TLAPS

(* Types are kept by every step, fairness apart. *)
THEOREM Typing == Init /\ [][Next]_vars => []TypeOK
<1>1. Init => TypeOK
  <2> SUFFICES ASSUME Init PROVE TypeOK
    OBVIOUS
  <2>1. mapped \in [Keys -> Hotels \cup {None}] /\ row \in [Keys -> Hotels \cup {None}]
    BY Zenon DEF Init, Preloads
  <2>2. queue \in Seq(Jobs) /\ Len(queue) <= QueueSize
    BY QueueAssumption DEF Init
  <2>3. faults \in 0..MaxFaults
    BY FaultsAssumption DEF Init
  <2> QED BY <2>1, <2>2, <2>3 DEF Init, TypeOK
<1>2. TypeOK /\ [Next]_vars => TypeOK'
  <2> SUFFICES ASSUME TypeOK, [Next]_vars PROVE TypeOK'
    OBVIOUS
  <2> USE QueueAssumption, FaultsAssumption, NoneAssumption DEF TypeOK, Jobs, NoJob
  <2>1. ASSUME NEW r \in Resolvers, Resolve(r) PROVE TypeOK'
    <3>1. PICK j \in Jobs : want' = [want EXCEPT ![r] = j]
      BY <2>1 DEF Resolve
    <3> QED BY <2>1, <3>1 DEF Resolve, working
  <2>2. ASSUME NEW r \in Resolvers, Reserve(r) PROVE TypeOK'
    BY <2>2 DEF Reserve, Return, working
  <2>3. ASSUME NEW r \in Resolvers, Send(r) PROVE TypeOK'
    <3>1. queue' \in Seq(Jobs) /\ Len(queue') <= QueueSize
      <4>1. CASE Len(queue) < QueueSize
        <5>1. want[r] \in Jobs /\ queue' = Append(queue, want[r])
          BY <2>3, <4>1 DEF Send
        <5> QED BY <4>1, <5>1
      <4> QED BY <2>3, <4>1 DEF Send
    <3>2. /\ pc' \in [Resolvers -> {"idle", "reserve", "send", "drop"}]
          /\ want' \in [Resolvers -> Jobs \cup {NoJob}]
          /\ \A q \in Resolvers : pc'[q] # "idle" => want'[q] \in Jobs
      BY <2>3 DEF Send, Return
    <3> QED BY <2>3, <3>1, <3>2 DEF Send, working
  <2>4. ASSUME NEW r \in Resolvers, Drop(r) PROVE TypeOK'
    BY <2>4 DEF Drop, Return, working
  <2>5. ASSUME NEW w \in Workers, Take(w) PROVE TypeOK'
    <3>1. queue' \in Seq(Jobs) /\ Len(queue') <= QueueSize /\ Head(queue) \in Jobs
      <4>1. queue \in Seq(Jobs) /\ queue # <<>> /\ queue' = Tail(queue) /\ Len(queue) <= QueueSize
        BY <2>5 DEF Take
      <4> HIDE DEF TypeOK, Jobs
      <4>2. Tail(queue) \in Seq(Jobs) /\ Len(Tail(queue)) = Len(queue) - 1 /\ Head(queue) \in Jobs
        BY <4>1
      <4> QED BY <4>1, <4>2
    <3>2. Head(queue) # NoJob
      BY <3>1
    <3>3. /\ wpc' = [wpc EXCEPT ![w] = "check"] /\ job' = [job EXCEPT ![w] = Head(queue)]
          /\ UNCHANGED <<mapped, row, pending, pc, want, cancelled, faults>>
      BY <2>5 DEF Take, WorkerGoes, resolving
    <3> HIDE DEF Jobs, NoJob
    <3>4. /\ wpc' \in [Workers -> {"idle", "check", "insert", "remember", "clear", "exited"}]
          /\ job' \in [Workers -> Jobs \cup {NoJob}]
      BY <3>1, <3>3
    <3>5. \A v \in Workers : wpc'[v] \in {"idle", "exited"} <=> job'[v] = NoJob
      BY <3>2, <3>3
    <3> QED BY <3>1, <3>3, <3>4, <3>5
  <2>6. ASSUME NEW w \in Workers, Check(w) PROVE TypeOK'
    BY <2>6 DEF Check, WorkerGoes, resolving
  <2>7. ASSUME NEW w \in Workers, Insert(w) PROVE TypeOK'
    BY <2>7 DEF Insert, InsertRow, WorkerGoes, resolving
  <2>8. ASSUME NEW w \in Workers, InsertFails(w) PROVE TypeOK'
    BY <2>8 DEF InsertFails, InsertRow, WorkerGoes, Fault, resolving
  <2>9. ASSUME NEW w \in Workers, Remember(w) PROVE TypeOK'
    BY <2>9 DEF Remember, WorkerGoes, resolving
  <2>10. ASSUME NEW w \in Workers, Clear(w) PROVE TypeOK'
    BY <2>10 DEF Clear, WorkerGoes, resolving
  <2>11. ASSUME NEW w \in Workers, Exit(w) PROVE TypeOK'
    BY <2>11 DEF Exit, WorkerGoes, resolving
  <2>12. CASE Cancel
    BY <2>12 DEF Cancel, resolving, working
  <2>13. CASE Restart
    <3>1. mapped' \in [Keys -> Hotels \cup {None}]
      BY <2>13, Zenon DEF Restart, Preloads
    <3>2. pending' \in SUBSET Keys /\ queue' \in Seq(Jobs) /\ Len(queue') <= QueueSize
      BY <2>13 DEF Restart
    <3>3. /\ pc' = [r \in Resolvers |-> "idle"] /\ want' = [r \in Resolvers |-> NoJob]
          /\ wpc' = [w \in Workers |-> "idle"] /\ job' = [w \in Workers |-> NoJob]
          /\ cancelled' = FALSE /\ row' = row
      BY <2>13 DEF Restart
    <3>4. faults' \in 0..MaxFaults
      BY <2>13 DEF Restart, Fault
    <3> QED BY <3>1, <3>2, <3>3, <3>4
  <2>14. CASE UNCHANGED vars
    BY <2>14 DEF vars, resolving, working
  <2> QED
    BY <2>1, <2>2, <2>3, <2>4, <2>5, <2>6, <2>7, <2>8, <2>9, <2>10, <2>11,
       <2>12, <2>13, <2>14 DEF Next, ResolverStep, WorkerStep
<1> QED BY <1>1, <1>2, PTL

(* Every variable keeps its type. *)
THEOREM TypeCorrect == Spec => []TypeOK
BY Typing DEF Spec

-----------------------------------------------------------------------------
(* The strengthening: a worker that writes found the cache empty, and one  *)
(* that has written left a row behind.                                     *)
WriterFoundNothing ==
    \A w \in Workers : wpc[w] \in {"insert", "remember"} => mapped[job[w].key] = None

WrittenIsStored ==
    \A w \in Workers : wpc[w] = "remember" => row[job[w].key] # None

IInv ==
    /\ TypeOK
    /\ PendingIsOwned
    /\ OneJobPerKey
    /\ CachedIsStored
    /\ WriterFoundNothing
    /\ WrittenIsStored

Owners == PendingIsOwned /\ OneJobPerKey

(* A step that moves no job leaves the owners of every key as they were.   *)
LEMMA SameOwners ==
    ASSUME Owners, pending' = pending, queue' = queue,
           \A r \in Resolvers, k \in Keys : Reserved(r, k)' <=> Reserved(r, k),
           \A w \in Workers, k \in Keys : Served(w, k)' <=> Served(w, k)
    PROVE  Owners'
<1>1. \A k \in Keys : \A i \in 1..Len(queue) : Queued(i, k)' <=> Queued(i, k)
  BY DEF Queued
<1> QED BY <1>1 DEF Owners, PendingIsOwned, OneJobPerKey, Owned

(* Every step keeps each pending key with exactly one owner: the           *)
(* reservation moves from resolver to queue to worker.                     *)
LEMMA OwnersInductive == TypeOK /\ TypeOK' /\ Owners /\ [Next]_vars => Owners'
<1> SUFFICES ASSUME TypeOK, TypeOK', Owners, [Next]_vars PROVE Owners'
  OBVIOUS
<1>1. ASSUME NEW r \in Resolvers, Resolve(r) PROVE Owners'
  <2>1. \A q \in Resolvers, k \in Keys : Reserved(q, k)' <=> Reserved(q, k)
    BY <1>1 DEF Resolve, Reserved, TypeOK
  <2>2. \A w \in Workers, k \in Keys : Served(w, k)' <=> Served(w, k)
    BY <1>1 DEF Resolve, working, Served
  <2> QED BY <1>1, <2>1, <2>2, SameOwners DEF Resolve
<1>2. ASSUME NEW r \in Resolvers, Reserve(r) PROVE Owners'
  <2>1. \A w \in Workers, k \in Keys : Served(w, k)' <=> Served(w, k)
    BY <1>2 DEF Reserve, working, Served
  <2>2. \A k \in Keys : \A i \in 1..Len(queue) : Queued(i, k)' <=> Queued(i, k)
    BY <1>2 DEF Reserve, Queued
  <2>3. CASE want[r].key \in pending
    <3>1. pending' = pending /\ queue' = queue
      BY <1>2, <2>3 DEF Reserve
    <3>2. \A q \in Resolvers, k \in Keys : Reserved(q, k)' <=> Reserved(q, k)
      BY <1>2, <2>3 DEF Reserve, Return, Reserved, TypeOK
    <3> QED BY <3>1, <3>2, <2>1, SameOwners
  <2>4. CASE want[r].key \notin pending
    <3>1. want[r].key \in Keys
      BY <1>2 DEF Reserve, TypeOK, Jobs
    <3>2. \A q \in Resolvers, k \in Keys :
             Reserved(q, k)' <=> (Reserved(q, k) \/ (q = r /\ k = want[r].key))
      BY <1>2, <2>4 DEF Reserve, Reserved, TypeOK
    <3>3. ~Owned(want[r].key)
      BY <2>4, <3>1 DEF Owners, PendingIsOwned
    <3>4. pending' = pending \cup {want[r].key} /\ queue' = queue
      BY <1>2, <2>4 DEF Reserve
    <3>5. PendingIsOwned'
      BY <2>1, <2>2, <3>1, <3>2, <3>4 DEF Owners, PendingIsOwned, Owned
    <3>6. OneJobPerKey'
      BY <2>1, <2>2, <3>2, <3>3, <3>4 DEF Owners, OneJobPerKey, Owned
    <3> QED BY <3>5, <3>6 DEF Owners
  <2> QED BY <2>3, <2>4
<1>3. ASSUME NEW r \in Resolvers, Send(r) PROVE Owners'
  <2>1. \A w \in Workers, k \in Keys : Served(w, k)' <=> Served(w, k)
    BY <1>3 DEF Send, working, Served
  <2>2. CASE Len(queue) < QueueSize
    <3>1. want[r] \in Jobs /\ queue \in Seq(Jobs) /\ queue' = Append(queue, want[r])
      BY <1>3, <2>2 DEF Send, TypeOK
    <3>2. /\ Len(queue') = Len(queue) + 1 /\ Len(queue) \in Nat
          /\ queue'[Len(queue) + 1] = want[r]
          /\ \A i \in 1..Len(queue) : queue'[i] = queue[i]
      BY <3>1
    <3>3. \A k \in Keys : \A i \in 1..Len(queue') :
             Queued(i, k)' <=> (Queued(i, k) \/ (i = Len(queue) + 1 /\ k = want[r].key))
      BY <3>2 DEF Queued
    <3>4. \A q \in Resolvers, k \in Keys : Reserved(q, k)' <=> (Reserved(q, k) /\ q # r)
      BY <1>3, <2>2 DEF Send, Return, Reserved, TypeOK
    <3>5. Reserved(r, want[r].key) /\ want[r].key \in Keys
      BY <1>3, <3>1 DEF Send, Reserved, Jobs
    <3>6. pending' = pending
      BY <1>3 DEF Send
    <3>7. \A k \in Keys : (\E i \in 1..Len(queue') : Queued(i, k)')
                            <=> ((\E i \in 1..Len(queue) : Queued(i, k)) \/ k = want[r].key)
      <4>1. \A k \in Keys, i \in 1..Len(queue') : Queued(i, k) => i \in 1..Len(queue)
        BY DEF Queued
      <4>2. 1..Len(queue) \subseteq 1..Len(queue') /\ Len(queue) + 1 \in 1..Len(queue')
        BY <3>2
      <4> QED BY <3>3, <4>1, <4>2
    <3>8. \A k \in Keys : Reserved(r, k) <=> k = want[r].key
      BY <1>3 DEF Send, Reserved
    <3>9. PendingIsOwned'
      BY <2>1, <3>4, <3>6, <3>7, <3>8 DEF Owners, PendingIsOwned, Owned
    <3>10. OneJobPerKey'
      <4> SUFFICES ASSUME NEW k \in Keys
                   PROVE  /\ \A q, s \in Resolvers : Reserved(q, k)' /\ Reserved(s, k)' => q = s
                          /\ \A i, j \in 1..Len(queue') : Queued(i, k)' /\ Queued(j, k)' => i = j
                          /\ \A v, w \in Workers : Served(v, k)' /\ Served(w, k)' => v = w
                          /\ \A q \in Resolvers, i \in 1..Len(queue') : ~(Reserved(q, k)' /\ Queued(i, k)')
                          /\ \A q \in Resolvers, w \in Workers : ~(Reserved(q, k)' /\ Served(w, k)')
                          /\ \A w \in Workers, i \in 1..Len(queue') : ~(Served(w, k)' /\ Queued(i, k)')
        BY DEF OneJobPerKey
      <4>1. \A i \in 1..Len(queue') : Queued(i, k) => i \in 1..Len(queue)
        BY DEF Queued
      <4> QED BY <2>1, <3>3, <3>4, <3>8, <4>1 DEF Owners, OneJobPerKey
    <3> QED BY <3>9, <3>10 DEF Owners
  <2>3. CASE ~(Len(queue) < QueueSize)
    <3>1. pending' = pending /\ queue' = queue
      BY <1>3, <2>3 DEF Send
    <3>2. \A q \in Resolvers, k \in Keys : Reserved(q, k)' <=> Reserved(q, k)
      BY <1>3, <2>3 DEF Send, Reserved, TypeOK
    <3> QED BY <3>1, <3>2, <2>1, SameOwners
  <2> QED BY <2>2, <2>3
<1>4. ASSUME NEW r \in Resolvers, Drop(r) PROVE Owners'
  <2>1. \A w \in Workers, k \in Keys : Served(w, k)' <=> Served(w, k)
    BY <1>4 DEF Drop, working, Served
  <2>2. \A k \in Keys : \A i \in 1..Len(queue) : Queued(i, k)' <=> Queued(i, k)
    BY <1>4 DEF Drop, Queued
  <2>3. \A q \in Resolvers, k \in Keys : Reserved(q, k)' <=> (Reserved(q, k) /\ q # r)
    BY <1>4 DEF Drop, Return, Reserved, TypeOK
  <2>4. \A k \in Keys : Reserved(r, k) <=> k = want[r].key
    BY <1>4 DEF Drop, Reserved
  <2>5. pending' = pending \ {want[r].key} /\ queue' = queue
    BY <1>4 DEF Drop
  <2> QED BY <2>1, <2>2, <2>3, <2>4, <2>5 DEF Owners, PendingIsOwned, OneJobPerKey, Owned
<1>5. ASSUME NEW w \in Workers, Take(w) PROVE Owners'
  <2>1. \A r \in Resolvers, k \in Keys : Reserved(r, k)' <=> Reserved(r, k)
    BY <1>5 DEF Take, resolving, Reserved
  <2>2. queue \in Seq(Jobs) /\ queue # <<>> /\ queue' = Tail(queue)
    BY <1>5 DEF Take, TypeOK
  <2>3. /\ Len(queue') = Len(queue) - 1 /\ Len(queue) \in Nat /\ Len(queue) >= 1
        /\ Head(queue) = queue[1]
        /\ \A i \in 1..Len(queue') : queue'[i] = queue[i + 1]
    BY <2>2
  <2>4. \A k \in Keys : \A i \in 1..Len(queue') : Queued(i, k)' <=> Queued(i + 1, k)
    BY <2>3 DEF Queued
  <2>5. \A v \in Workers, k \in Keys :
           Served(v, k)' <=> (Served(v, k) \/ (v = w /\ Queued(1, k)))
    BY <1>5, <2>3 DEF Take, WorkerGoes, Served, Queued, TypeOK
  <2>6. \A k \in Keys : (\E i \in 1..Len(queue) : Queued(i, k))
                          <=> (Queued(1, k) \/ \E i \in 1..Len(queue') : Queued(i, k)')
    <3> SUFFICES ASSUME NEW k \in Keys
                 PROVE (\E i \in 1..Len(queue) : Queued(i, k))
                          <=> (Queued(1, k) \/ \E i \in 1..Len(queue') : Queued(i, k)')
      OBVIOUS
    <3>1. ASSUME NEW i \in 1..Len(queue), Queued(i, k), i # 1
          PROVE \E j \in 1..Len(queue') : Queued(j, k)'
      <4>1. i - 1 \in 1..Len(queue') /\ (i - 1) + 1 = i
        BY <2>3, <3>1
      <4>2. Queued(i - 1, k)'
        BY <2>4, <3>1, <4>1
      <4> QED BY <4>1, <4>2
    <3>2. ASSUME NEW i \in 1..Len(queue'), Queued(i, k)'
          PROVE \E j \in 1..Len(queue) : Queued(j, k)
      <4>1. i + 1 \in 1..Len(queue)
        BY <2>3
      <4> QED BY <2>4, <3>2, <4>1
    <3>3. 1 \in 1..Len(queue)
      BY <2>3
    <3> QED BY <3>1, <3>2, <3>3
  <2>7. pending' = pending
    BY <1>5 DEF Take
  <2>8. PendingIsOwned'
    BY <2>1, <2>5, <2>6, <2>7 DEF Owners, PendingIsOwned, Owned
  <2>9. OneJobPerKey'
    <3> SUFFICES ASSUME NEW k \in Keys
                 PROVE  /\ \A q, s \in Resolvers : Reserved(q, k)' /\ Reserved(s, k)' => q = s
                        /\ \A i, j \in 1..Len(queue') : Queued(i, k)' /\ Queued(j, k)' => i = j
                        /\ \A v, u \in Workers : Served(v, k)' /\ Served(u, k)' => v = u
                        /\ \A q \in Resolvers, i \in 1..Len(queue') : ~(Reserved(q, k)' /\ Queued(i, k)')
                        /\ \A q \in Resolvers, u \in Workers : ~(Reserved(q, k)' /\ Served(u, k)')
                        /\ \A u \in Workers, i \in 1..Len(queue') : ~(Served(u, k)' /\ Queued(i, k)')
      BY DEF OneJobPerKey
    <3>1. \A i \in 1..Len(queue') : i + 1 \in 1..Len(queue) /\ i + 1 # 1 /\ i \in Nat
      BY <2>3
    <3>2. 1 \in 1..Len(queue)
      BY <2>3
    <3>3. \A i, j \in 1..Len(queue') : i + 1 = j + 1 => i = j
      BY <3>1
    <3> QED BY <2>1, <2>4, <2>5, <3>1, <3>2, <3>3 DEF Owners, OneJobPerKey
  <2> QED BY <2>8, <2>9 DEF Owners
<1>6. ASSUME NEW w \in Workers, Check(w) \/ Insert(w) \/ InsertFails(w) \/ Remember(w) PROVE Owners'
  <2>1. \A r \in Resolvers, k \in Keys : Reserved(r, k)' <=> Reserved(r, k)
    BY <1>6 DEF Check, Insert, InsertFails, Remember, resolving, Reserved
  <2>2. \A v \in Workers, k \in Keys : Served(v, k)' <=> Served(v, k)
    BY <1>6 DEF Check, Insert, InsertFails, Remember, WorkerGoes, Served, TypeOK
  <2> QED BY <1>6, <2>1, <2>2, SameOwners DEF Check, Insert, InsertFails, Remember
<1>7. ASSUME NEW w \in Workers, Clear(w) PROVE Owners'
  <2>1. \A r \in Resolvers, k \in Keys : Reserved(r, k)' <=> Reserved(r, k)
    BY <1>7 DEF Clear, resolving, Reserved
  <2>2. \A k \in Keys : \A i \in 1..Len(queue) : Queued(i, k)' <=> Queued(i, k)
    BY <1>7 DEF Clear, Queued
  <2>3. \A v \in Workers, k \in Keys : Served(v, k)' <=> (Served(v, k) /\ v # w)
    BY <1>7 DEF Clear, WorkerGoes, Served, TypeOK
  <2>4. \A k \in Keys : Served(w, k) <=> k = job[w].key
    BY <1>7 DEF Clear, Served
  <2>5. pending' = pending \ {job[w].key} /\ queue' = queue
    BY <1>7 DEF Clear
  <2> QED BY <2>1, <2>2, <2>3, <2>4, <2>5 DEF Owners, PendingIsOwned, OneJobPerKey, Owned
<1>8. ASSUME NEW w \in Workers, Exit(w) PROVE Owners'
  <2>1. \A r \in Resolvers, k \in Keys : Reserved(r, k)' <=> Reserved(r, k)
    BY <1>8 DEF Exit, resolving, Reserved
  <2>2. \A v \in Workers, k \in Keys : Served(v, k)' <=> Served(v, k)
    BY <1>8 DEF Exit, WorkerGoes, Served, TypeOK
  <2> QED BY <1>8, <2>1, <2>2, SameOwners DEF Exit
<1>9. CASE Cancel \/ UNCHANGED vars
  <2>1. \A r \in Resolvers, k \in Keys : Reserved(r, k)' <=> Reserved(r, k)
    BY <1>9 DEF Cancel, vars, resolving, Reserved
  <2>2. \A v \in Workers, k \in Keys : Served(v, k)' <=> Served(v, k)
    BY <1>9 DEF Cancel, vars, working, Served
  <2> QED BY <1>9, <2>1, <2>2, SameOwners DEF Cancel, vars
<1>10. CASE Restart
  <2>1. \A r \in Resolvers, k \in Keys : ~Reserved(r, k)'
    BY <1>10 DEF Restart, Reserved
  <2>2. \A v \in Workers, k \in Keys : ~Served(v, k)'
    BY <1>10 DEF Restart, Served
  <2>3. pending' = {} /\ Len(queue') = 0
    BY <1>10 DEF Restart
  <2> QED BY <2>1, <2>2, <2>3 DEF Owners, PendingIsOwned, OneJobPerKey, Owned, Queued
<1> QED
  BY <1>1, <1>2, <1>3, <1>4, <1>5, <1>6, <1>7, <1>8, <1>9, <1>10
     DEF Next, ResolverStep, WorkerStep

-----------------------------------------------------------------------------
(* Two workers that are between taking a job and clearing it have jobs for *)
(* different keys.                                                         *)
LEMMA WorkersDiffer ==
    ASSUME TypeOK, OneJobPerKey, NEW v \in Workers, NEW w \in Workers, v # w,
           wpc[v] \in {"check", "insert", "remember", "clear"},
           wpc[w] \in {"check", "insert", "remember", "clear"}
    PROVE  job[v].key # job[w].key
<1>1. job[v] \in Jobs /\ job[v].key \in Keys
  BY DEF TypeOK, Jobs
<1>2. Served(v, job[v].key) /\ (job[v].key = job[w].key => Served(w, job[v].key))
  BY DEF Served
<1> QED BY <1>1, <1>2 DEF OneJobPerKey

(* Every step of a worker keeps cache and table in order, because no other *)
(* worker writes its key.                                                  *)
LEMMA WritersInductive == IInv /\ TypeOK' /\ [Next]_vars => CachedIsStored' /\ WriterFoundNothing' /\ WrittenIsStored'
<1> SUFFICES ASSUME IInv, TypeOK', [Next]_vars
             PROVE  CachedIsStored' /\ WriterFoundNothing' /\ WrittenIsStored'
  OBVIOUS
<1> DEFINE Goal == CachedIsStored' /\ WriterFoundNothing' /\ WrittenIsStored'
<1> USE DEF IInv, CachedIsStored, WriterFoundNothing, WrittenIsStored
<1>1. ASSUME UNCHANGED <<mapped, row, wpc, job>> PROVE Goal
  BY <1>1
<1>2. ASSUME NEW r \in Resolvers, Resolve(r) \/ ResolverStep(r) PROVE Goal
  BY <1>1, <1>2 DEF Resolve, ResolverStep, Reserve, Send, Drop, working
<1>3. ASSUME NEW w \in Workers, Take(w) PROVE Goal
  BY <1>3 DEF Take, WorkerGoes, TypeOK
<1>4. ASSUME NEW w \in Workers, Check(w) PROVE Goal
  BY <1>4 DEF Check, WorkerGoes, TypeOK
<1>5. ASSUME NEW w \in Workers, Insert(w) PROVE Goal
  <2>1. job[w] \in Jobs /\ job[w].key \in Keys /\ job[w].hotel # None
    BY <1>5, NoneAssumption DEF Insert, TypeOK, Jobs
  <2>2. /\ \A k \in Keys : row[k] # None => row'[k] # None
        /\ row'[job[w].key] # None
    BY <1>5, <2>1 DEF Insert, InsertRow, TypeOK
  <2>3. \A v \in Workers : wpc'[v] = IF v = w THEN "remember" ELSE wpc[v]
    BY <1>5 DEF Insert, WorkerGoes, TypeOK
  <2>4. \A v \in Workers : wpc[v] = "remember" => job[v].key \in Keys
    BY DEF TypeOK, Jobs
  <2>5. mapped' = mapped /\ job' = job /\ wpc[w] = "insert"
    BY <1>5 DEF Insert
  <2> QED BY <2>1, <2>2, <2>3, <2>4, <2>5
<1>6. ASSUME NEW w \in Workers, InsertFails(w) PROVE Goal
  <2>1. job[w] \in Jobs /\ job[w].key \in Keys /\ job[w].hotel # None
    BY <1>6, NoneAssumption DEF InsertFails, TypeOK, Jobs
  <2>2. \A k \in Keys : row[k] # None => row'[k] # None
    BY <1>6, <2>1 DEF InsertFails, InsertRow, TypeOK
  <2>3. \A v \in Workers : wpc'[v] = IF v = w THEN "clear" ELSE wpc[v]
    BY <1>6 DEF InsertFails, WorkerGoes, TypeOK
  <2>4. \A v \in Workers : wpc[v] = "remember" => job[v].key \in Keys
    BY DEF TypeOK, Jobs
  <2>5. mapped' = mapped /\ job' = job
    BY <1>6 DEF InsertFails
  <2> QED BY <2>2, <2>3, <2>4, <2>5
<1>7. ASSUME NEW w \in Workers, Remember(w) PROVE Goal
  <2>1. job[w] \in Jobs /\ job[w].key \in Keys
    BY <1>7 DEF Remember, TypeOK, Jobs
  <2>2. \A k \in Keys : mapped'[k] = IF k = job[w].key THEN job[w].hotel ELSE mapped[k]
    BY <1>7 DEF Remember, TypeOK
  <2>3. \A v \in Workers : wpc'[v] = IF v = w THEN "clear" ELSE wpc[v]
    BY <1>7 DEF Remember, WorkerGoes, TypeOK
  <2>4. \A v \in Workers : wpc[v] \in {"insert", "remember"} /\ v # w => job[v].key # job[w].key
    BY <1>7, WorkersDiffer DEF Remember
  <2>5. \A v \in Workers : wpc[v] \in {"insert", "remember"} => job[v].key \in Keys
    BY DEF TypeOK, Jobs
  <2>6. row' = row /\ job' = job /\ wpc[w] = "remember"
    BY <1>7 DEF Remember
  <2> QED BY <2>1, <2>2, <2>3, <2>4, <2>5, <2>6
<1>8. ASSUME NEW w \in Workers, Clear(w) PROVE Goal
  BY <1>8 DEF Clear, WorkerGoes, TypeOK
<1>9. ASSUME NEW w \in Workers, Exit(w) PROVE Goal
  BY <1>9 DEF Exit, WorkerGoes, TypeOK
<1>10. CASE Cancel \/ UNCHANGED vars
  BY <1>1, <1>10 DEF Cancel, working, vars
<1>11. CASE Restart
  <2>1. row' = row /\ \A k \in Keys : mapped'[k] \in {row[k], None}
    BY <1>11 DEF Restart, Preloads
  <2>2. \A w \in Workers : wpc'[w] = "idle"
    BY <1>11 DEF Restart
  <2> QED BY <2>1, <2>2
<1> QED
  BY <1>2, <1>3, <1>4, <1>5, <1>6, <1>7, <1>8, <1>9, <1>10, <1>11 DEF Next, WorkerStep

(* The strengthened invariant holds throughout.                            *)
LEMMA Inductive == Spec => []IInv
<1>1. Init => PendingIsOwned /\ OneJobPerKey
  BY DEF Init, PendingIsOwned, OneJobPerKey, Owned, Reserved, Queued, Served
<1>2. Init => CachedIsStored /\ WriterFoundNothing /\ WrittenIsStored
  <2> SUFFICES ASSUME Init PROVE CachedIsStored /\ WriterFoundNothing /\ WrittenIsStored
    OBVIOUS
  <2>1. \A k \in Keys : mapped[k] \in {row[k], None}
    BY DEF Init, Preloads
  <2>2. \A w \in Workers : wpc[w] = "idle"
    BY DEF Init
  <2> QED BY <2>1, <2>2 DEF CachedIsStored, WriterFoundNothing, WrittenIsStored
<1>3. TypeOK /\ TypeOK' /\ IInv /\ [Next]_vars => IInv'
  BY OwnersInductive, WritersInductive DEF IInv, Owners
<1>4. Spec => []TypeOK
  BY TypeCorrect
<1>5. TypeOK /\ Init => IInv
  BY <1>1, <1>2 DEF IInv
<1> QED BY <1>3, <1>4, <1>5, PTL DEF Spec

(* No key is ever left pending without somebody on the way to clear it. *)
THEOREM NoKeyIsStuck == Spec => []PendingIsOwned
BY Inductive, PTL DEF IInv

(* There is never more than one job for a key. *)
THEOREM OneJob == Spec => []OneJobPerKey
BY Inductive, PTL DEF IInv

(* What the cache answers has a row in the table. *)
THEOREM CacheIsBacked == Spec => []CachedIsStored
BY Inductive, PTL DEF IInv

(* A cached mapping stays what it is until the process restarts. *)
THEOREM StableMapping == Spec => MappingIsStable
<1> DEFINE Stable == Restart \/ \A k \in Keys : mapped[k] # None => mapped'[k] = mapped[k]
<1>1. IInv /\ [Next]_vars => [Stable]_vars
  <2> SUFFICES ASSUME IInv, Next, ~Restart PROVE Stable
    BY DEF vars
  <2>1. ASSUME mapped' = mapped PROVE Stable
    BY <2>1
  <2>2. ASSUME NEW w \in Workers, Remember(w) PROVE Stable
    <3>1. job[w] \in Jobs /\ mapped[job[w].key] = None
      BY <2>2 DEF Remember, IInv, TypeOK, WriterFoundNothing
    <3>2. \A k \in Keys : k # job[w].key => mapped'[k] = mapped[k]
      BY <2>2 DEF Remember, IInv, TypeOK
    <3> QED BY <3>1, <3>2
  <2> HIDE DEF Stable
  <2>3. ASSUME NEW r \in Resolvers, Resolve(r) \/ ResolverStep(r) PROVE Stable
    BY <2>1, <2>3 DEF Resolve, ResolverStep, Reserve, Send, Drop
  <2>4. ASSUME NEW w \in Workers, Take(w) \/ Check(w) \/ Insert(w) \/ InsertFails(w) \/ Clear(w) \/ Exit(w)
        PROVE Stable
    BY <2>1, <2>4 DEF Take, Check, Insert, InsertFails, Clear, Exit
  <2>5. CASE Cancel
    BY <2>1, <2>5 DEF Cancel
  <2> QED BY <2>2, <2>3, <2>4, <2>5 DEF Next, WorkerStep
<1> QED BY <1>1, Inductive, PTL DEF Spec, MappingIsStable
=============================================================================
