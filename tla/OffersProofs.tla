---------------------------- MODULE OffersProofs ----------------------------
(***************************************************************************)
(* Proofs about HomeOffers for any number of requests, searches and        *)
(* failures of Redis, and about SearchResults for any tickets, prices,     *)
(* days and sizes.  For HomeOffers the invariant says who is under the     *)
(* lock and what that is good for: whoever builds found nothing stored,    *)
(* whoever stores has the newest list, and both keys are there once the    *)
(* lock is free.  For SearchResults it says what every ticket carries,     *)
(* shown or not; what the code sorts is an arrangement of a finite set,    *)
(* whose order is stated and proved once (ArrangedInOrder).                *)
(***************************************************************************)
EXTENDS HomeOffers, SearchResults, FiniteSetTheorems, SequenceTheorems, TLAPS

Locked == {"check", "build", "storeHome", "storeRec"}

LockIsHeld == \A a \in Actors : pc[a] \in Locked <=> lock = a

HoldsTheNewest == \A a \in Actors : pc[a] = "storeHome" => inHand[a] = builds

(* With Redis at work, the recommended list is missing or older than the   *)
(* other one only while somebody is about to store it.                     *)
SecondKeyFollows ==
    faults = 0 /\ home # {} =>
        (rec # {} /\ recLast) \/ \E a \in Actors : pc[a] = "storeRec"

(* A request that comes out of the warmup with nothing gone wrong can      *)
(* derive its list.                                                        *)
CalmFindsHome ==
    \A a \in Actors : pc[a] \in {"storeRec", "second", "derive"} /\ calm[a] => home # {}

StagesAreKnown == pc \in [Actors -> Stages]

CalmIsKnown == calm \in [Actors -> BOOLEAN]

CountsAreKnown ==
    faults \in 0..MaxFaults /\ lock \in Actors \cup {NoOne}

OrderIsKnown == recLast \in BOOLEAN

SchedulerStages == pc[Scheduler] \in {"idle", "wait"} \cup Locked

HandsHoldLists ==
    /\ inHand \in [Actors -> 0..MaxBuilds] /\ builds \in 0..MaxBuilds
    /\ \A a \in Actors : pc[a] \in {"storeHome", "storeRec", "storeDerived"} => inHand[a] \in Lists

ListsAreStored ==
    /\ home = {} \/ \E n \in Lists : home = {n}
    /\ rec = {} \/ \E n \in Lists : rec = {n}

Sane ==
    /\ StagesAreKnown /\ CalmIsKnown /\ CountsAreKnown /\ OrderIsKnown
    /\ SchedulerStages /\ HandsHoldLists /\ ListsAreStored

Inv ==
    /\ Sane
    /\ LockIsHeld
    /\ HoldsTheNewest
    /\ NoRebuild
    /\ SecondKeyFollows
    /\ CalmFindsHome
    /\ EmptyOnlyOnFailure

(* Everybody stands at a line of the code.                                 *)
LEMMA StagesStep == Sane /\ [Next]_vars => StagesAreKnown'
<1> SUFFICES ASSUME Sane, [Next]_vars
             PROVE  StagesAreKnown'
  OBVIOUS
<1> USE ActorsAssumption, BoundsAssumption DEF Sane, StagesAreKnown, Stages, Requests, Actors
<1>1. CASE Tick
  BY <1>1 DEF Tick, Goto, cache, count
<1>2. CASE Expire
  BY <1>2 DEF Expire, count
<1>3. ASSUME NEW x \in Requests, Ask(x) PROVE StagesAreKnown'
  BY <1>3 DEF Ask, Goto, cache, count
<1>4. ASSUME NEW x \in Actors, Acquire(x) PROVE StagesAreKnown'
  BY <1>4 DEF Acquire, Goto, cache, count
<1>5. ASSUME NEW x \in Requests, Lookup(x) PROVE StagesAreKnown'
  BY <1>5 DEF Lookup, Goto, Works, Fails, cache
<1>6. ASSUME NEW x \in Requests, Check(x) PROVE StagesAreKnown'
  BY <1>6 DEF Check, Goto, Works, Fails, Warmed, Unlock, cache
<1>7. ASSUME NEW x \in Actors, BuildFails(x) PROVE StagesAreKnown'
  BY <1>7 DEF BuildFails, Goto, Warmed, Unlock, cache, count
<1>8. ASSUME NEW x \in Actors, Collect(x) PROVE StagesAreKnown'
  BY <1>8 DEF Collect, Goto, cache
<1>9. ASSUME NEW x \in Actors, StoreHome(x) PROVE StagesAreKnown'
  BY <1>9 DEF StoreHome, Goto, Works, Fails, Unlock
<1>10. ASSUME NEW x \in Actors, StoreRec(x) PROVE StagesAreKnown'
  BY <1>10 DEF StoreRec, Goto, Works, Fails, Warmed, Unlock
<1>11. ASSUME NEW x \in Requests, Second(x) PROVE StagesAreKnown'
  BY <1>11 DEF Second, Goto, Works, Fails, cache
<1>12. ASSUME NEW x \in Requests, Derive(x) PROVE StagesAreKnown'
  BY <1>12 DEF Derive, Goto, Works, Fails, cache
<1>13. ASSUME NEW x \in Requests, StoreDerived(x) PROVE StagesAreKnown'
  BY <1>13 DEF StoreDerived, Goto, Works, Fails
<1>14. CASE UNCHANGED vars
  BY <1>14 DEF vars, cache, count
<1>15. QED
  BY <1>1, <1>2, <1>3, <1>4, <1>5, <1>6, <1>7, <1>8, <1>9, <1>10, <1>11, <1>12, <1>13, <1>14
     DEF Next, Step, Actors

(* Calm is a yes or no for everybody.                                      *)
LEMMA CalmKnownStep == Sane /\ [Next]_vars => CalmIsKnown'
<1> SUFFICES ASSUME Sane, [Next]_vars
             PROVE  CalmIsKnown'
  OBVIOUS
<1> USE ActorsAssumption, BoundsAssumption DEF Sane, CalmIsKnown, Requests, Actors
<1>1. CASE Tick
  BY <1>1 DEF Tick, Goto, cache, count
<1>2. CASE Expire
  BY <1>2 DEF Expire, count
<1>3. ASSUME NEW x \in Requests, Ask(x) PROVE CalmIsKnown'
  BY <1>3 DEF Ask, Goto, cache, count
<1>4. ASSUME NEW x \in Actors, Acquire(x) PROVE CalmIsKnown'
  BY <1>4 DEF Acquire, Goto, cache, count
<1>5. ASSUME NEW x \in Requests, Lookup(x) PROVE CalmIsKnown'
  BY <1>5 DEF Lookup, Goto, Works, Fails, cache
<1>6. ASSUME NEW x \in Requests, Check(x) PROVE CalmIsKnown'
  BY <1>6 DEF Check, Goto, Works, Fails, Warmed, Unlock, cache
<1>7. ASSUME NEW x \in Actors, BuildFails(x) PROVE CalmIsKnown'
  BY <1>7 DEF BuildFails, Goto, Warmed, Unlock, cache, count
<1>8. ASSUME NEW x \in Actors, Collect(x) PROVE CalmIsKnown'
  BY <1>8 DEF Collect, Goto, cache
<1>9. ASSUME NEW x \in Actors, StoreHome(x) PROVE CalmIsKnown'
  BY <1>9 DEF StoreHome, Goto, Works, Fails, Unlock
<1>10. ASSUME NEW x \in Actors, StoreRec(x) PROVE CalmIsKnown'
  BY <1>10 DEF StoreRec, Goto, Works, Fails, Warmed, Unlock
<1>11. ASSUME NEW x \in Requests, Second(x) PROVE CalmIsKnown'
  BY <1>11 DEF Second, Goto, Works, Fails, cache
<1>12. ASSUME NEW x \in Requests, Derive(x) PROVE CalmIsKnown'
  BY <1>12 DEF Derive, Goto, Works, Fails, cache
<1>13. ASSUME NEW x \in Requests, StoreDerived(x) PROVE CalmIsKnown'
  BY <1>13 DEF StoreDerived, Goto, Works, Fails
<1>14. CASE UNCHANGED vars
  BY <1>14 DEF vars, cache, count
<1>15. QED
  BY <1>1, <1>2, <1>3, <1>4, <1>5, <1>6, <1>7, <1>8, <1>9, <1>10, <1>11, <1>12, <1>13, <1>14
     DEF Next, Step, Actors

(* Counters keep their bounds, the lock its kind.                          *)
LEMMA CountsStep == Sane /\ [Next]_vars => CountsAreKnown'
<1> SUFFICES ASSUME Sane, [Next]_vars
             PROVE  CountsAreKnown'
  OBVIOUS
<1> USE ActorsAssumption, BoundsAssumption DEF Sane, CountsAreKnown, Requests, Actors
<1>1. CASE Tick
  BY <1>1 DEF Tick, Goto, cache, count
<1>2. CASE Expire
  BY <1>2 DEF Expire, count
<1>3. ASSUME NEW x \in Requests, Ask(x) PROVE CountsAreKnown'
  BY <1>3 DEF Ask, Goto, cache, count
<1>4. ASSUME NEW x \in Actors, Acquire(x) PROVE CountsAreKnown'
  BY <1>4 DEF Acquire, Goto, cache, count
<1>5. ASSUME NEW x \in Requests, Lookup(x) PROVE CountsAreKnown'
  BY <1>5 DEF Lookup, Goto, Works, Fails, cache
<1>6. ASSUME NEW x \in Requests, Check(x) PROVE CountsAreKnown'
  BY <1>6 DEF Check, Goto, Works, Fails, Warmed, Unlock, cache
<1>7. ASSUME NEW x \in Actors, BuildFails(x) PROVE CountsAreKnown'
  BY <1>7 DEF BuildFails, Goto, Warmed, Unlock, cache, count
<1>8. ASSUME NEW x \in Actors, Collect(x) PROVE CountsAreKnown'
  BY <1>8 DEF Collect, Goto, cache
<1>9. ASSUME NEW x \in Actors, StoreHome(x) PROVE CountsAreKnown'
  BY <1>9 DEF StoreHome, Goto, Works, Fails, Unlock
<1>10. ASSUME NEW x \in Actors, StoreRec(x) PROVE CountsAreKnown'
  BY <1>10 DEF StoreRec, Goto, Works, Fails, Warmed, Unlock
<1>11. ASSUME NEW x \in Requests, Second(x) PROVE CountsAreKnown'
  BY <1>11 DEF Second, Goto, Works, Fails, cache
<1>12. ASSUME NEW x \in Requests, Derive(x) PROVE CountsAreKnown'
  BY <1>12 DEF Derive, Goto, Works, Fails, cache
<1>13. ASSUME NEW x \in Requests, StoreDerived(x) PROVE CountsAreKnown'
  BY <1>13 DEF StoreDerived, Goto, Works, Fails
<1>14. CASE UNCHANGED vars
  BY <1>14 DEF vars, cache, count
<1>15. QED
  BY <1>1, <1>2, <1>3, <1>4, <1>5, <1>6, <1>7, <1>8, <1>9, <1>10, <1>11, <1>12, <1>13, <1>14
     DEF Next, Step, Actors

(* Which key was stored last is a yes or no.                               *)
LEMMA OrderStep == Sane /\ [Next]_vars => OrderIsKnown'
<1> SUFFICES ASSUME Sane, [Next]_vars
             PROVE  OrderIsKnown'
  OBVIOUS
<1> USE ActorsAssumption, BoundsAssumption DEF Sane, OrderIsKnown, Requests, Actors
<1>1. CASE Tick
  BY <1>1 DEF Tick, Goto, cache, count
<1>2. CASE Expire
  BY <1>2 DEF Expire, count
<1>3. ASSUME NEW x \in Requests, Ask(x) PROVE OrderIsKnown'
  BY <1>3 DEF Ask, Goto, cache, count
<1>4. ASSUME NEW x \in Actors, Acquire(x) PROVE OrderIsKnown'
  BY <1>4 DEF Acquire, Goto, cache, count
<1>5. ASSUME NEW x \in Requests, Lookup(x) PROVE OrderIsKnown'
  BY <1>5 DEF Lookup, Goto, Works, Fails, cache
<1>6. ASSUME NEW x \in Requests, Check(x) PROVE OrderIsKnown'
  BY <1>6 DEF Check, Goto, Works, Fails, Warmed, Unlock, cache
<1>7. ASSUME NEW x \in Actors, BuildFails(x) PROVE OrderIsKnown'
  BY <1>7 DEF BuildFails, Goto, Warmed, Unlock, cache, count
<1>8. ASSUME NEW x \in Actors, Collect(x) PROVE OrderIsKnown'
  BY <1>8 DEF Collect, Goto, cache
<1>9. ASSUME NEW x \in Actors, StoreHome(x) PROVE OrderIsKnown'
  BY <1>9 DEF StoreHome, Goto, Works, Fails, Unlock
<1>10. ASSUME NEW x \in Actors, StoreRec(x) PROVE OrderIsKnown'
  BY <1>10 DEF StoreRec, Goto, Works, Fails, Warmed, Unlock
<1>11. ASSUME NEW x \in Requests, Second(x) PROVE OrderIsKnown'
  BY <1>11 DEF Second, Goto, Works, Fails, cache
<1>12. ASSUME NEW x \in Requests, Derive(x) PROVE OrderIsKnown'
  BY <1>12 DEF Derive, Goto, Works, Fails, cache
<1>13. ASSUME NEW x \in Requests, StoreDerived(x) PROVE OrderIsKnown'
  BY <1>13 DEF StoreDerived, Goto, Works, Fails
<1>14. CASE UNCHANGED vars
  BY <1>14 DEF vars, cache, count
<1>15. QED
  BY <1>1, <1>2, <1>3, <1>4, <1>5, <1>6, <1>7, <1>8, <1>9, <1>10, <1>11, <1>12, <1>13, <1>14
     DEF Next, Step, Actors

(* The scheduler asks for nothing: it only builds.                         *)
LEMMA SchedulerStep == Sane /\ [Next]_vars => SchedulerStages'
<1> SUFFICES ASSUME Sane, [Next]_vars
             PROVE  SchedulerStages'
  OBVIOUS
<1> USE ActorsAssumption, BoundsAssumption
        DEF Sane, StagesAreKnown, CalmIsKnown, CountsAreKnown, OrderIsKnown, SchedulerStages,
            Stages, Locked, Requests, Actors
<1>1. CASE Tick
  BY <1>1 DEF Tick, Goto, cache, count
<1>2. CASE Expire
  BY <1>2 DEF Expire, count
<1>3. ASSUME NEW x \in Requests, Ask(x) PROVE SchedulerStages'
  BY <1>3 DEF Ask, Goto, cache, count
<1>4. ASSUME NEW x \in Actors, Acquire(x) PROVE SchedulerStages'
  BY <1>4 DEF Acquire, Goto, cache, count
<1>5. ASSUME NEW x \in Requests, Lookup(x) PROVE SchedulerStages'
  BY <1>5 DEF Lookup, Goto, Works, Fails, cache
<1>6. ASSUME NEW x \in Requests, Check(x) PROVE SchedulerStages'
  BY <1>6 DEF Check, Goto, Works, Fails, Warmed, Unlock, cache
<1>7. ASSUME NEW x \in Actors, BuildFails(x) PROVE SchedulerStages'
  BY <1>7 DEF BuildFails, Goto, Warmed, Unlock, cache, count
<1>8. ASSUME NEW x \in Actors, Collect(x) PROVE SchedulerStages'
  BY <1>8 DEF Collect, Goto, cache
<1>9. ASSUME NEW x \in Actors, StoreHome(x) PROVE SchedulerStages'
  BY <1>9 DEF StoreHome, Goto, Works, Fails, Unlock
<1>10. ASSUME NEW x \in Actors, StoreRec(x) PROVE SchedulerStages'
  BY <1>10 DEF StoreRec, Goto, Works, Fails, Warmed, Unlock
<1>11. ASSUME NEW x \in Requests, Second(x) PROVE SchedulerStages'
  BY <1>11 DEF Second, Goto, Works, Fails, cache
<1>12. ASSUME NEW x \in Requests, Derive(x) PROVE SchedulerStages'
  BY <1>12 DEF Derive, Goto, Works, Fails, cache
<1>13. ASSUME NEW x \in Requests, StoreDerived(x) PROVE SchedulerStages'
  BY <1>13 DEF StoreDerived, Goto, Works, Fails
<1>14. CASE UNCHANGED vars
  BY <1>14 DEF vars, cache, count
<1>15. QED
  BY <1>1, <1>2, <1>3, <1>4, <1>5, <1>6, <1>7, <1>8, <1>9, <1>10, <1>11, <1>12, <1>13, <1>14
     DEF Next, Step, Actors

(* Who is about to store a list has one.                                   *)
LEMMA HandsStep == Sane /\ [Next]_vars => HandsHoldLists'
<1> SUFFICES ASSUME Sane, [Next]_vars
             PROVE  HandsHoldLists'
  OBVIOUS
<1> USE ActorsAssumption, BoundsAssumption
        DEF Sane, StagesAreKnown, CalmIsKnown, CountsAreKnown, OrderIsKnown, HandsHoldLists,
            ListsAreStored, Stages, Lists, Requests, Actors
<1>1. CASE Tick
  BY <1>1 DEF Tick, Goto, cache, count
<1>2. CASE Expire
  BY <1>2 DEF Expire, count
<1>3. ASSUME NEW x \in Requests, Ask(x) PROVE HandsHoldLists'
  BY <1>3 DEF Ask, Goto, cache, count
<1>4. ASSUME NEW x \in Actors, Acquire(x) PROVE HandsHoldLists'
  BY <1>4 DEF Acquire, Goto, cache, count
<1>5. ASSUME NEW x \in Requests, Lookup(x) PROVE HandsHoldLists'
  BY <1>5 DEF Lookup, Goto, Works, Fails, cache
<1>6. ASSUME NEW x \in Requests, Check(x) PROVE HandsHoldLists'
  BY <1>6 DEF Check, Goto, Works, Fails, Warmed, Unlock, cache
<1>7. ASSUME NEW x \in Actors, BuildFails(x) PROVE HandsHoldLists'
  BY <1>7 DEF BuildFails, Goto, Warmed, Unlock, cache, count
<1>8. ASSUME NEW x \in Actors, Collect(x) PROVE HandsHoldLists'
  BY <1>8 DEF Collect, Goto, cache
<1>9. ASSUME NEW x \in Actors, StoreHome(x) PROVE HandsHoldLists'
  BY <1>9 DEF StoreHome, Goto, Works, Fails, Unlock
<1>10. ASSUME NEW x \in Actors, StoreRec(x) PROVE HandsHoldLists'
  BY <1>10 DEF StoreRec, Goto, Works, Fails, Warmed, Unlock
<1>11. ASSUME NEW x \in Requests, Second(x) PROVE HandsHoldLists'
  BY <1>11 DEF Second, Goto, Works, Fails, cache
<1>12. ASSUME NEW x \in Requests, Derive(x) PROVE HandsHoldLists'
  BY <1>12 DEF Derive, Goto, Works, Fails, cache
<1>13. ASSUME NEW x \in Requests, StoreDerived(x) PROVE HandsHoldLists'
  BY <1>13 DEF StoreDerived, Goto, Works, Fails
<1>14. CASE UNCHANGED vars
  BY <1>14 DEF vars, cache, count
<1>15. QED
  BY <1>1, <1>2, <1>3, <1>4, <1>5, <1>6, <1>7, <1>8, <1>9, <1>10, <1>11, <1>12, <1>13, <1>14
     DEF Next, Step, Actors

(* A key holds one list or none.                                           *)
LEMMA StoredStep == Sane /\ [Next]_vars => ListsAreStored'
<1> SUFFICES ASSUME Sane, [Next]_vars
             PROVE  ListsAreStored'
  OBVIOUS
<1> USE ActorsAssumption, BoundsAssumption
        DEF Sane, HandsHoldLists, ListsAreStored, Requests, Actors
<1>1. CASE Tick
  BY <1>1 DEF Tick, Goto, cache, count
<1>2. CASE Expire
  BY <1>2 DEF Expire, count
<1>3. ASSUME NEW x \in Requests, Ask(x) PROVE ListsAreStored'
  BY <1>3 DEF Ask, Goto, cache, count
<1>4. ASSUME NEW x \in Actors, Acquire(x) PROVE ListsAreStored'
  BY <1>4 DEF Acquire, Goto, cache, count
<1>5. ASSUME NEW x \in Requests, Lookup(x) PROVE ListsAreStored'
  BY <1>5 DEF Lookup, Goto, Works, Fails, cache
<1>6. ASSUME NEW x \in Requests, Check(x) PROVE ListsAreStored'
  BY <1>6 DEF Check, Goto, Works, Fails, Warmed, Unlock, cache
<1>7. ASSUME NEW x \in Actors, BuildFails(x) PROVE ListsAreStored'
  BY <1>7 DEF BuildFails, Goto, Warmed, Unlock, cache, count
<1>8. ASSUME NEW x \in Actors, Collect(x) PROVE ListsAreStored'
  BY <1>8 DEF Collect, Goto, cache
<1>9. ASSUME NEW x \in Actors, StoreHome(x) PROVE ListsAreStored'
  BY <1>9 DEF StoreHome, Goto, Works, Fails, Unlock
<1>10. ASSUME NEW x \in Actors, StoreRec(x) PROVE ListsAreStored'
  BY <1>10 DEF StoreRec, Goto, Works, Fails, Warmed, Unlock
<1>11. ASSUME NEW x \in Requests, Second(x) PROVE ListsAreStored'
  BY <1>11 DEF Second, Goto, Works, Fails, cache
<1>12. ASSUME NEW x \in Requests, Derive(x) PROVE ListsAreStored'
  BY <1>12 DEF Derive, Goto, Works, Fails, cache
<1>13. ASSUME NEW x \in Requests, StoreDerived(x) PROVE ListsAreStored'
  BY <1>13 DEF StoreDerived, Goto, Works, Fails
<1>14. CASE UNCHANGED vars
  BY <1>14 DEF vars, cache, count
<1>15. QED
  BY <1>1, <1>2, <1>3, <1>4, <1>5, <1>6, <1>7, <1>8, <1>9, <1>10, <1>11, <1>12, <1>13, <1>14
     DEF Next, Step, Actors

(* The lock is held from its acquisition to the end of the warmup.         *)
LEMMA LockStep == Sane /\ LockIsHeld /\ [Next]_vars => LockIsHeld'
<1> SUFFICES ASSUME Sane, LockIsHeld, [Next]_vars
             PROVE  LockIsHeld'
  OBVIOUS
<1> USE ActorsAssumption, BoundsAssumption
        DEF Sane, StagesAreKnown, CalmIsKnown, CountsAreKnown, OrderIsKnown, SchedulerStages,
            HandsHoldLists, ListsAreStored, Stages, Locked, Requests, Actors, LockIsHeld
<1>1. CASE Tick
  BY <1>1 DEF Tick, Goto, cache, count
<1>2. CASE Expire
  BY <1>2 DEF Expire, count
<1>3. ASSUME NEW x \in Requests, Ask(x) PROVE LockIsHeld'
  BY <1>3 DEF Ask, Goto, cache, count
<1>4. ASSUME NEW x \in Actors, Acquire(x) PROVE LockIsHeld'
  BY <1>4 DEF Acquire, Goto, cache, count
<1>5. ASSUME NEW x \in Requests, Lookup(x) PROVE LockIsHeld'
  BY <1>5 DEF Lookup, Goto, Works, Fails, cache
<1>6. ASSUME NEW x \in Requests, Check(x) PROVE LockIsHeld'
  BY <1>6 DEF Check, Goto, Works, Fails, Warmed, Unlock, cache
<1>7. ASSUME NEW x \in Actors, BuildFails(x) PROVE LockIsHeld'
  BY <1>7 DEF BuildFails, Goto, Warmed, Unlock, cache, count
<1>8. ASSUME NEW x \in Actors, Collect(x) PROVE LockIsHeld'
  BY <1>8 DEF Collect, Goto, cache
<1>9. ASSUME NEW x \in Actors, StoreHome(x) PROVE LockIsHeld'
  BY <1>9 DEF StoreHome, Goto, Works, Fails, Unlock
<1>10. ASSUME NEW x \in Actors, StoreRec(x) PROVE LockIsHeld'
  BY <1>10 DEF StoreRec, Goto, Works, Fails, Warmed, Unlock
<1>11. ASSUME NEW x \in Requests, Second(x) PROVE LockIsHeld'
  BY <1>11 DEF Second, Goto, Works, Fails, cache
<1>12. ASSUME NEW x \in Requests, Derive(x) PROVE LockIsHeld'
  BY <1>12 DEF Derive, Goto, Works, Fails, cache
<1>13. ASSUME NEW x \in Requests, StoreDerived(x) PROVE LockIsHeld'
  BY <1>13 DEF StoreDerived, Goto, Works, Fails
<1>14. CASE UNCHANGED vars
  BY <1>14 DEF vars, cache, count
<1>15. QED
  BY <1>1, <1>2, <1>3, <1>4, <1>5, <1>6, <1>7, <1>8, <1>9, <1>10, <1>11, <1>12, <1>13, <1>14
     DEF Next, Step, Actors

(* Nobody else searches while a list is about to be stored.                *)
LEMMA NewestStep == Sane /\ LockIsHeld /\ HoldsTheNewest /\ [Next]_vars => HoldsTheNewest'
<1> SUFFICES ASSUME Sane, LockIsHeld, HoldsTheNewest, [Next]_vars
             PROVE  HoldsTheNewest'
  OBVIOUS
<1> USE ActorsAssumption, BoundsAssumption
        DEF Sane, StagesAreKnown, CalmIsKnown, CountsAreKnown, OrderIsKnown, SchedulerStages,
            HandsHoldLists, ListsAreStored, Stages, Locked, Requests, Actors, LockIsHeld,
            HoldsTheNewest
<1>1. CASE Tick
  BY <1>1 DEF Tick, Goto, cache, count
<1>2. CASE Expire
  BY <1>2 DEF Expire, count
<1>3. ASSUME NEW x \in Requests, Ask(x) PROVE HoldsTheNewest'
  BY <1>3 DEF Ask, Goto, cache, count
<1>4. ASSUME NEW x \in Actors, Acquire(x) PROVE HoldsTheNewest'
  BY <1>4 DEF Acquire, Goto, cache, count
<1>5. ASSUME NEW x \in Requests, Lookup(x) PROVE HoldsTheNewest'
  BY <1>5 DEF Lookup, Goto, Works, Fails, cache
<1>6. ASSUME NEW x \in Requests, Check(x) PROVE HoldsTheNewest'
  BY <1>6 DEF Check, Goto, Works, Fails, Warmed, Unlock, cache
<1>7. ASSUME NEW x \in Actors, BuildFails(x) PROVE HoldsTheNewest'
  BY <1>7 DEF BuildFails, Goto, Warmed, Unlock, cache, count
<1>8. ASSUME NEW x \in Actors, Collect(x) PROVE HoldsTheNewest'
  BY <1>8 DEF Collect, Goto, cache
<1>9. ASSUME NEW x \in Actors, StoreHome(x) PROVE HoldsTheNewest'
  BY <1>9 DEF StoreHome, Goto, Works, Fails, Unlock
<1>10. ASSUME NEW x \in Actors, StoreRec(x) PROVE HoldsTheNewest'
  BY <1>10 DEF StoreRec, Goto, Works, Fails, Warmed, Unlock
<1>11. ASSUME NEW x \in Requests, Second(x) PROVE HoldsTheNewest'
  BY <1>11 DEF Second, Goto, Works, Fails, cache
<1>12. ASSUME NEW x \in Requests, Derive(x) PROVE HoldsTheNewest'
  BY <1>12 DEF Derive, Goto, Works, Fails, cache
<1>13. ASSUME NEW x \in Requests, StoreDerived(x) PROVE HoldsTheNewest'
  BY <1>13 DEF StoreDerived, Goto, Works, Fails
<1>14. CASE UNCHANGED vars
  BY <1>14 DEF vars, cache, count
<1>15. QED
  BY <1>1, <1>2, <1>3, <1>4, <1>5, <1>6, <1>7, <1>8, <1>9, <1>10, <1>11, <1>12, <1>13, <1>14
     DEF Next, Step, Actors

(* Nobody else stores a list while one is searched for.                    *)
LEMMA RebuildStep == Sane /\ LockIsHeld /\ NoRebuild /\ [Next]_vars => NoRebuild'
<1> SUFFICES ASSUME Sane, LockIsHeld, NoRebuild, [Next]_vars
             PROVE  NoRebuild'
  OBVIOUS
<1> USE ActorsAssumption, BoundsAssumption
        DEF Sane, StagesAreKnown, CalmIsKnown, CountsAreKnown, OrderIsKnown, SchedulerStages,
            HandsHoldLists, ListsAreStored, Stages, Locked, Requests, Actors, LockIsHeld,
            NoRebuild
<1>1. CASE Tick
  BY <1>1 DEF Tick, Goto, cache, count
<1>2. CASE Expire
  BY <1>2 DEF Expire, count
<1>3. ASSUME NEW x \in Requests, Ask(x) PROVE NoRebuild'
  BY <1>3 DEF Ask, Goto, cache, count
<1>4. ASSUME NEW x \in Actors, Acquire(x) PROVE NoRebuild'
  BY <1>4 DEF Acquire, Goto, cache, count
<1>5. ASSUME NEW x \in Requests, Lookup(x) PROVE NoRebuild'
  BY <1>5 DEF Lookup, Goto, Works, Fails, cache
<1>6. ASSUME NEW x \in Requests, Check(x) PROVE NoRebuild'
  BY <1>6 DEF Check, Goto, Works, Fails, Warmed, Unlock, cache
<1>7. ASSUME NEW x \in Actors, BuildFails(x) PROVE NoRebuild'
  BY <1>7 DEF BuildFails, Goto, Warmed, Unlock, cache, count
<1>8. ASSUME NEW x \in Actors, Collect(x) PROVE NoRebuild'
  BY <1>8 DEF Collect, Goto, cache
<1>9. ASSUME NEW x \in Actors, StoreHome(x) PROVE NoRebuild'
  BY <1>9 DEF StoreHome, Goto, Works, Fails, Unlock
<1>10. ASSUME NEW x \in Actors, StoreRec(x) PROVE NoRebuild'
  BY <1>10 DEF StoreRec, Goto, Works, Fails, Warmed, Unlock
<1>11. ASSUME NEW x \in Requests, Second(x) PROVE NoRebuild'
  BY <1>11 DEF Second, Goto, Works, Fails, cache
<1>12. ASSUME NEW x \in Requests, Derive(x) PROVE NoRebuild'
  BY <1>12 DEF Derive, Goto, Works, Fails, cache
<1>13. ASSUME NEW x \in Requests, StoreDerived(x) PROVE NoRebuild'
  BY <1>13 DEF StoreDerived, Goto, Works, Fails
<1>14. CASE UNCHANGED vars
  BY <1>14 DEF vars, cache, count
<1>15. QED
  BY <1>1, <1>2, <1>3, <1>4, <1>5, <1>6, <1>7, <1>8, <1>9, <1>10, <1>11, <1>12, <1>13, <1>14
     DEF Next, Step, Actors

(* The first key is stored only on the way to the second.                  *)
LEMMA SecondKeyStep == Sane /\ LockIsHeld /\ SecondKeyFollows /\ [Next]_vars => SecondKeyFollows'
<1> SUFFICES ASSUME Sane, LockIsHeld, SecondKeyFollows, [Next]_vars
             PROVE  SecondKeyFollows'
  OBVIOUS
<1> USE ActorsAssumption, BoundsAssumption
        DEF Sane, StagesAreKnown, CalmIsKnown, CountsAreKnown, OrderIsKnown, SchedulerStages,
            HandsHoldLists, ListsAreStored, Stages, Locked, Requests, Actors, LockIsHeld,
            SecondKeyFollows
<1>1. CASE Tick
  BY <1>1 DEF Tick, Goto, cache, count
<1>2. CASE Expire
  BY <1>2 DEF Expire, count
<1>3. ASSUME NEW x \in Requests, Ask(x) PROVE SecondKeyFollows'
  BY <1>3 DEF Ask, Goto, cache, count
<1>4. ASSUME NEW x \in Actors, Acquire(x) PROVE SecondKeyFollows'
  BY <1>4 DEF Acquire, Goto, cache, count
<1>5. ASSUME NEW x \in Requests, Lookup(x) PROVE SecondKeyFollows'
  BY <1>5 DEF Lookup, Goto, Works, Fails, cache
<1>6. ASSUME NEW x \in Requests, Check(x) PROVE SecondKeyFollows'
  BY <1>6 DEF Check, Goto, Works, Fails, Warmed, Unlock, cache
<1>7. ASSUME NEW x \in Actors, BuildFails(x) PROVE SecondKeyFollows'
  BY <1>7 DEF BuildFails, Goto, Warmed, Unlock, cache, count
<1>8. ASSUME NEW x \in Actors, Collect(x) PROVE SecondKeyFollows'
  BY <1>8 DEF Collect, Goto, cache
<1>9. ASSUME NEW x \in Actors, StoreHome(x) PROVE SecondKeyFollows'
  BY <1>9 DEF StoreHome, Goto, Works, Fails, Unlock
<1>10. ASSUME NEW x \in Actors, StoreRec(x) PROVE SecondKeyFollows'
  BY <1>10 DEF StoreRec, Works, Fails, count
<1>11. ASSUME NEW x \in Requests, Second(x) PROVE SecondKeyFollows'
  BY <1>11 DEF Second, Goto, Works, Fails, cache
<1>12. ASSUME NEW x \in Requests, Derive(x) PROVE SecondKeyFollows'
  BY <1>12 DEF Derive, Goto, Works, Fails, cache
<1>13. ASSUME NEW x \in Requests, StoreDerived(x) PROVE SecondKeyFollows'
  BY <1>13 DEF StoreDerived, Goto, Works, Fails
<1>14. CASE UNCHANGED vars
  BY <1>14 DEF vars, cache, count
<1>15. QED
  BY <1>1, <1>2, <1>3, <1>4, <1>5, <1>6, <1>7, <1>8, <1>9, <1>10, <1>11, <1>12, <1>13, <1>14
     DEF Next, Step, Actors

(* A list that was there is there until it ends, which ends the calm.      *)
LEMMA CalmStep == Sane /\ LockIsHeld /\ CalmFindsHome /\ [Next]_vars => CalmFindsHome'
<1> SUFFICES ASSUME Sane, LockIsHeld, CalmFindsHome, [Next]_vars
             PROVE  CalmFindsHome'
  OBVIOUS
<1> USE ActorsAssumption, BoundsAssumption
        DEF Sane, StagesAreKnown, CalmIsKnown, CountsAreKnown, OrderIsKnown, SchedulerStages,
            HandsHoldLists, ListsAreStored, Stages, Locked, Requests, Actors, LockIsHeld,
            CalmFindsHome
<1>1. CASE Tick
  BY <1>1 DEF Tick, Goto, cache, count
<1>2. CASE Expire
  BY <1>2 DEF Expire, count
<1>3. ASSUME NEW x \in Requests, Ask(x) PROVE CalmFindsHome'
  BY <1>3 DEF Ask, Goto, cache, count
<1>4. ASSUME NEW x \in Actors, Acquire(x) PROVE CalmFindsHome'
  BY <1>4 DEF Acquire, Goto, cache, count
<1>5. ASSUME NEW x \in Requests, Lookup(x) PROVE CalmFindsHome'
  BY <1>5 DEF Lookup, Goto, Works, Fails, cache
<1>6. ASSUME NEW x \in Requests, Check(x) PROVE CalmFindsHome'
  BY <1>6 DEF Check, Goto, Works, Fails, Warmed, Unlock, cache
<1>7. ASSUME NEW x \in Actors, BuildFails(x) PROVE CalmFindsHome'
  BY <1>7 DEF BuildFails, Goto, Warmed, Unlock, cache, count
<1>8. ASSUME NEW x \in Actors, Collect(x) PROVE CalmFindsHome'
  BY <1>8 DEF Collect, Goto, cache
<1>9. ASSUME NEW x \in Actors, StoreHome(x) PROVE CalmFindsHome'
  BY <1>9 DEF StoreHome, Goto, Works, Fails, Unlock
<1>10. ASSUME NEW x \in Actors, StoreRec(x) PROVE CalmFindsHome'
  BY <1>10 DEF StoreRec, Goto, Works, Fails, Warmed, Unlock
<1>11. ASSUME NEW x \in Requests, Second(x) PROVE CalmFindsHome'
  BY <1>11 DEF Second, Goto, Works, Fails, cache
<1>12. ASSUME NEW x \in Requests, Derive(x) PROVE CalmFindsHome'
  BY <1>12 DEF Derive, Goto, Works, Fails, cache
<1>13. ASSUME NEW x \in Requests, StoreDerived(x) PROVE CalmFindsHome'
  BY <1>13 DEF StoreDerived, Goto, Works, Fails
<1>14. CASE UNCHANGED vars
  BY <1>14 DEF vars, cache, count
<1>15. QED
  BY <1>1, <1>2, <1>3, <1>4, <1>5, <1>6, <1>7, <1>8, <1>9, <1>10, <1>11, <1>12, <1>13, <1>14
     DEF Next, Step, Actors

(* Every way to an empty page ends the calm.                               *)
LEMMA EmptyStep == Sane /\ CalmFindsHome /\ EmptyOnlyOnFailure /\ [Next]_vars => EmptyOnlyOnFailure'
<1> SUFFICES ASSUME Sane, CalmFindsHome, EmptyOnlyOnFailure, [Next]_vars
             PROVE  EmptyOnlyOnFailure'
  OBVIOUS
<1> USE ActorsAssumption, BoundsAssumption
        DEF Sane, StagesAreKnown, CalmIsKnown, CountsAreKnown, OrderIsKnown, SchedulerStages,
            HandsHoldLists, ListsAreStored, Stages, Locked, Requests, Actors, CalmFindsHome,
            EmptyOnlyOnFailure
<1>1. CASE Tick
  BY <1>1 DEF Tick, Goto, cache, count
<1>2. CASE Expire
  BY <1>2 DEF Expire, count
<1>3. ASSUME NEW x \in Requests, Ask(x) PROVE EmptyOnlyOnFailure'
  BY <1>3 DEF Ask, Goto, cache, count
<1>4. ASSUME NEW x \in Actors, Acquire(x) PROVE EmptyOnlyOnFailure'
  BY <1>4 DEF Acquire, Goto, cache, count
<1>5. ASSUME NEW x \in Requests, Lookup(x) PROVE EmptyOnlyOnFailure'
  BY <1>5 DEF Lookup, Goto, Works, Fails, cache
<1>6. ASSUME NEW x \in Requests, Check(x) PROVE EmptyOnlyOnFailure'
  BY <1>6 DEF Check, Goto, Works, Fails, Warmed, Unlock, cache
<1>7. ASSUME NEW x \in Actors, BuildFails(x) PROVE EmptyOnlyOnFailure'
  BY <1>7 DEF BuildFails, Goto, Warmed, Unlock, cache, count
<1>8. ASSUME NEW x \in Actors, Collect(x) PROVE EmptyOnlyOnFailure'
  BY <1>8 DEF Collect, Goto, cache
<1>9. ASSUME NEW x \in Actors, StoreHome(x) PROVE EmptyOnlyOnFailure'
  BY <1>9 DEF StoreHome, Goto, Works, Fails, Unlock
<1>10. ASSUME NEW x \in Actors, StoreRec(x) PROVE EmptyOnlyOnFailure'
  BY <1>10 DEF StoreRec, Goto, Works, Fails, Warmed, Unlock
<1>11. ASSUME NEW x \in Requests, Second(x) PROVE EmptyOnlyOnFailure'
  BY <1>11 DEF Second, Goto, Works, Fails, cache
<1>12. ASSUME NEW x \in Requests, Derive(x) PROVE EmptyOnlyOnFailure'
  BY <1>12 DEF Derive, Goto, Works, Fails, cache
<1>13. ASSUME NEW x \in Requests, StoreDerived(x) PROVE EmptyOnlyOnFailure'
  BY <1>13 DEF StoreDerived, Goto, Works, Fails
<1>14. CASE UNCHANGED vars
  BY <1>14 DEF vars, cache, count
<1>15. QED
  BY <1>1, <1>2, <1>3, <1>4, <1>5, <1>6, <1>7, <1>8, <1>9, <1>10, <1>11, <1>12, <1>13, <1>14
     DEF Next, Step, Actors

LEMMA InvInit == Init => Inv
  BY ActorsAssumption, BoundsAssumption
     DEF Init, Inv, Sane, StagesAreKnown, CalmIsKnown, CountsAreKnown, OrderIsKnown,
         SchedulerStages, HandsHoldLists, ListsAreStored, Stages, Locked, LockIsHeld,
         HoldsTheNewest, NoRebuild,
         SecondKeyFollows, CalmFindsHome, EmptyOnlyOnFailure, Lists, Requests, Actors

LEMMA InvStep == Inv /\ [Next]_vars => Inv'
  BY StagesStep, CalmKnownStep, CountsStep, OrderStep, SchedulerStep, HandsStep, StoredStep,
     LockStep, NewestStep, RebuildStep, SecondKeyStep, CalmStep, EmptyStep
     DEF Inv, Sane

LEMMA Invariant == Spec => []Inv
  BY InvInit, InvStep, PTL DEF Spec

(* Every variable keeps its type, and no key holds two lists.             *)
THEOREM TypeCorrect == Spec => []TypeOK
<1>1. \A n \in Nat : IsFiniteSet({n}) /\ Cardinality({n}) = 1
  BY FS_Singleton
<1>2. IsFiniteSet({}) /\ Cardinality({}) = 0
  BY FS_EmptySet
<1>3. ASSUME NEW S, S = {} \/ \E n \in Lists : S = {n}
      PROVE  S \subseteq Lists /\ Cardinality(S) <= 1
  <2>1. CASE S = {}
    BY <1>2, <2>1
  <2>2. CASE \E n \in Lists : S = {n}
    <3>1. PICK n \in Lists : S = {n}
      BY <2>2
    <3>2. Cardinality(S) = 1
      BY <1>1, <3>1, BoundsAssumption DEF Lists
    <3>3. QED
      BY <3>1, <3>2
  <2>3. QED
    BY <1>3, <2>1, <2>2
<1>4. Inv => TypeOK
  BY <1>3 DEF Inv, Sane, StagesAreKnown, CalmIsKnown, CountsAreKnown, OrderIsKnown, HandsHoldLists,
              ListsAreStored, TypeOK
<1>5. QED
  BY <1>4, Invariant, PTL

(* As long as Redis works and no search is under way, whoever finds the    *)
(* start page's tours finds the recommended list too.                      *)
THEOREM BothKeysStored == Spec => []TwoKeysStored
<1>1. Inv => TwoKeysStored
  BY ActorsAssumption DEF Inv, SecondKeyFollows, TwoKeysStored, LockIsHeld, Locked
<1>2. QED
  BY <1>1, Invariant, PTL

(* For any number of requests, none repeats a search whose list is there.  *)
THEOREM OneSearchForAll == Spec => []NoRebuild
  BY Invariant, PTL DEF Inv

(* However failures and expiries fall, an empty start page has a cause in  *)
(* the request's own time.                                                 *)
THEOREM EmptyHasACause == Spec => []EmptyOnlyOnFailure
  BY Invariant, PTL DEF Inv

(* Searches end in the order they were counted in, so no list replaces a   *)
(* newer one.                                                              *)
THEOREM NewestStays == Spec => NewestIsStored
<1>1. Inv /\ [Next]_vars => [home' # home => home' \subseteq {builds}]_vars
  <2> SUFFICES ASSUME Inv, [Next]_vars, home' # home
               PROVE  home' \subseteq {builds}
    OBVIOUS
  <2>1. ASSUME NEW x \in Actors, StoreHome(x) PROVE home' \subseteq {builds}
    BY <2>1 DEF StoreHome, Inv, HoldsTheNewest
  <2>2. CASE Expire
    BY <2>2 DEF Expire
  <2>3. CASE ~Expire /\ ~\E x \in Actors : StoreHome(x)
    BY <2>3
       DEF Next, Step, Tick, Ask, Acquire, Lookup, Check, BuildFails, Collect, StoreRec, Second,
                Derive, StoreDerived, cache, vars, Requests, Actors
  <2>4. QED
    BY <2>1, <2>2, <2>3
<1>2. QED
  BY <1>1, Invariant, PTL DEF NewestIsStored, Spec

-----------------------------------------------------------------------------
(* SearchResults: finite sets in order.                                    *)

(* An interval has as many elements as it says.                            *)
LEMMA IntervalSize ==
    ASSUME NEW n \in Nat
    PROVE  IsFiniteSet(1..n) /\ Cardinality(1..n) = n
<1>1. /\ IsFiniteSet(1..n)
      /\ Cardinality(1..n) = IF 1 > n THEN 0 ELSE n - 1 + 1
  BY FS_Interval
<1> QED
  BY <1>1

(* A non-empty set of integers that are not below a bound has a least one. *)
LEMMA LeastOf ==
    ASSUME NEW S \in SUBSET Nat, S # {}
    PROVE  \E m \in S : \A k \in S : m <= k
<1> DEFINE R == {p \in Nat \X Nat : p[1] < p[2]}
<1>1. IsWellFoundedOn(R, Nat)
  BY NatLessThanWellFounded DEF OpToRel
<1>2. PICK m \in S : \A k \in S : ~(<<k, m>> \in R)
  <2> HIDE DEF R
  <2>1. S \subseteq Nat
    OBVIOUS
  <2> QED
    BY <1>1, <2>1, WFMin, Zenon
<1>3. \A k \in S : ~(k < m)
  BY <1>2
<1> QED
  BY <1>3

(* before[x] are the elements of S that come before x, in a total order.   *)
Ordering(before, S) ==
    /\ IsFiniteSet(S) /\ before \in [S -> SUBSET S]
    /\ \A x \in S : x \notin before[x]
    /\ \A x, y \in S : x # y => x \in before[y] \/ y \in before[x]
    /\ \A x, y \in S : x \in before[y] => before[x] \subseteq before[y]

(* An arrangement has every element at one place, in order.                *)
LEMMA ArrangedInOrder ==
    ASSUME NEW before, NEW S, Ordering(before, S)
    PROVE  /\ Cardinality(S) \in Nat
           /\ Arranged(before) \in [1..Cardinality(S) -> S]
           /\ \A x \in S : \E p \in 1..Cardinality(S) : Arranged(before)[p] = x
           /\ \A p, q \in 1..Cardinality(S) :
                 p < q => Arranged(before)[p] \in before[Arranged(before)[q]]
<1> DEFINE n == Cardinality(S)
           rank == [x \in S |-> Cardinality(before[x]) + 1]
<1>1. n \in Nat
  BY FS_CardinalityType DEF Ordering
<1>2. ASSUME NEW x \in S
      PROVE  /\ IsFiniteSet(before[x]) /\ Cardinality(before[x]) \in Nat
             /\ Cardinality(before[x]) < n
  <2>1. IsFiniteSet(S \ {x}) /\ Cardinality(S \ {x}) = n - 1
    BY FS_RemoveElement DEF Ordering
  <2>2. before[x] \in SUBSET (S \ {x})
    BY DEF Ordering
  <2>3. IsFiniteSet(before[x]) /\ Cardinality(before[x]) <= n - 1
    BY <2>1, <2>2, FS_Subset
  <2>4. Cardinality(before[x]) \in Nat
    BY <2>3, FS_CardinalityType
  <2> QED
    BY <1>1, <2>3, <2>4
<1>3. ASSUME NEW x \in S, NEW y \in S, x \in before[y]
      PROVE  Cardinality(before[x]) < Cardinality(before[y])
  <2>1. before[x] \in SUBSET before[y] /\ before[x] # before[y]
    BY <1>3 DEF Ordering
  <2>2. IsFiniteSet(before[y])
    BY <1>2
  <2>3. /\ Cardinality(before[x]) <= Cardinality(before[y])
        /\ Cardinality(before[x]) # Cardinality(before[y])
    BY <2>1, <2>2, FS_Subset
  <2>4. Cardinality(before[x]) \in Nat /\ Cardinality(before[y]) \in Nat
    BY <1>2
  <2> QED
    BY <2>3, <2>4
<1>4. rank \in [S -> 1..n]
  BY <1>1, <1>2
<1>5. ASSUME NEW x \in S, NEW y \in S, x # y
      PROVE  rank[x] # rank[y]
  <2>1. x \in before[y] \/ y \in before[x]
    BY <1>5 DEF Ordering
  <2>2. Cardinality(before[x]) \in Nat /\ Cardinality(before[y]) \in Nat
    BY <1>2
  <2> QED
    BY <1>3, <2>1, <2>2
<1>6. rank \in Injection(S, 1..n)
  BY <1>4, <1>5 DEF Injection, IsInjective
<1>7. IsFiniteSet(1..n) /\ Cardinality(1..n) = n
  BY <1>1, IntervalSize
<1>8. rank \in Surjection(S, 1..n)
  BY <1>6, <1>7, FS_Injection
<1>9. \A p \in 1..n : \E x \in S : rank[x] = p
  BY <1>8 DEF Surjection
<1>10. DOMAIN before = S
  BY DEF Ordering
<1>11. ASSUME NEW p \in 1..n
       PROVE  Arranged(before)[p] \in S /\ rank[Arranged(before)[p]] = p
  <2>1. PICK x \in S : rank[x] = p
    BY <1>9
  <2>2. Cardinality(before[x]) \in Nat
    BY <1>2
  <2>3. Cardinality(before[x]) = p - 1
    BY <1>1, <2>1, <2>2
  <2>4. Arranged(before)[p] = CHOOSE y \in S : Cardinality(before[y]) = p - 1
    BY <1>10 DEF Arranged
  <2>5. /\ Arranged(before)[p] \in S
        /\ Cardinality(before[Arranged(before)[p]]) = p - 1
    BY <2>3, <2>4
  <2> QED
    BY <1>1, <2>5
<1>12. Arranged(before) \in [1..n -> S]
  <2>1. Arranged(before) = [p \in 1..n |-> Arranged(before)[p]]
    BY <1>10 DEF Arranged
  <2> QED
    BY <1>11, <2>1
<1>13. ASSUME NEW x \in S
       PROVE  \E p \in 1..n : Arranged(before)[p] = x
  <2>1. rank[x] \in 1..n
    BY <1>4
  <2>2. Arranged(before)[rank[x]] \in S /\ rank[Arranged(before)[rank[x]]] = rank[x]
    BY <1>11, <2>1
  <2>3. Arranged(before)[rank[x]] = x
    BY <1>5, <2>2
  <2> QED
    BY <2>1, <2>3
<1>14. ASSUME NEW p \in 1..n, NEW q \in 1..n, p < q
       PROVE  Arranged(before)[p] \in before[Arranged(before)[q]]
  <2> DEFINE x == Arranged(before)[p]
             y == Arranged(before)[q]
  <2>1. x \in S /\ y \in S /\ rank[x] = p /\ rank[y] = q
    BY <1>11
  <2>2. x # y
    BY <1>14, <2>1
  <2>3. CASE y \in before[x]
    <3>1. Cardinality(before[y]) < Cardinality(before[x])
      BY <1>3, <2>1, <2>3
    <3>2. Cardinality(before[x]) \in Nat /\ Cardinality(before[y]) \in Nat
      BY <1>2, <2>1
    <3>3. rank[y] < rank[x]
      BY <2>1, <3>1, <3>2
    <3> QED
      BY <1>14, <2>1, <3>3
  <2> QED
    BY <2>1, <2>2, <2>3 DEF Ordering
<1> QED
  BY <1>1, <1>12, <1>13, <1>14

(* at names the places in the order of a stable sort by key.               *)
SortsBy(at, places, key) ==
    /\ Cardinality(places) \in Nat
    /\ at \in [1..Cardinality(places) -> places]
    /\ \A i \in places : \E p \in 1..Cardinality(places) : at[p] = i
    /\ \A p, q \in 1..Cardinality(places) :
          p < q => key[at[p]] < key[at[q]] \/ (key[at[p]] = key[at[q]] /\ at[p] < at[q])

LEMMA ByKeySorts ==
    ASSUME NEW places \in SUBSET Int, IsFiniteSet(places),
           NEW key, \A i \in places : key[i] \in Int
    PROVE  SortsBy(ByKey(places, key), places, key)
<1> DEFINE before == [i \in places |->
                        {k \in places : key[k] < key[i] \/ (key[k] = key[i] /\ k < i)}]
<1>1. Ordering(before, places)
  <2>1. before \in [places -> SUBSET places]
    OBVIOUS
  <2>2. \A x \in places : x \notin before[x]
    OBVIOUS
  <2>3. \A x, y \in places : x # y => x \in before[y] \/ y \in before[x]
    OBVIOUS
  <2>4. ASSUME NEW x \in places, NEW y \in places, x \in before[y], NEW z \in before[x]
        PROVE  z \in before[y]
    BY <2>4
  <2> QED
    BY <2>1, <2>2, <2>3, <2>4 DEF Ordering
<1>2. /\ Cardinality(places) \in Nat
      /\ Arranged(before) \in [1..Cardinality(places) -> places]
      /\ \A i \in places : \E p \in 1..Cardinality(places) : Arranged(before)[p] = i
      /\ \A p, q \in 1..Cardinality(places) :
            p < q => Arranged(before)[p] \in before[Arranged(before)[q]]
  <2> HIDE DEF before
  <2> QED
    BY <1>1, ArrangedInOrder
<1>3. ASSUME NEW p \in 1..Cardinality(places), NEW q \in 1..Cardinality(places), p < q
      PROVE  LET i == Arranged(before)[p]
                 k == Arranged(before)[q]
             IN  key[i] < key[k] \/ (key[i] = key[k] /\ i < k)
  <2>1. Arranged(before)[p] \in before[Arranged(before)[q]]
    BY <1>2, <1>3
  <2>2. Arranged(before)[q] \in places
    BY <1>2
  <2> QED
    BY <2>1, <2>2
<1>4. SortsBy(Arranged(before), places, key)
  <2> HIDE DEF before
  <2> QED
    BY <1>2, <1>3 DEF SortsBy
<1> QED
  BY <1>4 DEF ByKey

(* No place is named twice.                                                *)
LEMMA SortsApart ==
    ASSUME NEW places \in SUBSET Int, NEW key, \A i \in places : key[i] \in Int,
           NEW at, SortsBy(at, places, key),
           NEW p \in 1..Cardinality(places), NEW q \in 1..Cardinality(places), p # q
    PROVE  at[p] # at[q]
<1>1. at[p] \in places /\ at[q] \in places /\ p \in Int /\ q \in Int
  BY DEF SortsBy
<1>2. at[p] \in Int /\ at[q] \in Int
  BY <1>1
<1>3. key[at[p]] \in Int /\ key[at[q]] \in Int
  BY <1>1
<1>4. CASE p < q
  BY <1>2, <1>3, <1>4 DEF SortsBy
<1>5. CASE q < p
  BY <1>2, <1>3, <1>5 DEF SortsBy
<1> QED
  BY <1>1, <1>4, <1>5

(* A sorted list has the elements of the list.                             *)
LEMMA StableSortSeq ==
    ASSUME NEW T, NEW list, NEW places \in SUBSET Int, IsFiniteSet(places),
           \A i \in places : list[i] \in T,
           NEW key, \A i \in places : key[i] \in Int
    PROVE  /\ StableSort(list, places, key) \in Seq(T)
           /\ Len(StableSort(list, places, key)) = Cardinality(places)
           /\ DOMAIN StableSort(list, places, key) = 1..Cardinality(places)
<1> DEFINE at == ByKey(places, key)
<1>1. SortsBy(at, places, key)
  BY ByKeySorts
<1>2. Cardinality(places) \in Nat /\ \A p \in 1..Cardinality(places) : list[at[p]] \in T
  BY <1>1 DEF SortsBy
<1>3. StableSort(list, places, key) = [p \in 1..Cardinality(places) |-> list[at[p]]]
  BY DEF StableSort
<1>4. StableSort(list, places, key) \in [1..Cardinality(places) -> T]
  <2> HIDE DEF at
  <2> QED
    BY <1>2, <1>3
<1> QED
  BY <1>2, <1>4

-----------------------------------------------------------------------------
(* Prices are natural numbers.                                             *)
LEMMA PricesAreNat == price \in PriceLists => price \in [Tickets -> Nat]
<1> SUFFICES ASSUME price \in PriceLists
             PROVE  price \in [Tickets -> Nat]
  OBVIOUS
<1>1. price \in [Tickets -> UNION {Prices[t] : t \in Tickets}]
      /\ \A t \in Tickets : price[t] \in Prices[t]
  BY DEF PriceLists
<1>2. \A t \in Tickets : Prices[t] \in SUBSET Nat
  BY FieldsAssumption
<1>3. \A t \in Tickets : price[t] \in Nat
  BY <1>1, <1>2
<1> QED
  BY <1>1, <1>3

(* The scan of a group ends with a ticket of the group.                    *)
LEMMA WinnerWins ==
    ASSUME price \in [Tickets -> Nat], NEW tickets \in Seq(Tickets),
           NEW group \in SUBSET DOMAIN tickets, group # {}
    PROVE  /\ Winner(tickets, group) \in group
           /\ \A k \in group \ {Winner(tickets, group)} :
                 ~Cheaper(tickets[k], tickets[Winner(tickets, group)])
<1> DEFINE First(i) == \A k \in group \ {i} : /\ ~Cheaper(tickets[k], tickets[i])
                                              /\ k < i => Cheaper(tickets[i], tickets[k])
           paid == {i \in group : price[tickets[i]] > 0}
<1>1. /\ group \in SUBSET Nat
      /\ \A i \in group : tickets[i] \in Tickets /\ price[tickets[i]] \in Nat
  OBVIOUS
<1>2. CASE paid = {}
  <2>1. PICK m \in group : \A k \in group : m <= k
    BY <1>1, LeastOf
  <2>2. First(m)
    BY <1>1, <1>2, <2>1 DEF Cheaper
  <2> QED
    BY <2>2 DEF Winner
<1>3. CASE paid # {}
  <2> DEFINE costs == {price[tickets[i]] : i \in paid}
  <2>1. costs \in SUBSET Nat /\ costs # {}
    BY <1>1, <1>3
  <2>2. PICK c \in costs : \A e \in costs : c <= e
    BY <2>1, LeastOf
  <2> DEFINE best == {i \in paid : price[tickets[i]] = c}
  <2>3. best \in SUBSET Nat /\ best # {}
    BY <1>1, <2>2
  <2>4. PICK m \in best : \A k \in best : m <= k
    BY <2>3, LeastOf
  <2>5. c \in Nat /\ c > 0 /\ price[tickets[m]] = c /\ m \in group
    BY <2>1, <2>2
  <2>6. ASSUME NEW k \in group \ {m}
        PROVE  /\ ~Cheaper(tickets[k], tickets[m])
               /\ k < m => Cheaper(tickets[m], tickets[k])
    <3>1. price[tickets[k]] \in Nat /\ k \in Nat /\ m \in Nat
      BY <1>1, <2>5
    <3>2. price[tickets[k]] > 0 => c <= price[tickets[k]]
      BY <2>2
    <3>3. k < m => price[tickets[k]] # c
      BY <2>4, <2>5, <3>1
    <3> QED
      BY <2>5, <3>1, <3>2, <3>3 DEF Cheaper
  <2>7. First(m)
    BY <2>6
  <2> QED
    BY <2>5, <2>7 DEF Winner
<1> QED
  BY <1>2, <1>3

(* A card is a ticket of its group and has the lowest price that is one.   *)
LEMMA WinnerIsCheapest ==
    ASSUME price \in [Tickets -> Nat], NEW tickets \in Seq(Tickets),
           NEW group \in SUBSET DOMAIN tickets, NEW i \in group
    PROVE  LET t == tickets[Winner(tickets, group)]
           IN  price[tickets[i]] > 0 => price[t] > 0 /\ price[t] <= price[tickets[i]]
<1> DEFINE w == Winner(tickets, group)
<1>1. w \in group /\ (i # w => ~Cheaper(tickets[i], tickets[w]))
  BY WinnerWins
<1>2. price[tickets[i]] \in Nat /\ price[tickets[w]] \in Nat
  BY <1>1
<1>3. CASE i = w
  BY <1>2, <1>3
<1>4. CASE i # w
  BY <1>1, <1>2, <1>4 DEF Cheaper
<1> QED
  BY <1>3, <1>4

-----------------------------------------------------------------------------
(* Offers that the tickets of a group hand in.                             *)
LEMMA HandedInFacts ==
    ASSUME offers \in [Tickets -> Seq(Tickets)], NEW tickets \in Seq(Tickets),
           NEW group \in SUBSET DOMAIN tickets
    PROVE  /\ IsFiniteSet(HandedIn(tickets, group))
           /\ \A x \in HandedIn(tickets, group) :
                 /\ x[1] \in group /\ x[2] \in DOMAIN Existing(tickets[x[1]])
                 /\ x = <<x[1], x[2]>> /\ x[1] \in Nat /\ x[2] \in Nat
                 /\ Offer(tickets, x) \in Tickets
           /\ \A i \in group : \A k \in DOMAIN Existing(tickets[i]) :
                 <<i, k>> \in HandedIn(tickets, group)
<1>1. ASSUME NEW i \in group
      PROVE  i \in Nat /\ tickets[i] \in Tickets /\ Existing(tickets[i]) \in Seq(Tickets)
  BY DEF Existing
<1>2. IsFiniteSet(group)
  <2>1. IsFiniteSet(1..Len(tickets)) /\ group \in SUBSET (1..Len(tickets))
    BY IntervalSize
  <2> QED
    BY <2>1, FS_Subset
<1> DEFINE Of(i) == {i} \X DOMAIN Existing(tickets[i])
           parts == {Of(i) : i \in group}
           of == [i \in group |-> Of(i)]
<1>3. IsFiniteSet(parts)
  <2>1. of \in Surjection(group, parts)
    BY DEF Surjection
  <2> QED
    BY <1>2, <2>1, FS_Surjection
<1>4. ASSUME NEW i \in group
      PROVE  IsFiniteSet(Of(i))
  <2>1. Len(Existing(tickets[i])) \in Nat
        /\ DOMAIN Existing(tickets[i]) = 1..Len(Existing(tickets[i]))
    BY <1>1
  <2>2. IsFiniteSet({i}) /\ IsFiniteSet(DOMAIN Existing(tickets[i]))
    BY <2>1, IntervalSize, FS_Singleton
  <2> QED
    BY <2>2, FS_Product
<1>5. \A P \in parts : IsFiniteSet(P)
  BY <1>4
<1>6. IsFiniteSet(HandedIn(tickets, group))
  <2>1. HandedIn(tickets, group) = UNION parts
    BY DEF HandedIn
  <2> HIDE DEF parts
  <2> QED
    BY <1>3, <1>5, <2>1, FS_UNION
<1>7. ASSUME NEW x \in HandedIn(tickets, group)
      PROVE  /\ x[1] \in group /\ x[2] \in DOMAIN Existing(tickets[x[1]])
             /\ x = <<x[1], x[2]>> /\ x[1] \in Nat /\ x[2] \in Nat
             /\ Offer(tickets, x) \in Tickets
  <2>1. PICK i \in group : x \in {i} \X DOMAIN Existing(tickets[i])
    BY DEF HandedIn
  <2>2. x[1] = i /\ x[2] \in DOMAIN Existing(tickets[i]) /\ x = <<x[1], x[2]>>
    BY <2>1
  <2>3. i \in Nat /\ Existing(tickets[i]) \in Seq(Tickets)
    BY <1>1
  <2>4. x[2] \in Nat /\ Existing(tickets[i])[x[2]] \in Tickets
    BY <2>2, <2>3
  <2> QED
    BY <2>2, <2>3, <2>4 DEF Offer
<1>8. ASSUME NEW i \in group, NEW k \in DOMAIN Existing(tickets[i])
      PROVE  <<i, k>> \in HandedIn(tickets, group)
  <2>1. <<i, k>> \in {i} \X DOMAIN Existing(tickets[i])
    OBVIOUS
  <2> QED
    BY <2>1 DEF HandedIn
<1> QED
  BY <1>6, <1>7, <1>8

Kept(tickets, group) == Dedupe(tickets, HandedIn(tickets, group))

(* The offers of a card are those that were kept, each at one place.       *)
LEMMA OffersOfKept ==
    ASSUME price \in [Tickets -> Nat], offers \in [Tickets -> Seq(Tickets)],
           NEW tickets \in Seq(Tickets), NEW group \in SUBSET DOMAIN tickets
    PROVE  LET n  == Cardinality(Kept(tickets, group))
               at == ByPrice(tickets, Kept(tickets, group))
           IN  /\ n \in Nat /\ at \in [1..n -> Kept(tickets, group)]
               /\ \A x \in Kept(tickets, group) : \E p \in 1..n : at[p] = x
               /\ \A p, q \in 1..n : p # q => at[p] # at[q]
               /\ OffersOf(tickets, group) = [p \in 1..n |-> Offer(tickets, at[p])]
               /\ OffersOf(tickets, group) \in Seq(Tickets)
               /\ DOMAIN OffersOf(tickets, group) = 1..n
<1> DEFINE kept == Kept(tickets, group)
           Costs(x) == price[Offer(tickets, x)]
           before == [x \in kept |->
               {y \in kept : \/ Costs(y) < Costs(x)
                             \/ Costs(y) = Costs(x) /\ Earlier(y, x)}]
           n == Cardinality(kept)
           at == ByPrice(tickets, kept)
<1>1. IsFiniteSet(kept)
  <2>1. kept \in SUBSET HandedIn(tickets, group)
    BY DEF Kept, Dedupe
  <2> QED
    BY <2>1, HandedInFacts, FS_Subset
<1>2. ASSUME NEW x \in kept
      PROVE  /\ x[1] \in Nat /\ x[2] \in Nat /\ x = <<x[1], x[2]>>
             /\ Offer(tickets, x) \in Tickets /\ Costs(x) \in Nat
  <2>1. x \in HandedIn(tickets, group)
    BY DEF Kept, Dedupe
  <2>2. /\ x[1] \in Nat /\ x[2] \in Nat /\ x = <<x[1], x[2]>>
        /\ Offer(tickets, x) \in Tickets
    BY <2>1, HandedInFacts
  <2> QED
    BY <2>2
<1>3. Ordering(before, kept)
  <2> HIDE DEF kept, Costs
  <2>1. before \in [kept -> SUBSET kept]
    OBVIOUS
  <2>2. \A x \in kept : x \notin before[x]
    BY <1>2 DEF Earlier
  <2>3. \A x, y \in kept : x # y => x \in before[y] \/ y \in before[x]
    <3> SUFFICES ASSUME NEW x \in kept, NEW y \in kept, x # y
                 PROVE  x \in before[y] \/ y \in before[x]
      OBVIOUS
    <3>1. x[1] # y[1] \/ x[2] # y[2]
      BY <1>2
    <3>2. Earlier(x, y) \/ Earlier(y, x)
      BY <1>2, <3>1 DEF Earlier
    <3>3. Costs(x) \in Nat /\ Costs(y) \in Nat
      BY <1>2
    <3> QED
      BY <3>2, <3>3
  <2>4. ASSUME NEW x \in kept, NEW y \in kept, x \in before[y], NEW z \in before[x]
        PROVE  z \in before[y]
    <3>1. z \in kept
      OBVIOUS
    <3>2. /\ Costs(x) \in Nat /\ Costs(y) \in Nat /\ Costs(z) \in Nat
          /\ x[1] \in Nat /\ x[2] \in Nat /\ y[1] \in Nat /\ y[2] \in Nat
          /\ z[1] \in Nat /\ z[2] \in Nat
      BY <1>2, <3>1
    <3>3. Earlier(z, x) /\ Earlier(x, y) => Earlier(z, y)
      BY <3>2 DEF Earlier
    <3> QED
      BY <2>4, <3>1, <3>2, <3>3
  <2> QED
    BY <1>1, <2>1, <2>2, <2>3, <2>4 DEF Ordering
<1>4. at = Arranged(before)
  BY DEF ByPrice
<1>5. /\ n \in Nat /\ at \in [1..n -> kept]
      /\ \A x \in kept : \E p \in 1..n : at[p] = x
      /\ \A p, q \in 1..n : p < q => at[p] \in before[at[q]]
  <2> HIDE DEF kept, before, at
  <2> QED
    BY <1>3, <1>4, ArrangedInOrder
<1>6. ASSUME NEW p \in 1..n, NEW q \in 1..n, p # q
      PROVE  at[p] # at[q]
  <2>1. at[p] \in kept /\ at[q] \in kept
    BY <1>5
  <2>2. at[p] \notin before[at[p]]
    BY <1>3, <2>1 DEF Ordering
  <2>3. CASE p < q
    BY <1>5, <2>2, <2>3
  <2>4. CASE q < p
    BY <1>5, <2>2, <2>4
  <2>5. p \in Int /\ q \in Int
    BY <1>5
  <2> QED
    BY <1>6, <2>3, <2>4, <2>5
<1>7. OffersOf(tickets, group) = [p \in 1..n |-> Offer(tickets, at[p])]
  BY DEF OffersOf, Kept
<1>8. \A p \in 1..n : Offer(tickets, at[p]) \in Tickets
  BY <1>2, <1>5
<1>9. OffersOf(tickets, group) \in [1..n -> Tickets]
  <2> HIDE DEF n, at
  <2> QED
    BY <1>7, <1>8
<1>10. OffersOf(tickets, group) \in Seq(Tickets) /\ DOMAIN OffersOf(tickets, group) = 1..n
  <2> HIDE DEF n
  <2> QED
    BY <1>5, <1>9
<1> QED
  BY <1>5, <1>6, <1>7, <1>10

-----------------------------------------------------------------------------
(* out is what list has at some places, each taken once.                   *)
Takes(out, at, list, places) ==
    /\ at \in [DOMAIN out -> places]
    /\ \A i \in places : \E p \in DOMAIN out : at[p] = i
    /\ \A p, q \in DOMAIN out : p # q => at[p] # at[q]
    /\ \A p \in DOMAIN out : out[p] = list[at[p]]

LEMMA StableSortTakes ==
    ASSUME NEW T, NEW list \in Seq(T), NEW places \in SUBSET DOMAIN list,
           NEW key, \A i \in places : key[i] \in Int
    PROVE  /\ Takes(StableSort(list, places, key), ByKey(places, key), list, places)
           /\ StableSort(list, places, key) \in Seq(T)
           /\ Len(StableSort(list, places, key)) = Cardinality(places)
           /\ Cardinality(places) \in Nat
<1> DEFINE out == StableSort(list, places, key)
           at  == ByKey(places, key)
           n   == Cardinality(places)
<1>1. IsFiniteSet(places) /\ places \in SUBSET Int /\ \A i \in places : list[i] \in T
  <2>1. IsFiniteSet(1..Len(list)) /\ places \in SUBSET (1..Len(list))
    BY IntervalSize
  <2> QED
    BY <2>1, FS_Subset
<1>2. SortsBy(at, places, key)
  BY <1>1, ByKeySorts
<1>3. out \in Seq(T) /\ Len(out) = n /\ DOMAIN out = 1..n
  BY <1>1, StableSortSeq
<1>4. n \in Nat /\ at \in [1..n -> places] /\ \A i \in places : \E p \in 1..n : at[p] = i
  BY <1>2 DEF SortsBy
<1>5. \A p, q \in 1..n : p # q => at[p] # at[q]
  <2> HIDE DEF at
  <2> QED
    BY <1>1, <1>2, SortsApart
<1>6. \A p \in 1..n : out[p] = list[at[p]]
  BY DEF StableSort
<1>7. Takes(out, at, list, places)
  <2> HIDE DEF out, at, n
  <2> QED
    BY <1>3, <1>4, <1>5, <1>6 DEF Takes
<1> QED
  BY <1>3, <1>4, <1>7

(* Taking from what was taken.                                             *)
LEMMA TakesTwice ==
    ASSUME NEW out, NEW mid, NEW list, NEW places, NEW at, NEW bt,
           Takes(out, at, mid, DOMAIN mid), Takes(mid, bt, list, places)
    PROVE  Takes(out, [p \in DOMAIN out |-> bt[at[p]]], list, places)
<1> DEFINE ct == [p \in DOMAIN out |-> bt[at[p]]]
<1>1. ct \in [DOMAIN out -> places]
  BY DEF Takes
<1>2. ASSUME NEW i \in places
      PROVE  \E p \in DOMAIN out : ct[p] = i
  <2>1. PICK q \in DOMAIN mid : bt[q] = i
    BY DEF Takes
  <2>2. PICK p \in DOMAIN out : at[p] = q
    BY DEF Takes
  <2> QED
    BY <2>1, <2>2
<1>3. ASSUME NEW p \in DOMAIN out, NEW q \in DOMAIN out, p # q
      PROVE  ct[p] # ct[q]
  <2>1. at[p] \in DOMAIN mid /\ at[q] \in DOMAIN mid /\ at[p] # at[q]
    BY <1>3 DEF Takes
  <2> QED
    BY <2>1 DEF Takes
<1>4. ASSUME NEW p \in DOMAIN out
      PROVE  out[p] = list[ct[p]]
  BY DEF Takes
<1> QED
  BY <1>1, <1>2, <1>3, <1>4 DEF Takes

LEMMA SelectedTakes ==
    ASSUME NEW T, NEW list \in Seq(T), NEW places \in SUBSET DOMAIN list
    PROVE  /\ Selected(list, places) \in Seq(T)
           /\ \E at : Takes(Selected(list, places), at, list, places)
<1>1. \A i \in places : [k \in places |-> 0][i] \in Int
  OBVIOUS
<1> QED
  BY <1>1, StableSortTakes DEF Selected

LEMMA SortedTakes ==
    ASSUME price \in [Tickets -> Nat], NEW list \in Seq(Tickets), NEW descending
    PROVE  /\ Sorted(list, descending) \in Seq(Tickets)
           /\ Len(Sorted(list, descending)) = Len(list)
           /\ \E at : Takes(Sorted(list, descending), at, list, DOMAIN list)
<1> DEFINE key == [i \in DOMAIN list |-> IF descending THEN -price[list[i]] ELSE price[list[i]]]
<1>1. \A i \in DOMAIN list : key[i] \in Int
  <2>1. \A i \in DOMAIN list : price[list[i]] \in Nat
    OBVIOUS
  <2> QED
    BY <2>1
<1>2. Cardinality(DOMAIN list) = Len(list)
  BY IntervalSize
<1>3. Sorted(list, descending) = StableSort(list, DOMAIN list, key)
  BY DEF Sorted
<1> HIDE DEF key
<1>4. /\ Takes(StableSort(list, DOMAIN list, key), ByKey(DOMAIN list, key), list, DOMAIN list)
      /\ StableSort(list, DOMAIN list, key) \in Seq(Tickets)
      /\ Len(StableSort(list, DOMAIN list, key)) = Cardinality(DOMAIN list)
  BY <1>1, StableSortTakes
<1> QED
  BY <1>2, <1>3, <1>4

LEMMA DiversifiedTakes ==
    ASSUME price \in [Tickets -> Nat], NEW list \in Seq(Tickets)
    PROVE  /\ Diversified(list) \in Seq(Tickets)
           /\ Len(Diversified(list)) = Len(list)
           /\ \E at : Takes(Diversified(list), at, list, DOMAIN list)
<1> DEFINE n         == Len(list)
           buckets   == IF n < PriceBuckets THEN n ELSE PriceBuckets
           Bucket(i) == ((i - 1) * buckets) \div n
           Round(i)  == Cardinality({k \in 1..(i - 1) : Bucket(k) = Bucket(i)})
           key       == [i \in 1..n |-> Round(i) * buckets + Bucket(i)]
           mid       == Sorted(list, FALSE)
<1>1. n \in Nat /\ buckets \in Nat
  BY SizesAssumption
<1>2. ASSUME NEW i \in 1..n
      PROVE  key[i] \in Int
  <2>1. n > 0 /\ (i - 1) * buckets \in Nat
    BY <1>1
  <2>2. Bucket(i) \in Int
    <3> HIDE DEF n, buckets
    <3> QED
      BY <1>1, <2>1
  <2>3. IsFiniteSet(1..(i - 1))
    BY <1>1, IntervalSize
  <2>4. {k \in 1..(i - 1) : Bucket(k) = Bucket(i)} \in SUBSET (1..(i - 1))
    OBVIOUS
  <2>5. Round(i) \in Nat
    <3> HIDE DEF Bucket
    <3> QED
      BY <2>3, <2>4, FS_Subset, FS_CardinalityType
  <2>6. Round(i) * buckets \in Int
    <3> HIDE DEF Round, buckets
    <3> QED
      BY <1>1, <2>5
  <2> HIDE DEF Round, Bucket, buckets
  <2> QED
    BY <2>2, <2>6
<1>3. mid \in Seq(Tickets) /\ Len(mid) = n /\ DOMAIN mid = 1..n
  <2>1. mid \in Seq(Tickets) /\ Len(mid) = n
    BY SortedTakes
  <2> HIDE DEF mid
  <2> QED
    BY <2>1
<1>4. PICK bt : Takes(mid, bt, list, DOMAIN list)
  BY SortedTakes
<1>5. Diversified(list) = StableSort(mid, 1..n, key)
  BY DEF Diversified
<1> HIDE DEF key, mid
<1>6. /\ Takes(StableSort(mid, 1..n, key), ByKey(1..n, key), mid, 1..n)
      /\ StableSort(mid, 1..n, key) \in Seq(Tickets)
      /\ Len(StableSort(mid, 1..n, key)) = Cardinality(1..n)
  BY <1>2, <1>3, StableSortTakes
<1>7. Cardinality(1..n) = n
  BY <1>1, IntervalSize
<1>8. Takes(Diversified(list), ByKey(1..n, key), mid, DOMAIN mid)
  BY <1>3, <1>5, <1>6
<1>9. \E at : Takes(Diversified(list), at, list, DOMAIN list)
  BY <1>4, <1>8, TakesTwice
<1> QED
  BY <1>5, <1>6, <1>7, <1>9

LEMMA InterleavedTakes ==
    ASSUME NEW marked \in Seq(Tickets), NEW normal \in Seq(Tickets)
    PROVE  LET n  == Len(marked) + Len(normal)
               at == ByKey(1..n, Turn(marked, normal))
           IN  /\ Interleaved(marked, normal) \in Seq(Tickets)
               /\ Len(Interleaved(marked, normal)) = n /\ n \in Nat
               /\ SortsBy(at, 1..n, Turn(marked, normal)) /\ Cardinality(1..n) = n
               /\ Takes(Interleaved(marked, normal), at, marked \o normal, 1..n)
<1> DEFINE n    == Len(marked) + Len(normal)
           both == marked \o normal
           key  == Turn(marked, normal)
<1>1. n \in Nat /\ both \in Seq(Tickets) /\ Len(both) = n /\ DOMAIN both = 1..n
  OBVIOUS
<1>2. ASSUME NEW i \in 1..n
      PROVE  key[i] \in Int
  <2>1. NormalPerRecommended \in Nat
    BY SizesAssumption
  <2>2. Len(marked) \in Nat /\ Len(normal) \in Nat /\ i \in Nat
    BY <1>1
  <2>3. (i - 1) * NormalPerRecommended \in Int /\ 2 * (i - 1) * NormalPerRecommended \in Int
    BY <2>1, <2>2
  <2> QED
    BY <2>2, <2>3 DEF Turn
<1>3. Interleaved(marked, normal) = StableSort(both, 1..n, key)
  BY DEF Interleaved
<1>4. IsFiniteSet(1..n) /\ Cardinality(1..n) = n
  BY <1>1, IntervalSize
<1>5. SortsBy(ByKey(1..n, key), 1..n, key)
  <2>1. 1..n \in SUBSET Int
    BY <1>1
  <2> HIDE DEF key, n
  <2> QED
    BY <1>2, <1>4, <2>1, ByKeySorts
<1> HIDE DEF key, both, n
<1>6. /\ Takes(StableSort(both, 1..n, key), ByKey(1..n, key), both, 1..n)
      /\ StableSort(both, 1..n, key) \in Seq(Tickets)
      /\ Len(StableSort(both, 1..n, key)) = Cardinality(1..n)
  BY <1>1, <1>2, StableSortTakes
<1> QED
  BY <1>1, <1>3, <1>4, <1>5, <1>6 DEF key, both, n

-----------------------------------------------------------------------------
LEMMA GroupIn ==
    ASSUME NEW tickets \in Seq(Tickets), NEW merge
    PROVE  /\ \A t : Group(tickets, t, merge) \in SUBSET DOMAIN tickets
           /\ \A i \in DOMAIN tickets : i \in Group(tickets, tickets[i], merge)
           /\ \A t, u : GroupKey(t, merge) = GroupKey(u, merge) =>
                 Group(tickets, t, merge) = Group(tickets, u, merge)
           /\ \A t : \A i \in Group(tickets, t, merge) :
                 GroupKey(tickets[i], merge) = GroupKey(t, merge)
BY DEF Group

(* t is what the list shows of its group.                                  *)
IsCard(t, tickets, merge) ==
    /\ t \in Tickets /\ Group(tickets, t, merge) # {}
    /\ tickets[Winner(tickets, Group(tickets, t, merge))] = t

(* One card for each group.                                                *)
OnePerGroup(list, tickets, merge) ==
    /\ \A p \in DOMAIN list : IsCard(list[p], tickets, merge)
    /\ \A p, q \in DOMAIN list :
          p # q => GroupKey(list[p], merge) # GroupKey(list[q], merge)
    /\ \A i \in DOMAIN tickets : \E p \in DOMAIN list :
          GroupKey(list[p], merge) = GroupKey(tickets[i], merge)

LEMMA CardsOnePerGroup ==
    ASSUME price \in [Tickets -> Nat], NEW tickets \in Seq(Tickets), NEW merge
    PROVE  Cards(tickets, merge) \in Seq(Tickets) /\ OnePerGroup(Cards(tickets, merge), tickets, merge)
<1> DEFINE G(i) == Group(tickets, tickets[i], merge)
           best == [i \in DOMAIN tickets |-> tickets[Winner(tickets, G(i))]]
           firsts == {i \in DOMAIN tickets : \A k \in G(i) : i <= k}
           all == Cards(tickets, merge)
           Key(t) == GroupKey(t, merge)
<1>1. ASSUME NEW i \in DOMAIN tickets
      PROVE  /\ i \in G(i) /\ G(i) \in SUBSET DOMAIN tickets
             /\ best[i] \in Tickets /\ Key(best[i]) = Key(tickets[i])
             /\ Group(tickets, best[i], merge) = G(i)
             /\ IsCard(best[i], tickets, merge)
  <2>1. i \in G(i) /\ G(i) \in SUBSET DOMAIN tickets
    BY GroupIn
  <2>2. Winner(tickets, G(i)) \in G(i)
    <3> HIDE DEF G
    <3> QED
      BY <2>1, WinnerWins
  <2>3. best[i] = tickets[Winner(tickets, G(i))]
    OBVIOUS
  <2>4. Key(best[i]) = Key(tickets[i])
    BY <2>2, <2>3, GroupIn
  <2>5. Group(tickets, best[i], merge) = G(i)
    BY <2>4, GroupIn
  <2>6. best[i] \in Tickets
    BY <2>1, <2>2, <2>3
  <2>7. IsCard(best[i], tickets, merge)
    <3> HIDE DEF G, best
    <3> QED
      BY <2>1, <2>3, <2>5, <2>6 DEF IsCard
  <2> QED
    BY <2>1, <2>4, <2>5, <2>6, <2>7
<1>2. best \in Seq(Tickets) /\ DOMAIN best = DOMAIN tickets
  <2>1. best \in [1..Len(tickets) -> Tickets]
    BY <1>1
  <2> HIDE DEF best
  <2> QED
    BY <2>1
<1>3. firsts \in SUBSET DOMAIN best
  BY <1>2
<1>4. all = Selected(best, firsts)
  BY DEF Cards
<1>5. all \in Seq(Tickets)
  <2> HIDE DEF best, firsts, all
  <2> QED
    BY <1>2, <1>3, <1>4, SelectedTakes
<1>6. PICK at : Takes(all, at, best, firsts)
  <2> HIDE DEF best, firsts, all
  <2> QED
    BY <1>2, <1>3, <1>4, SelectedTakes
<1>7. ASSUME NEW p \in DOMAIN all
      PROVE  at[p] \in firsts /\ at[p] \in DOMAIN tickets /\ all[p] = best[at[p]]
  BY <1>6 DEF Takes
<1>8. ASSUME NEW p \in DOMAIN all
      PROVE  IsCard(all[p], tickets, merge)
  <2> HIDE DEF best, firsts, all
  <2> QED
    BY <1>1, <1>7
<1>9. ASSUME NEW p \in DOMAIN all, NEW q \in DOMAIN all, p # q
      PROVE  Key(all[p]) # Key(all[q])
  <2>1. at[p] # at[q]
    BY <1>6, <1>9 DEF Takes
  <2>2. /\ at[p] \in DOMAIN tickets /\ \A k \in G(at[p]) : at[p] <= k
        /\ at[q] \in DOMAIN tickets /\ \A k \in G(at[q]) : at[q] <= k
    BY <1>7
  <2>3. Key(all[p]) = Key(tickets[at[p]]) /\ Key(all[q]) = Key(tickets[at[q]])
    <3> HIDE DEF best, firsts, all
    <3> QED
      BY <1>1, <1>7
  <2>4. CASE Key(all[p]) = Key(all[q])
    <3>1. G(at[p]) = G(at[q])
      BY <2>3, <2>4, GroupIn
    <3>2. at[p] \in G(at[p]) /\ at[q] \in G(at[q])
      BY <1>1, <2>2
    <3>3. at[p] <= at[q] /\ at[q] <= at[p]
      BY <2>2, <3>1, <3>2
    <3>4. at[p] \in Nat /\ at[q] \in Nat
      BY <2>2
    <3> QED
      BY <2>1, <3>3, <3>4
  <2> QED
    BY <2>4
<1>10. ASSUME NEW i \in DOMAIN tickets
       PROVE  \E p \in DOMAIN all : Key(all[p]) = Key(tickets[i])
  <2>1. G(i) \in SUBSET Nat /\ G(i) # {}
    BY <1>1
  <2>2. PICK f \in G(i) : \A k \in G(i) : f <= k
    <3> HIDE DEF G
    <3> QED
      BY <2>1, LeastOf
  <2>3. f \in DOMAIN tickets /\ Key(tickets[f]) = Key(tickets[i])
    BY <1>1, <2>2, GroupIn
  <2>4. G(f) = G(i)
    BY <2>3, GroupIn
  <2>5. f \in firsts
    BY <2>2, <2>3, <2>4
  <2>6. PICK p \in DOMAIN all : at[p] = f
    BY <1>6, <2>5 DEF Takes
  <2>7. Key(all[p]) = Key(tickets[f])
    <3> HIDE DEF best, firsts, all
    <3> QED
      BY <1>1, <1>7, <2>3, <2>6
  <2> QED
    BY <2>3, <2>7
<1> QED
  BY <1>5, <1>8, <1>9, <1>10 DEF OnePerGroup

-----------------------------------------------------------------------------
(* An offer that may stand in a card.                                      *)
Fits(o, t, merge) ==
    /\ GroupKey(o, merge) = GroupKey(t, merge)
    /\ price[o] > 0 => price[t] > 0 /\ price[t] <= price[o]

(* Whatever a ticket carries fits it, whether or not it is shown.          *)
OffersFit ==
    \A t \in Tickets : \A k \in DOMAIN offers[t] : Fits(offers[t][k], t, across)

(* Each offer of a group is an offer of a ticket of the group.             *)
LEMMA OffersComeFrom ==
    ASSUME price \in [Tickets -> Nat], offers \in [Tickets -> Seq(Tickets)],
           NEW tickets \in Seq(Tickets), NEW group \in SUBSET DOMAIN tickets,
           NEW p \in DOMAIN OffersOf(tickets, group)
    PROVE  \E i \in group : \E k \in DOMAIN Existing(tickets[i]) :
              OffersOf(tickets, group)[p] = Existing(tickets[i])[k]
<1> DEFINE n  == Cardinality(Kept(tickets, group))
           at == ByPrice(tickets, Kept(tickets, group))
<1>1. /\ at \in [1..n -> Kept(tickets, group)] /\ DOMAIN OffersOf(tickets, group) = 1..n
      /\ OffersOf(tickets, group) = [q \in 1..n |-> Offer(tickets, at[q])]
  BY OffersOfKept
<1>2. at[p] \in Kept(tickets, group) /\ OffersOf(tickets, group)[p] = Offer(tickets, at[p])
  BY <1>1
<1>3. at[p] \in HandedIn(tickets, group)
  BY <1>2 DEF Kept, Dedupe
<1>4. at[p][1] \in group /\ at[p][2] \in DOMAIN Existing(tickets[at[p][1]])
  BY <1>3, HandedInFacts
<1> QED
  BY <1>2, <1>4 DEF Offer

LEMMA GroupedFit ==
    ASSUME price \in [Tickets -> Nat], offers \in [Tickets -> Seq(Tickets)],
           NEW tickets \in Seq(Tickets), OffersFit
    PROVE  /\ GroupedOffers(tickets, across) \in [Tickets -> Seq(Tickets)]
           /\ \A t \in Tickets : \A p \in DOMAIN GroupedOffers(tickets, across)[t] :
                 Fits(GroupedOffers(tickets, across)[t][p], t, across)
<1> DEFINE new == GroupedOffers(tickets, across)
           G(t) == Group(tickets, t, across)
<1>1. ASSUME NEW t \in Tickets
      PROVE  new[t] = IF IsCard(t, tickets, across) THEN OffersOf(tickets, G(t)) ELSE offers[t]
  BY DEF GroupedOffers, IsCard
<1>2. ASSUME NEW t \in Tickets
      PROVE  new[t] \in Seq(Tickets)
  <2>1. G(t) \in SUBSET DOMAIN tickets
    BY GroupIn
  <2>2. OffersOf(tickets, G(t)) \in Seq(Tickets)
    BY <2>1, OffersOfKept
  <2> QED
    BY <1>1, <2>2
<1>3. ASSUME NEW t \in Tickets, NEW p \in DOMAIN new[t]
      PROVE  Fits(new[t][p], t, across)
  <2>1. CASE ~IsCard(t, tickets, across)
    BY <1>1, <2>1 DEF OffersFit
  <2>2. CASE IsCard(t, tickets, across)
    <3>1. new[t] = OffersOf(tickets, G(t)) /\ G(t) \in SUBSET DOMAIN tickets
      BY <1>1, <2>2, GroupIn
    <3>a. PICK i \in G(t) : \E k \in DOMAIN Existing(tickets[i]) :
                               new[t][p] = Existing(tickets[i])[k]
      <4>1. p \in DOMAIN OffersOf(tickets, G(t))
        BY <3>1
      <4> HIDE DEF new, G
      <4>2. \E i \in G(t) : \E k \in DOMAIN Existing(tickets[i]) :
               OffersOf(tickets, G(t))[p] = Existing(tickets[i])[k]
        BY <3>1, <4>1, OffersComeFrom
      <4> QED
        BY <3>1, <4>2
    <3>2. PICK k \in DOMAIN Existing(tickets[i]) : new[t][p] = Existing(tickets[i])[k]
      BY <3>a
    <3> DEFINE o == new[t][p]
               u == tickets[i]
    <3>3. u \in Tickets /\ GroupKey(u, across) = GroupKey(t, across)
      <4>1. i \in DOMAIN tickets
        BY <3>1
      <4>2. GroupKey(u, across) = GroupKey(t, across)
        BY GroupIn
      <4> QED
        BY <4>1, <4>2
    <3>4. o \in Tickets /\ GroupKey(o, across) = GroupKey(u, across)
          /\ (price[o] > 0 => price[u] > 0 /\ price[u] <= price[o])
      <4>1. CASE offers[u] = <<>>
        <5>1. o = u
          BY <3>2, <4>1 DEF Existing
        <5> QED
          BY <3>3, <5>1
      <4>2. CASE offers[u] # <<>>
        <5>1. k \in DOMAIN offers[u] /\ o = offers[u][k]
          BY <3>2, <4>2 DEF Existing
        <5>2. offers[u] \in Seq(Tickets)
          BY <3>3
        <5>3. o \in Tickets
          BY <5>1, <5>2
        <5> QED
          BY <3>3, <5>1, <5>3 DEF OffersFit, Fits
      <4> QED
        BY <4>1, <4>2
    <3>5. price[u] > 0 => price[t] > 0 /\ price[t] <= price[u]
      <4>1. t = tickets[Winner(tickets, G(t))]
        BY <2>2 DEF IsCard
      <4> QED
        BY <3>1, <4>1, WinnerIsCheapest
    <3>6. price[o] \in Nat /\ price[u] \in Nat /\ price[t] \in Nat
      BY <3>3, <3>4
    <3> HIDE DEF o, u
    <3>7. Fits(o, t, across)
      BY <3>3, <3>4, <3>5, <3>6 DEF Fits
    <3> QED
      BY <3>7 DEF o
  <2> QED
    BY <2>1, <2>2
<1>4. new \in [Tickets -> Seq(Tickets)]
  <2>1. new = [t \in Tickets |-> new[t]]
    BY DEF GroupedOffers
  <2> HIDE DEF new
  <2> QED
    BY <1>2, <2>1
<1> QED
  BY <1>3, <1>4

-----------------------------------------------------------------------------
LEMMA RangeIsFinite ==
    ASSUME NEW T, NEW list \in Seq(T)
    PROVE  IsFiniteSet({list[i] : i \in DOMAIN list})
<1> DEFINE range == {list[i] : i \in DOMAIN list}
<1>1. list \in Surjection(1..Len(list), range)
  BY DEF Surjection
<1>2. IsFiniteSet(1..Len(list))
  BY IntervalSize
<1> QED
  BY <1>1, <1>2, FS_Surjection

(* The sequences of a finite set have each element at one place.           *)
LEMMA SeqsOfSet ==
    ASSUME NEW S, IsFiniteSet(S), NEW s \in SetToSeqs(S)
    PROVE  /\ s \in Seq(S) /\ DOMAIN s = 1..Len(s) /\ Len(s) = Cardinality(S)
           /\ \A i, k \in DOMAIN s : i # k => s[i] # s[k]
           /\ \A x \in S : \E i \in DOMAIN s : s[i] = x
<1> DEFINE n == Cardinality(S)
<1>1. n \in Nat
  BY FS_CardinalityType
<1>2. s \in [1..n -> S] /\ \A i, k \in 1..n : i # k => s[i] # s[k]
  BY DEF SetToSeqs
<1>3. s \in Injection(1..n, S)
  BY <1>2 DEF Injection, IsInjective
<1>4. IsFiniteSet(1..n) /\ Cardinality(1..n) = n
  BY <1>1, IntervalSize
<1>5. s \in Surjection(1..n, S)
  BY <1>3, <1>4, FS_Injection
<1>6. \A x \in S : \E i \in 1..n : s[i] = x
  BY <1>5 DEF Surjection
<1> HIDE DEF n
<1>7. s \in Seq(S) /\ DOMAIN s = 1..n /\ Len(s) = n
  BY <1>1, <1>2
<1> QED
  BY <1>2, <1>6, <1>7 DEF n

(* The best offers of recommended hotels: no two of a hotel.               *)
LEMMA BestOfHotels ==
    ASSUME price \in [Tickets -> Nat], NEW list \in Seq(Tickets)
    PROVE  LET best == CheapestPerRecommended(list)
           IN  /\ best \in SUBSET Tickets /\ IsFiniteSet(best)
               /\ \A x \in best : IsRecommended(x) /\ \E i \in DOMAIN list : list[i] = x
               /\ \A x, y \in best : DbHotel[x] = DbHotel[y] => x = y
<1> DEFINE best == CheapestPerRecommended(list)
           range == {list[i] : i \in DOMAIN list}
<1>1. ASSUME NEW x \in best
      PROVE  \E i \in DOMAIN list :
                /\ x = list[i] /\ IsRecommended(x)
                /\ \A k \in DOMAIN list : DbHotel[list[k]] = DbHotel[x] =>
                      price[x] < price[list[k]] \/ (price[x] = price[list[k]] /\ i <= k)
  BY DEF CheapestPerRecommended
<1>2. best \in SUBSET range
  BY <1>1
<1>3. IsFiniteSet(best)
  <2>1. IsFiniteSet(range)
    BY RangeIsFinite
  <2> HIDE DEF best, range
  <2> QED
    BY <1>2, <2>1, FS_Subset
<1>4. ASSUME NEW x \in best, NEW y \in best, DbHotel[x] = DbHotel[y]
      PROVE  x = y
  <2>1. PICK i \in DOMAIN list :
                /\ x = list[i]
                /\ \A k \in DOMAIN list : DbHotel[list[k]] = DbHotel[x] =>
                      price[x] < price[list[k]] \/ (price[x] = price[list[k]] /\ i <= k)
    BY <1>1
  <2>2. PICK k \in DOMAIN list :
                /\ y = list[k]
                /\ \A m \in DOMAIN list : DbHotel[list[m]] = DbHotel[y] =>
                      price[y] < price[list[m]] \/ (price[y] = price[list[m]] /\ k <= m)
    BY <1>1
  <2>3. price[x] < price[y] \/ (price[x] = price[y] /\ i <= k)
    BY <1>4, <2>1, <2>2
  <2>4. price[y] < price[x] \/ (price[y] = price[x] /\ k <= i)
    BY <1>4, <2>1, <2>2
  <2>5. i \in Nat /\ k \in Nat /\ x \in Tickets /\ y \in Tickets
    BY <2>1, <2>2
  <2>6. price[x] \in Nat /\ price[y] \in Nat
    BY <2>5
  <2>7. i = k
    BY <2>3, <2>4, <2>5, <2>6
  <2> QED
    BY <2>1, <2>2, <2>7
<1>5. best \in SUBSET Tickets /\ \A x \in best : IsRecommended(x) /\ \E i \in DOMAIN list : list[i] = x
  BY <1>1
<1> QED
  BY <1>3, <1>4, <1>5

-----------------------------------------------------------------------------
LEMMA TimesGrows ==
    ASSUME NEW x \in Int, NEW y \in Int, NEW n \in Nat, x <= y
    PROVE  x * n \in Int /\ y * n \in Int /\ x * n <= y * n
<1>1. (y - x) * n >= 0
  OBVIOUS
<1> QED
  BY <1>1

(* As many places as a run is long lie between others that surround it.    *)
LEMMA RunFits ==
    ASSUME NEW i \in Int, NEW k \in Int, NEW n \in Nat, NEW pos,
           \A j \in 1..n : pos[j] \in Int /\ i < pos[j] /\ pos[j] < k,
           \A j, l \in 1..n : j # l => pos[j] # pos[l], n > 0
    PROVE  i + n < k
<1> DEFINE f == [j \in 1..n |-> pos[j]]
           T == (i + 1)..(k - 1)
<1>1. f \in [1..n -> T]
  OBVIOUS
<1>2. f \in Injection(1..n, T)
  BY <1>1 DEF Injection, IsInjective
<1>3. IsFiniteSet(T) /\ Cardinality(T) = IF i + 1 > k - 1 THEN 0 ELSE (k - 1) - (i + 1) + 1
  BY FS_Interval
<1>4. Cardinality(1..n) <= Cardinality(T) /\ Cardinality(1..n) = n
  BY <1>2, <1>3, FS_Injection, IntervalSize
<1> QED
  BY <1>3, <1>4

(* Mixing cards with badges into others keeps them apart.                  *)
LEMMA MixedApart ==
    ASSUME NEW marked \in Seq(Tickets), NEW normal \in Seq(Tickets), NEW best,
           \A i \in DOMAIN marked : marked[i] \in best,
           \A i, k \in DOMAIN marked : i # k => DbHotel[marked[i]] # DbHotel[marked[k]],
           \A j \in DOMAIN normal : normal[j] \notin best,
           \A i \in DOMAIN marked : \A j \in DOMAIN normal : DbHotel[marked[i]] # DbHotel[normal[j]],
           NEW i \in DOMAIN Interleaved(marked, normal), Interleaved(marked, normal)[i] \in best
    PROVE  LET out  == Interleaved(marked, normal)
               next == (i + 1)..(i + NormalPerRecommended)
           IN  /\ \/ next \subseteq DOMAIN out /\ \A k \in next : out[k] \notin best
                  \/ \A k \in DOMAIN out : k > i => out[k] \in best
               /\ \A k \in DOMAIN out \ {i} : DbHotel[out[k]] # DbHotel[out[i]]
<1> DEFINE a    == Len(marked)
           b    == Len(normal)
           n    == a + b
           N    == NormalPerRecommended
           out  == Interleaved(marked, normal)
           turn == Turn(marked, normal)
           at   == ByKey(1..n, turn)
           next == (i + 1)..(i + N)
<1>0. a \in Nat /\ b \in Nat /\ n \in Nat /\ N \in Nat /\ N > 0
  BY SizesAssumption
<1>1. /\ out \in Seq(Tickets) /\ DOMAIN out = 1..n
      /\ at \in [1..n -> 1..n]
      /\ \A m \in 1..n : \E p \in 1..n : at[p] = m
      /\ \A p, q \in 1..n : p # q => at[p] # at[q]
      /\ \A p \in 1..n : out[p] = (marked \o normal)[at[p]]
      /\ \A p, q \in 1..n : p < q =>
            turn[at[p]] < turn[at[q]] \/ (turn[at[p]] = turn[at[q]] /\ at[p] < at[q])
  <2>1. /\ out \in Seq(Tickets) /\ Len(out) = n
        /\ SortsBy(at, 1..n, turn) /\ Cardinality(1..n) = n
        /\ Takes(out, at, marked \o normal, 1..n)
    BY InterleavedTakes
  <2>2. DOMAIN out = 1..n
    <3> HIDE DEF out, n
    <3> QED
      BY <2>1
  <2> HIDE DEF out, n, at, turn
  <2> QED
    BY <2>1, <2>2 DEF Takes, SortsBy
<1>2. \A m \in 1..n : (marked \o normal)[m] = IF m <= a THEN marked[m] ELSE normal[m - a]
  OBVIOUS
<1>3. ASSUME NEW p \in 1..n
      PROVE  /\ at[p] \in 1..n
             /\ at[p] <= a <=> out[p] \in best
             /\ at[p] <= a => at[p] \in DOMAIN marked /\ out[p] = marked[at[p]]
             /\ at[p] > a => at[p] - a \in DOMAIN normal /\ out[p] = normal[at[p] - a]
  <2>1. at[p] \in 1..n
    BY <1>1
  <2> HIDE DEF out, at
  <2> QED
    BY <1>0, <1>1, <1>2, <2>1
<1>4. \A m \in 1..n :
        /\ m > a => turn[m] = 2 * (m - a)
        /\ m <= a /\ m * N <= b => turn[m] = 2 * (m - 1) * N + 1
        /\ m <= a /\ m * N > b => turn[m] = 2 * b + 1
  <2> SUFFICES ASSUME NEW m \in 1..n
               PROVE  /\ m > a => turn[m] = 2 * (m - a)
                      /\ m <= a /\ m * N <= b => turn[m] = 2 * (m - 1) * N + 1
                      /\ m <= a /\ m * N > b => turn[m] = 2 * b + 1
    OBVIOUS
  <2>1. turn[m] = IF m > a THEN 2 * (m - a)
                  ELSE IF m * N <= b THEN 2 * (m - 1) * N + 1 ELSE 2 * b + 1
    BY DEF Turn
  <2>2. m \in Int /\ m * N \in Int
    BY <1>0
  <2> HIDE DEF turn, a, b, N
  <2> QED
    BY <1>0, <2>1, <2>2
<1> HIDE DEF turn, at, out
<1>o. ASSUME NEW p \in 1..n, NEW q \in 1..n, p < q
      PROVE  turn[at[p]] < turn[at[q]] \/ turn[at[p]] = turn[at[q]]
  BY <1>1, <1>o
<1> DEFINE r == at[i]
<1>5. i \in 1..n /\ r \in 1..n /\ r <= a
  BY <1>1, <1>3 DEF out
<1>6. \A k \in DOMAIN out \ {i} : DbHotel[out[k]] # DbHotel[out[i]]
  <2> SUFFICES ASSUME NEW k \in 1..n, k # i
               PROVE  DbHotel[out[k]] # DbHotel[out[i]]
    BY <1>1
  <2>1. at[k] # at[i] /\ at[k] \in 1..n /\ out[i] = marked[r] /\ r \in DOMAIN marked
    BY <1>1, <1>3, <1>5
  <2>2. CASE at[k] <= a
    BY <1>3, <2>1, <2>2
  <2>3. CASE at[k] > a
    BY <1>3, <2>1, <2>3
  <2>4. at[k] \in Int
    BY <2>1
  <2> QED
    BY <1>0, <2>2, <2>3, <2>4
<1>7. CASE r * N > b
  <2>1. turn[r] = 2 * b + 1
    BY <1>4, <1>5, <1>7
  <2>2. ASSUME NEW k \in 1..n, k > i
        PROVE  out[k] \in best
    <3>1. turn[r] = turn[at[k]] \/ turn[r] < turn[at[k]]
      BY <1>1, <1>5, <2>2
    <3>2. at[k] \in 1..n
      BY <1>3
    <3>3. at[k] > a => turn[at[k]] = 2 * (at[k] - a) /\ at[k] - a <= b
      BY <1>0, <1>4, <3>2
    <3>4. at[k] <= a
      BY <1>0, <2>1, <3>1, <3>2, <3>3
    <3> QED
      BY <1>3, <3>4
  <2> QED
    BY <1>1, <1>6, <2>2 DEF out
<1>8. CASE r * N <= b
  <2> DEFINE m == (r - 1) * N
             run(j) == a + m + j
             pos == [j \in 1..N |-> CHOOSE p \in 1..n : at[p] = run(j)]
  <2>1. m \in Nat /\ r * N = m + N /\ 2 * (r - 1) * N = 2 * m
    <3>1. r \in Int /\ r >= 1 /\ N \in Int /\ N >= 0
      BY <1>0, <1>5
    <3>2. (r - 1) * N \in Int /\ r * N = (r - 1) * N + N /\ 2 * (r - 1) * N = 2 * ((r - 1) * N)
      BY <3>1
    <3>3. (r - 1) * N >= 0
      BY <3>1
    <3> QED
      BY <3>2, <3>3
  <2> HIDE DEF m
  <2>2. turn[r] = 2 * m + 1
    BY <1>4, <1>5, <1>8, <2>1
  <2>3. ASSUME NEW j \in 1..N
        PROVE  /\ run(j) \in 1..n /\ run(j) > a
               /\ turn[run(j)] = 2 * (m + j)
               /\ pos[j] \in 1..n /\ at[pos[j]] = run(j)
    <3>1. run(j) \in 1..n /\ run(j) > a /\ run(j) - a = m + j
      BY <1>0, <1>8, <2>1
    <3>2. turn[run(j)] = 2 * (m + j)
      <4> HIDE DEF run
      <4> QED
        BY <1>4, <3>1
    <3>3. \E p \in 1..n : at[p] = run(j)
      BY <1>1, <3>1
    <3>4. pos[j] \in 1..n /\ at[pos[j]] = run(j)
      <4> HIDE DEF run
      <4> QED
        BY <3>3
    <3> QED
      BY <3>1, <3>2, <3>4
  <2> HIDE DEF pos
  <2>b. ASSUME NEW j \in 1..N
        PROVE  /\ turn[run(j)] = 2 * (m + j) /\ turn[run(j)] \in Int /\ turn[r] \in Int
               /\ turn[r] < turn[run(j)] /\ turn[run(j)] < 2 * (m + N) + 1
    <3>1. turn[run(j)] = 2 * (m + j)
      BY <2>3
    <3>2. j \in Int /\ 1 <= j /\ j <= N
      BY <1>0
    <3> HIDE DEF run, N
    <3> QED
      BY <1>0, <2>1, <2>2, <3>1, <3>2
  <2>4. ASSUME NEW j \in 1..N, NEW l \in 1..N, j # l
        PROVE  pos[j] # pos[l]
    <3>1. run(j) # run(l)
      BY <1>0, <2>1, <2>4
    <3> QED
      BY <2>3, <3>1
  <2>5. ASSUME NEW j \in 1..N
        PROVE  i < pos[j]
    <3>1. turn[r] < turn[run(j)]
      BY <2>b
    <3>2. pos[j] # i
      BY <1>5, <2>3
    <3>3. CASE pos[j] < i
      <4>a. pos[j] \in 1..n /\ at[pos[j]] = run(j)
        BY <2>3
      <4>1. turn[run(j)] < turn[r] \/ turn[run(j)] = turn[r]
        <5>1. turn[at[pos[j]]] < turn[at[i]] \/ turn[at[pos[j]]] = turn[at[i]]
          BY <1>o, <1>5, <3>3, <4>a
        <5> QED
          BY <4>a, <5>1
      <4>2. turn[run(j)] \in Int /\ turn[r] \in Int
        BY <2>b
      <4> QED
        BY <3>1, <4>1, <4>2
    <3>4. pos[j] \in Int /\ i \in Int
      BY <1>0, <1>5, <2>3
    <3> QED
      BY <3>2, <3>3, <3>4
  <2>6. next \subseteq DOMAIN out
    <3>1. \A j \in 1..N : pos[j] \in Int /\ i < pos[j] /\ pos[j] < n + 1
      BY <1>0, <2>3, <2>5
    <3>2. i + N < n + 1
      <4> HIDE DEF n, N
      <4>1. i \in Int /\ n + 1 \in Int
        BY <1>0, <1>5
      <4> QED
        BY <1>0, <2>4, <3>1, <4>1, RunFits
    <3> QED
      BY <1>0, <1>1, <1>5, <3>2
  <2>7. ASSUME NEW k \in next
        PROVE  out[k] \notin best
    <3>0. k \in 1..n /\ i < k /\ k <= i + N
      BY <1>0, <1>1, <1>5, <2>6
    <3>1. CASE out[k] \in best
      <4> DEFINE s == at[k]
      <4>1. s \in 1..n /\ s <= a /\ s # r
        BY <1>1, <1>3, <1>5, <3>0, <3>1
      <4>2. turn[r] < turn[s] \/ (turn[r] = turn[s] /\ r < s)
        BY <1>1, <1>5, <3>0
      <4> HIDE DEF s
      <4>3. CASE s < r
        <5>1. s <= r /\ s - 1 <= r - 1 /\ s \in Int /\ r \in Int
          BY <1>0, <1>5, <4>1, <4>3
        <5>a. s * N <= r * N
          BY <1>0, <5>1, TimesGrows
        <5>b. (s - 1) * N <= (r - 1) * N
          <6>1. s - 1 \in Int /\ r - 1 \in Int
            BY <5>1
          <6> HIDE DEF N
          <6> QED
            BY <1>0, <5>1, <6>1, TimesGrows
        <5>2. s * N <= r * N /\ (s - 1) * N <= (r - 1) * N
          BY <5>a, <5>b
        <5>3. turn[s] = 2 * (s - 1) * N + 1
          BY <1>4, <1>8, <4>1, <5>1, <5>2, <2>1, <1>0, TimesGrows
        <5>4. 2 * (s - 1) * N = 2 * ((s - 1) * N) /\ (s - 1) * N \in Int
          BY <1>0, <5>1
        <5>5. turn[s] <= turn[r] /\ turn[s] \in Int /\ turn[r] \in Int
          BY <2>1, <2>2, <5>2, <5>3, <5>4 DEF m
        <5> QED
          BY <4>2, <4>3, <5>1, <5>5
      <4>4. CASE r < s
        <5>1. s \in Int /\ r \in Int /\ r <= s - 1
          BY <1>0, <1>5, <4>1, <4>4
        <5>2. r * N <= (s - 1) * N /\ (s - 1) * N \in Int /\ s * N \in Int
          BY <1>0, <5>1, TimesGrows
        <5>3. 2 * (s - 1) * N = 2 * ((s - 1) * N)
          BY <1>0, <5>1
        <5>4. turn[s] = 2 * (s - 1) * N + 1 \/ turn[s] = 2 * b + 1
          <6>1. s * N <= b \/ s * N > b
            BY <1>0, <5>2
          <6> HIDE DEF N, n
          <6> QED
            BY <1>4, <4>1, <6>1
        <5>5. turn[s] >= 2 * (m + N) + 1 /\ turn[s] \in Int
          BY <1>0, <1>8, <2>1, <5>2, <5>3, <5>4
        <5>6. ASSUME NEW j \in 1..N
              PROVE  pos[j] < k
          <6>a. turn[run(j)] < 2 * (m + N) + 1 /\ turn[run(j)] \in Int
            BY <2>b
          <6>1. turn[run(j)] < turn[s] /\ turn[run(j)] \in Int
            <7> HIDE DEF run, N
            <7> QED
              BY <1>0, <2>1, <5>5, <6>a
          <6>2. pos[j] \in 1..n /\ at[pos[j]] = run(j)
            BY <2>3
          <6>3. pos[j] # k
            BY <6>1, <6>2 DEF s
          <6>4. CASE k < pos[j]
            <7>1. turn[s] < turn[run(j)] \/ turn[s] = turn[run(j)]
              <8>1. turn[at[k]] < turn[at[pos[j]]] \/ turn[at[k]] = turn[at[pos[j]]]
                BY <1>o, <3>0, <6>2, <6>4
              <8> QED
                BY <6>2, <8>1 DEF s
            <7> QED
              BY <5>5, <6>1, <7>1
          <6>5. pos[j] \in Int /\ k \in Int
            BY <1>0, <3>0, <6>2
          <6> QED
            BY <6>3, <6>4, <6>5
        <5>7. \A j \in 1..N : pos[j] \in Int /\ i < pos[j] /\ pos[j] < k
          BY <1>0, <2>3, <2>5, <5>6
        <5>8. i + N < k
          <6> HIDE DEF n, N
          <6>1. i \in Int /\ k \in Int
            BY <1>0, <1>5, <3>0
          <6> QED
            BY <1>0, <2>4, <5>7, <6>1, RunFits
        <5> QED
          BY <1>0, <1>5, <3>0, <5>8
      <4>5. s \in Int /\ r \in Int
        BY <1>0, <1>5, <4>1
      <4> QED
        BY <4>1, <4>3, <4>4, <4>5
    <3> QED
      BY <3>1
  <2> QED
    BY <1>1, <1>6, <2>6, <2>7 DEF out
<1>9. r * N \in Int
  BY <1>0, <1>5
<1> QED
  BY <1>0, <1>7, <1>8, <1>9

-----------------------------------------------------------------------------
(* Recommended cards in the order of a map, then mixed by price.           *)
LEMMA MixedByPrice ==
    ASSUME price \in [Tickets -> Nat], NEW best \in SUBSET Tickets, IsFiniteSet(best),
           NEW found \in SetToSeqs(best)
    PROVE  LET marked == Diversified(found)
           IN  /\ marked \in Seq(Tickets)
               /\ \A i \in DOMAIN marked : marked[i] \in best
               /\ \A i, k \in DOMAIN marked : i # k => marked[i] # marked[k]
               /\ \A x \in best : \E i \in DOMAIN marked : marked[i] = x
<1> DEFINE marked == Diversified(found)
<1>1. /\ found \in Seq(best)
      /\ \A i, k \in DOMAIN found : i # k => found[i] # found[k]
      /\ \A x \in best : \E i \in DOMAIN found : found[i] = x
  BY SeqsOfSet
<1>2. found \in Seq(Tickets) /\ \A i \in DOMAIN found : found[i] \in best
  <2>1. \A i \in 1..Len(found) : found[i] \in best
    BY <1>1
  <2> QED
    BY <1>1, <2>1
<1>3. marked \in Seq(Tickets)
  BY <1>2, DiversifiedTakes
<1>4. PICK at : Takes(marked, at, found, DOMAIN found)
  BY <1>2, DiversifiedTakes
<1> HIDE DEF marked
<1>5. \A i \in DOMAIN marked : at[i] \in DOMAIN found /\ marked[i] = found[at[i]]
  BY <1>4 DEF Takes
<1>6. \A i, k \in DOMAIN marked : i # k => marked[i] # marked[k]
  BY <1>1, <1>4, <1>5 DEF Takes
<1>7. ASSUME NEW x \in best
      PROVE  \E i \in DOMAIN marked : marked[i] = x
  <2>1. PICK k \in DOMAIN found : found[k] = x
    BY <1>1
  <2>2. PICK i \in DOMAIN marked : at[i] = k
    BY <1>4 DEF Takes
  <2> QED
    BY <1>5, <2>1, <2>2
<1> QED
  BY <1>2, <1>3, <1>5, <1>6, <1>7 DEF marked

(* The list with badges mixed in, made from one card for each group.       *)
MixedFrom(marked, normal, all) ==
    /\ marked \in Seq(Tickets) /\ normal \in Seq(Tickets)
    /\ \A i \in DOMAIN marked : marked[i] \in CheapestPerRecommended(all)
    /\ \A i, k \in DOMAIN marked : i # k => marked[i] # marked[k]
    /\ \A x \in CheapestPerRecommended(all) : \E i \in DOMAIN marked : marked[i] = x
    /\ \E at : Takes(normal, at, all, {i \in DOMAIN all : ~IsRecommended(all[i])})

LEMMA ShowMixes ==
    ASSUME price \in [Tickets -> Nat], NEW tickets \in Seq(Tickets), NEW merge,
           Show(tickets, merge)
    PROVE  LET all == Cards(tickets, merge)
           IN  /\ all \in Seq(Tickets) /\ OnePerGroup(all, tickets, merge)
               /\ order = "skip" =>
                    badges' = {} /\ cards' = Sorted(all, FALSE)
               /\ order # "skip" => badges' = CheapestPerRecommended(all)
               /\ order = "recommended" =>
                    /\ cards' \in Seq(Tickets)
                    /\ \A i \in DOMAIN cards' : cards'[i] \in badges'
                    /\ \A x \in badges' : \E i \in DOMAIN cards' : cards'[i] = x
               /\ order \notin {"skip", "recommended"} =>
                    \E marked, normal : MixedFrom(marked, normal, all) /\ cards' = Interleaved(marked, normal)
<1> DEFINE all    == Cards(tickets, merge)
           others == {i \in DOMAIN all : ~IsRecommended(all[i])}
           few    == Selected(all, others)
           best   == CheapestPerRecommended(all)
<1>1. all \in Seq(Tickets) /\ OnePerGroup(all, tickets, merge)
  BY CardsOnePerGroup
<1>2. order = "skip" => badges' = {} /\ cards' = Sorted(all, FALSE)
  BY DEF Show
<1>3. ASSUME order # "skip"
      PROVE  /\ badges' = best
             /\ \E marked \in SetToSeqs(best) :
                   cards' = IF order = "recommended" THEN Diversified(marked)
                            ELSE Interleaved(Diversified(marked), Sorted(few, order = "expensive"))
  BY <1>3 DEF Show
<1> HIDE DEF all
<1>4. best \in SUBSET Tickets /\ IsFiniteSet(best)
  BY <1>1, BestOfHotels
<1>5. ASSUME order = "recommended"
      PROVE  /\ cards' \in Seq(Tickets)
             /\ \A i \in DOMAIN cards' : cards'[i] \in badges'
             /\ \A x \in badges' : \E i \in DOMAIN cards' : cards'[i] = x
  <2> HIDE DEF best, few
  <2>1. PICK found \in SetToSeqs(best) : cards' = Diversified(found)
    BY <1>3, <1>5
  <2>2. badges' = best
    BY <1>3, <1>5
  <2> QED
    BY <1>4, <2>1, <2>2, MixedByPrice
<1>6. ASSUME order \notin {"skip", "recommended"}
      PROVE  \E marked, normal : MixedFrom(marked, normal, all) /\ cards' = Interleaved(marked, normal)
  <2>1. few \in Seq(Tickets) /\ \E at : Takes(few, at, all, others)
    <3> HIDE DEF others
    <3>1. others \in SUBSET DOMAIN all
      BY DEF others
    <3> QED
      BY <1>1, <3>1, SelectedTakes
  <2> HIDE DEF few
  <2>2. PICK found \in SetToSeqs(best) :
           cards' = Interleaved(Diversified(found), Sorted(few, order = "expensive"))
    <3> HIDE DEF best
    <3> QED
      BY <1>3, <1>6
  <2> DEFINE marked    == Diversified(found)
             normal == Sorted(few, order = "expensive")
  <2>3. /\ marked \in Seq(Tickets)
        /\ \A i \in DOMAIN marked : marked[i] \in best
        /\ \A i, k \in DOMAIN marked : i # k => marked[i] # marked[k]
        /\ \A x \in best : \E i \in DOMAIN marked : marked[i] = x
    <3> HIDE DEF best
    <3> QED
      BY <1>4, MixedByPrice
  <2>4. normal \in Seq(Tickets) /\ \E at : Takes(normal, at, few, DOMAIN few)
    BY <2>1, SortedTakes
  <2>5. \E at : Takes(normal, at, all, others)
    <3> HIDE DEF normal, others
    <3> QED
      BY <2>1, <2>4, TakesTwice
  <2>6. MixedFrom(marked, normal, all)
    <3> HIDE DEF marked, normal
    <3> QED
      BY <2>3, <2>4, <2>5 DEF MixedFrom
  <2> QED
    BY <2>2, <2>6
<1> QED
  BY <1>1, <1>2, <1>3, <1>5, <1>6 DEF all

(* What is shown are cards of the list, the badges among them.             *)
LEMMA ShowCards ==
    ASSUME price \in [Tickets -> Nat], NEW tickets \in Seq(Tickets), NEW merge,
           Show(tickets, merge)
    PROVE  /\ cards' \in Seq(Tickets)
           /\ badges' \subseteq ToSet(cards')
           /\ \A i \in DOMAIN cards' : \E p \in DOMAIN Cards(tickets, merge) :
                 cards'[i] = Cards(tickets, merge)[p]
<1> DEFINE all == Cards(tickets, merge)
<1>1. all \in Seq(Tickets)
  BY ShowMixes
<1>2. CASE order = "skip"
  <2>1. badges' = {} /\ cards' = Sorted(all, FALSE)
    BY <1>2, ShowMixes
  <2> HIDE DEF all
  <2>2. PICK at : Takes(cards', at, all, DOMAIN all)
    BY <1>1, <2>1, SortedTakes
  <2>3. cards' \in Seq(Tickets)
    BY <1>1, <2>1, SortedTakes
  <2> QED
    BY <2>1, <2>2, <2>3 DEF Takes, all
<1>3. CASE order = "recommended"
  <2>1. /\ badges' = CheapestPerRecommended(all) /\ cards' \in Seq(Tickets)
        /\ \A i \in DOMAIN cards' : cards'[i] \in badges'
        /\ \A x \in badges' : \E i \in DOMAIN cards' : cards'[i] = x
    BY <1>3, ShowMixes
  <2>2. \A x \in badges' : \E p \in DOMAIN all : all[p] = x
    <3> HIDE DEF all
    <3> QED
      BY <1>1, <2>1, BestOfHotels
  <2>3. badges' \subseteq ToSet(cards')
    BY <2>1 DEF ToSet
  <2> QED
    BY <2>1, <2>2, <2>3
<1>4. CASE order \notin {"skip", "recommended"}
  <2>1. /\ badges' = CheapestPerRecommended(all)
        /\ \E marked, normal : MixedFrom(marked, normal, all) /\ cards' = Interleaved(marked, normal)
    BY <1>4, ShowMixes
  <2> HIDE DEF all
  <2>2. PICK marked, normal : MixedFrom(marked, normal, all) /\ cards' = Interleaved(marked, normal)
    BY <2>1
  <2>3. marked \in Seq(Tickets) /\ normal \in Seq(Tickets)
    BY <2>2 DEF MixedFrom
  <2> DEFINE n    == Len(marked) + Len(normal)
             at   == ByKey(1..n, Turn(marked, normal))
             both == marked \o normal
  <2>4. cards' \in Seq(Tickets) /\ Takes(cards', at, both, 1..n)
    BY <2>2, <2>3, InterleavedTakes
  <2>5. \A m \in 1..n : both[m] = IF m <= Len(marked) THEN marked[m] ELSE normal[m - Len(marked)]
    BY <2>3
  <2>6. \A m \in 1..n : (m <= Len(marked) => m \in DOMAIN marked)
                     /\ (m > Len(marked) => m - Len(marked) \in DOMAIN normal)
    BY <2>3
  <2> HIDE DEF at, both
  <2>7. \A i \in DOMAIN marked : \E p \in DOMAIN all : marked[i] = all[p]
    BY <1>1, <2>2, BestOfHotels DEF MixedFrom
  <2>8. \A j \in DOMAIN normal : \E p \in DOMAIN all : normal[j] = all[p]
    BY <2>2 DEF MixedFrom, Takes
  <2>9. ASSUME NEW i \in DOMAIN cards'
        PROVE  \E p \in DOMAIN all : cards'[i] = all[p]
    <3>1. at[i] \in 1..n /\ cards'[i] = both[at[i]]
      BY <2>4 DEF Takes
    <3>2. CASE at[i] <= Len(marked)
      BY <2>5, <2>6, <2>7, <3>1, <3>2
    <3>3. CASE at[i] > Len(marked)
      <4>1. ~(at[i] <= Len(marked))
        BY <2>3, <3>1, <3>3
      <4> QED
        BY <2>5, <2>6, <2>8, <3>1, <3>3, <4>1
    <3> QED
      BY <2>3, <3>1, <3>2, <3>3
  <2>10. ASSUME NEW x \in badges'
         PROVE  \E i \in DOMAIN cards' : cards'[i] = x
    <3>1. PICK m \in DOMAIN marked : marked[m] = x
      BY <2>1, <2>2 DEF MixedFrom
    <3>2. m \in 1..n /\ m <= Len(marked)
      BY <2>3
    <3>3. both[m] = x
      BY <2>5, <3>1, <3>2
    <3>4. PICK i \in DOMAIN cards' : at[i] = m
      BY <2>4, <3>2 DEF Takes
    <3> QED
      BY <2>4, <3>3, <3>4 DEF Takes
  <2>11. badges' \subseteq ToSet(cards')
    BY <2>10 DEF ToSet
  <2> QED
    BY <2>4, <2>9, <2>11 DEF all
<1> QED
  BY <1>2, <1>3, <1>4

-----------------------------------------------------------------------------
(* The searches bring tickets.                                             *)
LEMMA FetchedAreFinite ==
    IsFiniteSet({f \in Chunks \X Tickets : Day[f[2]] \in f[1]})
<1>1. Chunks \in SUBSET SUBSET (FirstDay..LastDay)
  BY DEF Chunks
<1>2. IsFiniteSet(FirstDay..LastDay)
  BY SizesAssumption, FS_Interval
<1>3. IsFiniteSet(Chunks)
  BY <1>1, <1>2, FS_SUBSET, FS_Subset
<1>4. IsFiniteSet(Chunks \X Tickets)
  BY <1>3, FieldsAssumption, FS_Product
<1> QED
  BY <1>4, FS_Subset

LEMMA SearchBrings ==
    ASSUME price \in [Tickets -> Nat], Search
    PROVE  raw' \in Seq(Tickets) /\ Show(raw', across) /\ stage' = "ended"
<1> DEFINE fetched == {f \in Chunks \X Tickets : Day[f[2]] \in f[1]}
<1>1. PICK found \in SetToSeqs(fetched) :
         raw' = Sorted([i \in DOMAIN found |-> found[i][2]], FALSE)
  BY DEF Search
<1>2. IsFiniteSet(fetched)
  BY FetchedAreFinite
<1>3. \A f \in fetched : f[2] \in Tickets
  OBVIOUS
<1> HIDE DEF fetched
<1> DEFINE list == [i \in DOMAIN found |-> found[i][2]]
<1>4. found \in Seq(fetched)
  BY <1>2, SeqsOfSet
<1>5. DOMAIN found = 1..Len(found) /\ Len(found) \in Nat /\ \A i \in DOMAIN found : found[i] \in fetched
  BY <1>4
<1>6. list \in [1..Len(found) -> Tickets]
  BY <1>3, <1>5
<1>7. list \in Seq(Tickets)
  <2> HIDE DEF list
  <2> QED
    BY <1>5, <1>6
<1>8. raw' \in Seq(Tickets)
  BY <1>1, <1>7, SortedTakes
<1> QED
  BY <1>8 DEF Search

LEMMA SeqOfSubset ==
    ASSUME NEW S \in SUBSET Tickets, NEW s \in SetToSeqs(S)
    PROVE  s \in Seq(Tickets) /\ s \in Seq(S)
<1>1. IsFiniteSet(S)
  BY FieldsAssumption, FS_Subset
<1>2. s \in Seq(S)
  BY <1>1, SeqsOfSet
<1>3. \A i \in 1..Len(s) : s[i] \in Tickets
  BY <1>2
<1> QED
  BY <1>2, <1>3

LEMMA SearchHomeBrings ==
    ASSUME price \in [Tickets -> Nat], SearchHome
    PROVE  raw' \in Seq(Tickets) /\ Show(raw', FALSE) /\ stage' = "ended"
<1>1. PICK found \in SetToSeqs(Tickets) :
         \E chosen \in HomeChoices(found) : \E list \in SetToSeqs(chosen) : raw' = Sorted(list, FALSE)
  BY DEF SearchHome
<1>2. PICK chosen \in HomeChoices(found) : \E list \in SetToSeqs(chosen) : raw' = Sorted(list, FALSE)
  BY <1>1
<1>3. PICK list \in SetToSeqs(chosen) : raw' = Sorted(list, FALSE)
  BY <1>2
<1>4. found \in Seq(Tickets)
  BY SeqOfSubset
<1>5. chosen \in SUBSET ToSet(found)
  BY <1>2 DEF HomeChoices
<1>6. ToSet(found) \in SUBSET Tickets
  BY <1>4 DEF ToSet
<1>7. list \in Seq(Tickets)
  BY <1>5, <1>6, SeqOfSubset
<1> QED
  BY <1>3, <1>7, SortedTakes DEF SearchHome

LEMMA SearchPopularBrings ==
    ASSUME SearchPopular
    PROVE  raw' \in Seq(Tickets)
<1>1. PICK chosen \in PopularChoices({t \in Tickets : Day[t] \in FirstDay..LastDay}) :
         \E list \in SetToSeqs(chosen) : PopularOrder(list) /\ raw' = list
  BY DEF SearchPopular
<1>2. chosen \in SUBSET Tickets
  BY <1>1 DEF PopularChoices
<1> QED
  BY <1>1, <1>2, SeqOfSubset

LEMMA AskPopularBrings ==
    ASSUME raw \in Seq(Tickets), AskPopular
    PROVE  raw' \in Seq(Tickets)
<1>1. PICK region, country :
         raw' = Selected(raw, {i \in DOMAIN raw : Day[raw[i]] \in days /\ Matches(raw[i], region, country)})
  BY DEF AskPopular
<1> QED
  BY <1>1, SelectedTakes

LEMMA CollectBatchBrings ==
    ASSUME raw \in Seq(Tickets), CollectBatch
    PROVE  raw' \in Seq(Tickets) /\ Show(raw', TRUE)
<1>1. PICK t \in Asked \ ToSet(raw) :
         \/ raw' = Append(raw, t)
         \/ \E u \in Asked \ (ToSet(raw) \cup {t}) : raw' = raw \o <<t, u>>
  BY DEF CollectBatch
<1>2. t \in Tickets
  BY DEF Asked
<1>3. Show(raw', TRUE)
  BY DEF CollectBatch
<1>4. CASE raw' = Append(raw, t)
  <2>1. Append(raw, t) \in Seq(Tickets)
    BY <1>2
  <2> QED
    BY <1>3, <1>4, <2>1
<1>5. CASE \E u \in Asked \ (ToSet(raw) \cup {t}) : raw' = raw \o <<t, u>>
  <2>1. PICK u \in Asked : raw' = raw \o <<t, u>>
    BY <1>5
  <2>2. u \in Tickets
    BY DEF Asked
  <2>3. <<t, u>> \in Seq(Tickets)
    BY <1>2, <2>2
  <2>4. raw \o <<t, u>> \in Seq(Tickets)
    BY <2>3
  <2> QED
    BY <1>3, <2>1, <2>4
<1> QED
  BY <1>1, <1>4, <1>5

-----------------------------------------------------------------------------
(* What the four ways to ask have in common with the flags.                *)
RequestIsKnown ==
    /\ path = "home" <=> order = "skip"
    /\ path = "stream" => across
    /\ path = "home" => ~across

(* A step shows the tickets received or leaves alone what is shown.        *)
LEMMA StepShows ==
    ASSUME ResultsTypeOK, RequestIsKnown, [ResultsNext]_resultsVars
    PROVE  /\ UNCHANGED request /\ raw' \in Seq(Tickets)
           /\ stage' \in {"search", "ended", "stored", "cached", "missed"}
           /\ \/ Show(raw', across)
              \/ UNCHANGED <<shown, raw, stage>>
              \/ UNCHANGED shown /\ raw' = <<>> /\ stage' = "missed"
              \/ UNCHANGED shown /\ stage' = "cached"
<1>1. price \in [Tickets -> Nat] /\ raw \in Seq(Tickets)
  BY PricesAreNat DEF ResultsTypeOK
<1>2. CASE Search
  BY <1>1, <1>2, SearchBrings DEF Search
<1>3. CASE SearchHome
  <2>1. across = FALSE
    BY <1>3 DEF SearchHome, RequestIsKnown, ResultsTypeOK
  <2> QED
    BY <1>1, <1>3, <2>1, SearchHomeBrings DEF SearchHome
<1>4. CASE SearchPopular
  BY <1>1, <1>4, SearchPopularBrings DEF SearchPopular
<1>5. CASE AskPopular
  <2>1. raw' \in Seq(Tickets)
    BY <1>1, <1>5, AskPopularBrings
  <2> QED
    BY <1>5, <2>1 DEF AskPopular
<1>6. CASE CollectBatch
  <2>1. across = TRUE
    BY <1>6 DEF CollectBatch, RequestIsKnown, ResultsTypeOK
  <2>2. raw' \in Seq(Tickets) /\ Show(raw', TRUE)
    BY <1>1, <1>6, CollectBatchBrings
  <2>3. UNCHANGED request /\ stage' = stage
    BY <1>6 DEF CollectBatch
  <2> QED
    BY <2>1, <2>2, <2>3 DEF ResultsTypeOK
<1>7. CASE Regroup
  <2>1. across = TRUE
    BY <1>7 DEF Regroup, RequestIsKnown, ResultsTypeOK
  <2>2. Show(raw, TRUE) /\ UNCHANGED <<request, raw>> /\ stage' \in {"ended", "stored"}
    BY <1>7 DEF Regroup
  <2> QED
    BY <1>1, <2>1, <2>2
<1>8. CASE UNCHANGED resultsVars
  BY <1>1, <1>8 DEF resultsVars, ResultsTypeOK
<1>9. CASE Done
  BY <1>8, <1>9 DEF Done
<1> QED
  BY <1>2, <1>3, <1>4, <1>5, <1>6, <1>7, <1>8, <1>9 DEF ResultsNext

(* What is shown is well formed. *)
LEMMA ShowTypes ==
    ASSUME ResultsTypeOK, raw' \in Seq(Tickets), Show(raw', across), OffersFit
    PROVE  /\ cards' \in Seq(Tickets) /\ badges' \subseteq ToSet(cards')
           /\ offers' \in [Tickets -> Seq(Tickets)]
           /\ offers' = GroupedOffers(raw', across)
           /\ \A t \in Tickets : \A p \in DOMAIN offers'[t] : Fits(offers'[t][p], t, across)
<1>1. price \in [Tickets -> Nat] /\ offers \in [Tickets -> Seq(Tickets)]
  BY PricesAreNat DEF ResultsTypeOK
<1>2. offers' = GroupedOffers(raw', across)
  BY DEF Show
<1>3. cards' \in Seq(Tickets) /\ badges' \subseteq ToSet(cards')
  BY <1>1, ShowCards
<1>4. /\ GroupedOffers(raw', across) \in [Tickets -> Seq(Tickets)]
      /\ \A t \in Tickets : \A p \in DOMAIN GroupedOffers(raw', across)[t] :
            Fits(GroupedOffers(raw', across)[t][p], t, across)
  BY <1>1, GroupedFit
<1> QED
  BY <1>2, <1>3, <1>4

ShownInv ==
    /\ ResultsTypeOK
    /\ RequestIsKnown
    /\ OffersFit
    /\ RecommendedApart

LEMMA FitStep ==
    ASSUME ResultsTypeOK, RequestIsKnown, OffersFit, [ResultsNext]_resultsVars
    PROVE  ResultsTypeOK' /\ RequestIsKnown' /\ OffersFit'
<1>1. /\ UNCHANGED request /\ raw' \in Seq(Tickets)
      /\ stage' \in {"search", "ended", "stored", "cached", "missed"}
      /\ Show(raw', across) \/ UNCHANGED shown
  BY StepShows DEF shown
<1>2. UNCHANGED <<path, order, across, days, price>>
  BY <1>1 DEF request
<1>3. RequestIsKnown'
  BY <1>2 DEF RequestIsKnown
<1>4. PriceLists' = PriceLists
  BY DEF PriceLists
<1>5. CASE UNCHANGED shown
  <2>1. ResultsTypeOK'
    BY <1>1, <1>2, <1>4, <1>5 DEF ResultsTypeOK, shown
  <2>2. offers' = offers /\ price' = price /\ across' = across
    BY <1>2, <1>5 DEF shown
  <2>3. OffersFit'
    BY <2>2 DEF OffersFit, Fits
  <2> QED
    BY <1>3, <2>1, <2>3
<1>6. CASE Show(raw', across)
  <2>1. /\ cards' \in Seq(Tickets) /\ badges' \subseteq ToSet(cards')
        /\ offers' \in [Tickets -> Seq(Tickets)]
        /\ \A t \in Tickets : \A p \in DOMAIN offers'[t] : Fits(offers'[t][p], t, across)
    BY <1>1, <1>6, ShowTypes
  <2>2. ResultsTypeOK'
    BY <1>1, <1>2, <1>4, <2>1 DEF ResultsTypeOK
  <2>3. OffersFit'
    BY <1>2, <2>1 DEF OffersFit, Fits
  <2> QED
    BY <1>3, <2>2, <2>3
<1> QED
  BY <1>1, <1>5, <1>6

LEMMA ApartStep ==
    ASSUME ResultsTypeOK, RequestIsKnown, RecommendedApart, [ResultsNext]_resultsVars
    PROVE  RecommendedApart'
<1>1. /\ UNCHANGED request /\ raw' \in Seq(Tickets)
      /\ Show(raw', across) \/ UNCHANGED shown
  BY StepShows DEF shown
<1>2. UNCHANGED <<path, order, across, days, price>>
  BY <1>1 DEF request
<1>3. CASE UNCHANGED shown
  BY <1>2, <1>3 DEF RecommendedApart, shown
<1>4. CASE Show(raw', across) /\ order \in {"cheapest", "expensive"}
  <2> DEFINE all == Cards(raw', across)
             best == CheapestPerRecommended(all)
  <2>1. price \in [Tickets -> Nat]
    BY PricesAreNat DEF ResultsTypeOK
  <2>2. /\ all \in Seq(Tickets) /\ badges' = best
        /\ \E marked, normal : MixedFrom(marked, normal, all) /\ cards' = Interleaved(marked, normal)
    BY <1>1, <1>4, <2>1, ShowMixes
  <2> HIDE DEF all
  <2>3. PICK marked, normal : MixedFrom(marked, normal, all) /\ cards' = Interleaved(marked, normal)
    BY <2>2
  <2>4. /\ \A x \in best : IsRecommended(x)
        /\ \A x, y \in best : DbHotel[x] = DbHotel[y] => x = y
    BY <2>1, <2>2, BestOfHotels
  <2>5. \A j \in DOMAIN normal : ~IsRecommended(normal[j])
    BY <2>3 DEF MixedFrom, Takes
  <2>6. /\ marked \in Seq(Tickets) /\ normal \in Seq(Tickets)
        /\ \A i \in DOMAIN marked : marked[i] \in best
        /\ \A i, k \in DOMAIN marked : i # k => marked[i] # marked[k]
    BY <2>3 DEF MixedFrom
  <2> HIDE DEF best
  <2>7. /\ \A i, k \in DOMAIN marked : i # k => DbHotel[marked[i]] # DbHotel[marked[k]]
        /\ \A j \in DOMAIN normal : normal[j] \notin best
        /\ \A i \in DOMAIN marked : \A j \in DOMAIN normal : DbHotel[marked[i]] # DbHotel[normal[j]]
    BY <2>4, <2>5, <2>6 DEF IsRecommended
  <2>8. ASSUME NEW i \in DOMAIN cards', cards'[i] \in badges'
        PROVE  LET next == (i + 1)..(i + NormalPerRecommended)
               IN  /\ \/ next \subseteq DOMAIN cards' /\ \A k \in next : cards'[k] \notin badges'
                      \/ \A k \in DOMAIN cards' : k > i => cards'[k] \in badges'
                   /\ \A k \in DOMAIN cards' \ {i} : DbHotel[cards'[k]] # DbHotel[cards'[i]]
    <3> DEFINE out == Interleaved(marked, normal)
    <3>1. i \in DOMAIN out /\ out[i] \in best
      BY <2>2, <2>3, <2>8
    <3>2. LET next == (i + 1)..(i + NormalPerRecommended)
          IN  /\ \/ next \subseteq DOMAIN out /\ \A k \in next : out[k] \notin best
                 \/ \A k \in DOMAIN out : k > i => out[k] \in best
              /\ \A k \in DOMAIN out \ {i} : DbHotel[out[k]] # DbHotel[out[i]]
      BY <2>6, <2>7, <3>1, MixedApart
    <3>3. cards' = out /\ badges' = best
      BY <2>2, <2>3
    <3> HIDE DEF out
    <3> QED
      BY <3>2, <3>3
  <2> QED
    BY <2>8 DEF RecommendedApart
<1> QED
  BY <1>1, <1>2, <1>3, <1>4 DEF RecommendedApart

LEMMA ShownInit == ResultsInit => ShownInv
<1> SUFFICES ASSUME ResultsInit
             PROVE  ShownInv
  OBVIOUS
<1>1. /\ path \in {"rest", "stream", "home", "popular"} /\ across \in BOOLEAN
      /\ order \in {"cheapest", "expensive", "recommended", "skip"}
      /\ price \in PriceLists
      /\ raw = <<>> /\ offers = [t \in Tickets |-> <<>>]
      /\ cards = <<>> /\ badges = {} /\ stage = "search"
  BY DEF ResultsInit
<1>2. RequestIsKnown
  BY DEF ResultsInit, RequestIsKnown
<1>3. days \subseteq Nat
  <2>1. FirstDay..LastDay \subseteq Nat
    BY SizesAssumption
  <2>2. \A r : Eligible(r) => r \subseteq Nat
    BY SizesAssumption DEF Eligible
  <2> QED
    BY <2>1, <2>2 DEF ResultsInit
<1>4. ResultsTypeOK
  BY <1>1, <1>3 DEF ResultsTypeOK, ToSet
<1>5. OffersFit /\ RecommendedApart
  BY <1>1 DEF OffersFit, RecommendedApart
<1> QED
  BY <1>2, <1>4, <1>5 DEF ShownInv

LEMMA ShownInvariance == ResultsSpec => []ShownInv
<1>1. ShownInv /\ [ResultsNext]_resultsVars => ShownInv'
  BY FitStep, ApartStep DEF ShownInv
<1> QED
  BY <1>1, ShownInit, PTL DEF ResultsSpec

(* Every variable of the results keeps its type.                           *)
THEOREM ResultsTypeCorrect == ResultsSpec => []ResultsTypeOK
BY ShownInvariance, PTL DEF ShownInv

(* A card says the lowest price of its offers, all of its own hotel,       *)
(* however often the tickets were grouped and whichever ticket was the     *)
(* card before (hotel_grouping.go:61-74, 97-101, 112-160).                 *)
THEOREM CardsSayTheLowest == ResultsSpec => []CardsAreCheapest
<1>1. ShownInv => CardsAreCheapest
  <2> SUFFICES ASSUME ShownInv, NEW i \in DOMAIN cards, NEW k \in DOMAIN offers[cards[i]]
               PROVE  Fits(offers[cards[i]][k], cards[i], across)
    BY DEF CardsAreCheapest, Fits
  <2>1. cards[i] \in Tickets
    BY DEF ShownInv, ResultsTypeOK
  <2> QED
    BY <2>1 DEF ShownInv, OffersFit
<1> QED
  BY <1>1, ShownInvariance, PTL

(* Two badges never meet before the others have run out, and no hotel has  *)
(* two cards in a list with a badge among them, for any run length         *)
(* (samo_result.go:86-102, 184-214).                                       *)
THEOREM BadgesApart == ResultsSpec => []RecommendedApart
BY ShownInvariance, PTL DEF ShownInv

-----------------------------------------------------------------------------
(* A ticket that carries offers is among them.                             *)
SelfOffered ==
    \A t \in Tickets : offers[t] # <<>> /\ TourId[t] # Nothing =>
        \E k \in DOMAIN offers[t] : TourId[offers[t][k]] = TourId[t]

(* Of offers that were handed in, one is the first.                        *)
LEMMA EarliestOf ==
    ASSUME NEW S, S # {}, \A x \in S : x[1] \in Nat /\ x[2] \in Nat
    PROVE  \E x \in S : \A y \in S : ~Earlier(y, x)
<1> DEFINE firsts == {x[1] : x \in S}
<1>1. firsts \in SUBSET Nat /\ firsts # {}
  OBVIOUS
<1>2. PICK a1 \in firsts : \A b1 \in firsts : a1 <= b1
  <2> HIDE DEF firsts
  <2> QED
    BY <1>1, LeastOf
<1> DEFINE seconds == {x[2] : x \in {y \in S : y[1] = a1}}
<1>3. seconds \in SUBSET Nat /\ seconds # {}
  BY <1>2
<1>4. PICK a2 \in seconds : \A b2 \in seconds : a2 <= b2
  <2> HIDE DEF seconds
  <2> QED
    BY <1>3, LeastOf
<1>5. PICK x \in S : x[1] = a1 /\ x[2] = a2
  BY <1>4
<1>6. ASSUME NEW y \in S
      PROVE  ~Earlier(y, x)
  <2>1. a1 <= y[1] /\ (y[1] = a1 => a2 <= y[2])
    BY <1>2, <1>4
  <2>2. y[1] \in Nat /\ y[2] \in Nat /\ a1 \in Nat /\ a2 \in Nat
    BY <1>5
  <2> HIDE DEF firsts, seconds
  <2> QED
    BY <1>5, <2>1, <2>2 DEF Earlier
<1> QED
  BY <1>6

(* However often it was handed in, a tour with an id is one offer.         *)
LEMMA TourOfferedOnce ==
    ASSUME price \in [Tickets -> Nat], offers \in [Tickets -> Seq(Tickets)], SelfOffered,
           NEW tickets \in Seq(Tickets), NEW group \in SUBSET DOMAIN tickets,
           NEW j \in group, TourId[tickets[j]] # Nothing
    PROVE  LET list == OffersOf(tickets, group)
               id   == TourId[tickets[j]]
           IN  /\ \E p \in DOMAIN list : TourId[list[p]] = id
               /\ \A p, q \in DOMAIN list :
                     TourId[list[p]] = id /\ TourId[list[q]] = id => p = q
<1> DEFINE list == OffersOf(tickets, group)
           id   == TourId[tickets[j]]
           n    == Cardinality(Kept(tickets, group))
           at   == ByPrice(tickets, Kept(tickets, group))
           handed == HandedIn(tickets, group)
           same == {x \in handed : TourId[Offer(tickets, x)] = id}
<1>1. /\ at \in [1..n -> Kept(tickets, group)] /\ DOMAIN list = 1..n
      /\ \A x \in Kept(tickets, group) : \E p \in 1..n : at[p] = x
      /\ \A p, q \in 1..n : p # q => at[p] # at[q]
      /\ list = [p \in 1..n |-> Offer(tickets, at[p])]
  BY OffersOfKept
<1>2. \A p \in 1..n : at[p] \in Kept(tickets, group) /\ list[p] = Offer(tickets, at[p])
  BY <1>1
<1>3. \A x \in handed : x[1] \in Nat /\ x[2] \in Nat /\ x = <<x[1], x[2]>>
  BY HandedInFacts
<1>4. tickets[j] \in Tickets
  OBVIOUS
<1>5. \E k \in DOMAIN Existing(tickets[j]) : TourId[Existing(tickets[j])[k]] = id
  <2>1. CASE offers[tickets[j]] = <<>>
    <3>1. Existing(tickets[j]) = <<tickets[j]>>
      BY <2>1 DEF Existing
    <3>2. 1 \in DOMAIN <<tickets[j]>> /\ <<tickets[j]>>[1] = tickets[j]
      OBVIOUS
    <3> QED
      BY <3>1, <3>2
  <2>2. CASE offers[tickets[j]] # <<>>
    BY <1>4, <2>2 DEF Existing, SelfOffered
  <2> QED
    BY <2>1, <2>2
<1>6. same # {}
  <2>1. PICK k \in DOMAIN Existing(tickets[j]) : TourId[Existing(tickets[j])[k]] = id
    BY <1>5
  <2>2. <<j, k>> \in handed
    BY HandedInFacts
  <2>3. Offer(tickets, <<j, k>>) = Existing(tickets[j])[k]
    BY DEF Offer
  <2> QED
    BY <2>1, <2>2, <2>3
<1>7. PICK x \in same : \A y \in same : ~Earlier(y, x)
  <2>1. \A x \in same : x[1] \in Nat /\ x[2] \in Nat
    BY <1>3
  <2> HIDE DEF same
  <2> QED
    BY <1>6, <2>1, EarliestOf
<1>8. x \in Kept(tickets, group)
  BY <1>7 DEF Kept, Dedupe
<1>9. \E p \in DOMAIN list : TourId[list[p]] = id
  <2>1. PICK p \in 1..n : at[p] = x
    BY <1>1, <1>8
  <2>2. TourId[Offer(tickets, x)] = id
    BY <1>7
  <2>3. list[p] = Offer(tickets, at[p]) /\ p \in DOMAIN list
    BY <1>1, <1>2
  <2> HIDE DEF list, at, id
  <2> QED
    BY <2>1, <2>2, <2>3
<1>10. ASSUME NEW p \in DOMAIN list, NEW q \in DOMAIN list,
              TourId[list[p]] = id, TourId[list[q]] = id
       PROVE  p = q
  <2> DEFINE y == at[p]
             z == at[q]
  <2>1. /\ y \in Kept(tickets, group) /\ TourId[Offer(tickets, y)] = id
        /\ z \in Kept(tickets, group) /\ TourId[Offer(tickets, z)] = id
    BY <1>1, <1>2, <1>10
  <2>2. y \in handed /\ z \in handed /\ ~Earlier(y, z) /\ ~Earlier(z, y)
    BY <2>1 DEF Kept, Dedupe
  <2>3. y = z
    <3>1. /\ y[1] \in Nat /\ y[2] \in Nat /\ y = <<y[1], y[2]>>
          /\ z[1] \in Nat /\ z[2] \in Nat /\ z = <<z[1], z[2]>>
      BY <1>3, <2>2
    <3>2. y[1] = z[1] /\ y[2] = z[2]
      <4> HIDE DEF y, z
      <4> QED
        BY <2>2, <3>1 DEF Earlier
    <3> QED
      BY <3>1, <3>2
  <2> QED
    BY <1>1, <2>3
<1> QED
  BY <1>9, <1>10

-----------------------------------------------------------------------------
(* A reordered list of cards still has one for each group.                 *)
LEMMA TakesOnePerGroup ==
    ASSUME NEW tickets, NEW merge, NEW all, OnePerGroup(all, tickets, merge),
           NEW out, NEW at, Takes(out, at, all, DOMAIN all)
    PROVE  OnePerGroup(out, tickets, merge)
<1>1. \A p \in DOMAIN out : at[p] \in DOMAIN all /\ out[p] = all[at[p]]
  BY DEF Takes
<1>2. \A p \in DOMAIN out : IsCard(out[p], tickets, merge)
  BY <1>1 DEF OnePerGroup
<1>3. ASSUME NEW p \in DOMAIN out, NEW q \in DOMAIN out, p # q
      PROVE  GroupKey(out[p], merge) # GroupKey(out[q], merge)
  <2>1. at[p] # at[q]
    BY <1>3 DEF Takes
  <2> QED
    BY <1>1, <2>1 DEF OnePerGroup
<1>4. ASSUME NEW i \in DOMAIN tickets
      PROVE  \E p \in DOMAIN out : GroupKey(out[p], merge) = GroupKey(tickets[i], merge)
  <2>1. PICK q \in DOMAIN all : GroupKey(all[q], merge) = GroupKey(tickets[i], merge)
    BY DEF OnePerGroup
  <2>2. PICK p \in DOMAIN out : at[p] = q
    BY DEF Takes
  <2> QED
    BY <1>1, <2>1, <2>2
<1> QED
  BY <1>2, <1>3, <1>4 DEF OnePerGroup

(* Where dates are merged, a recommended hotel has one card only, so none  *)
(* is left out.                                                            *)
LEMMA RecommendedStay ==
    ASSUME price \in [Tickets -> Nat], NEW tickets, NEW all \in Seq(Tickets),
           OnePerGroup(all, tickets, TRUE), NEW p \in DOMAIN all, IsRecommended(all[p])
    PROVE  all[p] \in CheapestPerRecommended(all)
<1>1. ASSUME NEW k \in DOMAIN all, DbHotel[all[k]] = DbHotel[all[p]]
      PROVE  k = p
  <2>1. GroupKey(all[k], TRUE) = GroupKey(all[p], TRUE)
    BY <1>1 DEF GroupKey, IsRecommended
  <2> QED
    BY <2>1 DEF OnePerGroup
<1>2. p \in Nat
  OBVIOUS
<1>3. \A k \in DOMAIN all : DbHotel[all[k]] = DbHotel[all[p]] =>
         price[all[p]] < price[all[k]] \/ (price[all[p]] = price[all[k]] /\ p <= k)
  BY <1>1, <1>2
<1> QED
  BY <1>3 DEF CheapestPerRecommended

(* The mixed list has the cards of all groups.                             *)
LEMMA MixedOnePerGroup ==
    ASSUME price \in [Tickets -> Nat], NEW tickets, NEW all \in Seq(Tickets),
           OnePerGroup(all, tickets, TRUE), NEW marked, NEW normal,
           MixedFrom(marked, normal, all)
    PROVE  OnePerGroup(Interleaved(marked, normal), tickets, TRUE)
<1>1. marked \in Seq(Tickets) /\ normal \in Seq(Tickets)
  BY DEF MixedFrom
<1> DEFINE n    == Len(marked) + Len(normal)
           at   == ByKey(1..n, Turn(marked, normal))
           both == marked \o normal
           out  == Interleaved(marked, normal)
           Key(t) == GroupKey(t, TRUE)
<1>2. out \in Seq(Tickets) /\ Takes(out, at, both, 1..n) /\ n \in Nat
  BY <1>1, InterleavedTakes
<1>3. \A m \in 1..n : both[m] = IF m <= Len(marked) THEN marked[m] ELSE normal[m - Len(marked)]
  BY <1>1
<1>4. \A m \in 1..n : (m <= Len(marked) => m \in DOMAIN marked)
                   /\ (m > Len(marked) => m - Len(marked) \in DOMAIN normal)
  BY <1>1
<1>5. PICK nt : Takes(normal, nt, all, {i \in DOMAIN all : ~IsRecommended(all[i])})
  BY DEF MixedFrom
<1>6. \A i \in DOMAIN marked : IsRecommended(marked[i]) /\ \E p \in DOMAIN all : all[p] = marked[i]
  BY <1>1, BestOfHotels DEF MixedFrom
<1>7. \A j \in DOMAIN normal : nt[j] \in DOMAIN all /\ normal[j] = all[nt[j]] /\ ~IsRecommended(normal[j])
  BY <1>5 DEF Takes
<1>8. ASSUME NEW x, NEW y, x # y, \E p \in DOMAIN all : all[p] = x, \E p \in DOMAIN all : all[p] = y
      PROVE  Key(x) # Key(y)
  BY <1>8 DEF OnePerGroup
<1> HIDE DEF both, at, out
<1>9. ASSUME NEW m \in 1..n
      PROVE  \E p \in DOMAIN all : all[p] = both[m]
  <2>0. Len(marked) \in Nat /\ m \in Int
    BY <1>1, <1>2
  <2>1. CASE m <= Len(marked)
    BY <1>3, <1>4, <1>6, <2>1
  <2>2. CASE m > Len(marked)
    <3>1. both[m] = normal[m - Len(marked)] /\ m - Len(marked) \in DOMAIN normal
      BY <1>3, <1>4, <2>0, <2>2
    <3> QED
      BY <1>7, <3>1
  <2> QED
    BY <2>0, <2>1, <2>2
<1>10. ASSUME NEW m \in 1..n, NEW l \in 1..n, m # l
       PROVE  Key(both[m]) # Key(both[l])
  <2>1. CASE m <= Len(marked) /\ l <= Len(marked)
    <3>1. both[m] # both[l]
      BY <1>3, <1>4, <1>10, <2>1 DEF MixedFrom
    <3> QED
      BY <1>8, <1>9, <3>1
  <2>2. CASE m > Len(marked) /\ l > Len(marked)
    <3> DEFINE i == m - Len(marked)
               j == l - Len(marked)
    <3>1. both[m] = normal[i] /\ both[l] = normal[j] /\ i \in DOMAIN normal /\ j \in DOMAIN normal /\ i # j
      BY <1>1, <1>3, <1>4, <1>10, <2>2
    <3> HIDE DEF i, j
    <3>2. nt[i] # nt[j]
      BY <1>5, <3>1 DEF Takes
    <3>3. /\ nt[i] \in DOMAIN all /\ both[m] = all[nt[i]]
          /\ nt[j] \in DOMAIN all /\ both[l] = all[nt[j]]
      BY <1>7, <3>1
    <3> QED
      BY <3>2, <3>3 DEF OnePerGroup
  <2>3. CASE (m <= Len(marked) /\ l > Len(marked)) \/ (m > Len(marked) /\ l <= Len(marked))
    <3>1. IsRecommended(both[m]) # IsRecommended(both[l])
      <4>1. ASSUME NEW k \in 1..n, k <= Len(marked)
            PROVE  IsRecommended(both[k])
        BY <1>3, <1>4, <1>6, <4>1
      <4>2. ASSUME NEW k \in 1..n, k > Len(marked)
            PROVE  ~IsRecommended(both[k])
        <5>1. both[k] = normal[k - Len(marked)] /\ k - Len(marked) \in DOMAIN normal
          BY <1>1, <1>3, <1>4, <4>2
        <5> QED
          BY <1>7, <5>1
      <4> QED
        BY <2>3, <4>1, <4>2
    <3>2. both[m] # both[l]
      BY <3>1
    <3> QED
      BY <1>8, <1>9, <3>2
  <2>4. Len(marked) \in Nat /\ m \in Int /\ l \in Int
    BY <1>1, <1>2
  <2>5. m <= Len(marked) \/ m > Len(marked)
    BY <2>4
  <2>6. l <= Len(marked) \/ l > Len(marked)
    BY <2>4
  <2> QED
    BY <2>1, <2>2, <2>3, <2>5, <2>6, Zenon
<1>11. ASSUME NEW p \in DOMAIN all
       PROVE  \E m \in 1..n : both[m] = all[p]
  <2>1. CASE IsRecommended(all[p])
    <3>1. all[p] \in CheapestPerRecommended(all)
      BY <2>1, RecommendedStay
    <3>2. PICK m \in DOMAIN marked : marked[m] = all[p]
      BY <3>1 DEF MixedFrom
    <3>3. m \in 1..n /\ m <= Len(marked)
      BY <1>1
    <3> QED
      BY <1>3, <3>2, <3>3
  <2>2. CASE ~IsRecommended(all[p])
    <3>1. PICK j \in DOMAIN normal : nt[j] = p
      BY <1>5, <2>2 DEF Takes
    <3>2. Len(marked) + j \in 1..n /\ Len(marked) + j > Len(marked) /\ (Len(marked) + j) - Len(marked) = j
      BY <1>1
    <3>3. both[Len(marked) + j] = normal[j]
      BY <1>1, <1>3, <3>2
    <3> QED
      BY <1>7, <3>1, <3>2, <3>3
  <2> QED
    BY <2>1, <2>2
<1>12. \A p \in DOMAIN out : at[p] \in 1..n /\ out[p] = both[at[p]]
  BY <1>2 DEF Takes
<1>13. ASSUME NEW p \in DOMAIN out
       PROVE  IsCard(out[p], tickets, TRUE)
  <2>1. PICK k \in DOMAIN all : all[k] = both[at[p]]
    BY <1>9, <1>12
  <2>2. out[p] = all[k]
    BY <1>12, <2>1
  <2> QED
    BY <2>2 DEF OnePerGroup
<1>14. ASSUME NEW p \in DOMAIN out, NEW q \in DOMAIN out, p # q
       PROVE  Key(out[p]) # Key(out[q])
  <2>1. at[p] # at[q]
    BY <1>2, <1>14 DEF Takes
  <2> QED
    BY <1>10, <1>12, <2>1
<1>15. ASSUME NEW i \in DOMAIN tickets
       PROVE  \E p \in DOMAIN out : Key(out[p]) = Key(tickets[i])
  <2>1. PICK k \in DOMAIN all : Key(all[k]) = Key(tickets[i])
    BY DEF OnePerGroup
  <2>2. PICK m \in 1..n : both[m] = all[k]
    BY <1>11
  <2>3. PICK p \in DOMAIN out : at[p] = m
    BY <1>2 DEF Takes
  <2> QED
    BY <1>12, <2>1, <2>2, <2>3
<1> QED
  BY <1>13, <1>14, <1>15 DEF OnePerGroup, out

(* In lists that keep all cards there is one for each group.               *)
LEMMA ShowOnePerGroup ==
    ASSUME price \in [Tickets -> Nat], NEW tickets \in Seq(Tickets), NEW merge,
           Show(tickets, merge),
           order = "skip" \/ (merge = TRUE /\ order \notin {"skip", "recommended"})
    PROVE  OnePerGroup(cards', tickets, merge)
<1> DEFINE all == Cards(tickets, merge)
<1>1. all \in Seq(Tickets) /\ OnePerGroup(all, tickets, merge)
  BY ShowMixes
<1>2. CASE order = "skip"
  <2>1. cards' = Sorted(all, FALSE)
    BY <1>2, ShowMixes
  <2> HIDE DEF all
  <2>2. PICK at : Takes(cards', at, all, DOMAIN all)
    BY <1>1, <2>1, SortedTakes
  <2> QED
    BY <1>1, <2>2, TakesOnePerGroup
<1>3. CASE merge = TRUE /\ order \notin {"skip", "recommended"}
  <2>1. \E marked, normal : MixedFrom(marked, normal, all) /\ cards' = Interleaved(marked, normal)
    BY <1>3, ShowMixes
  <2> HIDE DEF all
  <2>2. PICK marked, normal : MixedFrom(marked, normal, all) /\ cards' = Interleaved(marked, normal)
    BY <2>1
  <2>3. OnePerGroup(Interleaved(marked, normal), tickets, TRUE)
    BY <1>1, <1>3, <2>2, MixedOnePerGroup
  <2> QED
    BY <1>3, <2>2, <2>3
<1> QED
  BY <1>2, <1>3

-----------------------------------------------------------------------------
(* Rounding up a positive number of days gives at least one.               *)
LEMMA RoundUpPositive ==
    ASSUME NEW k \in Nat, NEW m \in Nat, k > 0, m > 0
    PROVE  RoundUp(k, m) \in Nat /\ RoundUp(k, m) > 0
<1> DEFINE c == k + m - 1
<1>1. c \in Nat /\ c >= m
  OBVIOUS
<1> HIDE DEF c
<1>2. c \div m \in Int /\ c \div m >= 1
  BY <1>1
<1> QED
  BY <1>2 DEF RoundUp, c

(* Every number lies in one of the steps of a size.                        *)
LEMMA StepCovers ==
    ASSUME NEW x \in Nat, NEW size \in Nat, size > 0
    PROVE  \E n \in 0..x : n * size <= x /\ x < n * size + size
<1> DEFINE above == {m \in Nat : x < m * size}
<1>1. x + 1 \in above
  <2>1. 1 * (x + 1) <= size * (x + 1)
    BY TimesGrows
  <2>2. size * (x + 1) = (x + 1) * size /\ 1 * (x + 1) = x + 1 /\ (x + 1) * size \in Int
    OBVIOUS
  <2>3. x < (x + 1) * size
    BY <2>1, <2>2
  <2> QED
    BY <2>3
<1>2. PICK m \in above : \A k \in above : m <= k
  <2>1. above \in SUBSET Nat /\ above # {}
    BY <1>1
  <2> HIDE DEF above
  <2> QED
    BY <2>1, LeastOf
<1>3. m \in Nat /\ x < m * size /\ m <= x + 1
  BY <1>1, <1>2
<1>4. m # 0
  <2>1. 0 * size = 0
    OBVIOUS
  <2> QED
    BY <1>3, <2>1
<1> DEFINE n == m - 1
<1>5. n \in 0..x /\ n \notin above
  BY <1>2, <1>3, <1>4
<1>6. n * size \in Int /\ m * size = n * size + size
  BY <1>3, <1>4
<1>7. n * size <= x
  BY <1>5, <1>6
<1> QED
  BY <1>3, <1>5, <1>6, <1>7

(* Every day of the range is asked for.                                    *)
LEMMA ChunksCover ==
    ASSUME NEW d \in FirstDay..LastDay
    PROVE  \E c \in Chunks : d \in c
<1> DEFINE total == LastDay - FirstDay + 1
           size  == IF RoundUp(total, ChunkDays + 1) > MaxChunks
                    THEN RoundUp(total, MaxChunks) ELSE ChunkDays + 1
           Chunk(n) == {e \in FirstDay..LastDay : /\ FirstDay + n * size <= e
                                                  /\ e < FirstDay + n * size + size}
<1>1. /\ FirstDay \in Nat /\ LastDay \in Nat /\ FirstDay <= LastDay /\ ChunkDays \in Nat
      /\ MaxChunks \in Nat /\ MaxChunks > 0
  BY SizesAssumption
<1>2. size \in Nat /\ size > 0
  <2>1. total \in Nat /\ total > 0
    BY <1>1
  <2>2. RoundUp(total, MaxChunks) \in Nat /\ RoundUp(total, MaxChunks) > 0
    <3> HIDE DEF total
    <3> QED
      BY <1>1, <2>1, RoundUpPositive
  <2> QED
    BY <1>1, <2>2
<1>3. CASE ChunkDays = 0 \/ LastDay - FirstDay <= ChunkDays
  BY <1>3 DEF Chunks
<1>4. CASE ~(ChunkDays = 0 \/ LastDay - FirstDay <= ChunkDays)
  <2>1. Chunks = {Chunk(n) : n \in 0..(LastDay - FirstDay)} \ {{}}
    BY <1>4 DEF Chunks
  <2> HIDE DEF size
  <2>2. d - FirstDay \in Nat /\ d - FirstDay <= LastDay - FirstDay
    BY <1>1
  <2>3. PICK n \in 0..(d - FirstDay) : n * size <= d - FirstDay /\ d - FirstDay < n * size + size
    BY <1>2, <2>2, StepCovers
  <2>4. n \in 0..(LastDay - FirstDay) /\ n * size \in Int
    BY <1>1, <1>2, <2>2
  <2>5. d \in Chunk(n)
    BY <1>1, <1>2, <2>3, <2>4
  <2> HIDE DEF Chunk
  <2>6. Chunk(n) \in Chunks
    BY <2>1, <2>4, <2>5
  <2> QED
    BY <2>5, <2>6
<1> QED
  BY <1>3, <1>4

(* A search brings every tour of the days it was asked for.                *)
LEMMA SearchFindsAll ==
    ASSUME price \in [Tickets -> Nat], Search,
           NEW t \in Tickets, Day[t] \in FirstDay..LastDay
    PROVE  t \in ToSet(raw')
<1> DEFINE fetched == {f \in Chunks \X Tickets : Day[f[2]] \in f[1]}
<1>1. PICK found \in SetToSeqs(fetched) :
         raw' = Sorted([i \in DOMAIN found |-> found[i][2]], FALSE)
  BY DEF Search
<1>2. IsFiniteSet(fetched)
  BY FetchedAreFinite
<1>3. \A f \in fetched : f[2] \in Tickets
  OBVIOUS
<1>4. PICK c \in Chunks : Day[t] \in c
  BY ChunksCover
<1>5. <<c, t>> \in fetched
  BY <1>4
<1> HIDE DEF fetched
<1> DEFINE list == [i \in DOMAIN found |-> found[i][2]]
<1>6. /\ found \in Seq(fetched) /\ DOMAIN found = 1..Len(found)
      /\ \A f \in fetched : \E i \in DOMAIN found : found[i] = f
  BY <1>2, SeqsOfSet
<1>7. list \in Seq(Tickets) /\ DOMAIN list = DOMAIN found
  <2>1. Len(found) \in Nat /\ \A i \in DOMAIN found : found[i] \in fetched
    BY <1>6
  <2>2. list \in [1..Len(found) -> Tickets]
    BY <1>3, <1>6, <2>1
  <2> HIDE DEF list
  <2> QED
    BY <1>6, <2>1, <2>2
<1>8. PICK i \in DOMAIN list : list[i] = t
  <2>1. PICK i \in DOMAIN found : found[i] = <<c, t>>
    BY <1>5, <1>6
  <2>2. list[i] = t
    BY <2>1
  <2> QED
    BY <2>1, <2>2
<1> HIDE DEF list
<1>9. PICK at : Takes(raw', at, list, DOMAIN list)
  BY <1>1, <1>7, SortedTakes DEF list
<1>10. PICK p \in DOMAIN raw' : at[p] = i
  BY <1>9 DEF Takes
<1>11. raw'[p] = t
  BY <1>8, <1>9, <1>10 DEF Takes
<1> QED
  BY <1>10, <1>11 DEF ToSet

-----------------------------------------------------------------------------
WindowIsWhole == path # "popular" => days = FirstDay..LastDay

AllAreFetched == path = "rest" /\ stage # "search" => Asked \subseteq ToSet(raw)

KeepsAll == (across /\ order # "recommended") \/ path = "home"

(* What OffersShownOnce says of the tickets that were received.            *)
BookedOnce ==
    stage # "cached" /\ KeepsAll =>
        \A t \in ToSet(raw) : TourId[t] # Nothing => Cardinality(Places(t)) = 1

BookedInv == SelfOffered /\ WindowIsWhole /\ AllAreFetched /\ BookedOnce

(* Grouping leaves every ticket among the offers it carries.               *)
LEMMA GroupedSelf ==
    ASSUME price \in [Tickets -> Nat], offers \in [Tickets -> Seq(Tickets)], SelfOffered,
           NEW tickets \in Seq(Tickets), NEW merge, NEW t \in Tickets,
           GroupedOffers(tickets, merge)[t] # <<>>, TourId[t] # Nothing
    PROVE  \E k \in DOMAIN GroupedOffers(tickets, merge)[t] :
              TourId[GroupedOffers(tickets, merge)[t][k]] = TourId[t]
<1> DEFINE group == Group(tickets, t, merge)
           new   == GroupedOffers(tickets, merge)
<1>1. new[t] = IF IsCard(t, tickets, merge) THEN OffersOf(tickets, group) ELSE offers[t]
  BY DEF GroupedOffers, IsCard
<1>2. CASE IsCard(t, tickets, merge)
  <2>1. group \in SUBSET DOMAIN tickets /\ group # {} /\ tickets[Winner(tickets, group)] = t
    BY <1>2, GroupIn DEF IsCard
  <2> HIDE DEF group
  <2> DEFINE w    == Winner(tickets, group)
             list == OffersOf(tickets, group)
  <2>2. w \in group /\ tickets[w] = t
    BY <2>1, WinnerWins
  <2> HIDE DEF w
  <2>3. TourId[tickets[w]] # Nothing
    BY <2>2
  <2>4. /\ \E p \in DOMAIN list : TourId[list[p]] = TourId[tickets[w]]
        /\ \A p, q \in DOMAIN list :
              TourId[list[p]] = TourId[tickets[w]] /\ TourId[list[q]] = TourId[tickets[w]] => p = q
    BY <2>1, <2>2, <2>3, TourOfferedOnce
  <2> QED
    BY <1>1, <1>2, <2>2, <2>4
<1>3. CASE ~IsCard(t, tickets, merge)
  BY <1>1, <1>3 DEF SelfOffered
<1> QED
  BY <1>2, <1>3

(* What is shown has one place for each tour with an id.                   *)
LEMMA ShowBooks ==
    ASSUME ResultsTypeOK, RequestIsKnown, OffersFit, SelfOffered, KeepsAll,
           UNCHANGED request, raw' \in Seq(Tickets), Show(raw', across),
           NEW t \in ToSet(raw'), TourId[t] # Nothing
    PROVE  Cardinality(Places(t)') = 1
<1>1. price \in [Tickets -> Nat] /\ offers \in [Tickets -> Seq(Tickets)]
  BY PricesAreNat DEF ResultsTypeOK
<1>2. OnePerGroup(cards', raw', across)
  <2>1. order = "skip" \/ (across = TRUE /\ order \notin {"skip", "recommended"})
    BY DEF KeepsAll, RequestIsKnown, ResultsTypeOK
  <2> QED
    BY <1>1, <2>1, ShowOnePerGroup
<1>3. /\ cards' \in Seq(Tickets)
      /\ offers' = GroupedOffers(raw', across)
      /\ \A u \in Tickets : \A k \in DOMAIN offers'[u] : Fits(offers'[u][k], u, across)
  BY ShowTypes
<1>4. PICK j \in DOMAIN raw' : raw'[j] = t
  BY DEF ToSet
<1>5. PICK i \in DOMAIN cards' : GroupKey(cards'[i], across) = GroupKey(t, across)
  BY <1>2, <1>4 DEF OnePerGroup
<1> DEFINE u == cards'[i]
           group == Group(raw', u, across)
           list == OffersOf(raw', group)
<1>6. u \in Tickets /\ IsCard(u, raw', across) /\ group \in SUBSET DOMAIN raw'
  BY <1>2, <1>3, GroupIn DEF OnePerGroup
<1>7. offers'[u] = list
  BY <1>3, <1>6 DEF GroupedOffers, IsCard
<1>8. j \in group
  BY <1>4, <1>5 DEF Group
<1>9. /\ \E p \in DOMAIN list : TourId[list[p]] = TourId[t]
      /\ \A p, q \in DOMAIN list :
            TourId[list[p]] = TourId[t] /\ TourId[list[q]] = TourId[t] => p = q
  <2> HIDE DEF group
  <2>1. TourId[raw'[j]] # Nothing
    BY <1>4
  <2>2. /\ \E p \in DOMAIN list : TourId[list[p]] = TourId[raw'[j]]
        /\ \A p, q \in DOMAIN list :
              TourId[list[p]] = TourId[raw'[j]] /\ TourId[list[q]] = TourId[raw'[j]] => p = q
    BY <1>1, <1>6, <1>8, <2>1, TourOfferedOnce
  <2> QED
    BY <1>4, <2>2
<1>10. PICK p \in DOMAIN list : TourId[list[p]] = TourId[t]
  BY <1>9
<1>11. across' = across
  BY DEF request
<1> HIDE DEF list, group
<1>12. ASSUME NEW x \in Places(t)'
       PROVE  x = <<i, p>>
  <2>1. PICK k \in DOMAIN cards' : x \in {k} \X DOMAIN offers'[cards'[k]]
    BY DEF Places
  <2>2. x[1] = k /\ x[2] \in DOMAIN offers'[cards'[k]] /\ x = <<x[1], x[2]>>
    BY <2>1
  <2> DEFINE o == offers'[cards'[k]][x[2]]
  <2>3. GroupKey(o, across) = GroupKey(t, across) /\ TourId[o] = TourId[t]
    BY <1>11, <2>2 DEF Places
  <2>4. cards'[k] \in Tickets
    BY <1>3
  <2>5. GroupKey(o, across) = GroupKey(cards'[k], across)
    BY <1>3, <2>2, <2>4 DEF Fits
  <2>6. k = i
    BY <1>2, <1>5, <2>3, <2>5 DEF OnePerGroup
  <2>7. x[2] = p
    BY <1>7, <1>9, <1>10, <2>2, <2>3, <2>6
  <2> QED
    BY <2>2, <2>6, <2>7
<1>13. <<i, p>> \in Places(t)'
  <2>1. GroupKey(offers'[u][p], across) = GroupKey(t, across)
    BY <1>3, <1>5, <1>6, <1>7, <1>10 DEF Fits
  <2>2. TourId[offers'[u][p]] = TourId[t] /\ p \in DOMAIN offers'[u]
    BY <1>7, <1>10
  <2>3. <<i, p>> \in {i} \X DOMAIN offers'[cards'[i]]
    BY <2>2
  <2>4. <<i, p>>[1] = i /\ <<i, p>>[2] = p
    OBVIOUS
  <2> QED
    BY <1>11, <2>1, <2>2, <2>3, <2>4 DEF Places
<1>14. Places(t)' = {<<i, p>>}
  BY <1>12, <1>13
<1> QED
  BY <1>14, FS_Singleton

LEMMA BookedStep ==
    ASSUME ShownInv, BookedInv, [ResultsNext]_resultsVars
    PROVE  BookedInv'
<1>1. ResultsTypeOK /\ RequestIsKnown /\ OffersFit
  BY DEF ShownInv
<1>2. price \in [Tickets -> Nat] /\ offers \in [Tickets -> Seq(Tickets)]
  BY <1>1, PricesAreNat DEF ResultsTypeOK
<1>3. /\ UNCHANGED request /\ raw' \in Seq(Tickets)
      /\ \/ Show(raw', across)
         \/ UNCHANGED <<shown, raw, stage>>
         \/ UNCHANGED shown /\ raw' = <<>> /\ stage' = "missed"
         \/ UNCHANGED shown /\ stage' = "cached"
  BY <1>1, StepShows
<1>4. UNCHANGED <<path, order, across, days, price>>
  BY <1>3 DEF request
<1>5. SelfOffered'
  <2>1. CASE UNCHANGED shown
    BY <2>1 DEF BookedInv, SelfOffered, shown
  <2>2. CASE Show(raw', across)
    <3>1. offers' = GroupedOffers(raw', across)
      BY <2>2 DEF Show
    <3>2. SelfOffered
      BY DEF BookedInv
    <3>3. ASSUME NEW t \in Tickets, offers'[t] # <<>>, TourId[t] # Nothing
          PROVE  \E k \in DOMAIN offers'[t] : TourId[offers'[t][k]] = TourId[t]
      BY <1>2, <1>3, <3>1, <3>2, <3>3, GroupedSelf
    <3> QED
      BY <3>3 DEF SelfOffered
  <2> QED
    BY <1>3, <2>1, <2>2
<1>6. WindowIsWhole'
  BY <1>4 DEF BookedInv, WindowIsWhole
<1>7. AllAreFetched'
  <2>1. Asked' = Asked
    BY <1>4 DEF Asked
  <2>2. CASE path = "rest" /\ Search
    <3>1. days = FirstDay..LastDay
      BY <2>2 DEF BookedInv, WindowIsWhole
    <3>2. \A t \in Asked : t \in ToSet(raw')
      BY <1>2, <2>2, <3>1, SearchFindsAll DEF Asked
    <3>3. Asked \subseteq ToSet(raw')
      BY <3>2
    <3> QED
      BY <2>1, <3>3 DEF AllAreFetched, ToSet
  <2>3. CASE path = "rest" /\ UNCHANGED <<raw, stage>>
    BY <2>1, <1>4, <2>3 DEF BookedInv, AllAreFetched, ToSet
  <2>4. CASE path # "rest"
    BY <1>4, <2>4 DEF AllAreFetched
  <2>5. path = "rest" => Search \/ UNCHANGED <<raw, stage>>
    BY DEF ResultsNext, SearchHome, SearchPopular, AskPopular, CollectBatch, Regroup, Done, resultsVars
  <2> QED
    BY <2>2, <2>3, <2>4, <2>5
<1>8. BookedOnce'
  <2> SUFFICES ASSUME stage' # "cached", KeepsAll', NEW t \in ToSet(raw'), TourId[t] # Nothing
               PROVE  Cardinality(Places(t)') = 1
    BY DEF BookedOnce, ToSet
  <2>1. KeepsAll
    BY <1>4 DEF KeepsAll
  <2>2. CASE Show(raw', across)
    BY <1>1, <1>3, <2>1, <2>2, ShowBooks DEF BookedInv
  <2>3. CASE UNCHANGED <<shown, raw, stage>>
    <3>1. offers' = offers /\ cards' = cards /\ across' = across /\ raw' = raw /\ stage' = stage
      BY <1>4, <2>3 DEF shown
    <3>2. Places(t)' = Places(t)
      BY <3>1 DEF Places
    <3>3. t \in ToSet(raw) /\ stage # "cached"
      BY <3>1 DEF ToSet
    <3>4. Cardinality(Places(t)) = 1
      BY <2>1, <3>3 DEF BookedInv, BookedOnce
    <3> QED
      BY <3>2, <3>4
  <2>4. CASE raw' = <<>>
    BY <2>4 DEF ToSet
  <2> QED
    BY <1>3, <2>2, <2>3, <2>4
<1> QED
  BY <1>5, <1>6, <1>7, <1>8 DEF BookedInv

LEMMA BookedInit == ResultsInit => BookedInv
<1> SUFFICES ASSUME ResultsInit
             PROVE  BookedInv
  OBVIOUS
<1>1. ToSet(raw) = {} /\ SelfOffered
  BY DEF ResultsInit, ToSet, SelfOffered
<1>2. WindowIsWhole
  BY DEF ResultsInit, WindowIsWhole
<1>3. AllAreFetched
  BY DEF ResultsInit, AllAreFetched
<1> QED
  BY <1>1, <1>2, <1>3 DEF BookedInv, BookedOnce

LEMMA BookedInvariance == ResultsSpec => []BookedInv
BY BookedInit, BookedStep, ShownInvariance, PTL DEF ResultsSpec

(* For any tickets and prices, however a range of days is split and        *)
(* however often tickets are grouped, every tour with an id that was asked *)
(* for is one offer of one card (checkin_split.go:72-109,                  *)
(* hotel_grouping.go:112-196).                                             *)
THEOREM ToursBookedOnce == ResultsSpec => []OffersShownOnce
<1>1. BookedInv => OffersShownOnce
  BY DEF BookedInv, BookedOnce, AllAreFetched, KeepsAll, OffersShownOnce, Wanted
<1> QED
  BY <1>1, BookedInvariance, PTL

-----------------------------------------------------------------------------
(* Of each recommended hotel a card is kept that costs no more than others.*)
LEMMA BestIsCheapest ==
    ASSUME price \in [Tickets -> Nat], NEW list \in Seq(Tickets),
           NEW p \in DOMAIN list, IsRecommended(list[p])
    PROVE  \E x \in CheapestPerRecommended(list) :
              DbHotel[x] = DbHotel[list[p]] /\ price[x] <= price[list[p]]
<1> DEFINE same  == {k \in DOMAIN list : DbHotel[list[k]] = DbHotel[list[p]]}
           costs == {price[list[k]] : k \in same}
<1>1. \A k \in DOMAIN list : k \in Nat /\ price[list[k]] \in Nat
  OBVIOUS
<1>2. costs \in SUBSET Nat /\ price[list[p]] \in costs
  BY <1>1
<1>3. PICK c \in costs : \A e \in costs : c <= e
  <2> HIDE DEF costs
  <2> QED
    BY <1>2, LeastOf
<1> DEFINE best == {k \in same : price[list[k]] = c}
<1>4. best \in SUBSET Nat /\ best # {}
  BY <1>1, <1>3
<1>5. PICK m \in best : \A k \in best : m <= k
  <2> HIDE DEF best
  <2> QED
    BY <1>4, LeastOf
<1>6. /\ m \in DOMAIN list /\ DbHotel[list[m]] = DbHotel[list[p]] /\ price[list[m]] = c
      /\ IsRecommended(list[m])
  BY <1>5 DEF IsRecommended
<1>7. ASSUME NEW k \in DOMAIN list, DbHotel[list[k]] = DbHotel[list[m]]
      PROVE  price[list[m]] < price[list[k]] \/ (price[list[m]] = price[list[k]] /\ m <= k)
  <2>1. k \in same
    BY <1>6, <1>7
  <2>2. c <= price[list[k]] /\ (price[list[k]] = c => m <= k)
    BY <1>3, <1>5, <2>1
  <2>3. c \in Nat /\ price[list[k]] \in Nat
    BY <1>1, <1>6
  <2> QED
    BY <1>6, <2>2, <2>3
<1>8. list[m] \in CheapestPerRecommended(list)
  BY <1>6, <1>7 DEF CheapestPerRecommended
<1>9. price[list[m]] <= price[list[p]]
  BY <1>2, <1>3, <1>6
<1> QED
  BY <1>6, <1>8, <1>9

(* Mixing leaves nothing out.                                              *)
LEMMA MixedHas ==
    ASSUME NEW marked \in Seq(Tickets), NEW normal \in Seq(Tickets)
    PROVE  LET out == Interleaved(marked, normal)
           IN  /\ \A i \in DOMAIN marked : \E p \in DOMAIN out : out[p] = marked[i]
               /\ \A j \in DOMAIN normal : \E p \in DOMAIN out : out[p] = normal[j]
<1> DEFINE n    == Len(marked) + Len(normal)
           at   == ByKey(1..n, Turn(marked, normal))
           both == marked \o normal
           out  == Interleaved(marked, normal)
<1>1. Takes(out, at, both, 1..n)
  BY InterleavedTakes
<1>2. \A m \in 1..n : both[m] = IF m <= Len(marked) THEN marked[m] ELSE normal[m - Len(marked)]
  OBVIOUS
<1>3. ASSUME NEW i \in DOMAIN marked
      PROVE  i \in 1..n /\ both[i] = marked[i]
  BY <1>2
<1>4. ASSUME NEW j \in DOMAIN normal
      PROVE  Len(marked) + j \in 1..n /\ both[Len(marked) + j] = normal[j]
  <2>1. Len(marked) + j \in 1..n /\ ~(Len(marked) + j <= Len(marked)) /\ Len(marked) + j - Len(marked) = j
    OBVIOUS
  <2> QED
    BY <1>2, <2>1
<1> HIDE DEF n, at, both, out
<1>5. \A m \in 1..n : \E p \in DOMAIN out : out[p] = both[m]
  BY <1>1 DEF Takes
<1>6. \A i \in DOMAIN marked : \E p \in DOMAIN out : out[p] = marked[i]
  BY <1>3, <1>5
<1>7. ASSUME NEW j \in DOMAIN normal
      PROVE  \E p \in DOMAIN out : out[p] = normal[j]
  <2>1. PICK p \in DOMAIN out : out[p] = both[Len(marked) + j]
    BY <1>4, <1>5
  <2> QED
    BY <1>4, <2>1
<1> QED
  BY <1>6, <1>7 DEF out

(* A list by price shows each card, or one of the same hotel that costs no *)
(* more.                                                                   *)
LEMMA ShowStandsFor ==
    ASSUME price \in [Tickets -> Nat], NEW tickets \in Seq(Tickets), NEW merge,
           Show(tickets, merge), order \notin {"skip", "recommended"},
           NEW c \in DOMAIN Cards(tickets, merge)
    PROVE  \E p \in DOMAIN cards' :
              \/ cards'[p] = Cards(tickets, merge)[c]
              \/ /\ DbHotel[cards'[p]] = DbHotel[Cards(tickets, merge)[c]]
                 /\ DbHotel[cards'[p]] # Nothing
                 /\ price[cards'[p]] <= price[Cards(tickets, merge)[c]]
<1> DEFINE all == Cards(tickets, merge)
<1>1. /\ all \in Seq(Tickets)
      /\ \E marked, normal : MixedFrom(marked, normal, all) /\ cards' = Interleaved(marked, normal)
  BY ShowMixes
<1> HIDE DEF all
<1>2. PICK marked, normal : MixedFrom(marked, normal, all) /\ cards' = Interleaved(marked, normal)
  BY <1>1
<1>3. marked \in Seq(Tickets) /\ normal \in Seq(Tickets) /\ c \in DOMAIN all
  BY <1>2 DEF MixedFrom, all
<1>4. /\ \A i \in DOMAIN marked : \E p \in DOMAIN cards' : cards'[p] = marked[i]
      /\ \A j \in DOMAIN normal : \E p \in DOMAIN cards' : cards'[p] = normal[j]
  BY <1>2, <1>3, MixedHas
<1>5. CASE IsRecommended(all[c])
  <2>1. PICK x \in CheapestPerRecommended(all) :
           DbHotel[x] = DbHotel[all[c]] /\ price[x] <= price[all[c]]
    BY <1>1, <1>3, <1>5, BestIsCheapest
  <2>2. PICK i \in DOMAIN marked : marked[i] = x
    BY <1>2 DEF MixedFrom
  <2>3. PICK p \in DOMAIN cards' : cards'[p] = x
    BY <1>4, <2>2
  <2> QED
    BY <1>5, <2>1, <2>3 DEF IsRecommended, all
<1>6. CASE ~IsRecommended(all[c])
  <2>1. PICK nt : Takes(normal, nt, all, {i \in DOMAIN all : ~IsRecommended(all[i])})
    BY <1>2 DEF MixedFrom
  <2>2. PICK j \in DOMAIN normal : nt[j] = c
    BY <1>3, <1>6, <2>1 DEF Takes
  <2>3. normal[j] = all[c]
    BY <2>1, <2>2 DEF Takes
  <2> QED
    BY <1>4, <2>3 DEF all
<1> QED
  BY <1>5, <1>6

-----------------------------------------------------------------------------
LEMMA PairFirst ==
    ASSUME NEW x, NEW y, NEW s, s = <<>> \/ \E d : s = <<d>>
    PROVE  (<<x, y>> \o s)[1] = x /\ (<<x, y>> \o s)[2] = y
OBVIOUS

LEMMA TripleFirst ==
    ASSUME NEW x, NEW y, NEW z, NEW s, s = <<>> \/ \E d : s = <<d>>
    PROVE  (<<x, y, z>> \o s)[1] = x
OBVIOUS

(* The key of a hotel that is mapped tells which hotel it is.              *)
LEMMA KeyTellsHotel ==
    ASSUME NEW t, NEW u, NEW merge, GroupKey(t, merge) = GroupKey(u, merge),
           DbHotel[t] # Nothing
    PROVE  DbHotel[u] = DbHotel[t]
<1> DEFINE s(v) == IF merge THEN <<>> ELSE <<Day[v]>>
<1>1. \A v : s(v) = <<>> \/ \E d : s(v) = <<d>>
  OBVIOUS
<1>2. ASSUME NEW v, DbHotel[v] # Nothing
      PROVE  GroupKey(v, merge)[1] = "db" /\ GroupKey(v, merge)[2] = DbHotel[v]
  <2>1. GroupKey(v, merge) = <<"db", DbHotel[v]>> \o s(v)
    BY <1>2 DEF GroupKey
  <2> HIDE DEF s
  <2> QED
    BY <1>1, <2>1, PairFirst
<1>3. ASSUME NEW v, DbHotel[v] = Nothing
      PROVE  GroupKey(v, merge)[1] # "db"
  <2>1. \/ GroupKey(v, merge) = <<"op", Operator[v], OwnHotel[v]>> \o s(v)
        \/ GroupKey(v, merge) = <<"uniq", Operator[v], TourId[v]>> \o s(v)
    BY <1>3 DEF GroupKey
  <2>2. "op" # "db" /\ "uniq" # "db"
    OBVIOUS
  <2> HIDE DEF s
  <2> QED
    BY <1>1, <2>1, <2>2, TripleFirst
<1>4. GroupKey(t, merge)[1] = "db" /\ GroupKey(t, merge)[2] = DbHotel[t]
  BY <1>2
<1>5. DbHotel[u] # Nothing
  BY <1>3, <1>4
<1> QED
  BY <1>2, <1>4, <1>5

OffersAreFresh == offers = [t \in Tickets |-> <<>>]

(* The first time, the offers of a card are the tickets of its group; what *)
(* is left out has the id of one that is not.                              *)
LEMMA FreshOffers ==
    ASSUME price \in [Tickets -> Nat], OffersAreFresh,
           NEW tickets \in Seq(Tickets), NEW group \in SUBSET DOMAIN tickets
    PROVE  LET list == OffersOf(tickets, group)
           IN  /\ \A p \in DOMAIN list : \E i \in group : list[p] = tickets[i]
               /\ \A i \in group : \E p \in DOMAIN list :
                     \/ list[p] = tickets[i]
                     \/ TourId[list[p]] = TourId[tickets[i]] /\ TourId[tickets[i]] # Nothing
<1> DEFINE list == OffersOf(tickets, group)
           kept == Kept(tickets, group)
           handed == HandedIn(tickets, group)
           n    == Cardinality(kept)
           at   == ByPrice(tickets, kept)
<1>1. offers \in [Tickets -> Seq(Tickets)] /\ SelfOffered
  BY DEF OffersAreFresh, SelfOffered
<1>2. ASSUME NEW i \in group
      PROVE  tickets[i] \in Tickets /\ Existing(tickets[i]) = <<tickets[i]>>
  BY DEF Existing, OffersAreFresh
<1>3. /\ at \in [1..n -> kept] /\ DOMAIN list = 1..n
      /\ \A x \in kept : \E p \in 1..n : at[p] = x
      /\ list = [p \in 1..n |-> Offer(tickets, at[p])]
  BY <1>1, OffersOfKept
<1>4. \A p \in 1..n : list[p] = Offer(tickets, at[p])
  BY <1>3
<1>5. ASSUME NEW p \in DOMAIN list
      PROVE  \E i \in group : list[p] = tickets[i]
  <2>1. PICK i \in group : \E k \in DOMAIN Existing(tickets[i]) : list[p] = Existing(tickets[i])[k]
    BY <1>1, OffersComeFrom
  <2>2. list[p] = tickets[i]
    BY <1>2, <2>1
  <2> QED
    BY <2>2
<1>6. ASSUME NEW i \in group
      PROVE  \E p \in DOMAIN list :
                \/ list[p] = tickets[i]
                \/ TourId[list[p]] = TourId[tickets[i]] /\ TourId[tickets[i]] # Nothing
  <2>1. CASE TourId[tickets[i]] # Nothing
    <3>1. /\ \E p \in DOMAIN list : TourId[list[p]] = TourId[tickets[i]]
          /\ \A p, q \in DOMAIN list :
                TourId[list[p]] = TourId[tickets[i]] /\ TourId[list[q]] = TourId[tickets[i]] => p = q
      BY <1>1, <2>1, TourOfferedOnce
    <3> QED
      BY <2>1, <3>1
  <2>2. CASE TourId[tickets[i]] = Nothing
    <3>1. 1 \in DOMAIN Existing(tickets[i]) /\ Existing(tickets[i])[1] = tickets[i]
      BY <1>2
    <3>2. <<i, 1>> \in handed
      BY <1>1, <3>1, HandedInFacts
    <3>3. Offer(tickets, <<i, 1>>) = tickets[i]
      BY <3>1 DEF Offer
    <3>4. <<i, 1>> \in kept
      BY <2>2, <3>2, <3>3 DEF Kept, Dedupe
    <3>5. PICK p \in 1..n : at[p] = <<i, 1>>
      BY <1>3, <3>4
    <3>6. list[p] = tickets[i] /\ p \in DOMAIN list
      <4> HIDE DEF at, list, n, kept
      <4> QED
        BY <1>3, <1>4, <3>3, <3>5
    <3> QED
      BY <3>6
  <2> QED
    BY <2>1, <2>2
<1> QED
  BY <1>5, <1>6

-----------------------------------------------------------------------------
(* A hotel is in one region, a region in one country.                      *)
HotelsHavePlaces ==
    /\ \A t, u \in Tickets : DbHotel[t] = DbHotel[u] /\ DbHotel[t] # Nothing => Region[t] = Region[u]
    /\ \A t, u \in Tickets : Region[t] = Region[u] => Country[t] = Country[u]

(* An id that an operator sends twice for a hotel is the same tour.        *)
SameIdSameTour ==
    \A t, u \in Tickets :
        /\ GroupKey(t, across) = GroupKey(u, across)
        /\ TourId[t] = TourId[u] /\ TourId[t] # Nothing
        => Region[t] = Region[u] /\ price[t] = price[u]

(* What the first list by price shows of tickets.                          *)
LEMMA FirstListShows ==
    ASSUME price \in [Tickets -> Nat], OffersAreFresh, HotelsHavePlaces, SameIdSameTour,
           NEW tickets \in Seq(Tickets), Show(tickets, across),
           order \notin {"skip", "recommended"}
    PROVE  LET all == UNION {ToSet(offers'[cards'[i]]) : i \in DOMAIN cards'}
           IN  /\ all \subseteq ToSet(tickets)
               /\ \A t \in ToSet(tickets) : price[t] > 0 =>
                     \E u \in all : Region[u] = Region[t] /\ price[u] <= price[t]
<1> DEFINE deck == Cards(tickets, across)
           all  == UNION {ToSet(offers'[cards'[i]]) : i \in DOMAIN cards'}
           G(t) == Group(tickets, t, across)
<1>1. /\ deck \in Seq(Tickets) /\ OnePerGroup(deck, tickets, across)
      /\ cards' \in Seq(Tickets)
      /\ \A i \in DOMAIN cards' : \E p \in DOMAIN deck : cards'[i] = deck[p]
  <2>1. deck \in Seq(Tickets) /\ OnePerGroup(deck, tickets, across)
    BY CardsOnePerGroup
  <2>2. /\ cards' \in Seq(Tickets)
        /\ \A i \in DOMAIN cards' : \E p \in DOMAIN deck : cards'[i] = deck[p]
    BY ShowCards
  <2> QED
    BY <2>1, <2>2
<1>2. ASSUME NEW i \in DOMAIN cards'
      PROVE  /\ cards'[i] \in Tickets /\ G(cards'[i]) \in SUBSET DOMAIN tickets
             /\ IsCard(cards'[i], tickets, across)
             /\ Winner(tickets, G(cards'[i])) \in G(cards'[i])
             /\ offers'[cards'[i]] = OffersOf(tickets, G(cards'[i]))
  <2> DEFINE v == cards'[i]
  <2>1. v \in Tickets /\ IsCard(v, tickets, across) /\ G(v) \in SUBSET DOMAIN tickets
    <3>1. v \in Tickets
      BY <1>1
    <3>2. \A t : G(t) \in SUBSET DOMAIN tickets
      BY GroupIn
    <3>3. PICK p \in DOMAIN deck : v = deck[p]
      BY <1>1
    <3>4. IsCard(v, tickets, across)
      BY <1>1, <3>3 DEF OnePerGroup
    <3> QED
      BY <3>1, <3>2, <3>4
  <2>2. offers'[v] = OffersOf(tickets, G(v))
    BY <2>1 DEF Show, GroupedOffers, IsCard
  <2>3. G(v) # {}
    BY <2>1 DEF IsCard
  <2>4. Winner(tickets, G(v)) \in G(v)
    <3> HIDE DEF G
    <3> QED
      BY <2>1, <2>3, WinnerWins
  <2> QED
    BY <2>1, <2>2, <2>4
<1>3. ASSUME NEW i \in DOMAIN cards', NEW j \in G(cards'[i])
      PROVE  \E u \in all : Region[u] = Region[tickets[j]] /\ price[u] = price[tickets[j]]
  <2> DEFINE list == offers'[cards'[i]]
             group == G(cards'[i])
  <2>1. group \in SUBSET DOMAIN tickets /\ list = OffersOf(tickets, group)
    BY <1>2
  <2>2. /\ \A p \in DOMAIN list : \E k \in group : list[p] = tickets[k]
        /\ \E p \in DOMAIN list :
              \/ list[p] = tickets[j]
              \/ TourId[list[p]] = TourId[tickets[j]] /\ TourId[tickets[j]] # Nothing
    <3> HIDE DEF group
    <3>0. j \in group
      BY DEF group
    <3>1. /\ \A p \in DOMAIN OffersOf(tickets, group) :
                \E k \in group : OffersOf(tickets, group)[p] = tickets[k]
          /\ \A k \in group : \E p \in DOMAIN OffersOf(tickets, group) :
                \/ OffersOf(tickets, group)[p] = tickets[k]
                \/ TourId[OffersOf(tickets, group)[p]] = TourId[tickets[k]] /\ TourId[tickets[k]] # Nothing
      BY <2>1, FreshOffers
    <3> QED
      BY <2>1, <3>0, <3>1
  <2>3. PICK p \in DOMAIN list :
              \/ list[p] = tickets[j]
              \/ TourId[list[p]] = TourId[tickets[j]] /\ TourId[tickets[j]] # Nothing
    BY <2>2
  <2>4. PICK k \in group : list[p] = tickets[k]
    BY <2>2
  <2>5. list[p] \in all
    BY DEF ToSet
  <2>6. tickets[k] \in Tickets /\ tickets[j] \in Tickets
    BY <2>1
  <2>7. GroupKey(tickets[k], across) = GroupKey(tickets[j], across)
    <3>1. /\ GroupKey(tickets[k], across) = GroupKey(cards'[i], across)
          /\ GroupKey(tickets[j], across) = GroupKey(cards'[i], across)
      BY DEF Group
    <3> QED
      BY <3>1
  <2>8. Region[list[p]] = Region[tickets[j]] /\ price[list[p]] = price[tickets[j]]
    BY <2>3, <2>4, <2>6, <2>7 DEF SameIdSameTour
  <2> HIDE DEF all
  <2> QED
    BY <2>5, <2>8
<1>4. ASSUME NEW o \in all
      PROVE  o \in ToSet(tickets)
  <2>1. PICK i \in DOMAIN cards' : o \in ToSet(offers'[cards'[i]])
    OBVIOUS
  <2> DEFINE group == G(cards'[i])
  <2>2. group \in SUBSET DOMAIN tickets /\ offers'[cards'[i]] = OffersOf(tickets, group)
    BY <1>2
  <2> HIDE DEF group
  <2>3. PICK p \in DOMAIN OffersOf(tickets, group) : o = OffersOf(tickets, group)[p]
    BY <2>1, <2>2 DEF ToSet
  <2>4. PICK k \in group : o = tickets[k]
    BY <2>2, <2>3, FreshOffers
  <2> QED
    BY <2>2, <2>4 DEF ToSet
<1>5. ASSUME NEW t \in ToSet(tickets), price[t] > 0
      PROVE  \E u \in all : Region[u] = Region[t] /\ price[u] <= price[t]
  <2>1. PICK j \in DOMAIN tickets : tickets[j] = t
    BY DEF ToSet
  <2>2. PICK c \in DOMAIN deck : GroupKey(deck[c], across) = GroupKey(t, across)
    BY <1>1, <2>1 DEF OnePerGroup
  <2> DEFINE w == deck[c]
  <2>3. /\ w \in Tickets /\ IsCard(w, tickets, across)
        /\ j \in G(w) /\ G(w) \in SUBSET DOMAIN tickets
    BY <1>1, <2>1, <2>2, GroupIn DEF OnePerGroup, Group
  <2>4. price[w] > 0 /\ price[w] <= price[t]
    <3>1. w = tickets[Winner(tickets, G(w))]
      BY <2>3 DEF IsCard
    <3> HIDE DEF G, w
    <3> QED
      BY <1>5, <2>1, <2>3, <3>1, WinnerIsCheapest
  <2>5. PICK i \in DOMAIN cards' :
              \/ cards'[i] = w
              \/ /\ DbHotel[cards'[i]] = DbHotel[w] /\ DbHotel[cards'[i]] # Nothing
                 /\ price[cards'[i]] <= price[w]
    BY ShowStandsFor
  <2> HIDE DEF deck, w, all
  <2>6. t \in Tickets
    BY <2>1
  <2>7. CASE cards'[i] = w
    <3>1. PICK u \in all : Region[u] = Region[tickets[j]] /\ price[u] = price[tickets[j]]
      BY <1>3, <2>3, <2>7
    <3>2. price[u] <= price[t]
      BY <2>1, <2>6, <3>1
    <3> QED
      BY <2>1, <3>1, <3>2
  <2>8. CASE /\ DbHotel[cards'[i]] = DbHotel[w] /\ DbHotel[cards'[i]] # Nothing
             /\ price[cards'[i]] <= price[w]
    <3> DEFINE v == cards'[i]
               m == Winner(tickets, G(v))
    <3>1. v \in Tickets /\ m \in G(v) /\ tickets[m] = v
      BY <1>2 DEF IsCard
    <3>2. DbHotel[t] = DbHotel[w]
      BY <2>2, <2>8, KeyTellsHotel DEF w
    <3>3. Region[v] = Region[t]
      BY <2>6, <2>8, <3>1, <3>2 DEF HotelsHavePlaces
    <3>4. PICK u \in all : Region[u] = Region[tickets[m]] /\ price[u] = price[tickets[m]]
      BY <1>3, <3>1
    <3>5. price[v] \in Nat /\ price[w] \in Nat /\ price[t] \in Nat
      BY <2>3, <2>6, <3>1
    <3>6. price[u] <= price[t]
      BY <2>4, <2>8, <3>1, <3>4, <3>5
    <3> QED
      BY <3>1, <3>3, <3>4, <3>6
  <2> QED
    BY <2>5, <2>7, <2>8
<1> QED
  BY <1>4, <1>5

-----------------------------------------------------------------------------
Found == {t \in Tickets : Day[t] \in FirstDay..LastDay}

PopularIsFresh == path = "popular" /\ stage \in {"search", "cached"} => OffersAreFresh

(* What is stored are the cheapest tours of each destination.              *)
PopularIsChosen == path = "popular" /\ stage = "cached" => ToSet(raw) \in PopularChoices(Found)

PopularInv ==
    PopularIsFresh /\ PopularIsChosen /\ SameIdSameTour /\ PopularShowsCheapest

LEMMA SearchPopularStores ==
    ASSUME SearchPopular
    PROVE  ToSet(raw') \in PopularChoices(Found)
<1>1. PICK chosen \in PopularChoices(Found) : \E list \in SetToSeqs(chosen) : raw' = list
  BY DEF SearchPopular, Found
<1>2. chosen \in SUBSET Tickets
  BY <1>1 DEF PopularChoices, Found
<1>3. IsFiniteSet(chosen) /\ raw' \in SetToSeqs(chosen)
  BY <1>1, <1>2, FieldsAssumption, FS_Subset
<1>4. raw' \in Seq(chosen) /\ \A x \in chosen : \E i \in DOMAIN raw' : raw'[i] = x
  BY <1>3, SeqsOfSet
<1>5. ToSet(raw') = chosen
  BY <1>4 DEF ToSet
<1> QED
  BY <1>1, <1>5

LEMMA AskPopularShows ==
    ASSUME price \in [Tickets -> Nat], raw \in Seq(Tickets), OffersAreFresh,
           HotelsHavePlaces, SameIdSameTour, ToSet(raw) \in PopularChoices(Found),
           AskPopular, Show(raw', across), order \notin {"skip", "recommended"}
    PROVE  LET all == UNION {ToSet(offers'[cards'[i]]) : i \in DOMAIN cards'}
           IN  /\ all \subseteq Asked
               /\ \A o \in all : \A t \in Asked :
                    Region[t] = Region[o] /\ price[t] > 0 /\ Day[t] \in FirstDay..LastDay =>
                        \E u \in all : Region[u] = Region[o] /\ price[u] <= price[t]
<1> DEFINE all == UNION {ToSet(offers'[cards'[i]]) : i \in DOMAIN cards'}
<1>1. raw' \in Seq(Tickets)
  BY AskPopularBrings
<1>2. /\ all \subseteq ToSet(raw')
      /\ \A t \in ToSet(raw') : price[t] > 0 =>
            \E u \in all : Region[u] = Region[t] /\ price[u] <= price[t]
  BY <1>1, FirstListShows
<1> HIDE DEF all
<1>3. PICK region, country :
         raw' = Selected(raw, {i \in DOMAIN raw : Day[raw[i]] \in days /\ Matches(raw[i], region, country)})
  BY DEF AskPopular
<1> DEFINE places == {i \in DOMAIN raw : Day[raw[i]] \in days /\ Matches(raw[i], region, country)}
<1>4. PICK at : Takes(raw', at, raw, places)
  BY <1>3, SelectedTakes
<1>5. ASSUME NEW t \in ToSet(raw')
      PROVE  /\ t \in Asked /\ Matches(t, region, country) /\ t \in ToSet(raw)
  <2>1. PICK p \in DOMAIN raw' : raw'[p] = t
    BY DEF ToSet
  <2>2. at[p] \in places /\ t = raw[at[p]]
    BY <1>4, <2>1 DEF Takes
  <2> QED
    BY <2>2 DEF Asked, ToSet
<1>6. ASSUME NEW t \in ToSet(raw), Day[t] \in days, Matches(t, region, country)
      PROVE  t \in ToSet(raw')
  <2>1. PICK i \in DOMAIN raw : raw[i] = t
    BY DEF ToSet
  <2>2. i \in places
    BY <1>6, <2>1
  <2> HIDE DEF places
  <2>3. PICK p \in DOMAIN raw' : at[p] = i
    BY <1>4, <2>2 DEF Takes
  <2>4. raw'[p] = t
    BY <1>4, <2>1, <2>3 DEF Takes
  <2> QED
    BY <2>4 DEF ToSet
<1>7. all \subseteq Asked
  BY <1>2, <1>5
<1>8. ASSUME NEW o \in all, NEW t \in Asked, Region[t] = Region[o], price[t] > 0,
             Day[t] \in FirstDay..LastDay
      PROVE  \E u \in all : Region[u] = Region[o] /\ price[u] <= price[t]
  <2>1. o \in ToSet(raw') /\ o \in Tickets /\ t \in Tickets /\ Day[t] \in days
    BY <1>2, <1>7 DEF Asked
  <2>2. CASE t \in ToSet(raw)
    <3>1. Country[t] = Country[o]
      BY <1>8, <2>1 DEF HotelsHavePlaces
    <3>2. Matches(t, region, country)
      BY <1>5, <1>8, <2>1, <3>1 DEF Matches
    <3>3. t \in ToSet(raw')
      BY <1>6, <2>1, <2>2, <3>2
    <3> QED
      BY <1>2, <1>8, <3>3
  <2>3. CASE t \notin ToSet(raw)
    <3>1. t \in Found
      BY <1>8, <2>1 DEF Found
    <3>2. \A u \in {u \in ToSet(raw) : Region[u] = Region[t]} : price[u] <= price[t]
      BY <2>3, <3>1 DEF PopularChoices
    <3>3. o \in ToSet(raw) /\ Region[o] = Region[t]
      BY <1>5, <1>8, <2>1
    <3> QED
      BY <3>2, <3>3
  <2> QED
    BY <2>2, <2>3
<1> QED
  BY <1>7, <1>8 DEF all

LEMMA PopularStep ==
    ASSUME HotelsHavePlaces, ShownInv, PopularInv, [ResultsNext]_resultsVars
    PROVE  PopularInv'
<1>1. ResultsTypeOK /\ RequestIsKnown
  BY DEF ShownInv
<1>2. price \in [Tickets -> Nat] /\ raw \in Seq(Tickets)
  BY <1>1, PricesAreNat DEF ResultsTypeOK
<1>3. UNCHANGED <<path, order, across, days, price>>
  BY <1>1, StepShows DEF request
<1>4. SameIdSameTour'
  BY <1>3 DEF PopularInv, SameIdSameTour
<1>5. CASE path # "popular"
  BY <1>3, <1>4, <1>5 DEF PopularInv, PopularIsFresh, PopularIsChosen, PopularShowsCheapest
<1>6. CASE path = "popular" /\ SearchPopular
  <2>1. stage = "search" /\ stage' = "cached" /\ offers' = offers
    BY <1>6 DEF SearchPopular, shown
  <2>2. ToSet(raw') \in PopularChoices(Found)
    BY <1>6, SearchPopularStores
  <2>3. PopularIsChosen'
    BY <1>3, <2>2 DEF PopularIsChosen, PopularChoices, ToSet
  <2>4. PopularIsFresh'
    BY <1>6, <2>1 DEF PopularInv, PopularIsFresh, OffersAreFresh
  <2> QED
    BY <1>4, <2>1, <2>3, <2>4 DEF PopularInv, PopularShowsCheapest
<1>7. CASE path = "popular" /\ AskPopular
  <2>1. stage = "cached" /\ (stage' = "missed" \/ (stage' = "ended" /\ Show(raw', across)))
    BY <1>7 DEF AskPopular
  <2>2. PopularIsFresh' /\ PopularIsChosen'
    BY <2>1 DEF PopularIsFresh, PopularIsChosen
  <2>3. ASSUME stage' = "ended", order # "recommended"
        PROVE  LET all == UNION {ToSet(offers'[cards'[i]]) : i \in DOMAIN cards'}
               IN  /\ all \subseteq Asked
                   /\ \A o \in all : \A t \in Asked :
                        Region[t] = Region[o] /\ price[t] > 0 /\ Day[t] \in FirstDay..LastDay =>
                            \E u \in all : Region[u] = Region[o] /\ price[u] <= price[t]
    <3>1. Show(raw', across)
      BY <2>1, <2>3
    <3>2. order \notin {"skip", "recommended"}
      BY <1>1, <1>7, <2>3 DEF RequestIsKnown
    <3>3. OffersAreFresh /\ SameIdSameTour /\ ToSet(raw) \in PopularChoices(Found)
      BY <1>7, <2>1 DEF PopularInv, PopularIsFresh, PopularIsChosen
    <3> QED
      BY <1>2, <1>7, <3>1, <3>2, <3>3, AskPopularShows
  <2>4. PopularShowsCheapest'
    <3>1. Asked' = Asked /\ price' = price /\ order' = order
      BY <1>3 DEF Asked
    <3> QED
      BY <2>3, <3>1 DEF PopularShowsCheapest, ToSet
  <2> QED
    BY <1>4, <2>2, <2>4 DEF PopularInv
<1>8. CASE UNCHANGED resultsVars
  <2>1. UNCHANGED <<path, order, across, days, price, raw, offers, cards, badges, stage>>
    BY <1>8 DEF resultsVars, request, shown
  <2>2. PopularIsFresh' /\ PopularIsChosen'
    <3>1. PopularIsFresh'
      BY <2>1 DEF PopularInv, PopularIsFresh, OffersAreFresh
    <3>2. ToSet(raw)' = ToSet(raw)
      BY <2>1 DEF ToSet
    <3>3. PopularChoices(Found)' = PopularChoices(Found)
      BY <2>1 DEF PopularChoices
    <3>4. PopularIsChosen'
      BY <2>1, <3>2, <3>3 DEF PopularInv, PopularIsChosen
    <3> QED
      BY <3>1, <3>4
  <2>3. PopularShowsCheapest'
    BY <2>1 DEF PopularInv, PopularShowsCheapest, Asked, ToSet
  <2> QED
    BY <1>4, <2>2, <2>3 DEF PopularInv
<1>9. path = "popular" => SearchPopular \/ AskPopular \/ UNCHANGED resultsVars
  BY DEF ResultsNext, Search, SearchHome, CollectBatch, Regroup, Done
<1> QED
  BY <1>5, <1>6, <1>7, <1>8, <1>9

LEMMA PopularStart == ResultsInit /\ SameIdSameTour => PopularInv
BY DEF ResultsInit, PopularInv, PopularIsFresh, PopularIsChosen, PopularShowsCheapest, OffersAreFresh

(* For any number of tours kept of a destination, whatever days and places *)
(* are asked for: a destination that is shown has the cheapest of its      *)
(* tours that were found for those days (samo_result.go:489-532,           *)
(* popular_dest_cache.go:91-112).  A hotel must be in one region and a     *)
(* region in one country, and an id that comes twice for a hotel must be   *)
(* the same tour.                                                          *)
THEOREM PopularHonest ==
    ASSUME HotelsHavePlaces
    PROVE  ResultsSpec /\ SameIdSameTour => []PopularShowsCheapest
<1>1. ShownInv /\ PopularInv /\ [ResultsNext]_resultsVars => PopularInv'
  BY PopularStep
<1>2. PopularInv => PopularShowsCheapest
  BY DEF PopularInv
<1> QED
  BY <1>1, <1>2, PopularStart, ShownInvariance, PTL DEF ResultsSpec
=============================================================================
