----------------------------- MODULE HomeOffers -----------------------------
(***************************************************************************)
(* scheduler/home_offers.go, cache/home_offers_cache.go and their two      *)
(* handlers: the tours of the start page.  A scheduler searches every      *)
(* destination and stores two lists in Redis under keys of their own, all  *)
(* tours first and the recommended hotels' second; a request that finds    *)
(* its key missing does the same, one builder at a time under              *)
(* homeOffersWarmupMu.  A request for the recommended list that still      *)
(* finds nothing derives it from the other list, outside the lock.         *)
(* Hot tours from SAMO are served from the list of all tours in the same   *)
(* way (handlers/hot_tours.go): their requests are among HomeRequests.     *)
(*                                                                         *)
(* A list is named by the number of the search it was selected from; what  *)
(* is selected is SearchResults' business.                                 *)
(***************************************************************************)
EXTENDS Naturals, FiniteSets

CONSTANTS Scheduler,
          HomeRequests, RecRequests,  \* requests for either list
          NoOne,                      \* holds a free lock
          MaxBuilds,                  \* bound on the searches that find tours
          MaxFaults                   \* bound on the failures of Redis

Requests == HomeRequests \cup RecRequests
Actors   == {Scheduler} \cup Requests

ASSUME ActorsAssumption ==
    /\ Scheduler \notin Requests /\ NoOne \notin Actors
    /\ HomeRequests \cap RecRequests = {}
ASSUME BoundsAssumption == MaxBuilds \in Nat /\ MaxFaults \in Nat

VARIABLES home,    \* lists under home_offers: one at most
          rec,     \* lists under home_offers_recommended: one at most
          recLast, \* the recommended list was stored after the other one
          lock,    \* homeOffersWarmupMu
          pc,      \* where an actor stands
          inHand,  \* the search whose list it is about to store, 0 for none
          builds, faults,
          calm     \* since the request came neither it nor an entry failed (history)

cache == <<home, rec, recLast>>
count == <<builds, faults>>
vars  == <<cache, lock, pc, inHand, count, calm>>

Lists  == 1..MaxBuilds
Stages == {"idle", "lookup", "recheck", "wait", "check", "build", "storeHome", "storeRec",
           "second", "derive", "storeDerived", "served", "empty"}

Goto(a, stage) == pc' = [pc EXCEPT ![a] = stage]

Works == UNCHANGED <<faults, calm>>

(* Redis answers with an error. *)
Fails(a) ==
    /\ faults < MaxFaults
    /\ faults' = faults + 1
    /\ calm' = [calm EXCEPT ![a] = FALSE]

-----------------------------------------------------------------------------
Init ==
    /\ home = {} /\ rec = {} /\ recLast = TRUE
    /\ lock = NoOne
    /\ pc = [a \in Actors |-> "idle"] /\ inHand = [a \in Actors |-> 0]
    /\ builds = 0 /\ faults = 0
    /\ calm = [a \in Actors |-> TRUE]

Ask(r) ==
    /\ pc[r] \in {"idle", "served", "empty"}
    /\ Goto(r, "lookup")
    /\ calm' = [calm EXCEPT ![r] = TRUE]
    /\ UNCHANGED <<cache, lock, inHand, count>>

(* runOnce: at the start, and at each tick. *)
Tick ==
    /\ pc[Scheduler] = "idle"
    /\ Goto(Scheduler, "wait")
    /\ UNCHANGED <<cache, lock, inHand, count, calm>>

(* The handler's lookup and, for the recommended list, a second one in     *)
(* WarmRecommendedHomeOffersCache.  An error counts as a miss.             *)
Lookup(r) ==
    /\ pc[r] \in {"lookup", "recheck"}
    /\ LET found == IF r \in RecRequests THEN rec ELSE home
           next  == IF r \in RecRequests /\ pc[r] = "lookup" THEN "recheck" ELSE "wait"
       IN  \/ found # {} /\ Works /\ Goto(r, "served")
           \/ ((found = {} /\ Works) \/ Fails(r)) /\ Goto(r, next)
    /\ UNCHANGED <<cache, lock, inHand, builds>>

Acquire(a) ==
    /\ pc[a] = "wait" /\ lock = NoOne
    /\ lock' = a
    /\ Goto(a, IF a = Scheduler THEN "build" ELSE "check")
    /\ UNCHANGED <<cache, inHand, count, calm>>

Unlock(a, stage) ==
    /\ lock' = NoOne /\ inHand' = [inHand EXCEPT ![a] = 0]
    /\ Goto(a, IF a = Scheduler THEN "idle" ELSE stage)

(* A request for the recommended list looks for it again. *)
Warmed(a, stage) == Unlock(a, IF a \in RecRequests THEN "second" ELSE stage)

(* Mutant: WarmHomeOffersCache does not look again under the lock. *)
Check_Never(r) ==
    /\ pc[r] = "check"
    /\ Goto(r, "build") /\ Works /\ UNCHANGED lock
    /\ UNCHANGED <<cache, inHand, builds>>

Check(r) ==
    /\ pc[r] = "check"
    /\ \/ home # {} /\ Works /\ Warmed(r, "served")
       \/ /\ (home = {} /\ Works) \/ Fails(r)
          /\ Goto(r, "build") /\ UNCHANGED <<lock, inHand>>
    /\ UNCHANGED <<cache, builds>>

(* Mutant: a search without a tour returns with the lock held. *)
BuildFails_KeepsLock(a) ==
    /\ pc[a] = "build"
    /\ Goto(a, IF a = Scheduler THEN "idle" ELSE "empty")
    /\ calm' = [calm EXCEPT ![a] = FALSE]
    /\ UNCHANGED <<cache, lock, inHand, count>>

(* No destinations, or no destination with a tour: nil without an error.   *)
(* The list of destinations cannot be read or the process is told to stop: *)
(* an error, which ends a request of either kind.                          *)
BuildFails(a) ==
    /\ pc[a] = "build"
    /\ Warmed(a, "empty") \/ Unlock(a, "empty")
    /\ calm' = [calm EXCEPT ![a] = FALSE]
    /\ UNCHANGED <<cache, count>>

(* Mutant: the lock is given back as soon as the tours are collected. *)
Collect_Unlocks(a) ==
    /\ pc[a] = "build" /\ builds < MaxBuilds
    /\ builds' = builds + 1
    /\ inHand' = [inHand EXCEPT ![a] = builds']
    /\ Goto(a, "storeHome") /\ lock' = NoOne
    /\ UNCHANGED <<cache, faults, calm>>

(* Destinations that fail are left out. *)
Collect(a) ==
    /\ pc[a] = "build" /\ builds < MaxBuilds
    /\ builds' = builds + 1
    /\ inHand' = [inHand EXCEPT ![a] = builds']
    /\ Goto(a, "storeHome")
    /\ UNCHANGED <<cache, lock, faults, calm>>

(* An error ends the warmup, before the recommended list. *)
StoreHome(a) ==
    /\ pc[a] = "storeHome"
    /\ \/ home' = {inHand[a]} /\ recLast' = FALSE /\ Works
          /\ Goto(a, "storeRec") /\ UNCHANGED <<lock, inHand>>
       \/ Fails(a) /\ Unlock(a, "empty") /\ UNCHANGED <<home, recLast>>
    /\ UNCHANGED <<rec, builds>>

(* Mutant: the recommended list is left to the requests for it. *)
StoreRec_Skipped(a) ==
    /\ pc[a] = "storeRec"
    /\ Works /\ UNCHANGED <<rec, recLast>>
    /\ Warmed(a, "served")
    /\ UNCHANGED <<home, builds>>

(* An error is only logged. *)
StoreRec(a) ==
    /\ pc[a] = "storeRec"
    /\ \/ rec' = {inHand[a]} /\ recLast' = TRUE /\ Works
       \/ Fails(a) /\ UNCHANGED <<rec, recLast>>
    /\ Warmed(a, "served")
    /\ UNCHANGED <<home, builds>>

(* Mutant: no fallback to the other list. *)
Second_NoFallback(r) ==
    /\ pc[r] = "second"
    /\ \/ rec # {} /\ Works /\ Goto(r, "served")
       \/ ((rec = {} /\ Works) \/ Fails(r)) /\ Goto(r, "empty")
    /\ UNCHANGED <<cache, lock, inHand, builds>>

Second(r) ==
    /\ pc[r] = "second"
    /\ \/ rec # {} /\ Works /\ Goto(r, "served")
       \/ rec = {} /\ Works /\ Goto(r, "derive")
       \/ Fails(r) /\ Goto(r, "empty")
    /\ UNCHANGED <<cache, lock, inHand, builds>>

Derive(r) ==
    /\ pc[r] = "derive"
    /\ \/ \E n \in home : inHand' = [inHand EXCEPT ![r] = n] /\ Works /\ Goto(r, "storeDerived")
       \/ ((home = {} /\ Works) \/ Fails(r)) /\ Goto(r, "empty") /\ UNCHANGED inHand
    /\ UNCHANGED <<cache, lock, builds>>

(* Whatever is stored by now is replaced; an error is ignored. *)
StoreDerived(r) ==
    /\ pc[r] = "storeDerived"
    /\ \/ rec' = {inHand[r]} /\ recLast' = TRUE /\ Works
       \/ Fails(r) /\ UNCHANGED <<rec, recLast>>
    /\ Goto(r, "served") /\ inHand' = [inHand EXCEPT ![r] = 0]
    /\ UNCHANGED <<home, lock, builds>>

(* Both entries live for HomeOffersCacheTTL: the one stored first ends     *)
(* first.                                                                  *)
Expire ==
    /\ \/ home # {} /\ (recLast \/ rec = {}) /\ home' = {} /\ UNCHANGED rec
       \/ rec # {} /\ (~recLast \/ home = {}) /\ rec' = {} /\ UNCHANGED home
    /\ calm' = [a \in Actors |-> FALSE]
    /\ UNCHANGED <<recLast, lock, pc, inHand, count>>

Step(a) ==
    \/ BuildFails(a) \/ Collect(a) \/ StoreHome(a) \/ StoreRec(a)
    \/ a # Scheduler /\ (Lookup(a) \/ Check(a) \/ Second(a) \/ Derive(a) \/ StoreDerived(a))

Next ==
    \/ Tick \/ Expire
    \/ \E r \in Requests : Ask(r)
    \/ \E a \in Actors : Acquire(a) \/ Step(a)

Spec == Init /\ [][Next]_vars

(* A goroutine that can go on does (searches end by the timeouts of their  *)
(* requests), and a sync.Mutex is handed in turn to those that wait long.  *)
FairSpec == Spec /\ \A a \in Actors : WF_vars(Step(a)) /\ SF_vars(Acquire(a))

-----------------------------------------------------------------------------
TypeOK ==
    /\ home \subseteq Lists /\ Cardinality(home) <= 1
    /\ rec \subseteq Lists /\ Cardinality(rec) <= 1
    /\ recLast \in BOOLEAN
    /\ lock \in Actors \cup {NoOne}
    /\ pc \in [Actors -> Stages] /\ inHand \in [Actors -> 0..MaxBuilds]
    /\ builds \in 0..MaxBuilds /\ faults \in 0..MaxFaults
    /\ calm \in [Actors -> BOOLEAN]

(* Both lists are written by one warmup (scheduler/home_offers.go:114,     *)
(* 199-217): as long as Redis does not fail and nobody is in between,      *)
(* there is no time at which users see the start page's tours and a        *)
(* recommended list has to be derived from them.                           *)
TwoKeysStored == faults = 0 /\ lock = NoOne /\ home # {} => rec # {}

(* A search that takes minutes and hundreds of requests is not made again  *)
(* by those who waited for it (scheduler/home_offers.go:83-88): while one  *)
(* is under way for a request, there is nothing stored it could have used. *)
NoRebuild ==
    \A r \in Requests : faults = 0 /\ pc[r] \in {"build", "storeHome"} => home = {}

(* A list of tours is never replaced by that of an earlier search.         *)
NewestIsStored == [][home' # home => home' \subseteq {builds}]_vars

(* A user gets an empty start page only if the user's own search or call   *)
(* of Redis failed, or an entry ended meanwhile: the recommended list that *)
(* could not be stored (scheduler/home_offers.go:212-221) costs nobody     *)
(* anything.                                                               *)
EmptyOnlyOnFailure == \A r \in Requests : pc[r] = "empty" => ~calm[r]

(* Everybody who asks is answered, however many wait for the warmup.       *)
RequestsAreAnswered ==
    \A r \in Requests : pc[r] = "lookup" ~> pc[r] \in {"served", "empty"}
=============================================================================
