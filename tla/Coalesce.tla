------------------------------ MODULE Coalesce ------------------------------
(***************************************************************************)
(* handlers/search_coalesce.go and its one user,                           *)
(* loadAsyncSamoTicketsResult of handlers/handlers.go: identical searches  *)
(* join the one that is already running.  A request looks the key up in    *)
(* Redis, then in the map of running calls under a mutex; it waits on the  *)
(* channel of the call it finds, or registers its own, runs the search,    *)
(* saves a non-empty result, and in a deferred function removes the call   *)
(* and closes its channel.  A search that panics leaves no result: the     *)
(* deferred function runs, those who waited dereference nil and fail too.  *)
(***************************************************************************)
EXTENDS Integers, FiniteSets

CONSTANTS Requests,     \* HTTP requests, each made once
          Keys,         \* cache keys of searches
          None,         \* no call, no cached result
          MaxTrouble    \* bound on Redis failures and panics

ASSUME RequestsAssumption == IsFiniteSet(Requests)
ASSUME NoneAssumption     == None \notin Requests
ASSUME TroubleAssumption  == MaxTrouble \in Nat

VARIABLES pc,           \* pc[r]: where request r stands
          key,          \* key[r]: its cache key
          skipCache,    \* skipCache[r]: skipLegacyCache, not a part of the key
          searchCalls,  \* the map: the request that owns the call of a key
          outcome,      \* outcome[r]: call.result of the call r owns
          closed,       \* calls whose done channel is closed
          joined,       \* joined[r]: the call r waits for, named by its owner
          cached,       \* Redis: the request whose result is stored for a key
          answer,       \* answer[r]: whose search answered r
          trouble       \* failures so far (history)

shared == <<searchCalls, outcome, closed, cached>>
vars   == <<pc, key, skipCache, shared, joined, answer, trouble>>

Steps == {"idle", "lookup", "enter", "waiting", "loading", "saving",
          "deregister", "close", "paginate", "done", "failed"}

Outcomes == {"none", "tickets", "empty"}

-----------------------------------------------------------------------------
Init ==
    /\ pc = [r \in Requests |-> "idle"]
    /\ key \in [Requests -> Keys]
    /\ skipCache \in [Requests -> BOOLEAN]
    /\ searchCalls = [k \in Keys |-> None]
    /\ outcome = [r \in Requests |-> "none"]
    /\ closed = {}
    /\ joined = [r \in Requests |-> None]
    /\ cached = [k \in Keys |-> None]
    /\ answer = [r \in Requests |-> None]
    /\ trouble = 0

GoTo(r, step) == pc' = [pc EXCEPT ![r] = step]

Trouble == trouble < MaxTrouble /\ trouble' = trouble + 1

Arrive(r) ==
    /\ pc[r] = "idle"
    /\ GoTo(r, IF skipCache[r] THEN "enter" ELSE "lookup")
    /\ UNCHANGED <<key, skipCache, shared, joined, answer, trouble>>

Lookup(r) ==
    /\ pc[r] = "lookup"
    /\ \/ /\ cached[key[r]] = None
          /\ GoTo(r, "enter")
          /\ UNCHANGED answer
       \/ /\ cached[key[r]] # None
          /\ answer' = [answer EXCEPT ![r] = cached[key[r]]]
          /\ GoTo(r, "paginate")
    /\ UNCHANGED <<key, skipCache, shared, joined, trouble>>

(* A Redis error is returned; the handler answers null without searching. *)
LookupFails(r) ==
    /\ pc[r] = "lookup"
    /\ Trouble
    /\ GoTo(r, "failed")
    /\ UNCHANGED <<key, skipCache, shared, joined, answer>>

(* Mutant: the map is read and written in two critical sections. *)
Enter_Unlocked(r) ==
    /\ pc[r] = "enter"
    /\ \/ /\ searchCalls[key[r]] # None
          /\ joined' = [joined EXCEPT ![r] = searchCalls[key[r]]]
          /\ GoTo(r, "waiting")
          /\ UNCHANGED searchCalls
       \/ /\ searchCalls' = [searchCalls EXCEPT ![key[r]] = r]
          /\ GoTo(r, "loading")
          /\ UNCHANGED joined
    /\ UNCHANGED <<key, skipCache, outcome, closed, cached, answer, trouble>>

(* The critical section of coalesceSearch. *)
Enter(r) ==
    /\ pc[r] = "enter"
    /\ \/ /\ searchCalls[key[r]] # None
          /\ joined' = [joined EXCEPT ![r] = searchCalls[key[r]]]
          /\ GoTo(r, "waiting")
          /\ UNCHANGED searchCalls
       \/ /\ searchCalls[key[r]] = None
          /\ searchCalls' = [searchCalls EXCEPT ![key[r]] = r]
          /\ GoTo(r, "loading")
          /\ UNCHANGED joined
    /\ UNCHANGED <<key, skipCache, outcome, closed, cached, answer, trouble>>

(* The search itself: operators and Tourvisor together.  It never returns  *)
(* an error, only tickets or none.                                         *)
Load(r) ==
    /\ pc[r] = "loading"
    /\ \E o \in {"tickets", "empty"} :
         /\ outcome' = [outcome EXCEPT ![r] = o]
         /\ GoTo(r, IF o = "tickets" /\ ~skipCache[r] THEN "saving" ELSE "deregister")
    /\ UNCHANGED <<key, skipCache, searchCalls, closed, joined, cached, answer, trouble>>

Panic(r) ==
    /\ pc[r] = "loading"
    /\ Trouble
    /\ GoTo(r, "deregister")
    /\ UNCHANGED <<key, skipCache, shared, joined, answer>>

Save(r) ==
    /\ pc[r] = "saving"
    /\ cached' = [cached EXCEPT ![key[r]] = r]
    /\ GoTo(r, "deregister")
    /\ UNCHANGED <<key, skipCache, searchCalls, outcome, closed, joined, answer, trouble>>

(* A failed write is logged, the answer goes out. *)
SaveFails(r) ==
    /\ pc[r] = "saving"
    /\ Trouble
    /\ GoTo(r, "deregister")
    /\ UNCHANGED <<key, skipCache, shared, joined, answer>>

(* Mutant: the channel is closed only for those who are in the map. *)
Deregister_Forgets(r) ==
    /\ pc[r] = "deregister"
    /\ searchCalls' = [searchCalls EXCEPT ![key[r]] = None]
    /\ GoTo(r, IF outcome[r] = "none" THEN "failed" ELSE "close")
    /\ UNCHANGED <<key, skipCache, outcome, closed, joined, cached, answer, trouble>>

Deregister(r) ==
    /\ pc[r] = "deregister"
    /\ searchCalls' = [searchCalls EXCEPT ![key[r]] = None]
    /\ GoTo(r, "close")
    /\ UNCHANGED <<key, skipCache, outcome, closed, joined, cached, answer, trouble>>

(* call.result as a caller sees it once the call is over. *)
Take(r, call) ==
    \/ /\ outcome[call] # "none"
       /\ answer' = [answer EXCEPT ![r] = call]
       /\ GoTo(r, "paginate")
    \/ /\ outcome[call] = "none"
       /\ GoTo(r, "failed")
       /\ UNCHANGED answer

Close(r) ==
    /\ pc[r] = "close"
    /\ closed' = closed \cup {r}
    /\ Take(r, r)
    /\ UNCHANGED <<key, skipCache, searchCalls, outcome, joined, cached, trouble>>

(* Mutant: a follower does not wait for the channel. *)
Wake_Early(r) ==
    /\ pc[r] = "waiting"
    /\ Take(r, joined[r])
    /\ UNCHANGED <<key, skipCache, shared, joined, trouble>>

Wake(r) ==
    /\ pc[r] = "waiting"
    /\ joined[r] \in closed
    /\ Take(r, joined[r])
    /\ UNCHANGED <<key, skipCache, shared, joined, trouble>>

(* Sorting, cutting the page, share tokens: on the caller's own copy. *)
Paginate(r) ==
    /\ pc[r] = "paginate"
    /\ GoTo(r, "done")
    /\ UNCHANGED <<key, skipCache, shared, joined, answer, trouble>>

(* Redis drops the result after ten minutes. *)
Expire(k) ==
    /\ cached[k] # None
    /\ cached' = [cached EXCEPT ![k] = None]
    /\ UNCHANGED <<pc, key, skipCache, searchCalls, outcome, closed, joined, answer, trouble>>

Step(r) ==
    \/ Lookup(r) \/ Enter(r) \/ Load(r) \/ Save(r)
    \/ Deregister(r) \/ Close(r) \/ Wake(r) \/ Paginate(r)

Next ==
    \/ \E r \in Requests :
         \/ Arrive(r)
         \/ Step(r)
         \/ LookupFails(r) \/ Panic(r) \/ SaveFails(r)
    \/ \E k \in Keys : Expire(k)

Spec == Init /\ [][Next]_vars

(* A running goroutine goes on; a search ends because every part of it has *)
(* a timeout (slots, HTTP clients, tourvisorSearchBudget).                 *)
FairSpec == Spec /\ \A r \in Requests : WF_vars(Step(r))

-----------------------------------------------------------------------------
Working == {"loading", "saving", "deregister"}

TypeOK ==
    /\ pc \in [Requests -> Steps]
    /\ key \in [Requests -> Keys]
    /\ skipCache \in [Requests -> BOOLEAN]
    /\ searchCalls \in [Keys -> Requests \cup {None}]
    /\ outcome \in [Requests -> Outcomes]
    /\ closed \in SUBSET Requests
    /\ joined \in [Requests -> Requests \cup {None}]
    /\ \A r \in Requests : pc[r] = "waiting" => joined[r] # None
    /\ cached \in [Keys -> Requests \cup {None}]
    /\ answer \in [Requests -> Requests \cup {None}]
    /\ trouble \in 0..MaxTrouble

(* The map holds a call exactly while its owner works on it: a request     *)
(* that finds a call there will be woken, and nobody is missed.            *)
MapHoldsRunningCalls ==
    \A k \in Keys, r \in Requests :
        searchCalls[k] = r <=> key[r] = k /\ pc[r] \in Working

(* At most one search runs for a key (search_coalesce.go:31). *)
OneSearchPerKey ==
    \A r, q \in Requests :
        (key[r] = key[q] /\ pc[r] \in Working /\ pc[q] \in Working) => r = q

(* Followers get the result of the search they joined, all of them the     *)
(* same, and only after it is complete; nobody is answered with another    *)
(* search's tickets, from Redis or from a call.                            *)
AnswersBelongToTheSearch ==
    \A r \in Requests :
        /\ pc[r] \in {"paginate", "done"} =>
              /\ answer[r] # None
              /\ key[answer[r]] = key[r]
              /\ outcome[answer[r]] # "none"
        /\ joined[r] # None /\ pc[r] \in {"paginate", "done"} => answer[r] = joined[r]
        /\ joined[r] # None /\ pc[r] = "failed" => outcome[joined[r]] = "none"

(* Nobody who joined a search is left hanging, even if it panics           *)
(* (search_coalesce.go:44).                                                *)
FollowersReturn ==
    \A r \in Requests : pc[r] = "waiting" ~> pc[r] \in {"done", "failed"}
=============================================================================
