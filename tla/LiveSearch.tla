------------------------------ MODULE LiveSearch ------------------------------
(***************************************************************************)
(* turvisorsearch/search.go, Stream, with the results cache of guard.go:   *)
(* a search looks for its operators, then in the cache, takes a permission *)
(* for one paid request, starts the search at Tourvisor and polls it until *)
(* it is done or time is up, showing new tours as they come, and stores    *)
(* the last results.  Searches run in goroutines of their own and meet in  *)
(* the operators list, the cache and the quota; any of them may be left    *)
(* by its user, and every request to Tourvisor or Redis may fail.          *)
(***************************************************************************)
EXTENDS OperatorsList

CONSTANTS Queries,       \* the mapped queries, operators apart
          Tours,         \* the tours Tourvisor may find
          OperatorOf,    \* OperatorOf[t]: the operator of tour t
          Unsellable,    \* tours that mapSearchTour turns down
          StoreFails     \* whether Redis may fail a command of the cache

ASSUME ToursAssumption == OperatorOf \in [Tours -> Operators] /\ Unsellable \subseteq Tours
ASSUME StoreAssumption == StoreFails \in BOOLEAN

Searches == Callers

VARIABLES query,     \* query[s]: what search s looks for
          search,    \* search[s]: the local state of Stream
          seen,      \* seen[s]: the tours it has emitted
          cache,     \* cache[k]: the stored results of key k; none when absent
          permits,   \* searches that were given a permission (history)
          paid       \* searches whose paid request was sent (history)

billing    == <<permits, paid>>
searchVars == <<query, search, seen, cache, billing>>
vars       == <<listVars, searchVars>>

Steps  == {"new", "operators", "cache", "reserve", "start", "poll", "fetch",
           "decide", "lastFetch", "save", "returned"}
(* "ready": firstFetchAfter has passed; "over": less than 500 ms are left. *)
Clocks == {"early", "ready", "over"}

(* asked: its OperatorIDs; gone: its context is cancelled; done: the last  *)
(* poll said "finished"; fetched: results were asked for; last: lastHotels.*)
LocalStates == [pc : Steps, asked : Lists, gone : BOOLEAN, clock : Clocks,
                done : BOOLEAN, fetched : BOOLEAN, last : SUBSET Tours]
New      == [pc |-> "new", asked |-> {}, gone |-> FALSE, clock |-> "early",
             done |-> FALSE, fetched |-> FALSE, last |-> {}]
Returned == [New EXCEPT !.pc = "returned"]

Keys   == Queries \X Lists      \* resultsCacheKey covers the operator ids
Key(s) == <<query[s], search[s].asked>>

Showable(tours) == {t \in tours \ Unsellable : OperatorOf[t] \notin Excluded}

-----------------------------------------------------------------------------
SearchInit ==
    /\ query \in [Searches -> Queries]
    /\ search = [s \in Searches |-> New]
    /\ seen = [s \in Searches |-> {}]
    /\ cache = [k \in Keys |-> {}]
    /\ permits = {}
    /\ paid = {}

Init == ListInit /\ SearchInit

At(s, step)    == search[s].pc = step
GoTo(s, step)  == search' = [search EXCEPT ![s].pc = step]
Return(s)      == search' = [search EXCEPT ![s] = Returned]
Emit(s, tours) == seen' = [seen EXCEPT ![s] = @ \cup Showable(tours)]

(* MapParams finds no mapping for the request: there is nothing to search. *)
Skip(s) ==
    /\ At(s, "new")
    /\ Return(s)
    /\ UNCHANGED <<listVars, query, seen, cache, billing>>

AskOperators(s) ==
    /\ At(s, "new")
    /\ Ask(s)
    /\ GoTo(s, "operators")
    /\ UNCHANGED <<query, seen, cache, billing>>

FetchOperators(s) ==
    /\ At(s, "operators")
    /\ \/ ~ search[s].gone /\ ListArrives(s)
       \/ ListFails(s)
    /\ UNCHANGED searchVars

(* Mutant: no operator is no filter. *)
KnowOperators_NoneIsAll(s) ==
    /\ At(s, "operators")
    /\ Take(s)
    /\ search' = [search EXCEPT ![s].asked = FilterOperators(answer[s]), ![s].pc = "cache"]
    /\ UNCHANGED <<query, seen, cache, billing>>

(* Without operators there is no search: an unfiltered one would show the  *)
(* connected operators' tours twice.                                       *)
KnowOperators(s) ==
    LET ids == FilterOperators(answer[s]) IN
    /\ At(s, "operators")
    /\ Take(s)
    /\ \/ ids = {} /\ Return(s)
       \/ ids # {} /\ search' = [search EXCEPT ![s].asked = ids, ![s].pc = "cache"]
    /\ UNCHANGED <<query, seen, cache, billing>>

Hit(s) ==
    /\ At(s, "cache")
    /\ ~ search[s].gone
    /\ cache[Key(s)] # {}
    /\ Emit(s, cache[Key(s)])
    /\ Return(s)
    /\ UNCHANGED <<listVars, query, cache, billing>>

Miss(s) ==
    /\ At(s, "cache")
    /\ cache[Key(s)] = {} \/ search[s].gone
    /\ GoTo(s, "reserve")
    /\ UNCHANGED <<listVars, query, seen, cache, billing>>

(* A failed read counts as a miss. *)
ReadFails(s) ==
    /\ At(s, "cache")
    /\ StoreFails
    /\ GoTo(s, "reserve")
    /\ UNCHANGED <<listVars, query, seen, cache, billing>>

(* reserveBillable (module Quota) refuses: the day's limit is reached,     *)
(* Redis fails, or the context is cancelled.                               *)
Refused(s) ==
    /\ At(s, "reserve")
    /\ Return(s)
    /\ UNCHANGED <<listVars, query, seen, cache, billing>>

Permitted(s) ==
    /\ At(s, "reserve")
    /\ ~ search[s].gone
    /\ permits' = permits \cup {s}
    /\ GoTo(s, "start")
    /\ UNCHANGED <<listVars, query, seen, cache, paid>>

(* The paid request.  When it fails the permission is used up all the      *)
(* same, and the search is over.                                           *)
StartSearch(s) ==
    /\ At(s, "start")
    /\ paid' = paid \cup {s}
    /\ \/ ~ search[s].gone /\ GoTo(s, "poll")
       \/ Return(s)
    /\ UNCHANGED <<listVars, query, seen, cache, permits>>

(* A failed poll reads as "no progress, not done". *)
Poll(s) ==
    /\ At(s, "poll")
    /\ \E status \in IF search[s].gone THEN {"nothing"} ELSE {"nothing", "progress", "done"} :
          LET ready == status # "nothing" \/ search[s].clock # "early" IN
          search' = [search EXCEPT ![s].done = status = "done",
                                   ![s].pc = IF ready THEN "fetch" ELSE "decide"]
    /\ UNCHANGED <<listVars, query, seen, cache, billing>>

Fetched(s, tours) ==
    search' = [search EXCEPT ![s].last = tours, ![s].fetched = TRUE,
                             ![s].pc = IF @ = "fetch" THEN "decide" ELSE "save"]

(* Mutant: the last results are stored without being shown. *)
ResultsArrive_Unseen(s) ==
    /\ search[s].pc \in {"fetch", "lastFetch"}
    /\ ~ search[s].gone
    /\ \E tours \in SUBSET Tours :
          /\ Fetched(s, tours)
          /\ IF At(s, "fetch") THEN Emit(s, tours) ELSE UNCHANGED seen
    /\ UNCHANGED <<listVars, query, cache, billing>>

ResultsArrive(s) ==
    /\ search[s].pc \in {"fetch", "lastFetch"}
    /\ ~ search[s].gone
    /\ \E tours \in SUBSET Tours : Fetched(s, tours) /\ Emit(s, tours)
    /\ UNCHANGED <<listVars, query, cache, billing>>

(* A failed request leaves the results of an earlier one in place. *)
ResultsFail(s) ==
    /\ search[s].pc \in {"fetch", "lastFetch"}
    /\ Fetched(s, search[s].last)
    /\ UNCHANGED <<listVars, query, seen, cache, billing>>

(* Mutant: only Tourvisor's own "done" ends a search. *)
Decide_NoDeadline(s) ==
    /\ At(s, "decide")
    /\ GoTo(s, IF search[s].done THEN "save" ELSE "poll")
    /\ UNCHANGED <<listVars, query, seen, cache, billing>>

(* Mutant: a search that runs out of time returns at once. *)
Decide_LateReturns(s) ==
    /\ At(s, "decide")
    /\ \/ search[s].done /\ GoTo(s, "save")
       \/ ~ search[s].done /\ search[s].clock # "over" /\ GoTo(s, "poll")
       \/ search[s].clock = "over" /\ Return(s)
    /\ UNCHANGED <<listVars, query, seen, cache, billing>>

(* Either the search is finished or out of time, or it waits for the next  *)
(* poll; a cancelled wait returns and stores nothing.                      *)
Decide(s) ==
    LET ended == search[s].done \/ search[s].clock = "over" IN
    /\ At(s, "decide")
    /\ \/ ended /\ search[s].fetched   /\ GoTo(s, "save")
       \/ ended /\ ~ search[s].fetched /\ GoTo(s, "lastFetch")
       \/ ~ ended                      /\ GoTo(s, "poll")
       \/ ~ ended /\ search[s].gone    /\ Return(s)
    /\ UNCHANGED <<listVars, query, seen, cache, billing>>

(* The write has a context of its own: a cancelled search can cache, too.  *)
Save(s) ==
    /\ At(s, "save")
    /\ search[s].last # {}
    /\ cache' = [cache EXCEPT ![Key(s)] = search[s].last]
    /\ Return(s)
    /\ UNCHANGED <<listVars, query, seen, billing>>

SaveFails(s) ==
    /\ At(s, "save")
    /\ search[s].last # {}
    /\ StoreFails
    /\ Return(s)
    /\ UNCHANGED <<listVars, query, seen, cache, billing>>

(* saveCachedHotels keeps no empty list. *)
NothingToSave(s) ==
    /\ At(s, "save")
    /\ search[s].last = {}
    /\ Return(s)
    /\ UNCHANGED <<listVars, query, seen, cache, billing>>

(* The deadline runs once Tourvisor has answered the paid request.         *)
TimePasses(s) ==
    /\ search[s].pc \in {"poll", "fetch", "decide"}
    /\ search[s].clock # "over"
    /\ search' = [search EXCEPT ![s].clock = IF @ = "early" THEN "ready" ELSE "over"]
    /\ UNCHANGED <<listVars, query, seen, cache, billing>>

(* The user closes the page, or the handler's time is up. *)
Leave(s) ==
    /\ search[s].pc \notin {"new", "save", "returned"}
    /\ ~ search[s].gone
    /\ search' = [search EXCEPT ![s].gone = TRUE]
    /\ UNCHANGED <<listVars, query, seen, cache, billing>>

(* completeResultsTTL or partialResultsTTL has passed. *)
Expire(k) ==
    /\ cache[k] # {}
    /\ cache' = [cache EXCEPT ![k] = {}]
    /\ UNCHANGED <<listVars, query, search, seen, billing>>

OperatorsAge == ListAges /\ UNCHANGED searchVars

Step(s) ==
    \/ Skip(s) \/ AskOperators(s) \/ FetchOperators(s) \/ KnowOperators(s)
    \/ Hit(s) \/ Miss(s) \/ ReadFails(s)
    \/ Refused(s) \/ Permitted(s) \/ StartSearch(s)
    \/ Poll(s) \/ ResultsArrive(s) \/ ResultsFail(s) \/ Decide(s)
    \/ Save(s) \/ SaveFails(s) \/ NothingToSave(s)

Next ==
    \/ \E s \in Searches : Step(s) \/ TimePasses(s) \/ Leave(s)
    \/ \E k \in Keys : Expire(k)
    \/ OperatorsAge

Spec == Init /\ [][Next]_vars

(* A search goroutine keeps running: every request it waits for ends       *)
(* within the HTTP client's 15 seconds.  Time passes.                      *)
FairSpec == Spec /\ \A s \in Searches : WF_vars(Step(s)) /\ WF_vars(TimePasses(s))

-----------------------------------------------------------------------------
(* Every variable has the values the code gives it, and no search goes to  *)
(* store results it never asked for.                                       *)
TypeOK ==
    /\ ListTypeOK
    /\ query \in [Searches -> Queries]
    /\ search \in [Searches -> LocalStates]
    /\ \A s \in Searches : At(s, "save") => search[s].fetched
    /\ seen \in [Searches -> SUBSET Tours]
    /\ cache \in [Keys -> SUBSET Tours]
    /\ permits \subseteq Searches
    /\ paid \subseteq Searches

(* A paid request is sent only with a permission of its own, and only with *)
(* an operator filter that names none of the operators SAMO covers: no     *)
(* failure or overlap in the operators list lets an unfiltered search      *)
(* through (operators.go:69-71, search.go:394-399).                        *)
PaidSearchesAreAllowed ==
    \A s \in paid :
        /\ s \in permits
        /\ ~ At(s, "returned") => /\ search[s].asked # {}
                                 /\ search[s].asked \cap Excluded = {}

(* What later searches are shown from the cache is what some search of the *)
(* same query paid for and showed its own user, in full.                   *)
CachedWasShown ==
    \A k \in Keys : cache[k] # {} =>
        \E s \in paid :
            query[s] = k[1] /\ Showable(cache[k]) \subseteq seen[s]

(* A search that has found something goes on to store it before it returns *)
(* (the last results it got, were it done or late, also when the very last *)
(* request failed), unless its user has left: what was paid for is there   *)
(* for the next search.                                                    *)
ResultsAreKept ==
    [][\A s \in Searches :
          ~ At(s, "returned") /\ At(s, "returned")' /\ search[s].last # {} =>
              \/ search[s].gone
              \/ StoreFails /\ At(s, "save")
              \/ cache'[Key(s)] = search[s].last]_vars

(* Every search returns, whatever Tourvisor answers. *)
StreamReturns == \A s \in Searches : ~ At(s, "new") ~> At(s, "returned")

(* guard.go:35: the key is there "so that the same search does not spend a *)
(* paid request again": none is spent on results that are in the cache.    *)
PaidOnlyForMissing ==
    [][\A s \in Searches : s \in paid' \ paid => cache[Key(s)] = {}]_vars
=============================================================================
