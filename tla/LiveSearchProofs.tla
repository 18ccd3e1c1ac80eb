--------------------------- MODULE LiveSearchProofs ---------------------------
(***************************************************************************)
(* Proofs about OperatorsList and LiveSearch, for any number of searches,  *)
(* queries, operators and tours.                                           *)
(***************************************************************************)
EXTENDS LiveSearch, TLAPS

(* The operators list by itself keeps its types. *)
LEMMA ListTypes == ASSUME ListTypeOK, [ListNext]_listVars PROVE ListTypeOK'
<1> USE DEF ListTypeOK, Entries, Lists
<1>1. ASSUME NEW c \in Callers, Ask(c) PROVE ListTypeOK'
  BY <1>1 DEF Ask, Answer
<1>2. ASSUME NEW c \in Callers, ListArrives(c) PROVE ListTypeOK'
  <2>1. PICK ids \in Lists : entry' = [ids |-> ids, fresh |-> TRUE] /\ Answer(c, ids)
    BY <1>2 DEF ListArrives
  <2> QED BY <1>2, <2>1 DEF ListArrives, Answer
<1>3. ASSUME NEW c \in Callers, ListFails(c) PROVE ListTypeOK'
  BY <1>3 DEF ListFails, Answer
<1>4. ASSUME NEW c \in Callers, Take(c) PROVE ListTypeOK'
  BY <1>4 DEF Take
<1>5. CASE ListAges
  BY <1>5 DEF ListAges
<1>6. CASE UNCHANGED listVars
  BY <1>6 DEF listVars
<1> QED BY <1>1, <1>2, <1>3, <1>4, <1>5, <1>6 DEF ListNext

(* Every step of a search is a step of the list or leaves the list alone.  *)
LEMMA StepsOfList == ASSUME [Next]_vars PROVE [ListNext]_listVars
<1>1. ASSUME NEW s \in Searches, Step(s) \/ TimePasses(s) \/ Leave(s)
      PROVE  [ListNext]_listVars
  <2>1. CASE AskOperators(s)
    BY <2>1 DEF AskOperators, ListNext, Searches
  <2>2. CASE FetchOperators(s)
    BY <2>2 DEF FetchOperators, ListNext, Searches
  <2>3. CASE KnowOperators(s)
    BY <2>3 DEF KnowOperators, ListNext, Searches
  <2>4. CASE ~ (AskOperators(s) \/ FetchOperators(s) \/ KnowOperators(s))
    BY <1>1, <2>4 DEF Step, Skip, Hit, Miss, ReadFails, Refused, Permitted, StartSearch,
       Poll, ResultsArrive, ResultsFail, Decide, Save, SaveFails, NothingToSave,
       TimePasses, Leave
  <2> QED BY <2>1, <2>2, <2>3, <2>4
<1>2. ASSUME NEW k \in Keys, Expire(k) PROVE UNCHANGED listVars
  BY <1>2 DEF Expire
<1>3. CASE OperatorsAge
  BY <1>3 DEF OperatorsAge, ListNext
<1>4. CASE UNCHANGED vars
  BY <1>4 DEF vars
<1> QED BY <1>1, <1>2, <1>3, <1>4 DEF Next

(* A search changes no more of the local states and of what has been seen  *)
(* than its own.                                                           *)
LocalTypes ==
    /\ query \in [Searches -> Queries]
    /\ search \in [Searches -> LocalStates]
    /\ seen \in [Searches -> SUBSET Tours]

LEMMA LocalTyping ==
    ASSUME ListTypeOK, LocalTypes, cache \in [Keys -> SUBSET Tours], [Next]_vars
    PROVE  LocalTypes'
<1> USE DEF LocalTypes
<1>1. ASSUME NEW s \in Searches, NEW j \in LocalStates, UNCHANGED query,
             search' = [search EXCEPT ![s] = j],
             \/ UNCHANGED seen
             \/ \E tours \in SUBSET Tours : Emit(s, tours)
      PROVE  LocalTypes'
  <2>1. ASSUME NEW tours \in SUBSET Tours PROVE Showable(tours) \subseteq Tours
    BY DEF Showable
  <2>2. search' \in [Searches -> LocalStates]
    BY <1>1
  <2>3. seen' \in [Searches -> SUBSET Tours]
    BY <1>1, <2>1 DEF Emit
  <2> QED BY <1>1, <2>2, <2>3
<1>2. ASSUME NEW s \in Searches, Step(s) \/ TimePasses(s) \/ Leave(s) PROVE LocalTypes'
  <2> DEFINE j == search[s]
  <2>0. j \in LocalStates /\ New \in LocalStates /\ Returned \in LocalStates
    BY DEF LocalStates, New, Returned, Steps, Clocks, Lists
  <2>1. UNCHANGED query
    BY <1>2 DEF Step, Skip, AskOperators, FetchOperators, searchVars, KnowOperators, Hit, Miss,
       ReadFails, Refused, Permitted, StartSearch, Poll, ResultsArrive, ResultsFail, Decide,
       Save, SaveFails, NothingToSave, TimePasses, Leave
  <2>2. ASSUME NEW step \in Steps, GoTo(s, step), UNCHANGED seen PROVE LocalTypes'
    <3>1. [j EXCEPT !.pc = step] \in LocalStates
      BY <2>0 DEF LocalStates
    <3>2. search' = [search EXCEPT ![s] = [j EXCEPT !.pc = step]]
      BY <2>2 DEF GoTo
    <3> HIDE DEF j
    <3> QED BY <1>1, <2>1, <2>2, <3>1, <3>2
  <2>3. ASSUME Return(s), UNCHANGED seen PROVE LocalTypes'
    BY <1>1, <2>0, <2>1, <2>3 DEF Return
  <2>4. CASE Skip(s) \/ AskOperators(s) \/ Miss(s) \/ ReadFails(s) \/ Refused(s)
             \/ Permitted(s) \/ StartSearch(s) \/ Decide(s) \/ Save(s) \/ SaveFails(s)
             \/ NothingToSave(s)
    BY <2>2, <2>3, <2>4 DEF Skip, AskOperators, Miss, ReadFails, Refused, Permitted,
       StartSearch, Decide, Save, SaveFails, NothingToSave, Steps
  <2>5. CASE FetchOperators(s)
    BY <2>5 DEF FetchOperators, searchVars
  <2>6. CASE KnowOperators(s)
    <3>1. CASE Return(s)
      BY <2>3, <2>6, <3>1 DEF KnowOperators
    <3>2. CASE ~ Return(s)
      <4> DEFINE ids == FilterOperators(answer[s])
                 k   == [j EXCEPT !.asked = ids, !.pc = "cache"]
      <4>1. ids \in Lists
        BY DEF FilterOperators, ListTypeOK, Lists, Searches
      <4>2. k \in LocalStates
        BY <2>0, <4>1 DEF LocalStates, Steps
      <4>3. search' = [search EXCEPT ![s] = k]
        BY <2>6, <3>2 DEF KnowOperators
      <4> HIDE DEF k
      <4> QED BY <1>1, <2>1, <2>6, <4>2, <4>3 DEF KnowOperators
    <3> QED BY <3>1, <3>2
  <2>7. CASE Hit(s)
    <3>1. Key(s) \in Keys
      BY <2>0 DEF Key, Keys, LocalStates
    <3>2. cache[Key(s)] \in SUBSET Tours
      BY <3>1
    <3> QED BY <1>1, <2>0, <2>1, <2>7, <3>2 DEF Hit, Return
  <2>8. CASE Poll(s)
    <3>1. PICK status \in {"nothing", "progress", "done"}, step \in {"fetch", "decide"} :
             search' = [search EXCEPT ![s] = [j EXCEPT !.done = status = "done", !.pc = step]]
      BY <2>8 DEF Poll
    <3>2. (status = "done") \in BOOLEAN
      OBVIOUS
    <3>3. [j EXCEPT !.done = status = "done", !.pc = step] \in LocalStates
      BY <2>0, <3>2 DEF LocalStates, Steps
    <3> HIDE DEF j
    <3> QED BY <1>1, <2>1, <2>8, <3>1, <3>3 DEF Poll
  <2>9. ASSUME NEW tours \in SUBSET Tours, Fetched(s, tours), Emit(s, tours) \/ UNCHANGED seen
        PROVE  LocalTypes'
    <3> DEFINE k == [j EXCEPT !.last = tours, !.fetched = TRUE,
                              !.pc = IF @ = "fetch" THEN "decide" ELSE "save"]
    <3>1. k \in LocalStates
      BY <2>0 DEF LocalStates, Steps
    <3>2. search' = [search EXCEPT ![s] = k]
      BY <2>9 DEF Fetched
    <3> HIDE DEF k
    <3> QED BY <1>1, <2>1, <2>9, <3>1, <3>2
  <2>10. CASE ResultsArrive(s)
    BY <2>9, <2>10 DEF ResultsArrive
  <2>11. CASE ResultsFail(s)
    <3>1. search[s].last \in SUBSET Tours
      BY <2>0 DEF LocalStates
    <3> QED BY <2>9, <2>11, <3>1 DEF ResultsFail
  <2>12. CASE TimePasses(s)
    <3> DEFINE k == [j EXCEPT !.clock = IF @ = "early" THEN "ready" ELSE "over"]
    <3>1. k \in LocalStates
      BY <2>0 DEF LocalStates, Clocks
    <3>2. search' = [search EXCEPT ![s] = k]
      BY <2>12 DEF TimePasses
    <3> HIDE DEF k
    <3> QED BY <1>1, <2>1, <2>12, <3>1, <3>2 DEF TimePasses
  <2>13. CASE Leave(s)
    <3> DEFINE k == [j EXCEPT !.gone = TRUE]
    <3>1. k \in LocalStates
      BY <2>0 DEF LocalStates
    <3>2. search' = [search EXCEPT ![s] = k]
      BY <2>13 DEF Leave
    <3> HIDE DEF k
    <3> QED BY <1>1, <2>1, <2>13, <3>1, <3>2 DEF Leave
  <2> QED BY <1>2, <2>4, <2>5, <2>6, <2>7, <2>8, <2>10, <2>11, <2>12, <2>13 DEF Step
<1>3. ASSUME NEW k \in Keys, Expire(k) PROVE LocalTypes'
  BY <1>3 DEF Expire
<1>4. CASE OperatorsAge
  BY <1>4 DEF OperatorsAge, searchVars
<1>5. CASE UNCHANGED vars
  BY <1>5 DEF vars, searchVars
<1> QED BY <1>2, <1>3, <1>4, <1>5 DEF Next

(* What the code knows of a search at each of its lines: past the operators*)
(* it has a filter, past the quota a permission, and once it polls it has  *)
(* paid; what it holds has been shown.                                     *)
Running == {"poll", "fetch", "decide", "lastFetch", "save"}

Lawful(s) ==
    /\ search[s].pc \in {"cache", "reserve", "start"} \cup Running =>
          search[s].asked # {} /\ search[s].asked \cap Excluded = {}
    /\ search[s].pc \in {"start"} \cup Running => s \in permits
    /\ s \in paid => s \in permits /\ search[s].pc \in Running \cup {"returned"}
    /\ search[s].pc \in Running => s \in paid
    /\ search[s].pc \notin Running => search[s].last = {}
    /\ Showable(search[s].last) \subseteq seen[s]
    /\ At(s, "save") => search[s].fetched

StoreTypes ==
    /\ cache \in [Keys -> SUBSET Tours]
    /\ permits \subseteq Searches
    /\ paid \subseteq Searches

IInv ==
    /\ ListTypeOK
    /\ LocalTypes
    /\ StoreTypes
    /\ \A s \in Searches : Lawful(s)
    /\ CachedWasShown

(* No step takes back what another search, or the past, relies on. *)
LEMMA OwnStateOnly ==
    ASSUME LocalTypes, NEW s \in Searches, Step(s) \/ TimePasses(s) \/ Leave(s)
    PROVE  /\ UNCHANGED query
           /\ permits \subseteq permits' /\ paid \subseteq paid'
           /\ \A q \in Searches : seen[q] \subseteq seen'[q]
           /\ \A q \in Searches \ {s} : /\ search'[q] = search[q] /\ seen'[q] = seen[q]
                                        /\ q \in permits' => q \in permits
                                        /\ q \in paid' => q \in paid
<1> USE DEF LocalTypes
<1>1. UNCHANGED query
  BY DEF Step, Skip, AskOperators, FetchOperators, searchVars, KnowOperators, Hit, Miss,
     ReadFails, Refused, Permitted, StartSearch, Poll, ResultsArrive, ResultsFail, Decide,
     Save, SaveFails, NothingToSave, TimePasses, Leave
<1>2. \/ UNCHANGED permits
      \/ permits' = permits \cup {s}
  BY DEF Step, Skip, AskOperators, FetchOperators, searchVars, KnowOperators, Hit, Miss,
     ReadFails, Refused, Permitted, StartSearch, Poll, ResultsArrive, ResultsFail, Decide,
     Save, SaveFails, NothingToSave, TimePasses, Leave, billing
<1>3. \/ UNCHANGED paid
      \/ paid' = paid \cup {s}
  BY DEF Step, Skip, AskOperators, FetchOperators, searchVars, KnowOperators, Hit, Miss,
     ReadFails, Refused, Permitted, StartSearch, Poll, ResultsArrive, ResultsFail, Decide,
     Save, SaveFails, NothingToSave, TimePasses, Leave, billing
<1>4. \/ UNCHANGED seen
      \/ \E tours : Emit(s, tours)
  BY Zenon DEF Step, Skip, AskOperators, FetchOperators, searchVars, KnowOperators, Hit, Miss,
     ReadFails, Refused, Permitted, StartSearch, Poll, ResultsArrive, ResultsFail, Decide,
     Save, SaveFails, NothingToSave, TimePasses, Leave
<1>5. \A q \in Searches \ {s} : search'[q] = search[q]
  <2> USE DEF GoTo, Return
  <2>1. CASE KnowOperators(s)
    BY <2>1 DEF KnowOperators
  <2>2. CASE Poll(s)
    BY <2>2 DEF Poll
  <2>3. CASE ResultsArrive(s) \/ ResultsFail(s)
    BY <2>3 DEF ResultsArrive, ResultsFail, Fetched
  <2>4. CASE TimePasses(s) \/ Leave(s)
    BY <2>4 DEF TimePasses, Leave
  <2>5. CASE Skip(s) \/ AskOperators(s) \/ FetchOperators(s) \/ Hit(s) \/ Miss(s)
             \/ ReadFails(s) \/ Refused(s) \/ Permitted(s) \/ StartSearch(s) \/ Decide(s)
             \/ Save(s) \/ SaveFails(s) \/ NothingToSave(s)
    BY <2>5 DEF Skip, AskOperators, FetchOperators, searchVars, Hit, Miss, ReadFails,
       Refused, Permitted, StartSearch, Decide, Save, SaveFails, NothingToSave
  <2> QED BY <2>1, <2>2, <2>3, <2>4, <2>5 DEF Step
<1>6. \A q \in Searches : /\ seen[q] \subseteq seen'[q]
                          /\ q # s => seen'[q] = seen[q]
  BY <1>4 DEF Emit
<1> QED BY <1>1, <1>2, <1>3, <1>5, <1>6

(* What search s itself does leaves it lawful. *)
LEMMA StaysLawful ==
    ASSUME IInv, NEW s \in Searches, Step(s) \/ TimePasses(s) \/ Leave(s)
    PROVE  Lawful(s)'
<1> USE DEF IInv, LocalTypes, StoreTypes, LocalStates, At, Running, billing
<1>0. /\ search[s] \in LocalStates /\ Lawful(s)
      /\ Showable({}) = {}
  BY DEF Showable
<1>1. ASSUME NEW step \in Steps, GoTo(s, step)
      PROVE  /\ search'[s].pc = step /\ search'[s].asked = search[s].asked
             /\ search'[s].last = search[s].last
             /\ search'[s].fetched = search[s].fetched
  BY <1>1 DEF GoTo
<1>2. ASSUME Return(s) PROVE search'[s].pc = "returned" /\ search'[s].last = {}
  BY <1>2 DEF Return, Returned, New
<1>3. ASSUME Return(s), Step(s) PROVE Lawful(s)'
  <2>1. s \in paid' => s \in permits'
    BY <1>0, <1>3 DEF Step, Skip, AskOperators, FetchOperators, searchVars, KnowOperators, Hit,
       Miss, ReadFails, Refused, Permitted, StartSearch, Poll, ResultsArrive, ResultsFail,
       Decide, Save, SaveFails, NothingToSave, Lawful
  <2> QED BY <1>0, <1>2, <1>3, <2>1 DEF Lawful
<1>4. CASE AskOperators(s)
  BY <1>0, <1>1, <1>4 DEF AskOperators, Lawful, Steps
<1>5. CASE FetchOperators(s)
  BY <1>0, <1>5 DEF FetchOperators, searchVars, Lawful
<1>6. CASE KnowOperators(s) /\ ~ Return(s)
  <2> DEFINE ids == FilterOperators(answer[s])
             k   == [search[s] EXCEPT !.asked = ids, !.pc = "cache"]
  <2>1. ids # {} /\ search' = [search EXCEPT ![s] = k]
    BY <1>6 DEF KnowOperators
  <2>2. ids \cap Excluded = {}
    BY DEF FilterOperators
  <2>3. search'[s].pc = "cache" /\ search'[s].asked = ids /\ search'[s].last = search[s].last
    BY <1>0, <2>1
  <2> HIDE DEF ids, k
  <2> QED BY <1>0, <1>6, <2>1, <2>2, <2>3 DEF KnowOperators, Lawful
<1>7. CASE Miss(s) \/ ReadFails(s)
  BY <1>0, <1>1, <1>7 DEF Miss, ReadFails, Lawful, Steps
<1>8. CASE Permitted(s)
  BY <1>0, <1>1, <1>8 DEF Permitted, Lawful, Steps
<1>9. CASE StartSearch(s) /\ ~ Return(s)
  BY <1>0, <1>1, <1>9 DEF StartSearch, Lawful, Steps
<1>10. CASE Poll(s)
  <2>1. PICK status \in {"nothing", "progress", "done"}, step \in {"fetch", "decide"} :
           search' = [search EXCEPT ![s].done = status = "done", ![s].pc = step]
    BY <1>10 DEF Poll
  <2>2. /\ search'[s].pc = step /\ search'[s].asked = search[s].asked
        /\ search'[s].last = search[s].last
    BY <1>0, <2>1
  <2> QED BY <1>0, <1>10, <2>1, <2>2 DEF Poll, Lawful
<1>11. ASSUME NEW tours \in SUBSET Tours, Fetched(s, tours),
              search[s].pc \in {"fetch", "lastFetch"}
       PROVE  /\ search'[s].pc \in {"decide", "save"} /\ search'[s].last = tours
              /\ search'[s].asked = search[s].asked /\ search'[s].fetched
  BY <1>0, <1>11 DEF Fetched
<1>12. CASE ResultsArrive(s)
  <2>1. PICK tours \in SUBSET Tours : Fetched(s, tours) /\ Emit(s, tours)
    BY <1>12 DEF ResultsArrive
  <2>2. Showable(tours) \subseteq seen'[s]
    BY <2>1 DEF Emit
  <2> QED BY <1>0, <1>11, <1>12, <2>1, <2>2 DEF ResultsArrive, Lawful
<1>13. CASE ResultsFail(s)
  <2>1. search[s].last \in SUBSET Tours /\ Fetched(s, search[s].last)
    BY <1>0, <1>13 DEF ResultsFail
  <2> QED BY <1>0, <1>11, <1>13, <2>1 DEF ResultsFail, Lawful
<1>14. CASE Decide(s) /\ ~ Return(s)
  <2>1. PICK step \in {"save", "lastFetch", "poll"} :
           GoTo(s, step) /\ (step = "save" => search[s].fetched)
    BY <1>14 DEF Decide
  <2> QED BY <1>0, <1>1, <1>14, <2>1 DEF Decide, Lawful, Steps
<1>15. CASE TimePasses(s)
  <2>1. /\ search'[s].pc = search[s].pc /\ search'[s].asked = search[s].asked
        /\ search'[s].last = search[s].last /\ search'[s].fetched = search[s].fetched
    BY <1>0, <1>15 DEF TimePasses
  <2> QED BY <1>0, <1>15, <2>1 DEF TimePasses, Lawful
<1>16. CASE Leave(s)
  <2>1. /\ search'[s].pc = search[s].pc /\ search'[s].asked = search[s].asked
        /\ search'[s].last = search[s].last /\ search'[s].fetched = search[s].fetched
    BY <1>0, <1>16 DEF Leave
  <2> QED BY <1>0, <1>16, <2>1 DEF Leave, Lawful
<1>17. CASE Step(s) /\ Return(s)
  BY <1>3, <1>17
<1>18. CASE Skip(s) \/ Hit(s) \/ Refused(s) \/ Save(s) \/ SaveFails(s) \/ NothingToSave(s)
  <2>1. Return(s) /\ Step(s)
    BY <1>18 DEF Step, Skip, Hit, Refused, Save, SaveFails, NothingToSave
  <2> QED BY <1>3, <2>1
<1> QED BY <1>4, <1>5, <1>6, <1>7, <1>8, <1>9, <1>10, <1>12, <1>13, <1>14, <1>15, <1>16,
           <1>17, <1>18 DEF Step

LEMMA Inductive == IInv /\ [Next]_vars => IInv'
<1> SUFFICES ASSUME IInv, [Next]_vars PROVE IInv'
  OBVIOUS
<1>1. ListTypeOK'
  BY ListTypes, StepsOfList DEF IInv
<1>2. LocalTypes'
  BY LocalTyping DEF IInv, StoreTypes
<1>3. ASSUME NEW s \in Searches, Step(s) \/ TimePasses(s) \/ Leave(s)
      PROVE  StoreTypes' /\ (\A q \in Searches : Lawful(q)') /\ CachedWasShown'
  <2>0. LocalTypes
    BY DEF IInv
  <2>1. StoreTypes'
    <3>1. /\ \/ UNCHANGED permits
             \/ permits' = permits \cup {s}
          /\ \/ UNCHANGED paid
             \/ paid' = paid \cup {s}
      BY <1>3 DEF Step, Skip, AskOperators, FetchOperators, searchVars, KnowOperators, Hit, Miss,
         ReadFails, Refused, Permitted, StartSearch, Poll, ResultsArrive, ResultsFail, Decide,
         Save, SaveFails, NothingToSave, TimePasses, Leave, billing
    <3>2. search[s].last \in SUBSET Tours
      BY <2>0 DEF LocalTypes, LocalStates
    <3>3. UNCHANGED cache \/ cache' = [cache EXCEPT ![Key(s)] = search[s].last]
      BY <1>3 DEF Step, Skip, AskOperators, FetchOperators, searchVars, KnowOperators, Hit, Miss,
         ReadFails, Refused, Permitted, StartSearch, Poll, ResultsArrive, ResultsFail, Decide,
         Save, SaveFails, NothingToSave, TimePasses, Leave, billing
    <3> QED BY <3>1, <3>2, <3>3 DEF StoreTypes, IInv
  <2>2. ASSUME NEW q \in Searches, q # s PROVE Lawful(q)'
    <3>1. Lawful(q)
      BY DEF IInv
    <3>2. /\ search'[q] = search[q] /\ seen'[q] = seen[q]
          /\ q \in permits <=> q \in permits'
          /\ q \in paid <=> q \in paid'
      BY <1>3, <2>0, <2>2, OwnStateOnly
    <3> QED BY <3>1, <3>2 DEF Lawful, At
  <2>3. \A q \in Searches : Lawful(q)'
    BY <1>3, <2>2, StaysLawful
  <2>4. CachedWasShown'
    <3> SUFFICES ASSUME NEW k \in Keys, cache'[k] # {}
                 PROVE  \E q \in paid' : /\ query'[q] = k[1]
                                         /\ Showable(cache'[k]) \subseteq seen'[q]
      BY DEF CachedWasShown
    <3>0. /\ UNCHANGED query /\ paid \subseteq paid' /\ paid \subseteq Searches
          /\ \A q \in Searches : seen[q] \subseteq seen'[q]
      BY <1>3, <2>0, OwnStateOnly DEF IInv, StoreTypes
    <3>1. CASE cache'[k] = cache[k]
      <4>1. PICK q \in paid : query[q] = k[1] /\ Showable(cache[k]) \subseteq seen[q]
        BY <3>1 DEF IInv, CachedWasShown
      <4>2. q \in paid' /\ query'[q] = k[1] /\ Showable(cache'[k]) \subseteq seen'[q]
        BY <3>0, <3>1, <4>1
      <4> QED BY <4>2
    <3>2. CASE cache'[k] # cache[k]
      <4>1. Save(s)
        BY <1>3, <3>2 DEF Step, Skip, AskOperators, FetchOperators, searchVars, KnowOperators,
           Hit, Miss, ReadFails, Refused, Permitted, StartSearch, Poll, ResultsArrive,
           ResultsFail, Decide, SaveFails, NothingToSave, TimePasses, Leave
      <4>2. k = Key(s) /\ cache'[k] = search[s].last
        BY <3>2, <4>1 DEF Save, IInv, StoreTypes
      <4>3. s \in paid /\ Showable(search[s].last) \subseteq seen[s]
        BY <4>1 DEF Save, IInv, Lawful, At, Running
      <4>4. query[s] = k[1]
        BY <4>2 DEF Key
      <4>5. s \in paid' /\ query'[s] = k[1] /\ Showable(cache'[k]) \subseteq seen'[s]
        BY <3>0, <4>2, <4>3, <4>4
      <4> QED BY <4>5
    <3> QED BY <3>1, <3>2
  <2> QED BY <2>1, <2>3, <2>4
<1>4. ASSUME NEW k \in Keys, Expire(k)
      PROVE  StoreTypes' /\ (\A q \in Searches : Lawful(q)') /\ CachedWasShown'
  <2>1. cache' = [cache EXCEPT ![k] = {}] /\ UNCHANGED <<query, search, seen, permits, paid>>
    BY <1>4 DEF Expire, billing
  <2>2. StoreTypes'
    BY <2>1 DEF StoreTypes, IInv
  <2>3. \A q \in Searches : Lawful(q)'
    BY <2>1 DEF IInv, Lawful, At
  <2>4. \A l \in Keys : cache'[l] # {} => cache'[l] = cache[l]
    BY <2>1 DEF IInv, StoreTypes
  <2>5. CachedWasShown'
    BY <2>1, <2>4 DEF CachedWasShown, IInv
  <2> QED BY <2>2, <2>3, <2>5
<1>5. ASSUME UNCHANGED searchVars
      PROVE  StoreTypes' /\ (\A q \in Searches : Lawful(q)') /\ CachedWasShown'
  BY <1>5 DEF searchVars, billing, StoreTypes, IInv, Lawful, At, CachedWasShown
<1> QED BY <1>1, <1>2, <1>3, <1>4, <1>5 DEF Next, OperatorsAge, vars, IInv

LEMMA Begins == Init => IInv
<1> SUFFICES ASSUME Init PROVE IInv
  OBVIOUS
<1>1. ListTypeOK
  BY DEF Init, ListInit, ListTypeOK, Entries, Lists
<1>2. LocalTypes
  BY DEF Init, SearchInit, LocalTypes, LocalStates, New, Steps, Clocks, Lists
<1>3. StoreTypes
  BY DEF Init, SearchInit, StoreTypes
<1>4. ASSUME NEW s \in Searches PROVE Lawful(s)
  BY DEF Init, SearchInit, Lawful, New, Showable, Running, At
<1>5. CachedWasShown
  BY DEF Init, SearchInit, CachedWasShown
<1> QED BY <1>1, <1>2, <1>3, <1>4, <1>5 DEF IInv

LEMMA Invariance == Spec => []IInv
BY Begins, Inductive, PTL DEF Spec

(* Every variable of a live search keeps its type, and a search that goes  *)
(* to store results has asked for them.                                    *)
THEOREM TypeCorrect == Spec => []TypeOK
<1>1. IInv => TypeOK
  BY DEF IInv, LocalTypes, StoreTypes, Lawful, TypeOK
<1> QED BY <1>1, Invariance, PTL

(* However many searches overlap and whatever fails, a paid request has a  *)
(* permission and an operator filter without SAMO's operators.             *)
THEOREM PaidAllowed == Spec => []PaidSearchesAreAllowed
<1>1. IInv => PaidSearchesAreAllowed
  BY DEF IInv, StoreTypes, Lawful, PaidSearchesAreAllowed, At, Running
<1> QED BY <1>1, Invariance, PTL

(* The cache holds only what a paying search showed its own user.          *)
THEOREM CacheHonest == Spec => []CachedWasShown
<1>1. IInv => CachedWasShown
  BY DEF IInv
<1> QED BY <1>1, Invariance, PTL

(* A search that found something stores it before it returns, unless its   *)
(* user left or the store failed.                                          *)
THEOREM ResultsKept == Spec => ResultsAreKept
<1> DEFINE Kept(s) ==
      ~ At(s, "returned") /\ At(s, "returned")' /\ search[s].last # {} =>
          \/ search[s].gone
          \/ StoreFails /\ At(s, "save")
          \/ cache'[Key(s)] = search[s].last
<1>1. IInv /\ [Next]_vars => [\A s \in Searches : Kept(s)]_vars
  <2> SUFFICES ASSUME IInv, [Next]_vars, NEW s \in Searches PROVE Kept(s)
    OBVIOUS
  <2> SUFFICES ASSUME ~ At(s, "returned"), At(s, "returned")', search[s].last # {}
               PROVE  \/ search[s].gone
                      \/ StoreFails /\ At(s, "save")
                      \/ cache'[Key(s)] = search[s].last
    OBVIOUS
  <2>1. LocalTypes /\ Lawful(s) /\ cache \in [Keys -> SUBSET Tours] /\ Key(s) \in Keys
    BY DEF IInv, LocalTypes, StoreTypes, LocalStates, Key, Keys
  <2>2. Step(s) \/ TimePasses(s) \/ Leave(s)
    <3>1. ASSUME NEW q \in Searches, q # s, Step(q) \/ TimePasses(q) \/ Leave(q) PROVE FALSE
      BY <2>1, <3>1, OwnStateOnly DEF At
    <3> QED BY <3>1 DEF Next, Expire, OperatorsAge, searchVars, vars, At
  <2>3. search[s].pc \in Running
    BY <2>1 DEF Lawful
  <2>4. ~ (TimePasses(s) \/ Leave(s))
    BY <2>1 DEF TimePasses, Leave, At, LocalTypes, LocalStates
  <2>5. CASE Decide(s)
    BY <2>1, <2>5 DEF Decide, GoTo, At, LocalTypes, LocalStates
  <2>6. CASE Save(s)
    BY <2>1, <2>6 DEF Save
  <2>7. CASE SaveFails(s) \/ NothingToSave(s)
    BY <2>7 DEF SaveFails, NothingToSave
  <2>8. CASE Poll(s)
    <3>1. PICK done \in BOOLEAN, step \in {"fetch", "decide"} :
             search' = [search EXCEPT ![s].done = done, ![s].pc = step]
      BY <2>8 DEF Poll
    <3> QED BY <2>1, <3>1 DEF At, LocalTypes, LocalStates
  <2>9. CASE ResultsArrive(s) \/ ResultsFail(s)
    <3>1. PICK tours : Fetched(s, tours)
      BY <2>9 DEF ResultsArrive, ResultsFail
    <3>2. search[s] \in LocalStates
      BY <2>1 DEF LocalTypes
    <3>3. search'[s].pc \in {"decide", "save"}
      BY <2>1, <3>1, <3>2 DEF Fetched, LocalTypes, LocalStates
    <3> QED BY <3>3 DEF At
  <2> QED BY <2>2, <2>3, <2>4, <2>5, <2>6, <2>7, <2>8, <2>9 DEF Step, Skip, AskOperators,
     FetchOperators, KnowOperators, Hit, Miss, ReadFails, Refused, Permitted, StartSearch,
     At, Running
<1> QED BY <1>1, Invariance, PTL DEF Spec, ResultsAreKept
=============================================================================
