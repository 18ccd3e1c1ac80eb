---------------------------- MODULE CalendarProofs ----------------------------
(***************************************************************************)
(* Proofs about Calendar, for any number of workers and routes, any window *)
(* and horizon.                                                            *)
(***************************************************************************)
EXTENDS Calendar, SequenceTheorems, WellFoundedInduction, TLAPS

LEMMA LeastDay == ASSUME NEW S \in SUBSET Nat, S # {} PROVE \E d \in S : (\A e \in S : d <= e)
<1> DEFINE R == {p \in Nat \X Nat : p[1] < p[2]}
<1>1. IsWellFoundedOn(R, Nat)
  BY NatLessThanWellFounded DEF OpToRel
<1>2. PICK d \in S : \A e \in S : ~ (<<e, d>> \in R)
  <2> HIDE DEF R
  <2>1. S \subseteq Nat
    OBVIOUS
  <2> QED BY <1>1, <2>1, WFMin, Zenon
<1>3. \A e \in S : ~ (e < d)
  BY <1>2
<1> QED BY <1>3

(* The next window starts on the first day with flights that is left. *)
LEMMA OpensIsFirst ==
    ASSUME NEW j \in Jobs, Ahead(j) # {}
    PROVE  Opens(j) \in Ahead(j) /\ (\A e \in Ahead(j) : Opens(j) <= e)
<1>1. Ahead(j) \in SUBSET Nat
  BY DaysAssumption DEF Ahead, Jobs, Dates
<1>2. \E d \in Ahead(j) : \A e \in Ahead(j) : d <= e
  <2> HIDE DEF Ahead
  <2> QED BY <1>1, LeastDay
<1> QED BY <1>2 DEF Opens

(* A pass covers days that the calendar knows, and so does a window. *)
LEMMA SpanOfDates == ASSUME NEW j \in Jobs PROVE Span(j) \subseteq Dates
BY DaysAssumption DEF Jobs, Span, First, Final, Dates

(* After a window, what is left to search lies behind it. *)
LEMMA WindowIsNext ==
    ASSUME NEW j \in Jobs, Ahead(j) # {}
    PROVE  /\ Window(j) \subseteq Span(j)
           /\ Opens(j) + WindowDays \in 0..(LastDay + HorizonDays + WindowDays)
           /\ \A d \in Span(j) \cap j.flights :
                 d < j.cursor \/ d \in Window(j) \/ d >= Opens(j) + WindowDays
<1>1. Opens(j) \in Ahead(j) /\ (\A e \in Ahead(j) : Opens(j) <= e)
  BY OpensIsFirst
<1>2. Opens(j) \in Dates /\ j.cursor \in Nat
  BY <1>1, SpanOfDates, DaysAssumption DEF Ahead, Jobs
<1>3. ASSUME NEW d \in Span(j) \cap j.flights, ~ (d < j.cursor)
      PROVE  d \in Window(j) \/ d >= Opens(j) + WindowDays
  <2>1. d \in Nat /\ d \in Ahead(j)
    BY <1>2, <1>3, SpanOfDates DEF Ahead, Dates
  <2>2. Opens(j) <= d
    BY <1>1, <2>1
  <2> QED BY <1>2, <1>3, <2>1, <2>2, DaysAssumption DEF Window, Dates
<1> QED BY <1>2, <1>3, DaysAssumption DEF Window, Dates

(* What a worker can be doing; no day that had a price is forgotten: it is *)
(* over, kept, searched anew, without a flight, or still ahead.            *)
Covered(j) ==
    \A d \in j.prev : \/ d < j.tomorrow \/ d \in j.prices \/ d \in j.answered
                      \/ d \in Span(j) \ j.flights
                      \/ j.step = "windows" /\ d \in Ahead(j)

SoundJobs ==
    {j \in Jobs : /\ j.step \in {"dates", "load"} => j.cursor = 0
                  /\ j.step \in {"load", "windows"} => Ahead(j) # {}
                  /\ j.step = "save" => j.prices # {}
                  /\ j.step \in {"windows", "save"} => Covered(j)}

Types ==
    /\ now \in 0..LastDay
    /\ cancelled \in BOOLEAN
    /\ calendar \in [RouteSet -> SUBSET Dates]
    /\ mark \in 0..LastDay \cup {Never}
    /\ sched \in Passes \cup {"waiting"}
    /\ todo \in Seq(RouteSet)
    /\ job \in [Workers -> SoundJobs \cup {Idle}]
    /\ nearDone \subseteq RouteSet
    /\ lastStart \in 0..LastDay \cup {Never}
    /\ restarts \in 0..MaxRestarts

LEMMA TypesSuffice == Types => TypeOK
BY DEF Types, TypeOK, SoundJobs, Idle

(* The job that a worker takes on, reads a calendar for, or carries over a *)
(* window, is sound again.                                                 *)
LEMMA TakeSound ==
    ASSUME Types, NEW w \in Workers, Take(w)
    PROVE  \E j \in SoundJobs : /\ job' = [job EXCEPT ![w] = j]
                                /\ j.step = "dates" /\ j.route = Head(todo) /\ j.pass = sched
<1> DEFINE j == [step |-> "dates", route |-> Head(todo), pass |-> sched,
                 tomorrow |-> now + 1, flights |-> {}, prev |-> {}, prices |-> {},
                 cursor |-> 0, answered |-> {}, blind |-> FALSE]
<1>1. Head(todo) \in RouteSet
  BY DEF Types, Take
<1>2. sched \in Passes /\ now + 1 \in 1..(LastDay + 1)
  BY DaysAssumption DEF Types, Take
<1>3. j \in SoundJobs
  BY <1>1, <1>2, DaysAssumption DEF SoundJobs, Jobs
<1>4. job' = [job EXCEPT ![w] = j]
  BY DEF Take, SetJob
<1> QED BY <1>3, <1>4

LEMMA DatesSound ==
    ASSUME Types, NEW w \in Workers, DatesArrive(w), job' # [job EXCEPT ![w] = Idle]
    PROVE  \E j \in SoundJobs : /\ job' = [job EXCEPT ![w] = j] /\ UNCHANGED nearDone
                                /\ j.step = "load" /\ j.route = job[w].route
                                /\ j.pass = job[w].pass
<1>1. job[w] \in Jobs
  BY DEF Types, DatesArrive, SoundJobs, Idle
<1>0. job[w].cursor = 0
  BY DEF Types, DatesArrive, SoundJobs, Idle
<1>2. PICK flights \in FlightDays :
         /\ SetJob(w, [job[w] EXCEPT !.flights = flights, !.step = "load"])
         /\ Ahead([job[w] EXCEPT !.flights = flights, !.step = "load"]) # {}
  BY DEF DatesArrive, EndJob
<1> DEFINE j == [job[w] EXCEPT !.flights = flights, !.step = "load"]
<1>3. j \in SoundJobs
  <2>1. j \in Jobs /\ j.step = "load" /\ j.cursor = 0 /\ Ahead(j) # {}
    BY <1>0, <1>1, <1>2, FlightsAssumption DEF Jobs
  <2> HIDE DEF j
  <2> QED BY <2>1 DEF SoundJobs
<1>4. j.step = "load" /\ j.route = job[w].route /\ j.pass = job[w].pass
  BY <1>1 DEF Jobs
<1> HIDE DEF j
<1> QED BY <1>2, <1>3, <1>4 DEF SetJob, j

LEMMA LoadSound ==
    ASSUME Types, NEW w \in Workers, job[w].step = "load", NEW days \in SUBSET Dates,
           NEW blind \in BOOLEAN
    PROVE  \E j \in SoundJobs : /\ j = Loaded(job[w], days, blind)
                                /\ j.step = "windows" /\ j.prev = days /\ j.blind = blind
                                /\ j.route = job[w].route /\ j.pass = job[w].pass
<1> DEFINE i == job[w]
           j == Loaded(i, days, blind)
<1>1. i \in Jobs /\ i.cursor = 0 /\ Ahead(i) # {}
  BY DEF Types, SoundJobs, Idle
<1>2. KeepOutside(i, days) \subseteq Dates
  BY DEF KeepOutside
<1>3. j \in Jobs
  BY <1>1, <1>2 DEF Loaded, Jobs
<1>4. /\ j.step = "windows" /\ j.prev = days /\ j.blind = blind /\ j.route = i.route
      /\ j.pass = i.pass /\ j.tomorrow = i.tomorrow /\ j.flights = i.flights
      /\ j.cursor = 0 /\ j.prices = KeepOutside(i, days)
  BY <1>1 DEF Loaded, Jobs
<1>5. Span(j) = Span(i) /\ Ahead(j) = Ahead(i)
  BY <1>1, <1>4 DEF Span, First, Final, Ahead
<1> HIDE DEF j, i
<1>6. ASSUME NEW d \in days
      PROVE  \/ d < j.tomorrow \/ d \in j.prices
             \/ d \in Span(j) \ j.flights \/ d \in Ahead(j)
  <2>1. d \in Nat /\ i.tomorrow \in Nat
    BY <1>1 DEF Dates, Jobs
  <2> QED BY <1>4, <1>5, <2>1 DEF KeepOutside, Ahead
<1>7. Covered(j)
  BY <1>4, <1>6 DEF Covered
<1>8. j \in SoundJobs
  BY <1>1, <1>3, <1>4, <1>5, <1>7 DEF SoundJobs
<1> QED BY <1>4, <1>8 DEF i, j

(* A window that was answered, or carried over, leaves its days covered. *)
LEMMA NextSound ==
    ASSUME Types, NEW w \in Workers, job[w].step = "windows",
           NEW prices \in SUBSET Dates, NEW answered \in SUBSET Dates,
           job[w].prices \subseteq prices, job[w].answered \subseteq answered,
           job[w].prev \cap Window(job[w]) \subseteq prices \cup answered,
           NextWindow(w, prices, answered)
    PROVE  \/ EndJob(w)
           \/ \E j \in SoundJobs :
                 /\ job' = [job EXCEPT ![w] = j] /\ UNCHANGED nearDone
                 /\ j.step \in {"windows", "save"} /\ j.route = job[w].route
                 /\ j.pass = job[w].pass /\ j.prev = job[w].prev /\ j.blind = job[w].blind
<1> DEFINE i == job[w]
           k == [i EXCEPT !.prices = prices, !.answered = answered,
                          !.cursor = Opens(i) + WindowDays]
           s == [k EXCEPT !.step = "save"]
<1>1. i \in Jobs /\ i.step = "windows" /\ Ahead(i) # {} /\ Covered(i)
  BY DEF Types, SoundJobs, Idle
<1>2. /\ Opens(i) + WindowDays \in 0..(LastDay + HorizonDays + WindowDays)
      /\ \A d \in Span(i) \cap i.flights :
            d < i.cursor \/ d \in Window(i) \/ d >= Opens(i) + WindowDays
  BY <1>1, WindowIsNext
<1>3. k \in Jobs /\ s \in Jobs
  BY <1>1, <1>2 DEF Jobs
<1>4. /\ k.step = "windows" /\ s.step = "save" /\ k.cursor = Opens(i) + WindowDays
      /\ \A j \in {k, s} :
            /\ j.route = i.route /\ j.pass = i.pass /\ j.prev = i.prev /\ j.blind = i.blind
            /\ j.tomorrow = i.tomorrow /\ j.flights = i.flights
            /\ j.prices = prices /\ j.answered = answered
  BY <1>1 DEF Jobs
<1>5. NextWindow(w, prices, answered)
         <=> IF Ahead(k) # {} THEN SetJob(w, k)
             ELSE IF prices = {} THEN EndJob(w) ELSE SetJob(w, s)
  BY DEF NextWindow
<1> HIDE DEF i, k, s
<1>6. Span(k) = Span(i) /\ Span(s) = Span(i)
  BY <1>4 DEF Span, First, Final
<1>7. ASSUME NEW d \in i.prev
      PROVE  \/ d < i.tomorrow \/ d \in prices \/ d \in answered
             \/ d \in Span(i) \ i.flights \/ d \in Ahead(k)
  <2>1. CASE d \in Ahead(i)
    <3>1. d \in Span(i) \cap i.flights /\ d >= i.cursor
      BY <2>1 DEF Ahead
    <3>2. d \in Int /\ i.cursor \in Int
      BY <1>1 DEF Jobs, Dates
    <3>3. d \in Window(i) \/ d >= Opens(i) + WindowDays
      BY <1>2, <3>1, <3>2
    <3>4. d >= Opens(i) + WindowDays => d \in Ahead(k)
      BY <1>4, <1>6, <3>1 DEF Ahead
    <3> QED BY <3>3, <3>4 DEF i
  <2>2. CASE d \notin Ahead(i)
    BY <1>1, <2>2 DEF Covered, i
  <2> QED BY <2>1, <2>2
<1>8. Ahead(k) # {} => k \in SoundJobs
  BY <1>3, <1>4, <1>6, <1>7 DEF SoundJobs, Covered
<1>9. Ahead(k) = {} /\ prices # {} => s \in SoundJobs
  BY <1>3, <1>4, <1>6, <1>7 DEF SoundJobs, Covered
<1>10. CASE Ahead(k) # {}
  <2>1. SetJob(w, k)
    BY <1>5, <1>10
  <2> QED BY <1>4, <1>8, <1>10, <2>1 DEF SetJob, i
<1>11. CASE Ahead(k) = {} /\ prices # {}
  <2>1. SetJob(w, s)
    BY <1>5, <1>11
  <2> QED BY <1>4, <1>9, <1>11, <2>1 DEF SetJob, i
<1>12. CASE Ahead(k) = {} /\ prices = {}
  BY <1>5, <1>12
<1> QED BY <1>10, <1>11, <1>12

(* All that a worker's step can do: end its job, take the next route, or   *)
(* go on with the route it has.                                            *)
TakesNext(w, j) ==
    /\ sched # "waiting" /\ todo # <<>> /\ job[w] = Idle /\ todo' = Tail(todo)
    /\ j.step = "dates" /\ j.route = Head(todo) /\ j.pass = sched

GoesOn(w, j) ==
    /\ job[w] # Idle /\ UNCHANGED todo
    /\ j.route = job[w].route /\ j.pass = job[w].pass
    /\ \/ j.step \notin {"windows", "save"}
       \/ j.blind \/ j.prev = calendar[j.route]
       \/ job[w].step = "windows" /\ j.prev = job[w].prev /\ j.blind = job[w].blind

LEMMA WorkSound ==
    ASSUME Types, NEW w \in Workers, Work(w)
    PROVE  /\ UNCHANGED <<environment, scheduler>>
           /\ \/ job[w] # Idle /\ EndJob(w) /\ UNCHANGED todo
              \/ \E j \in SoundJobs : /\ job' = [job EXCEPT ![w] = j] /\ UNCHANGED nearDone
                                      /\ TakesNext(w, j) \/ GoesOn(w, j)
           /\ UNCHANGED calendar \/ Save(w)
<1>1. UNCHANGED <<environment, scheduler>> /\ (UNCHANGED calendar \/ Save(w))
  BY DEF Work, Take, DatesArrive, DatesFail, Load, LoadFails, WindowAnswered, WindowFails,
     BreakOff, Save, SaveFails
<1>2. ASSUME job[w].step = "windows",
             NEW prices \in SUBSET Dates, NEW answered \in SUBSET Dates,
             job[w].prices \subseteq prices, job[w].answered \subseteq answered,
             job[w].prev \cap Window(job[w]) \subseteq prices \cup answered,
             NextWindow(w, prices, answered), UNCHANGED todo
      PROVE  \/ job[w] # Idle /\ EndJob(w) /\ UNCHANGED todo
             \/ \E j \in SoundJobs : /\ job' = [job EXCEPT ![w] = j] /\ UNCHANGED nearDone
                                     /\ GoesOn(w, j)
  <2>1. job[w] # Idle
    BY <1>2 DEF Idle
  <2>2. \/ EndJob(w)
        \/ \E j \in SoundJobs :
              /\ job' = [job EXCEPT ![w] = j] /\ UNCHANGED nearDone
              /\ j.step \in {"windows", "save"} /\ j.route = job[w].route
              /\ j.pass = job[w].pass /\ j.prev = job[w].prev /\ j.blind = job[w].blind
    BY <1>2, NextSound
  <2> QED BY <1>2, <2>1, <2>2 DEF GoesOn
<1>3. CASE Take(w)
  <2>1. PICK j \in SoundJobs : /\ job' = [job EXCEPT ![w] = j]
                               /\ j.step = "dates" /\ j.route = Head(todo) /\ j.pass = sched
    BY <1>3, TakeSound
  <2>2. UNCHANGED nearDone /\ TakesNext(w, j)
    BY <1>3, <2>1 DEF Take, SetJob, TakesNext
  <2> QED BY <1>1, <2>1, <2>2
<1>4. CASE DatesArrive(w)
  <2>0. job[w] # Idle /\ UNCHANGED todo
    BY <1>4 DEF DatesArrive, Idle
  <2>1. CASE job' = [job EXCEPT ![w] = Idle]
    <3>1. EndJob(w) \/ (\E j \in Jobs : j # Idle /\ SetJob(w, j))
      <4>1. job[w] \in Jobs
        BY <1>4 DEF Types, DatesArrive, SoundJobs, Idle
      <4>2. ASSUME NEW flights \in FlightDays
            PROVE  /\ [job[w] EXCEPT !.flights = flights, !.step = "load"] \in Jobs
                   /\ [job[w] EXCEPT !.flights = flights, !.step = "load"].step = "load"
        BY <4>1, FlightsAssumption DEF Jobs
      <4> QED BY <1>4, <4>2 DEF DatesArrive, Idle
    <3>2. ASSUME NEW j \in Jobs, j # Idle, SetJob(w, j) PROVE FALSE
      <4>1. job'[w] = j /\ job'[w] = Idle
        BY <2>1, <3>2 DEF SetJob, Types
      <4> QED BY <3>2, <4>1
    <3> QED BY <1>1, <2>0, <3>1, <3>2
  <2>2. CASE job' # [job EXCEPT ![w] = Idle]
    <3>1. PICK j \in SoundJobs : /\ job' = [job EXCEPT ![w] = j] /\ UNCHANGED nearDone
                                 /\ j.step = "load" /\ j.route = job[w].route
                                 /\ j.pass = job[w].pass
      BY <1>4, <2>2, DatesSound
    <3> QED BY <1>1, <2>0, <3>1 DEF GoesOn
  <2> QED BY <2>1, <2>2
<1>5. ASSUME job[w].step = "load", NEW days \in SUBSET Dates, NEW blind \in BOOLEAN,
             blind \/ days = calendar[job[w].route],
             SetJob(w, Loaded(job[w], days, blind)), UNCHANGED todo
      PROVE  \E j \in SoundJobs : /\ job' = [job EXCEPT ![w] = j] /\ UNCHANGED nearDone
                                  /\ GoesOn(w, j)
  <2>1. PICK j \in SoundJobs : /\ j = Loaded(job[w], days, blind)
                               /\ j.step = "windows" /\ j.prev = days /\ j.blind = blind
                               /\ j.route = job[w].route /\ j.pass = job[w].pass
    BY <1>5, LoadSound
  <2>2. job[w] # Idle
    BY <1>5 DEF Idle
  <2>3. job' = [job EXCEPT ![w] = j] /\ UNCHANGED nearDone
    BY <1>5, <2>1 DEF SetJob
  <2> QED BY <1>5, <2>1, <2>2, <2>3 DEF GoesOn
<1>6. CASE Load(w)
  <2>1. job[w].route \in RouteSet
    BY <1>6 DEF Load, Types, SoundJobs, Jobs, Idle
  <2>2. calendar[job[w].route] \in SUBSET Dates
    BY <2>1 DEF Types
  <2> QED BY <1>1, <1>5, <1>6, <2>2 DEF Load
<1>7. CASE LoadFails(w)
  BY <1>1, <1>5, <1>7 DEF LoadFails
<1>8. CASE WindowAnswered(w) \/ WindowFails(w)
  <2> DEFINE prices(got) == job[w].prices \cup got
  <2>1. job[w].step = "windows" /\ job[w] \in Jobs /\ Ahead(job[w]) # {}
    BY <1>8 DEF WindowAnswered, WindowFails, Types, SoundJobs, Idle
  <2>2. Window(job[w]) \subseteq Dates
    BY <2>1, WindowIsNext, SpanOfDates
  <2>3. job[w].prices \subseteq Dates /\ job[w].answered \subseteq Dates
    BY <2>1 DEF Jobs
  <2>4. CASE WindowAnswered(w)
    <3>1. PICK got \in SUBSET Window(job[w]) :
             NextWindow(w, prices(got), job[w].answered \cup Window(job[w]))
      BY <2>4 DEF WindowAnswered
    <3>2. /\ prices(got) \in SUBSET Dates
          /\ job[w].answered \cup Window(job[w]) \in SUBSET Dates
      BY <2>2, <2>3
    <3>3. UNCHANGED todo
      BY <2>4 DEF WindowAnswered
    <3> QED BY <1>1, <1>2, <2>1, <3>1, <3>2, <3>3
  <2>5. CASE WindowFails(w)
    <3>1. NextWindow(w, prices(job[w].prev \cap Window(job[w])), job[w].answered)
      BY <2>5 DEF WindowFails
    <3>2. prices(job[w].prev \cap Window(job[w])) \in SUBSET Dates
      BY <2>2, <2>3
    <3>3. UNCHANGED todo
      BY <2>5 DEF WindowFails
    <3> QED BY <1>1, <1>2, <2>1, <2>3, <3>1, <3>2, <3>3
  <2> QED BY <1>8, <2>4, <2>5
<1>9. CASE DatesFail(w) \/ BreakOff(w) \/ Save(w) \/ SaveFails(w)
  <2>1. job[w] # Idle /\ EndJob(w) /\ UNCHANGED todo
    BY <1>9 DEF DatesFail, BreakOff, Save, SaveFails, Idle
  <2> QED BY <1>1, <2>1
<1> QED BY <1>3, <1>4, <1>6, <1>7, <1>8, <1>9 DEF Work

(* Every pass of a run comes to its end before the next thing starts.      *)
OnePassAtATime ==
    /\ sched = "waiting" => todo = <<>> /\ \A w \in Workers : job[w] = Idle
    /\ \A w \in Workers : job[w] # Idle => job[w].pass = sched

(* A route of the near pass is done, to be done, or with a worker.         *)
NearIsTracked ==
    /\ sched = "near" /\ ~ cancelled =>
          \A r \in RouteSet : \/ r \in nearDone
                              \/ \E i \in 1..Len(todo) : todo[i] = r
                              \/ \E w \in Workers : job[w] # Idle /\ job[w].route = r
    /\ sched = "far" => nearDone = RouteSet

(* The mark is never older than the last run. *)
MarkCoversRun ==
    /\ lastStart # Never => mark # Never /\ lastStart <= mark
    /\ mark # Never => mark <= now

IInv == Types /\ OnePassAtATime /\ NearIsTracked /\ MarkCoversRun

LEMMA TypesKept == Types /\ [Next]_vars => Types'
<1> SUFFICES ASSUME Types, [Next]_vars PROVE Types'
  OBVIOUS
<1> USE DaysAssumption DEF Types, environment, scheduler
<1>1. ASSUME NEW w \in Workers, Work(w) PROVE Types'
  <2>1. UNCHANGED <<environment, scheduler>>
    BY <1>1, WorkSound
  <2>2. job' \in [Workers -> SoundJobs \cup {Idle}] /\ nearDone' \subseteq RouteSet
    <3>1. CASE job[w] # Idle /\ EndJob(w)
      <4>1. job[w].route \in RouteSet
        BY <3>1 DEF SoundJobs, Jobs
      <4> QED BY <3>1, <4>1 DEF EndJob
    <3>2. CASE \E j \in SoundJobs : job' = [job EXCEPT ![w] = j] /\ UNCHANGED nearDone
      BY <3>2
    <3> QED BY <1>1, <3>1, <3>2, WorkSound
  <2>3. todo' \in Seq(RouteSet)
    <3>1. UNCHANGED todo \/ (todo # <<>> /\ todo' = Tail(todo))
      BY <1>1, WorkSound DEF TakesNext, GoesOn
    <3>2. todo \in Seq(RouteSet)
      OBVIOUS
    <3> HIDE DEF Types
    <3> QED BY <3>1, <3>2
  <2>4. calendar' \in [RouteSet -> SUBSET Dates]
    <3>1. CASE Save(w)
      <4>1. job[w] \in Jobs
        BY <3>1 DEF Save, SoundJobs, Idle
      <4>2. job[w].prices \in SUBSET Dates
        BY <4>1 DEF Jobs
      <4> QED BY <3>1, <4>2 DEF Save
    <3> QED BY <1>1, <3>1, WorkSound
  <2> QED BY <2>1, <2>2, <2>3, <2>4
<1>2. CASE StartRun
  BY <1>2, RoutesAssumption DEF StartRun, Passes
<1>3. CASE MarkFails
  BY <1>3 DEF MarkFails
<1>4. CASE StopFeeding
  BY <1>4 DEF StopFeeding
<1>5. CASE PassEnds
  BY <1>5, RoutesAssumption DEF PassEnds, Passes
<1>6. CASE Midnight
  BY <1>6 DEF Midnight
<1>7. CASE Cancel
  BY <1>7 DEF Cancel
<1>8. CASE Restart
  <2>1. todo' = <<>> /\ <<>> \in Seq(RouteSet)
    BY <1>8 DEF Restart
  <2>2. job' \in [Workers -> SoundJobs \cup {Idle}]
    BY <1>8 DEF Restart
  <2>3. restarts' \in 0..MaxRestarts
    BY <1>8 DEF Restart
  <2> QED BY <1>8, <2>1, <2>2, <2>3 DEF Restart
<1>9. ASSUME NEW r \in RouteSet, Expire(r) PROVE Types'
  BY <1>9 DEF Expire
<1>10. CASE UNCHANGED vars
  BY <1>10 DEF vars
<1> QED BY <1>1, <1>2, <1>3, <1>4, <1>5, <1>6, <1>7, <1>8, <1>9, <1>10 DEF Next

(* The three orders that a run keeps: of passes, of routes and of marks.   *)
LEMMA Inductive == IInv /\ [Next]_vars => IInv'
<1> SUFFICES ASSUME IInv, [Next]_vars PROVE IInv'
  OBVIOUS
<1>0. Types /\ Types'
  BY TypesKept DEF IInv
<1> SUFFICES OnePassAtATime' /\ NearIsTracked' /\ MarkCoversRun'
  BY <1>0 DEF IInv
<1> USE DEF OnePassAtATime, NearIsTracked, MarkCoversRun
<1>1. ASSUME NEW w \in Workers, Work(w)
      PROVE  OnePassAtATime' /\ NearIsTracked' /\ MarkCoversRun'
  <2>0. UNCHANGED <<now, cancelled, mark, sched, lastStart>>
    BY <1>0, <1>1, WorkSound DEF environment, scheduler
  <2>1. CASE job[w] # Idle /\ EndJob(w) /\ UNCHANGED todo
    <3>1. /\ job'[w] = Idle /\ \A v \in Workers \ {w} : job'[v] = job[v]
          /\ job[w].pass = sched
          /\ nearDone' = IF sched = "near" THEN nearDone \cup {job[w].route} ELSE nearDone
      BY <1>0, <2>1 DEF EndJob, Types, IInv
    <3>2. OnePassAtATime' /\ MarkCoversRun'
      BY <2>0, <2>1, <3>1 DEF IInv
    <3>3. NearIsTracked'
      BY <2>0, <2>1, <3>1 DEF IInv
    <3> QED BY <3>2, <3>3
  <2>2. ASSUME NEW j \in SoundJobs, job' = [job EXCEPT ![w] = j], UNCHANGED nearDone,
               GoesOn(w, j)
        PROVE  OnePassAtATime' /\ NearIsTracked' /\ MarkCoversRun'
    <3>1. /\ job'[w] = j /\ \A v \in Workers \ {w} : job'[v] = job[v]
          /\ j # Idle /\ job[w] # Idle /\ UNCHANGED todo
          /\ j.pass = job[w].pass /\ j.route = job[w].route
      BY <1>0, <2>2 DEF GoesOn, Types, SoundJobs, Jobs, Idle
    <3>2. OnePassAtATime' /\ MarkCoversRun'
      BY <2>0, <2>2, <3>1 DEF IInv
    <3>3. NearIsTracked'
      BY <2>0, <2>2, <3>1 DEF IInv
    <3> QED BY <3>2, <3>3
  <2>3. ASSUME NEW j \in SoundJobs, job' = [job EXCEPT ![w] = j], UNCHANGED nearDone,
               TakesNext(w, j)
        PROVE  OnePassAtATime' /\ NearIsTracked' /\ MarkCoversRun'
    <3>1. /\ job'[w] = j /\ \A v \in Workers \ {w} : job'[v] = job[v]
          /\ j # Idle /\ job[w] = Idle /\ sched # "waiting"
          /\ j.pass = sched /\ j.route = todo[1] /\ todo # <<>> /\ todo' = Tail(todo)
      BY <1>0, <2>3 DEF TakesNext, Types, SoundJobs, Jobs, Idle
    <3>2. OnePassAtATime' /\ MarkCoversRun'
      BY <2>0, <2>3, <3>1 DEF IInv
    <3>3. \A i \in 1..Len(todo) : i = 1 \/ (i - 1 \in 1..Len(todo') /\ todo'[i - 1] = todo[i])
      BY <1>0, <3>1 DEF Types
    <3>4. ASSUME sched = "near", ~ cancelled, NEW r \in RouteSet, r \notin nearDone,
                 NEW i \in 1..Len(todo), todo[i] = r
          PROVE  \/ \E k \in 1..Len(todo') : todo'[k] = r
                 \/ \E v \in Workers : job'[v] # Idle /\ job'[v].route = r
      BY <3>1, <3>3, <3>4
    <3>5. NearIsTracked'
      BY <2>0, <2>3, <3>1, <3>4 DEF IInv
    <3> QED BY <3>2, <3>5
  <2> QED BY <1>0, <1>1, <2>1, <2>2, <2>3, WorkSound
<1>2. CASE StartRun
  <2>1. /\ todo' = Routes /\ sched' = "near" /\ nearDone' = {} /\ UNCHANGED <<job, cancelled, now>>
        /\ mark' = now /\ lastStart' = now /\ \A w \in Workers : job[w] = Idle
    BY <1>2 DEF StartRun, Due, IInv, environment
  <2>2. \A r \in RouteSet : \E i \in 1..Len(Routes) : Routes[i] = r
    BY RoutesAssumption DEF RouteSet
  <2>3. now \in Nat
    BY <1>0, DaysAssumption DEF Types
  <2> QED BY <2>1, <2>2, <2>3, DaysAssumption
<1>3. CASE MarkFails
  <2>1. /\ UNCHANGED <<todo, sched, nearDone, job, cancelled, now, lastStart>> /\ mark' = now
    BY <1>3 DEF MarkFails, environment
  <2>2. now \in Nat /\ (lastStart # Never => lastStart <= now) /\ now # Never
    BY <1>0, DaysAssumption DEF Types, IInv
  <2> QED BY <2>1, <2>2 DEF IInv
<1>4. CASE StopFeeding
  BY <1>4 DEF StopFeeding, environment, scheduler, IInv
<1>5. CASE PassEnds
  <2>1. /\ UNCHANGED <<nearDone, job, cancelled, now, lastStart, mark>>
        /\ \A w \in Workers : job[w] = Idle
        /\ todo = <<>> /\ Len(todo) = 0
    BY <1>5 DEF PassEnds, environment
  <2>2. CASE sched = "near" /\ ~ cancelled
    <3>1. RouteSet \subseteq nearDone
      BY <2>1, <2>2 DEF IInv
    <3>2. nearDone = RouteSet /\ sched' = "far"
      BY <1>0, <1>5, <2>2, <3>1 DEF Types, PassEnds
    <3> QED BY <2>1, <3>2 DEF IInv
  <2>3. CASE ~ (sched = "near" /\ ~ cancelled)
    BY <1>5, <2>1, <2>3 DEF PassEnds, IInv
  <2> QED BY <2>2, <2>3
<1>6. CASE Midnight
  <2>1. /\ now' = now + 1
        /\ UNCHANGED <<cancelled, mark, sched, lastStart, todo, job, nearDone>>
    BY <1>6 DEF Midnight, scheduler
  <2>2. now \in Nat /\ (mark # Never => mark \in Nat)
    BY <1>0, DaysAssumption DEF Types
  <2> QED BY <2>1, <2>2 DEF IInv
<1>7. CASE Cancel
  BY <1>7 DEF Cancel, scheduler, IInv
<1>8. CASE Restart
  BY <1>8 DEF Restart, IInv
<1>9. ASSUME NEW r \in RouteSet, Expire(r)
      PROVE  OnePassAtATime' /\ NearIsTracked' /\ MarkCoversRun'
  BY <1>9 DEF Expire, environment, scheduler, IInv
<1>10. CASE UNCHANGED vars
  BY <1>10 DEF vars, environment, scheduler, IInv
<1> QED BY <1>1, <1>2, <1>3, <1>4, <1>5, <1>6, <1>7, <1>8, <1>9, <1>10 DEF Next

LEMMA Begins == Init => IInv
<1> SUFFICES ASSUME Init PROVE IInv
  OBVIOUS
<1>1. Types
  <2>1. todo = <<>> /\ <<>> \in Seq(RouteSet)
    BY DEF Init
  <2>2. job \in [Workers -> SoundJobs \cup {Idle}] /\ calendar \in [RouteSet -> SUBSET Dates]
    BY DEF Init
  <2>3. now \in 0..LastDay /\ restarts \in 0..MaxRestarts
    BY DaysAssumption DEF Init
  <2> QED BY <2>1, <2>2, <2>3 DEF Init, Types
<1> QED BY <1>1, DaysAssumption DEF Init, IInv, OnePassAtATime, NearIsTracked, MarkCoversRun

LEMMA Invariance == Spec => []IInv
BY Begins, Inductive, PTL DEF Spec

(* Every variable of the calendar keeps its type; a worker that searches   *)
(* has a window to search, one that stores has prices.                     *)
THEOREM TypeCorrect == Spec => []TypeOK
<1>1. IInv => TypeOK
  BY TypesSuffice DEF IInv
<1> QED BY <1>1, Invariance, PTL

(* For any number of routes and workers, no worker is on far days before   *)
(* the near days of every route are through.                               *)
THEOREM NearBeforeFar == Spec => []NearFirst
<1>1. IInv => NearFirst
  BY DEF IInv, OnePassAtATime, NearIsTracked, NearFirst
<1> QED BY <1>1, Invariance, PTL

(* Whatever fails or restarts, two runs start an interval apart.           *)
THEOREM RunsSpaced == Spec => RunsAreSpaced
<1>1. IInv /\ [Next]_vars =>
         [sched = "waiting" /\ sched' = "near" /\ lastStart # Never =>
             now - lastStart >= Interval]_vars
  <2> SUFFICES ASSUME IInv, Next, sched = "waiting", sched' = "near", lastStart # Never
               PROVE  now - lastStart >= Interval
    BY DEF vars, scheduler
  <2>1. ASSUME NEW w \in Workers, Work(w) PROVE FALSE
    BY <2>1, WorkSound DEF IInv, scheduler
  <2>2. StartRun
    BY <2>1 DEF Next, MarkFails, StopFeeding, PassEnds, Midnight, Cancel, Restart, Expire,
       scheduler
  <2>3. now \in Int /\ mark \in Int /\ lastStart \in Int /\ Interval \in Int
    BY DaysAssumption DEF IInv, Types, MarkCoversRun
  <2> QED BY <2>2, <2>3 DEF StartRun, Due, IInv, MarkCoversRun
<1> QED BY <1>1, Invariance, PTL DEF Spec, RunsAreSpaced

(* No route is listed twice. *)
RoutesDistinct == \A i, k \in 1..Len(Routes) : Routes[i] = Routes[k] => i = k

(* Then no two workers have the same route, and what a worker remembers of *)
(* its route's calendar stays what is stored, until it has expired.        *)
RoutesApart ==
    /\ \A i, k \in 1..Len(todo) : todo[i] = todo[k] => i = k
    /\ \A w, v \in Workers :
          job[w] # Idle /\ job[v] # Idle /\ job[w].route = job[v].route => w = v
    /\ \A w \in Workers : \A i \in 1..Len(todo) : job[w] # Idle => todo[i] # job[w].route

OldPricesKnown ==
    \A w \in Workers :
        job[w] # Idle /\ job[w].step \in {"windows", "save"} /\ ~ job[w].blind =>
            calendar[job[w].route] \subseteq job[w].prev

LEMMA TailShifts ==
    ASSUME NEW S, NEW q \in Seq(S), q # <<>>
    PROVE  /\ Len(q) \in Nat /\ 1 \in 1..Len(q)
           /\ \A i \in 1..Len(Tail(q)) : i + 1 \in 1..Len(q) /\ Tail(q)[i] = q[i + 1]
<1>1. Len(q) \in Nat \ {0}
  BY EmptySeq
<1>2. Len(Tail(q)) = Len(q) - 1 /\ \A i \in 1..(Len(q) - 1) : Tail(q)[i] = q[i + 1]
  BY HeadTailProperties
<1> QED BY <1>1, <1>2

LEMMA ApartInductive ==
    ASSUME RoutesDistinct, IInv, RoutesApart, OldPricesKnown, [Next]_vars
    PROVE  RoutesApart' /\ OldPricesKnown'
<1> USE DEF RoutesApart, OldPricesKnown
<1>0. Types /\ Types' /\ OnePassAtATime
  BY TypesKept DEF IInv
<1>1. ASSUME NEW w \in Workers, Work(w) PROVE RoutesApart' /\ OldPricesKnown'
  <2>0. ASSUME NEW v \in Workers, v # w, job[v] # Idle, job[v].route \in RouteSet
        PROVE  calendar'[job[v].route] = calendar[job[v].route]
    <3>1. CASE Save(w)
      <4>1. job[w] # Idle /\ job[w].route # job[v].route
        BY <2>0, <3>1 DEF Save, Idle
      <4> QED BY <1>0, <2>0, <3>1, <4>1 DEF Save, Types
    <3> QED BY <1>0, <1>1, <3>1, WorkSound
  <2>1. ASSUME NEW v \in Workers, job[v] # Idle PROVE job[v].route \in RouteSet
    BY <1>0, <2>1 DEF Types, SoundJobs, Jobs
  <2>2. CASE job[w] # Idle /\ EndJob(w) /\ UNCHANGED todo
    <3>1. job'[w] = Idle /\ \A v \in Workers \ {w} : job'[v] = job[v]
      BY <1>0, <2>2 DEF EndJob, Types
    <3> QED BY <2>0, <2>1, <2>2, <3>1
  <2>3. ASSUME NEW j \in SoundJobs, job' = [job EXCEPT ![w] = j], GoesOn(w, j)
        PROVE  RoutesApart' /\ OldPricesKnown'
    <3>1. /\ job'[w] = j /\ \A v \in Workers \ {w} : job'[v] = job[v]
          /\ job[w] # Idle /\ UNCHANGED todo /\ j.route = job[w].route
      BY <1>0, <2>3 DEF GoesOn, Types
    <3>2. RoutesApart'
      BY <3>1
    <3>3. UNCHANGED calendar
      <4>1. ~ Save(w)
        BY <1>0, <2>3, <3>1 DEF Save, EndJob, SoundJobs, Jobs, Idle, Types
      <4> QED BY <1>0, <1>1, <4>1, WorkSound
    <3>4. OldPricesKnown'
      BY <2>3, <3>1, <3>3 DEF GoesOn
    <3> QED BY <3>2, <3>4
  <2>4. ASSUME NEW j \in SoundJobs, job' = [job EXCEPT ![w] = j], TakesNext(w, j)
        PROVE  RoutesApart' /\ OldPricesKnown'
    <3>1. /\ job'[w] = j /\ \A v \in Workers \ {w} : job'[v] = job[v]
          /\ todo # <<>> /\ todo' = Tail(todo) /\ j.route = todo[1] /\ j.step = "dates"
      BY <1>0, <2>4 DEF TakesNext, Types
    <3>2. todo \in Seq(RouteSet)
      BY <1>0 DEF Types
    <3>3. /\ Len(todo) \in Nat /\ 1 \in 1..Len(todo)
          /\ \A i \in 1..Len(todo') : i + 1 \in 1..Len(todo) /\ todo'[i] = todo[i + 1]
      <4> DEFINE q == todo
      <4>1. q \in Seq(RouteSet) /\ q # <<>> /\ todo' = Tail(q)
        BY <3>1, <3>2
      <4> HIDE DEF q
      <4>2. /\ Len(q) \in Nat /\ 1 \in 1..Len(q)
            /\ \A i \in 1..Len(todo') : i + 1 \in 1..Len(q) /\ todo'[i] = q[i + 1]
        BY <4>1, TailShifts
      <4> QED BY <4>2 DEF q
    <3>4. ASSUME NEW i \in 1..Len(todo'), NEW k \in 1..Len(todo'), todo'[i] = todo'[k]
          PROVE  i = k
      <4>1. i \in Int /\ k \in Int
        OBVIOUS
      <4>2. todo[i + 1] = todo[k + 1] /\ i + 1 \in 1..Len(todo) /\ k + 1 \in 1..Len(todo)
        BY <3>3, <3>4
      <4>3. i + 1 = k + 1
        BY <4>2
      <4> QED BY <4>1, <4>3
    <3>5. \A i \in 1..Len(todo') : todo'[i] # todo[1]
      BY <3>3
    <3>6. RoutesApart'
      BY <3>1, <3>3, <3>4, <3>5
    <3>7. OldPricesKnown'
      BY <2>0, <2>1, <3>1
    <3> QED BY <3>6, <3>7
  <2> QED BY <1>0, <1>1, <2>2, <2>3, <2>4, WorkSound
<1>2. CASE StartRun \/ PassEnds
  <2>1. /\ UNCHANGED <<job, calendar>> /\ (UNCHANGED todo \/ todo' = Routes)
        /\ \A w \in Workers : job[w] = Idle
    BY <1>0, <1>2 DEF StartRun, PassEnds, Due, OnePassAtATime
  <2> QED BY <2>1 DEF RoutesDistinct
<1>3. CASE StopFeeding
  BY <1>3 DEF StopFeeding
<1>4. CASE Restart
  BY <1>4 DEF Restart
<1>5. ASSUME NEW r \in RouteSet, Expire(r) PROVE RoutesApart' /\ OldPricesKnown'
  <2>1. UNCHANGED <<job, todo>> /\ calendar' = [calendar EXCEPT ![r] = {}]
    BY <1>5 DEF Expire
  <2>2. ASSUME NEW w \in Workers, job[w] # Idle
        PROVE  calendar'[job[w].route] \subseteq calendar[job[w].route]
    BY <1>0, <2>1, <2>2 DEF Types, SoundJobs, Jobs
  <2> QED BY <2>1, <2>2
<1>6. CASE MarkFails \/ Midnight \/ Cancel \/ UNCHANGED vars
  BY <1>6 DEF MarkFails, Midnight, Cancel, vars
<1> QED BY <1>1, <1>2, <1>3, <1>4, <1>5, <1>6 DEF Next

(* However the windows of its routes fail, and whichever worker stores     *)
(* first, a refresh forgets no price it should keep.                       *)
THEOREM PricesKept == ASSUME RoutesDistinct PROVE Spec => PricesAreKept
<1>1. Init => RoutesApart /\ OldPricesKnown
  BY DEF Init, RoutesApart, OldPricesKnown
<1>2. IInv /\ RoutesApart /\ OldPricesKnown /\ [Next]_vars =>
         [\A w \in Workers : job[w] # Idle /\ ~ job[w].blind => ReplacedWithCare(w)]_vars
  <2> SUFFICES ASSUME IInv, RoutesApart, OldPricesKnown, Next,
                      NEW w \in Workers, job[w] # Idle, ~ job[w].blind,
                      calendar'[job[w].route] \notin {{}, calendar[job[w].route]},
                      NEW d \in calendar[job[w].route] \ calendar'[job[w].route]
               PROVE  \/ d < job[w].tomorrow \/ d \in job[w].answered
                      \/ d \in Span(job[w]) \ job[w].flights
    BY DEF ReplacedWithCare
  <2>1. Types /\ job[w] \in SoundJobs /\ job[w].route \in RouteSet
    BY DEF IInv, Types, SoundJobs, Jobs
  <2>2. ASSUME NEW r \in RouteSet, Expire(r) PROVE FALSE
    BY <2>1, <2>2 DEF Expire, Types
  <2>3. PICK v \in Workers : Work(v)
    BY <2>2 DEF Next, StartRun, MarkFails, StopFeeding, PassEnds, Midnight, Cancel, Restart
  <2>4. Save(v)
    BY <2>1, <2>3, WorkSound
  <2>5. v = w
    <3>1. job[v] # Idle
      BY <2>4 DEF Save, Idle
    <3>2. job[v].route = job[w].route
      BY <2>1, <2>4, <3>1 DEF Save, Types
    <3> QED BY <3>1, <3>2 DEF RoutesApart
  <2>6. job[w].step = "save" /\ d \notin job[w].prices
    BY <2>1, <2>4, <2>5 DEF Save, Types
  <2>7. d \in job[w].prev
    BY <2>6 DEF OldPricesKnown
  <2> QED BY <2>1, <2>6, <2>7 DEF SoundJobs, Covered
<1>3. IInv /\ RoutesApart /\ OldPricesKnown /\ [Next]_vars => RoutesApart' /\ OldPricesKnown'
  BY ApartInductive
<1> QED BY <1>1, <1>2, <1>3, Invariance, PTL DEF Spec, PricesAreKept
=============================================================================
