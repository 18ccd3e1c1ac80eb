------------------------------- MODULE Calendar -------------------------------
(***************************************************************************)
(* turvisorsearch/calendar.go and scheduler/tourvisor_calendar.go: the     *)
(* calendar of cheapest prices.  Once per interval a scheduler goroutine   *)
(* refreshes every route in two passes, the near days of all routes before *)
(* the far ones, with a few workers; a worker searches a route window by   *)
(* window and replaces the route's calendar in Redis.  The day may change, *)
(* every request may fail, and the process may be stopped or restarted in  *)
(* the middle; Redis keeps the calendars and the mark of the last run.     *)
(***************************************************************************)
EXTENDS Integers, Sequences

CONSTANTS Workers,      \* calendarWorkers goroutines per pass
          Routes,       \* the routes (departure, country), in priority order
          FlightDays,   \* the sets of days /tours/dates may answer with
          LastDay,      \* bound: days are 0..LastDay
          Interval,     \* TOURVISOR_CALENDAR_INTERVAL_HOURS, in days
          NearDays,     \* calendarNearDays
          HorizonDays,  \* calendarHorizonDays
          WindowDays,   \* calendarWindowDays
          Never,        \* no run so far
          MaxRestarts   \* bound on restarts

ASSUME DaysAssumption ==
    /\ LastDay \in Nat
    /\ HorizonDays \in Nat
    /\ NearDays \in 1..HorizonDays
    /\ WindowDays \in Nat \ {0}
    /\ Interval \in Nat \ {0}
    /\ Never \notin Int
    /\ MaxRestarts \in Nat

VARIABLES now,        \* the day, by Moscow time
          cancelled,  \* the context of the process is cancelled
          calendar,   \* calendar[r]: the days with a price in Redis
          mark,       \* Redis: tourvisor:calendar:last_run
          sched,      \* the scheduler: "waiting", or the pass that runs
          todo,       \* the routes the pass has not handed out
          job,        \* job[w]: what worker w is doing
          nearDone,   \* routes whose near days this run is through with (history)
          lastStart,  \* the day the last run started (history)
          restarts    \* restarts so far (history)

environment == <<now, cancelled, restarts>>
scheduler   == <<mark, sched, lastStart>>
vars        == <<environment, scheduler, calendar, todo, job, nearDone>>

RouteSet == {Routes[i] : i \in DOMAIN Routes}
Dates    == 1..(LastDay + HorizonDays)
Passes   == {"near", "far"}

ASSUME RoutesAssumption == Routes \in Seq(RouteSet)
ASSUME FlightsAssumption == FlightDays \subseteq SUBSET Dates

(* tomorrow, flights, prev, prices: as in refreshRoute; cursor: the first  *)
(* day no window so far has reached; answered: days of the windows whose   *)
(* search was answered (history); blind: the old calendar could not be     *)
(* read (history).                                                         *)
Jobs == [step : {"dates", "load", "windows", "save"}, route : RouteSet, pass : Passes,
         tomorrow : 1..(LastDay + 1), flights : SUBSET Dates, prev : SUBSET Dates,
         prices : SUBSET Dates, cursor : 0..(LastDay + HorizonDays + WindowDays),
         answered : SUBSET Dates, blind : BOOLEAN]
Idle == [step |-> "idle"]

First(j) == j.tomorrow + IF j.pass = "near" THEN 0 ELSE NearDays
Final(j) == j.tomorrow + (IF j.pass = "near" THEN NearDays ELSE HorizonDays) - 1
Span(j)  == First(j)..Final(j)

(* calendarWindows, one window at a time: it starts on the first day with  *)
(* flights after the window before it and is cut at the end of the range.  *)
Ahead(j)  == {d \in j.flights \cap Span(j) : d >= j.cursor}
Opens(j)  == CHOOSE d \in Ahead(j) : \A e \in Ahead(j) : d <= e
Window(j) == Opens(j)..(Opens(j) + WindowDays - 1) \cap Span(j)

KeepOutside(j, days) == {d \in days : d >= j.tomorrow /\ d \notin Span(j)}

-----------------------------------------------------------------------------
Init ==
    /\ now = 0
    /\ cancelled = FALSE
    /\ calendar = [r \in RouteSet |-> {}]
    /\ mark = Never
    /\ sched = "waiting"
    /\ todo = <<>>
    /\ job = [w \in Workers |-> Idle]
    /\ nearDone = {}
    /\ lastStart = Never
    /\ restarts = 0

Due == sched = "waiting" /\ (mark # Never => now - mark >= Interval)

(* Mutant: the mark is still to be written when the run starts. *)
StartRun_Unmarked ==
    /\ Due /\ ~ cancelled
    /\ lastStart' = now
    /\ sched' = "near"
    /\ todo' = Routes
    /\ nearDone' = {}
    /\ UNCHANGED <<environment, mark, calendar, job>>

(* The mark is written before the first search. *)
StartRun ==
    /\ Due /\ ~ cancelled
    /\ mark' = now
    /\ lastStart' = now
    /\ sched' = "near"
    /\ todo' = Routes
    /\ nearDone' = {}
    /\ UNCHANGED <<environment, calendar, job>>

(* An error when writing the mark, written or not: no run. *)
MarkFails ==
    /\ Due
    /\ mark' = now
    /\ UNCHANGED <<environment, sched, lastStart, calendar, todo, job, nearDone>>

SetJob(w, j) == job' = [job EXCEPT ![w] = j] /\ UNCHANGED nearDone
EndJob(w) ==
    /\ job' = [job EXCEPT ![w] = Idle]
    /\ nearDone' = IF job[w].pass = "near" THEN nearDone \cup {job[w].route} ELSE nearDone

(* The feeder hands the next route to an idle worker.                      *)
Take(w) ==
    /\ sched # "waiting" /\ todo # <<>> /\ job[w] = Idle
    /\ todo' = Tail(todo)
    /\ SetJob(w, [step |-> "dates", route |-> Head(todo), pass |-> sched,
                  tomorrow |-> now + 1, flights |-> {}, prev |-> {}, prices |-> {},
                  cursor |-> 0, answered |-> {}, blind |-> FALSE])
    /\ UNCHANGED <<environment, scheduler, calendar>>

StopFeeding ==
    /\ cancelled /\ todo # <<>>
    /\ todo' = <<>>
    /\ UNCHANGED <<environment, scheduler, calendar, job, nearDone>>

DatesArrive(w) ==
    /\ job[w].step = "dates" /\ ~ cancelled
    /\ \E flights \in FlightDays :
          LET j == [job[w] EXCEPT !.flights = flights, !.step = "load"] IN
          IF Ahead(j) = {} THEN EndJob(w) ELSE SetJob(w, j)
    /\ UNCHANGED <<environment, scheduler, calendar, todo>>

DatesFail(w) ==
    /\ job[w].step = "dates"
    /\ EndJob(w)
    /\ UNCHANGED <<environment, scheduler, calendar, todo>>

Loaded(j, days, blind) ==
    [j EXCEPT !.step = "windows", !.prev = days, !.prices = KeepOutside(j, days),
              !.blind = blind]

Load(w) ==
    /\ job[w].step = "load" /\ ~ cancelled
    /\ SetJob(w, Loaded(job[w], calendar[job[w].route], FALSE))
    /\ UNCHANGED <<environment, scheduler, calendar, todo>>

(* A calendar that cannot be read counts as none at all. *)
LoadFails(w) ==
    /\ job[w].step = "load"
    /\ SetJob(w, Loaded(job[w], {}, TRUE))
    /\ UNCHANGED <<environment, scheduler, calendar, todo>>

(* The window is behind; after the last one an empty calendar is dropped.  *)
NextWindow(w, prices, answered) ==
    LET k == [job[w] EXCEPT !.prices = prices, !.answered = answered,
                            !.cursor = Opens(job[w]) + WindowDays]
    IN  IF Ahead(k) # {} THEN SetJob(w, k)
        ELSE IF prices = {} THEN EndJob(w) ELSE SetJob(w, [k EXCEPT !.step = "save"])

(* searchWindow brings prices for some of the window's days; for none when *)
(* Tourvisor has finished and found nothing.                               *)
WindowAnswered(w) ==
    /\ job[w].step = "windows" /\ ~ cancelled
    /\ \E got \in SUBSET Window(job[w]) :
          NextWindow(w, job[w].prices \cup got, job[w].answered \cup Window(job[w]))
    /\ UNCHANGED <<environment, scheduler, calendar, todo>>

(* Mutant: a failed window leaves its days without a price. *)
WindowFails_Empty(w) ==
    /\ job[w].step = "windows" /\ ~ cancelled
    /\ NextWindow(w, job[w].prices, job[w].answered)
    /\ UNCHANGED <<environment, scheduler, calendar, todo>>

(* No permission (module Quota), an error, or not finished in time and     *)
(* nothing found: carryOver keeps the window's old prices.                 *)
WindowFails(w) ==
    /\ job[w].step = "windows" /\ ~ cancelled
    /\ NextWindow(w, job[w].prices \cup (job[w].prev \cap Window(job[w])), job[w].answered)
    /\ UNCHANGED <<environment, scheduler, calendar, todo>>

(* The loop over the windows ends early; saving with the cancelled context *)
(* fails.                                                                  *)
BreakOff(w) ==
    /\ job[w].step \in {"windows", "save"} /\ cancelled
    /\ EndJob(w)
    /\ UNCHANGED <<environment, scheduler, calendar, todo>>

Save(w) ==
    /\ job[w].step = "save" /\ ~ cancelled
    /\ calendar' = [calendar EXCEPT ![job[w].route] = job[w].prices]
    /\ EndJob(w)
    /\ UNCHANGED <<environment, scheduler, todo>>

SaveFails(w) ==
    /\ job[w].step = "save"
    /\ EndJob(w)
    /\ UNCHANGED <<environment, scheduler, calendar, todo>>

(* Mutant: the pass does not wait for its workers. *)
PassEnds_NoWait ==
    /\ sched # "waiting" /\ todo = <<>>
    /\ IF sched = "near" /\ ~ cancelled
         THEN sched' = "far" /\ todo' = Routes
         ELSE sched' = "waiting" /\ UNCHANGED todo
    /\ UNCHANGED <<environment, mark, lastStart, calendar, job, nearDone>>

PassEnds ==
    /\ sched # "waiting" /\ todo = <<>> /\ \A w \in Workers : job[w] = Idle
    /\ IF sched = "near" /\ ~ cancelled
         THEN sched' = "far" /\ todo' = Routes
         ELSE sched' = "waiting" /\ UNCHANGED todo
    /\ UNCHANGED <<environment, mark, lastStart, calendar, job, nearDone>>

Midnight ==
    /\ now < LastDay
    /\ now' = now + 1
    /\ UNCHANGED <<cancelled, restarts, scheduler, calendar, todo, job, nearDone>>

(* calendarTTL has passed. *)
Expire(r) ==
    /\ calendar[r] # {}
    /\ calendar' = [calendar EXCEPT ![r] = {}]
    /\ UNCHANGED <<environment, scheduler, todo, job, nearDone>>

Cancel ==
    /\ ~ cancelled
    /\ cancelled' = TRUE
    /\ UNCHANGED <<now, restarts, scheduler, calendar, todo, job, nearDone>>

(* The process ends, at any point, and starts again. *)
Restart ==
    /\ restarts < MaxRestarts
    /\ restarts' = restarts + 1
    /\ cancelled' = FALSE
    /\ sched' = "waiting"
    /\ todo' = <<>>
    /\ job' = [w \in Workers |-> Idle]
    /\ nearDone' = {}
    /\ UNCHANGED <<now, mark, lastStart, calendar>>

Work(w) ==
    \/ Take(w) \/ DatesArrive(w) \/ DatesFail(w) \/ Load(w) \/ LoadFails(w)
    \/ WindowAnswered(w) \/ WindowFails(w) \/ BreakOff(w) \/ Save(w) \/ SaveFails(w)

Next ==
    \/ \E w \in Workers : Work(w)
    \/ StartRun \/ MarkFails \/ StopFeeding \/ PassEnds
    \/ Midnight \/ Cancel \/ Restart
    \/ \E r \in RouteSet : Expire(r)

Spec == Init /\ [][Next]_vars

-----------------------------------------------------------------------------
(* Every variable has the values the code gives it: a worker has a window  *)
(* before it while it searches, and a calendar that is stored has prices.  *)
TypeOK ==
    /\ now \in 0..LastDay
    /\ cancelled \in BOOLEAN
    /\ calendar \in [RouteSet -> SUBSET Dates]
    /\ mark \in 0..LastDay \cup {Never}
    /\ sched \in Passes \cup {"waiting"}
    /\ todo \in Seq(RouteSet)
    /\ job \in [Workers -> Jobs \cup {Idle}]
    /\ \A w \in Workers : /\ job[w].step = "windows" => Ahead(job[w]) # {}
                         /\ job[w].step = "save" => job[w].prices # {}
    /\ nearDone \subseteq RouteSet
    /\ lastStart \in 0..LastDay \cup {Never}
    /\ restarts \in 0..MaxRestarts

(* "First the near 60 days of every country, then, if the limit allows,    *)
(* 61-90" (calendar.go:31-32): no worker is on far days while the near     *)
(* days of any route are still to be done.                                 *)
NearFirst ==
    \A w \in Workers :
        job[w] # Idle /\ job[w].pass = "far" => nearDone = RouteSet

(* Replacing the calendar of worker w's route takes prices off it only for *)
(* days that are over, days of windows that were searched anew, and days   *)
(* of the pass on which there is no flight.                                *)
ReplacedWithCare(w) ==
    LET j == job[w] IN
    calendar'[j.route] \notin {{}, calendar[j.route]} =>
        \A d \in calendar[j.route] \ calendar'[j.route] :
            d < j.tomorrow \/ d \in j.answered \/ d \in Span(j) \ j.flights

(* No price is lost for a window that failed, for the days of the other    *)
(* pass, or because the refresh was broken off or met another midnight,    *)
(* provided the old calendar could be read (calendar.go:182-183).          *)
PricesAreKept ==
    [][\A w \in Workers : job[w] # Idle /\ ~ job[w].blind => ReplacedWithCare(w)]_vars

(* "Even when the container restarts, the paid searches are not repeated": *)
(* the next run starts only when the interval has passed, counted from the *)
(* start of the last one (tourvisor_calendar.go:25-26 and 73-74).          *)
RunsAreSpaced ==
    [][sched = "waiting" /\ sched' = "near" /\ lastStart # Never =>
          now - lastStart >= Interval]_vars

(* calendar.go:182-183: for a window with an error the old prices remain,  *)
(* "the calendar never suddenly becomes empty".                            *)
FailedWindowsKeepPrices ==
    [][\A w \in Workers : job[w] # Idle => ReplacedWithCare(w)]_vars
=============================================================================
