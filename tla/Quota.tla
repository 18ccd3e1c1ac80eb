-------------------------------- MODULE Quota --------------------------------
(***************************************************************************)
(* turvisorsearch/quota.go: permission for one paid Tourvisor request.     *)
(* reserveBillable counts first and gives back what it may not keep: an    *)
(* INCR of the day's total, for the calendar an INCR of its own counter,   *)
(* and a DECR of each when the answer is no.  Between two commands other   *)
(* goroutines run, Moscow's midnight passes, Redis may fail a command      *)
(* before or after applying it, and the process may crash and restart      *)
(* while Redis keeps the counters.                                         *)
(***************************************************************************)
EXTENDS Integers, FiniteSets

CONSTANTS Requests,    \* calls of reserveBillable, each made once
          LastDay,     \* days are 1..LastDay, by Moscow time
          Limit,       \* TOURVISOR_DAILY_LIMIT
          Budget,      \* TOURVISOR_CALENDAR_DAILY_BUDGET
          MaxFaults    \* bound on failed Redis commands and crashes

ASSUME RequestsAssumption == IsFiniteSet(Requests)
ASSUME LimitsAssumption   == Limit \in Nat /\ Budget \in Nat
ASSUME BoundsAssumption   == LastDay \in Nat \ {0} /\ MaxFaults \in Nat

Days     == 1..LastDay
Purposes == {"live", "calendar"}
NotPaid  == 0

VARIABLES today,      \* the date a goroutine would read now
          total,      \* Redis: tourvisor:billable:<day>
          used,       \* Redis: tourvisor:billable:calendar:<day>
          pc,         \* pc[r]: the next command of request r
          purpose,    \* purpose[r]: live or calendar
          day,        \* day[r]: the date r read, used in all its keys
          live,       \* live[d]: permissions given to live searches (history)
          calendar,   \* calendar[d]: permissions given to the calendar (history)
          paidOn,     \* paidOn[r]: the day Tourvisor got r's paid request, or NotPaid (history)
          faults      \* faults so far (history)

redis   == <<total, used>>
local   == <<purpose, day>>
history == <<live, calendar, paidOn>>
vars    == <<today, redis, pc, local, history, faults>>

Steps == {"idle", "count", "countCalendar", "releaseTotal", "releaseBoth",
          "releaseCalendar", "granted", "refused", "spent", "lost"}

LiveCap == IF Budget > Limit THEN 0 ELSE Limit - Budget

-----------------------------------------------------------------------------
Init ==
    /\ today = 1
    /\ total = [d \in Days |-> 0]
    /\ used = [d \in Days |-> 0]
    /\ pc = [r \in Requests |-> "idle"]
    /\ purpose = [r \in Requests |-> "live"]
    /\ day = [r \in Requests |-> 1]
    /\ live = [d \in Days |-> 0]
    /\ calendar = [d \in Days |-> 0]
    /\ paidOn = [r \in Requests |-> NotPaid]
    /\ faults = 0

GoTo(r, step) == pc' = [pc EXCEPT ![r] = step]

Grant(r) ==
    /\ GoTo(r, "granted")
    /\ \/ /\ purpose[r] = "live"
          /\ live' = [live EXCEPT ![day[r]] = @ + 1]
          /\ UNCHANGED calendar
       \/ /\ purpose[r] = "calendar"
          /\ calendar' = [calendar EXCEPT ![day[r]] = @ + 1]
          /\ UNCHANGED live
    /\ UNCHANGED paidOn

(* A Redis command fails: the caller sees an error, the command may or may *)
(* not have been applied (lost reply, cancelled context).                  *)
Fault == faults < MaxFaults /\ faults' = faults + 1

Arrive(r, p) ==
    /\ pc[r] = "idle"
    /\ purpose' = [purpose EXCEPT ![r] = p]
    /\ day' = [day EXCEPT ![r] = today]
    /\ GoTo(r, "count")
    /\ UNCHANGED <<today, redis, history, faults>>

CountTotal(r) ==
    LET n == total[day[r]] + 1 IN
    /\ pc[r] = "count"
    /\ total' = [total EXCEPT ![day[r]] = n]
    /\ \/ /\ purpose[r] = "live" /\ n <= LiveCap
          /\ Grant(r)
       \/ /\ purpose[r] = "calendar" /\ n <= Limit
          /\ GoTo(r, "countCalendar")
          /\ UNCHANGED history
       \/ /\ n > IF purpose[r] = "live" THEN LiveCap ELSE Limit
          /\ GoTo(r, "releaseTotal")
          /\ UNCHANGED history
    /\ UNCHANGED <<today, used, local, faults>>

CountTotalFails(r) ==
    /\ pc[r] = "count"
    /\ Fault
    /\ \E applied \in {0, 1} : total' = [total EXCEPT ![day[r]] = @ + applied]
    /\ GoTo(r, "refused")
    /\ UNCHANGED <<today, used, local, history>>

CountCalendar(r) ==
    LET n == used[day[r]] + 1 IN
    /\ pc[r] = "countCalendar"
    /\ used' = [used EXCEPT ![day[r]] = n]
    /\ \/ /\ n <= Budget
          /\ Grant(r)
       \/ /\ n > Budget
          /\ GoTo(r, "releaseBoth")
          /\ UNCHANGED history
    /\ UNCHANGED <<today, total, local, faults>>

(* Mutant: an error is handled like a budget that is used up. *)
CountCalendarFails_GivesBack(r) ==
    /\ pc[r] = "countCalendar"
    /\ Fault
    /\ \E applied \in {0, 1} : used' = [used EXCEPT ![day[r]] = @ + applied]
    /\ GoTo(r, "releaseBoth")
    /\ UNCHANGED <<today, total, local, history>>

(* The calendar counter is not given back after an error: the caller       *)
(* cannot know whether it was counted.                                     *)
CountCalendarFails(r) ==
    /\ pc[r] = "countCalendar"
    /\ Fault
    /\ \E applied \in {0, 1} : used' = [used EXCEPT ![day[r]] = @ + applied]
    /\ GoTo(r, "releaseTotal")
    /\ UNCHANGED <<today, total, local, history>>

AfterRelease(r) ==
    GoTo(r, IF pc[r] = "releaseBoth" THEN "releaseCalendar" ELSE "refused")

(* Mutant: the deferred release runs on top of an explicit one. *)
Release_Twice(r) ==
    /\ pc[r] \in {"releaseTotal", "releaseBoth"}
    /\ total' = [total EXCEPT ![day[r]] = @ - 2]
    /\ AfterRelease(r)
    /\ UNCHANGED <<today, used, local, history, faults>>

(* Mutant: the release reads the date anew. *)
Release_Today(r) ==
    /\ pc[r] \in {"releaseTotal", "releaseBoth"}
    /\ total' = [total EXCEPT ![today] = @ - 1]
    /\ AfterRelease(r)
    /\ UNCHANGED <<today, used, local, history, faults>>

Release(r) ==
    /\ pc[r] \in {"releaseTotal", "releaseBoth"}
    /\ total' = [total EXCEPT ![day[r]] = @ - 1]
    /\ AfterRelease(r)
    /\ UNCHANGED <<today, used, local, history, faults>>

(* A failed release is only logged. *)
ReleaseFails(r) ==
    /\ pc[r] \in {"releaseTotal", "releaseBoth"}
    /\ Fault
    /\ \E applied \in {0, 1} : total' = [total EXCEPT ![day[r]] = @ - applied]
    /\ AfterRelease(r)
    /\ UNCHANGED <<today, used, local, history>>

ReleaseCalendar(r) ==
    /\ pc[r] = "releaseCalendar"
    /\ used' = [used EXCEPT ![day[r]] = @ - 1]
    /\ GoTo(r, "refused")
    /\ UNCHANGED <<today, total, local, history, faults>>

ReleaseCalendarFails(r) ==
    /\ pc[r] = "releaseCalendar"
    /\ Fault
    /\ \E applied \in {0, 1} : used' = [used EXCEPT ![day[r]] = @ - applied]
    /\ GoTo(r, "refused")
    /\ UNCHANGED <<today, total, local, history>>

(* The caller sends its one paid request; a failed exchange may still have *)
(* reached Tourvisor.  Nothing is given back either way.                   *)
Spend(r) ==
    /\ pc[r] = "granted"
    /\ \E reached \in {today, NotPaid} : paidOn' = [paidOn EXCEPT ![r] = reached]
    /\ GoTo(r, "spent")
    /\ UNCHANGED <<today, redis, local, live, calendar, faults>>

Midnight ==
    /\ today < LastDay
    /\ today' = today + 1
    /\ UNCHANGED <<redis, pc, local, history, faults>>

(* The process dies: requests under way are gone, the counters stay. *)
Crash ==
    /\ Fault
    /\ pc' = [r \in Requests |->
                IF pc[r] \in {"idle", "refused", "spent"} THEN pc[r] ELSE "lost"]
    /\ UNCHANGED <<today, redis, local, history>>

Next ==
    \/ \E r \in Requests :
         \/ \E p \in Purposes : Arrive(r, p)
         \/ CountTotal(r) \/ CountTotalFails(r)
         \/ CountCalendar(r) \/ CountCalendarFails(r)
         \/ Release(r) \/ ReleaseFails(r)
         \/ ReleaseCalendar(r) \/ ReleaseCalendarFails(r)
         \/ Spend(r)
    \/ Midnight
    \/ Crash

Spec == Init /\ [][Next]_vars

-----------------------------------------------------------------------------
TypeOK ==
    /\ today \in Days
    /\ total \in [Days -> Int] /\ used \in [Days -> Int]
    /\ pc \in [Requests -> Steps]
    /\ purpose \in [Requests -> Purposes]
    /\ day \in [Requests -> Days]
    /\ live \in [Days -> Nat] /\ calendar \in [Days -> Nat]
    /\ paidOn \in [Requests -> Days \cup {NotPaid}]
    /\ faults \in 0..MaxFaults
    /\ \A r \in Requests :
         pc[r] \in {"countCalendar", "releaseBoth", "releaseCalendar"}
             => purpose[r] = "calendar"

(* Requests that have counted themselves and are neither granted nor       *)
(* rolled back; those that passed the daily limit but not the budget yet.  *)
At(d, S) == {r \in Requests : day[r] = d /\ pc[r] \in S}

HoldsTotal(d) == At(d, {"countCalendar", "releaseTotal", "releaseBoth"})
HoldsUsed(d)  == At(d, {"releaseBoth", "releaseCalendar"})
Approved(d)   == At(d, {"countCalendar"})

(* Whatever fails and whenever the process dies, the counters in Redis     *)
(* never say less than what was granted: an error only makes the quota     *)
(* smaller (quota.go:15-16, "spend nothing without knowing the limit").    *)
CountersCoverGrants ==
    \A d \in Days :
        /\ total[d] >= live[d] + calendar[d] + Cardinality(HoldsTotal(d))
        /\ used[d] >= calendar[d] + Cardinality(HoldsUsed(d))

(* A calendar request that passed the first check has its place within the *)
(* limit although it is not granted yet.                                   *)
ApprovedWithinLimit ==
    \A d \in Days : live[d] + calendar[d] + Cardinality(Approved(d)) <= Limit

(* Grants respect the daily limit, the calendar its budget, and live       *)
(* searches leave the calendar its share (quota.go:85).                    *)
GrantsWithinLimits ==
    \A d \in Days :
        /\ live[d] + calendar[d] <= Limit
        /\ live[d] > 0 => live[d] + Budget <= Limit
        /\ calendar[d] <= Budget

(* A day's permissions pay for at most the limit, whenever they are used,  *)
(* and Tourvisor sees no more paid requests in a day than the limit and    *)
(* those that were permitted on an earlier day and paid for on this one    *)
(* (quota.go:15-16; the date is read once, quota.go:100).                  *)
PaidOn(d) == {r \in Requests : paidOn[r] = d}

SpendingBounded ==
    \A d \in Days :
        /\ Cardinality({r \in Requests : day[r] = d /\ paidOn[r] # NotPaid}) <= Limit
        /\ Cardinality(PaidOn(d)) <= Limit + Cardinality({r \in PaidOn(d) : day[r] < d})

(* The calendar's share belongs to the calendar: a calendar request is     *)
(* turned away only when the calendar's own grants and requests use the    *)
(* share up (quota.go:85 and guard_test.go:154).                           *)
CalendarRequests(d) ==
    {r \in At(d, {"count", "countCalendar", "releaseTotal", "releaseBoth"}) :
       purpose[r] = "calendar"}

CalendarShareUntouched ==
    [][\A r \in Requests :
         (/\ purpose[r] = "calendar"
          /\ pc[r] = "count" /\ pc'[r] = "releaseTotal"
          /\ faults = 0)
         => calendar[day[r]] + Cardinality(CalendarRequests(day[r])) > Budget]_vars

(* Counting in Redis implements the budget kept in one atomic step. *)
Abstract == INSTANCE DailyBudget

ImplementsDailyBudget == Abstract!BudgetSpec
=============================================================================
