----------------------------- MODULE DailyBudget -----------------------------
(***************************************************************************)
(* What turvisorsearch/quota.go promises, without Redis: on any day live   *)
(* searches are granted only while the whole spending is below the share   *)
(* that is not reserved for the calendar, the calendar only while its own  *)
(* spending is below its budget, and nothing beyond the daily limit.       *)
(***************************************************************************)
EXTENDS Integers

CONSTANTS Days,      \* days by Moscow time
          Limit,     \* paid requests per day
          Budget     \* of which the calendar may use

VARIABLES live,      \* live[d]: permissions given to live searches on day d
          calendar   \* calendar[d]: permissions given to the calendar

budgetVars == <<live, calendar>>

BudgetInit ==
    /\ live = [d \in Days |-> 0]
    /\ calendar = [d \in Days |-> 0]

GrantLive(d) ==
    /\ live[d] + calendar[d] < Limit - Budget
    /\ live' = [live EXCEPT ![d] = @ + 1]
    /\ UNCHANGED calendar

GrantCalendar(d) ==
    /\ live[d] + calendar[d] < Limit
    /\ calendar[d] < Budget
    /\ calendar' = [calendar EXCEPT ![d] = @ + 1]
    /\ UNCHANGED live

BudgetNext == \E d \in Days : GrantLive(d) \/ GrantCalendar(d)

BudgetSpec == BudgetInit /\ [][BudgetNext]_budgetVars
=============================================================================
