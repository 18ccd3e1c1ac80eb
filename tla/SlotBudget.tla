----------------------------- MODULE SlotBudget -----------------------------
(***************************************************************************)
(* What services/operator_limit.go promises, without channels, timers or   *)
(* goroutines: the calls that are talking to an operator at one time never *)
(* outnumber its limit, and those for extra pages never outnumber their    *)
(* own, smaller, budget.                                                   *)
(***************************************************************************)
EXTENDS Naturals, FiniteSets

CONSTANTS Requests,    \* the goroutines that may call an operator
          Operators,   \* the tour operators, each with a limit of its own
          Limit,       \* calls an operator may be serving at one time
          ExtraLimit   \* of which for extra pages

VARIABLES serving,       \* serving[o]: the calls operator o is serving
          servingExtra   \* servingExtra[o]: those of them for extra pages

abstractVars == <<serving, servingExtra>>

AbstractInit ==
    /\ serving = [o \in Operators |-> {}]
    /\ servingExtra = [o \in Operators |-> {}]

AbstractEnter(r, o) ==
    /\ \A p \in Operators : r \notin serving[p]
    /\ Cardinality(serving[o]) < Limit
    /\ serving' = [serving EXCEPT ![o] = @ \cup {r}]
    /\ UNCHANGED servingExtra

AbstractEnterExtra(r, o) ==
    /\ \A p \in Operators : r \notin serving[p]
    /\ Cardinality(serving[o]) < Limit
    /\ Cardinality(servingExtra[o]) < ExtraLimit
    /\ serving' = [serving EXCEPT ![o] = @ \cup {r}]
    /\ servingExtra' = [servingExtra EXCEPT ![o] = @ \cup {r}]

AbstractLeave(r, o) ==
    /\ r \in serving[o]
    /\ serving' = [serving EXCEPT ![o] = @ \ {r}]
    /\ servingExtra' = [servingExtra EXCEPT ![o] = @ \ {r}]

AbstractNext ==
    \E r \in Requests, o \in Operators :
        \/ AbstractEnter(r, o)
        \/ AbstractEnterExtra(r, o)
        \/ AbstractLeave(r, o)

AbstractSpec == AbstractInit /\ [][AbstractNext]_abstractVars
=============================================================================
