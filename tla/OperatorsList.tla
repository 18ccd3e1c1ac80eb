---------------------------- MODULE OperatorsList ----------------------------
(***************************************************************************)
(* turvisorsearch/operators.go: the operators Tourvisor may be asked for,  *)
(* of one departure (departures share nothing but the lock).  The list is  *)
(* free to ask and is kept for six hours; a failure is remembered for five *)
(* minutes.  The lock is not held during the request, so several callers   *)
(* fetch at once and each writes what its own request brought.             *)
(***************************************************************************)
EXTENDS FiniteSets

CONSTANTS Callers,     \* calls of liveOperatorIDs, each made at most once
          Operators,   \* the operator ids Tourvisor may list
          Excluded     \* TOURVISOR_EXCLUDE_OPERATOR_IDS: reached through SAMO

ASSUME ExcludedAssumption == Excluded \subseteq Operators

VARIABLES entry,    \* operatorsCache[departureID]
          held,     \* held[c]: the ids caller c read before its request
          phase,    \* phase[c]: "idle", "fetching", "answered", "over"
          answer    \* answer[c]: the ids returned; none stands for an error

listVars == <<entry, held, phase, answer>>

Lists == SUBSET Operators
(* No entry reads as the zero value: no ids, fetched long ago.  "failed"   *)
(* is left out: all it decides is how long the entry stays fresh.          *)
Entries == [ids : Lists, fresh : BOOLEAN]

-----------------------------------------------------------------------------
ListInit ==
    /\ entry = [ids |-> {}, fresh |-> FALSE]
    /\ held = [c \in Callers |-> {}]
    /\ phase = [c \in Callers |-> "idle"]
    /\ answer = [c \in Callers |-> {}]

Answer(c, ids) ==
    /\ phase' = [phase EXCEPT ![c] = "answered"]
    /\ answer' = [answer EXCEPT ![c] = ids]

(* A fresh entry is the answer, a failed one too: with the ids kept from   *)
(* before the failure, or with an error when there are none.               *)
Ask(c) ==
    /\ phase[c] = "idle"
    /\ held' = [held EXCEPT ![c] = entry.ids]
    /\ \/ /\ entry.fresh
          /\ Answer(c, entry.ids)
       \/ /\ ~ entry.fresh
          /\ phase' = [phase EXCEPT ![c] = "fetching"]
          /\ UNCHANGED answer
    /\ UNCHANGED entry

(* decodeOperatorIDs turns an empty list into an error.                    *)
ListArrives(c) ==
    /\ phase[c] = "fetching"
    /\ \E ids \in Lists \ {{}} :
          /\ entry' = [ids |-> ids, fresh |-> TRUE]
          /\ Answer(c, ids)
    /\ UNCHANGED held

(* A failed request writes back the ids its caller read before it.         *)
ListFails(c) ==
    /\ phase[c] = "fetching"
    /\ entry' = [ids |-> held[c], fresh |-> TRUE]
    /\ Answer(c, held[c])
    /\ UNCHANGED held

(* The caller has taken its answer. *)
Take(c) ==
    /\ phase[c] = "answered"
    /\ phase' = [phase EXCEPT ![c] = "over"]
    /\ answer' = [answer EXCEPT ![c] = {}]
    /\ held' = [held EXCEPT ![c] = {}]
    /\ UNCHANGED entry

(* operatorsCacheTTL or, after a failure, operatorsRetry has passed. *)
ListAges ==
    /\ entry.fresh
    /\ entry' = [entry EXCEPT !.fresh = FALSE]
    /\ UNCHANGED <<held, phase, answer>>

(* Sorted in the code; the order reaches only the cache key. *)
FilterOperators(ids) == ids \ Excluded

ListNext ==
    \/ \E c \in Callers : Ask(c) \/ ListArrives(c) \/ ListFails(c) \/ Take(c)
    \/ ListAges

ListSpec == ListInit /\ [][ListNext]_listVars

-----------------------------------------------------------------------------
(* The variables have the values the code gives them. *)
ListTypeOK ==
    /\ entry \in Entries
    /\ held \in [Callers -> Lists]
    /\ phase \in [Callers -> {"idle", "fetching", "answered", "over"}]
    /\ answer \in [Callers -> Lists]

(* operators.go:105: "if there is an old list, we use that one": once      *)
(* Tourvisor has sent a list, a failed request leaves searches with one.   *)
KnownListIsKept == [][entry.ids # {} => entry'.ids # {}]_listVars
=============================================================================
