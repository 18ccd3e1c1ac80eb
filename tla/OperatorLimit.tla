---------------------------- MODULE OperatorLimit ----------------------------
(***************************************************************************)
(* services/operator_limit.go: the per-operator limit on concurrent calls. *)
(* Each operator has two buffered channels used as semaphores: slots, and  *)
(* extraSlots for the pages after BasePages.  A call waits in a select on  *)
(* the channel, its context and a timer.  The channels hold anonymous      *)
(* tokens, so the model keeps only how many are in each: who put them      *)
(* there is known to nobody but the goroutine that must take one out.      *)
(* Channels are created on first use under a mutex, with a size that never *)
(* changes: here they exist from the start.                                *)
(***************************************************************************)
EXTENDS Integers, FiniteSets

CONSTANTS Requests,    \* goroutines that call operators, over and over
          Operators,   \* operator names, the keys of the two channel maps
          Limit,       \* operatorConcurrency(): OPERATOR_MAX_CONCURRENCY or 32
          StreamSamo   \* STREAM_SAMO: may streaming workers call operators too?

ASSUME LimitAssumption    == Limit \in Nat \ {0}
ASSUME RequestsAssumption == IsFiniteSet(Requests)
ASSUME StreamAssumption   == StreamSamo \in BOOLEAN

BasePages == 9

ExtraLimit == IF Limit \div 2 < 1 THEN 1 ELSE Limit \div 2

(* The page numbers that the code tells apart: the first, the other base   *)
(* pages (their first and their last), and the extra ones.                 *)
DeepPages == {2, BasePages, BasePages + 1}

(* How a page is fetched: workers call DoOperator for page 1 and           *)
(* DoOperatorPage for the others; streaming workers use DoOperatorDeepPage *)
(* for the others.                                                         *)
Calls ==
    [op : Operators, entry : {"DoOperator"}, page : {1}]
      \cup [op : Operators, entry : {"DoOperatorPage"}, page : DeepPages]
      \cup [op : Operators, entry : {"DoOperatorDeepPage"},
            page : IF StreamSamo THEN DeepPages ELSE {}]

NoCall == [op |-> "none", entry |-> "none", page |-> 0]

VARIABLES pc,          \* pc[r]: where goroutine r stands
          call,        \* call[r]: the call it is making
          slots,       \* slots[o]: tokens in operatorSlots[o]
          extraSlots   \* extraSlots[o]: tokens in extraPageSlots[o]

vars == <<pc, call, slots, extraSlots>>

(* Mutant: the boundary is one page late. *)
NeedsExtra_OffByOne(c) == c.entry = "DoOperatorPage" /\ c.page > BasePages + 1

NeedsExtra(c) == c.entry = "DoOperatorPage" /\ c.page > BasePages

-----------------------------------------------------------------------------
Init ==
    /\ pc = [r \in Requests |-> "idle"]
    /\ call = [r \in Requests |-> NoCall]
    /\ slots = [o \in Operators |-> 0]
    /\ extraSlots = [o \in Operators |-> 0]

(* The page number decides which channel is waited for first. *)
Begin(r, c) ==
    /\ pc[r] = "idle"
    /\ call' = [call EXCEPT ![r] = c]
    /\ pc' = [pc EXCEPT ![r] = IF NeedsExtra(c) THEN "waitExtra" ELSE "waitSlot"]
    /\ UNCHANGED <<slots, extraSlots>>

(* Mutant: the extra channel is unbuffered bookkeeping, never full. *)
AcquireExtra_Unbounded(r) ==
    /\ pc[r] = "waitExtra"
    /\ extraSlots' = [extraSlots EXCEPT ![call[r].op] = (@ + 1) % (ExtraLimit + 1)]
    /\ pc' = [pc EXCEPT ![r] = "waitSlot"]
    /\ UNCHANGED <<call, slots>>

AcquireExtra(r) ==
    LET o == call[r].op IN
    /\ pc[r] = "waitExtra"
    /\ extraSlots[o] < ExtraLimit
    /\ extraSlots' = [extraSlots EXCEPT ![o] = @ + 1]
    /\ pc' = [pc EXCEPT ![r] = "waitSlot"]
    /\ UNCHANGED <<call, slots>>

AcquireSlot(r) ==
    LET o == call[r].op IN
    /\ pc[r] = "waitSlot"
    /\ slots[o] < Limit
    /\ slots' = [slots EXCEPT ![o] = @ + 1]
    /\ pc' = [pc EXCEPT ![r] = "http"]
    /\ UNCHANGED <<call, extraSlots>>

(* The goroutine is back in its caller. *)
Return(r) ==
    /\ pc' = [pc EXCEPT ![r] = "idle"]
    /\ call' = [call EXCEPT ![r] = NoCall]

(* Back in DoOperatorPage when it still owns an extra slot, else returned. *)
LeaveDoOperator(r) ==
    \/ /\ NeedsExtra(call[r])
       /\ pc' = [pc EXCEPT ![r] = "releaseExtra"]
       /\ UNCHANGED call
    \/ /\ ~NeedsExtra(call[r])
       /\ Return(r)

(* Mutant: giving up on a slot forgets the extra slot already held. *)
GiveUp_LeaksExtra(r) ==
    /\ pc[r] \in {"waitExtra", "waitSlot"}
    /\ Return(r)
    /\ UNCHANGED <<slots, extraSlots>>

(* Mutant: the second wait has no timer. *)
GiveUp_OnlyFirstWait(r) ==
    /\ pc[r] = "waitExtra"
    /\ Return(r)
    /\ UNCHANGED <<slots, extraSlots>>

(* The timer fires or the context is done.  select picks any ready case,   *)
(* so a call may give up although a slot has just become free.  Nothing    *)
(* was acquired by doOperator; an extra slot is still to be given back.    *)
GiveUp(r) ==
    /\ \/ pc[r] = "waitExtra" /\ Return(r)
       \/ pc[r] = "waitSlot" /\ LeaveDoOperator(r)
    /\ UNCHANGED <<slots, extraSlots>>

(* client.Do and ReadAll end, with a body or an error; the deferred        *)
(* receive frees the slot.                                                 *)
Finish(r) ==
    LET o == call[r].op IN
    /\ pc[r] = "http"
    /\ slots[o] > 0
    /\ slots' = [slots EXCEPT ![o] = @ - 1]
    /\ LeaveDoOperator(r)
    /\ UNCHANGED extraSlots

(* The deferred receive of DoOperatorPage, after doOperator has returned.  *)
ReleaseExtra(r) ==
    LET o == call[r].op IN
    /\ pc[r] = "releaseExtra"
    /\ extraSlots[o] > 0
    /\ extraSlots' = [extraSlots EXCEPT ![o] = @ - 1]
    /\ Return(r)
    /\ UNCHANGED slots

Next ==
    \E r \in Requests :
        \/ \E c \in Calls : Begin(r, c)
        \/ AcquireExtra(r)
        \/ AcquireSlot(r)
        \/ GiveUp(r)
        \/ Finish(r)
        \/ ReleaseExtra(r)

Spec == Init /\ [][Next]_vars

(* Timers fire, HTTP exchanges end (every operator client has a timeout)   *)
(* and deferred receives run.  A free slot is not promised to anyone:      *)
(* waiting calls that are passed over give up.                             *)
Fairness ==
    \A r \in Requests :
        /\ WF_vars(GiveUp(r))
        /\ WF_vars(Finish(r))
        /\ WF_vars(ReleaseExtra(r))

FairSpec == Spec /\ Fairness

-----------------------------------------------------------------------------
HoldsSlot(r)  == pc[r] = "http"
HoldsExtra(r) == pc[r] \in {"waitSlot", "http", "releaseExtra"} /\ NeedsExtra(call[r])

InFlight(o)      == {r \in Requests : HoldsSlot(r) /\ call[r].op = o}
ExtraHolders(o)  == {r \in Requests : HoldsExtra(r) /\ call[r].op = o}
ExtraInFlight(o) == {r \in InFlight(o) : NeedsExtra(call[r])}
LateInFlight(o)  == {r \in InFlight(o) : call[r].page > BasePages}

TypeOK ==
    /\ pc \in [Requests -> {"idle", "waitExtra", "waitSlot", "http", "releaseExtra"}]
    /\ call \in [Requests -> Calls \cup {NoCall}]
    /\ \A r \in Requests :
         /\ pc[r] = "idle" <=> call[r] = NoCall
         /\ pc[r] \in {"waitExtra", "releaseExtra"} => NeedsExtra(call[r])
    /\ slots \in [Operators -> 0..Limit]
    /\ extraSlots \in [Operators -> 0..ExtraLimit]

(* Every token in a channel is owed by exactly one goroutine that is       *)
(* between its send and its deferred receive: nothing leaks on a timeout,  *)
(* a cancelled search or a failed exchange, and nothing is freed twice     *)
(* (operator_limit.go:109-111, 142, 157).                                  *)
TokensAreOwed ==
    \A o \in Operators :
        /\ slots[o] = Cardinality(InFlight(o))
        /\ extraSlots[o] = Cardinality(ExtraHolders(o))

(* At no time does an operator see more concurrent requests than its       *)
(* limit, whatever searches they come from (operator_limit.go:13-19).      *)
NeverExceedsLimit ==
    \A o \in Operators : Cardinality(InFlight(o)) <= Limit

(* Pages after the ninth hold at most half of an operator's slots, so the  *)
(* base pages of any search find the other half (operator_limit.go:43-46). *)
ExtraPagesUseAtMostHalf ==
    \A o \in Operators : 2 * Cardinality(LateInFlight(o)) <= Limit

(* A call that has begun returns: with an answer, an error, or busy        *)
(* (operator_limit.go:35).                                                 *)
CallsReturn ==
    \A r \in Requests : pc[r] # "idle" ~> pc[r] = "idle"

(* The limiter implements the budget that hides channels and timers. *)
Budget == INSTANCE SlotBudget WITH
    serving      <- [o \in Operators |-> InFlight(o)],
    servingExtra <- [o \in Operators |-> ExtraInFlight(o)]

ImplementsBudget == Budget!AbstractSpec
=============================================================================
