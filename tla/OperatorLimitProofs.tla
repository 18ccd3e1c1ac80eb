------------------------- MODULE OperatorLimitProofs -------------------------
(***************************************************************************)
(* Proofs about OperatorLimit for every number of goroutines, operators    *)
(* and slots.  The inductive invariant is the type invariant and the       *)
(* accounting of tokens: with it, the capacity of a channel bounds the     *)
(* number of goroutines that are past it.                                  *)
(***************************************************************************)
EXTENDS OperatorLimit, FiniteSetTheorems, TLAPS

IInv == TypeOK /\ TokensAreOwed

(* The extra channel is never larger than the main one. *)
LEMMA ExtraLimitBound ==
    /\ ExtraLimit \in Nat \ {0}
    /\ ExtraLimit <= Limit
    /\ Limit > 1 => 2 * ExtraLimit <= Limit
BY LimitAssumption DEF ExtraLimit

(* Goroutines past a channel form a finite set. *)
LEMMA HoldersFinite ==
    ASSUME NEW o
    PROVE  /\ IsFiniteSet(InFlight(o)) /\ IsFiniteSet(ExtraHolders(o))
           /\ Cardinality(InFlight(o)) \in Nat /\ Cardinality(ExtraHolders(o)) \in Nat
<1>1. InFlight(o) \in SUBSET Requests /\ ExtraHolders(o) \in SUBSET Requests
  BY DEF InFlight, ExtraHolders
<1>2. IsFiniteSet(InFlight(o)) /\ IsFiniteSet(ExtraHolders(o))
  BY <1>1, RequestsAssumption, FS_Subset
<1> QED
  BY <1>2, FS_CardinalityType

(* After a step, too, the goroutines that hold a token are finitely many.  *)
LEMMA HoldersFinitePrime ==
    ASSUME NEW o
    PROVE  /\ IsFiniteSet(InFlight(o)') /\ IsFiniteSet(ExtraHolders(o)')
           /\ Cardinality(InFlight(o)') \in Nat /\ Cardinality(ExtraHolders(o)') \in Nat
<1>1. InFlight(o)' \in SUBSET Requests /\ ExtraHolders(o)' \in SUBSET Requests
  BY DEF InFlight, ExtraHolders
<1>2. IsFiniteSet(InFlight(o)') /\ IsFiniteSet(ExtraHolders(o)')
  BY <1>1, RequestsAssumption, FS_Subset
<1> QED
  BY <1>2, FS_CardinalityType

(* NoCall is told from a call by its entry, so idle goroutines hold nothing. *)
LEMMA NoCallIsNoCall == NoCall \notin Calls
BY DEF NoCall, Calls

(* A goroutine that gives up or finishes goes back to its caller, or to    *)
(* the deferred receive of the extra channel, and holds no slot any more.  *)
LEMMA LeaveStep ==
    ASSUME TypeOK, NEW r \in Requests, pc[r] \in {"waitSlot", "http"}, LeaveDoOperator(r)
    PROVE  /\ pc' \in [Requests -> {"idle", "waitExtra", "waitSlot", "http", "releaseExtra"}]
           /\ call' \in [Requests -> Calls \cup {NoCall}]
           /\ \A q \in Requests :
                /\ pc'[q] = "idle" <=> call'[q] = NoCall
                /\ pc'[q] \in {"waitExtra", "releaseExtra"} => NeedsExtra(call'[q])
           /\ \A o : InFlight(o)' = InFlight(o) \ {r}
           /\ \A o : ExtraHolders(o)' = ExtraHolders(o)
<1>1. CASE NeedsExtra(call[r])
  BY <1>1 DEF LeaveDoOperator, TypeOK, InFlight, ExtraHolders, HoldsSlot, HoldsExtra
<1>2. CASE ~NeedsExtra(call[r])
  BY <1>2 DEF LeaveDoOperator, Return, TypeOK, InFlight, ExtraHolders, HoldsSlot, HoldsExtra
<1> QED
  BY <1>1, <1>2

(* The invariant is inductive. *)
LEMMA InvariantStep == IInv /\ [Next]_vars => IInv'
<1> SUFFICES ASSUME IInv, [Next]_vars
             PROVE  IInv'
  OBVIOUS
<1>t. TypeOK /\ TokensAreOwed
  BY DEF IInv
<1>n. ExtraLimit \in Nat /\ Limit \in Nat
  BY ExtraLimitBound, LimitAssumption
<1>1. ASSUME NEW r \in Requests, NEW c \in Calls, Begin(r, c)
      PROVE  IInv'
  <2>1. TypeOK'
    BY <1>t, <1>1, NoCallIsNoCall DEF TypeOK, Begin
  <2>2. \A o : InFlight(o)' = InFlight(o) /\ ExtraHolders(o)' = ExtraHolders(o)
    BY <1>t, <1>1 DEF TypeOK, Begin, InFlight, ExtraHolders, HoldsSlot, HoldsExtra
  <2> QED
    BY <1>t, <1>1, <2>1, <2>2 DEF IInv, TokensAreOwed, Begin
<1>2. ASSUME NEW r \in Requests, AcquireExtra(r)
      PROVE  IInv'
  <2>o. PICK o \in Operators : o = call[r].op /\ NeedsExtra(call[r])
    BY <1>t, <1>2, NoCallIsNoCall DEF TypeOK, AcquireExtra, Calls
  <2>1. TypeOK'
    BY <1>t, <1>n, <1>2, <2>o DEF TypeOK, AcquireExtra
  <2>2. \A p \in Operators : InFlight(p)' = InFlight(p)
    BY <1>t, <1>2 DEF TypeOK, AcquireExtra, InFlight, HoldsSlot
  <2>3. r \notin ExtraHolders(o) /\ ExtraHolders(o)' = ExtraHolders(o) \cup {r}
    BY <1>t, <1>2, <2>o DEF TypeOK, AcquireExtra, ExtraHolders, HoldsExtra
  <2>4. \A p \in Operators \ {o} : ExtraHolders(p)' = ExtraHolders(p)
    BY <1>t, <1>2, <2>o DEF TypeOK, AcquireExtra, ExtraHolders, HoldsExtra
  <2>5. Cardinality(ExtraHolders(o)') = Cardinality(ExtraHolders(o)) + 1
    BY <2>3, HoldersFinite, FS_AddElement
  <2>6. TokensAreOwed'
    BY <1>t, <1>2, <2>o, <2>2, <2>4, <2>5 DEF TypeOK, TokensAreOwed, AcquireExtra
  <2> QED
    BY <2>1, <2>6 DEF IInv
<1>3. ASSUME NEW r \in Requests, AcquireSlot(r)
      PROVE  IInv'
  <2>o. PICK o \in Operators : o = call[r].op
    BY <1>t, <1>3, NoCallIsNoCall DEF TypeOK, AcquireSlot, Calls
  <2>1. TypeOK'
    BY <1>t, <1>n, <1>3, <2>o DEF TypeOK, AcquireSlot
  <2>2. \A p \in Operators : ExtraHolders(p)' = ExtraHolders(p)
    BY <1>t, <1>3 DEF TypeOK, AcquireSlot, ExtraHolders, HoldsExtra
  <2>3. r \notin InFlight(o) /\ InFlight(o)' = InFlight(o) \cup {r}
    BY <1>t, <1>3, <2>o DEF TypeOK, AcquireSlot, InFlight, HoldsSlot
  <2>4. \A p \in Operators \ {o} : InFlight(p)' = InFlight(p)
    BY <1>t, <1>3, <2>o DEF TypeOK, AcquireSlot, InFlight, HoldsSlot
  <2>5. Cardinality(InFlight(o)') = Cardinality(InFlight(o)) + 1
    BY <2>3, HoldersFinite, FS_AddElement
  <2>6. TokensAreOwed'
    BY <1>t, <1>3, <2>o, <2>2, <2>4, <2>5 DEF TypeOK, TokensAreOwed, AcquireSlot
  <2> QED
    BY <2>1, <2>6 DEF IInv
<1>4. ASSUME NEW r \in Requests, GiveUp(r)
      PROVE  IInv'
  <2>1. CASE pc[r] = "waitExtra" /\ Return(r)
    <3>1. TypeOK'
      BY <1>t, <1>4, <2>1 DEF TypeOK, GiveUp, Return
    <3>2. \A p \in Operators : InFlight(p)' = InFlight(p) /\ ExtraHolders(p)' = ExtraHolders(p)
      BY <1>t, <2>1 DEF TypeOK, Return, InFlight, ExtraHolders, HoldsSlot, HoldsExtra
    <3> QED
      BY <1>t, <1>4, <3>1, <3>2 DEF IInv, TokensAreOwed, GiveUp
  <2>2. CASE pc[r] = "waitSlot" /\ LeaveDoOperator(r)
    <3>1. TypeOK'
      BY <1>t, <1>4, <2>2, LeaveStep DEF TypeOK, GiveUp
    <3>2. \A p \in Operators : InFlight(p)' = InFlight(p) \ {r} /\ ExtraHolders(p)' = ExtraHolders(p)
      BY <1>t, <2>2, LeaveStep
    <3>3. \A p \in Operators : r \notin InFlight(p)
      BY <2>2 DEF InFlight, HoldsSlot
    <3> QED
      BY <1>t, <1>4, <3>1, <3>2, <3>3 DEF IInv, TokensAreOwed, GiveUp
  <2> QED
    BY <1>4, <2>1, <2>2 DEF GiveUp
<1>5. ASSUME NEW r \in Requests, Finish(r)
      PROVE  IInv'
  <2>o. PICK o \in Operators : o = call[r].op
    BY <1>t, <1>5, NoCallIsNoCall DEF TypeOK, Finish, Calls
  <2>l. pc[r] = "http" /\ LeaveDoOperator(r)
    BY <1>5 DEF Finish
  <2>1. TypeOK'
    BY <1>t, <1>n, <1>5, <2>l, <2>o, LeaveStep DEF TypeOK, Finish
  <2>2. \A p \in Operators : InFlight(p)' = InFlight(p) \ {r} /\ ExtraHolders(p)' = ExtraHolders(p)
    BY <1>t, <2>l, LeaveStep
  <2>3. r \in InFlight(o) /\ \A p \in Operators \ {o} : r \notin InFlight(p)
    BY <2>o, <2>l DEF InFlight, HoldsSlot
  <2>4. /\ InFlight(o)' = InFlight(o) \ {r}
        /\ \A p \in Operators \ {o} : InFlight(p)' = InFlight(p)
    BY <2>o, <2>2, <2>3
  <2>5. Cardinality(InFlight(o)') = Cardinality(InFlight(o)) - 1
    <3>1. IsFiniteSet(InFlight(o)) /\ r \in InFlight(o)
      BY <2>3, HoldersFinite
    <3>2. Cardinality(InFlight(o) \ {r}) = Cardinality(InFlight(o)) - 1
      BY <3>1, FS_RemoveElement
    <3> QED
      BY <2>4, <3>2
  <2>6. TokensAreOwed'
    BY <1>t, <1>5, <2>o, <2>2, <2>4, <2>5 DEF TypeOK, TokensAreOwed, Finish
  <2> QED
    BY <2>1, <2>6 DEF IInv
<1>6. ASSUME NEW r \in Requests, ReleaseExtra(r)
      PROVE  IInv'
  <2>o. PICK o \in Operators : o = call[r].op /\ NeedsExtra(call[r])
    BY <1>t, <1>6, NoCallIsNoCall DEF TypeOK, ReleaseExtra, Calls
  <2>1. TypeOK'
    BY <1>t, <1>n, <1>6, <2>o DEF TypeOK, ReleaseExtra, Return
  <2>2. \A p \in Operators : InFlight(p)' = InFlight(p)
    BY <1>t, <1>6 DEF TypeOK, ReleaseExtra, Return, InFlight, HoldsSlot
  <2>3. \A p \in Operators : ExtraHolders(p)' = ExtraHolders(p) \ {r}
    BY <1>t, <1>6 DEF TypeOK, ReleaseExtra, Return, ExtraHolders, HoldsExtra
  <2>4. r \in ExtraHolders(o) /\ \A p \in Operators \ {o} : r \notin ExtraHolders(p)
    BY <1>6, <2>o DEF ReleaseExtra, ExtraHolders, HoldsExtra
  <2>5. /\ ExtraHolders(o)' = ExtraHolders(o) \ {r}
        /\ \A p \in Operators \ {o} : ExtraHolders(p)' = ExtraHolders(p)
    BY <2>o, <2>3, <2>4
  <2>c. Cardinality(ExtraHolders(o)') = Cardinality(ExtraHolders(o)) - 1
    <3>1. IsFiniteSet(ExtraHolders(o)) /\ r \in ExtraHolders(o)
      BY <2>4, HoldersFinite
    <3>2. Cardinality(ExtraHolders(o) \ {r}) = Cardinality(ExtraHolders(o)) - 1
      BY <3>1, FS_RemoveElement
    <3> QED
      BY <2>5, <3>2
  <2>6. TokensAreOwed'
    BY <1>t, <1>6, <2>o, <2>2, <2>5, <2>c DEF TypeOK, TokensAreOwed, ReleaseExtra
  <2> QED
    BY <2>1, <2>6 DEF IInv
<1>7. CASE UNCHANGED vars
  BY <1>t, <1>7 DEF IInv, vars, TypeOK, TokensAreOwed, InFlight, ExtraHolders, HoldsSlot, HoldsExtra
<1> QED
  BY <1>1, <1>2, <1>3, <1>4, <1>5, <1>6, <1>7 DEF Next

(* The initial states satisfy the inductive invariant.                     *)
LEMMA InvariantInit == Init => IInv
<1> SUFFICES ASSUME Init
             PROVE  IInv
  OBVIOUS
<1>1. TypeOK
  BY ExtraLimitBound, LimitAssumption, NoCallIsNoCall DEF Init, TypeOK
<1>2. \A o \in Operators : InFlight(o) = {} /\ ExtraHolders(o) = {}
  BY DEF Init, InFlight, ExtraHolders, HoldsSlot, HoldsExtra
<1>3. TokensAreOwed
  BY <1>2, FS_EmptySet DEF Init, TokensAreOwed
<1> QED
  BY <1>1, <1>3 DEF IInv

(* The inductive invariant holds throughout.                               *)
LEMMA Invariance == Spec => []IInv
BY InvariantInit, InvariantStep, PTL DEF Spec

(* Every variable keeps its type, whatever the limit and the goroutines:   *)
(* in particular no channel ever holds more tokens than its capacity.      *)
THEOREM TypeCorrect == Spec => []TypeOK
BY Invariance, PTL DEF IInv

(* Tokens and goroutines agree (operator_limit.go:142, 157): nothing leaks *)
(* on a timeout, a cancelled search or a failed exchange.                  *)
THEOREM NoSlotLeaks == Spec => []TokensAreOwed
BY Invariance, PTL DEF IInv

(* An operator never sees more concurrent requests than its limit          *)
(* (operator_limit.go:13-19).                                              *)
THEOREM LimitRespected == Spec => []NeverExceedsLimit
<1>1. IInv => NeverExceedsLimit
  BY LimitAssumption DEF IInv, TypeOK, TokensAreOwed, NeverExceedsLimit
<1> QED
  BY <1>1, Invariance, PTL

(* Without streaming workers, and with a limit of at least 2, the pages    *)
(* after the ninth hold at most half of the slots (operator_limit.go:43).  *)
THEOREM BasePagesFindRoom ==
    ASSUME ~StreamSamo, Limit > 1
    PROVE  Spec => []ExtraPagesUseAtMostHalf
<1>1. ASSUME IInv
      PROVE  ExtraPagesUseAtMostHalf
  <2> SUFFICES ASSUME NEW o \in Operators
               PROVE  2 * Cardinality(LateInFlight(o)) <= Limit
    BY DEF ExtraPagesUseAtMostHalf
  <2>1. LateInFlight(o) \in SUBSET ExtraHolders(o)
    BY <1>1, NoCallIsNoCall DEF IInv, TypeOK, LateInFlight, InFlight, ExtraHolders,
       HoldsSlot, HoldsExtra, NeedsExtra, Calls, BasePages
  <2>2. /\ Cardinality(LateInFlight(o)) <= Cardinality(ExtraHolders(o))
        /\ Cardinality(LateInFlight(o)) \in Nat
    BY <2>1, HoldersFinite, FS_Subset, FS_CardinalityType
  <2>3. Cardinality(ExtraHolders(o)) <= ExtraLimit
    BY <1>1, ExtraLimitBound DEF IInv, TypeOK, TokensAreOwed
  <2> QED
    BY <2>2, <2>3, HoldersFinite, ExtraLimitBound, LimitAssumption
<1>2. IInv => ExtraPagesUseAtMostHalf
  BY <1>1
<1> QED
  BY <1>2, Invariance, PTL

(* The instance brings its own copy of Cardinality, with the same body.     *)
LEMMA BudgetCardinality == \A S : Budget!Cardinality(S) = Cardinality(S)
BY DEF Budget!Cardinality, Cardinality

(* What a step does to the mapped variables of the budget: only AcquireSlot *)
(* and Finish change who is being served.                                   *)
LEMMA StepMapsToBudget ==
    TypeOK /\ TokensAreOwed /\ [Next]_vars => [Budget!AbstractNext]_(Budget!abstractVars)
<1> SUFFICES ASSUME TypeOK, TokensAreOwed, [Next]_vars
             PROVE  [Budget!AbstractNext]_(Budget!abstractVars)
  OBVIOUS
<1> DEFINE Same == \A o \in Operators : /\ InFlight(o)' = InFlight(o)
                                        /\ ExtraInFlight(o)' = ExtraInFlight(o)
<1>s. Same => [Budget!AbstractNext]_(Budget!abstractVars)
  BY DEF Budget!abstractVars
<1>1. ASSUME NEW r \in Requests, AcquireSlot(r)
      PROVE  Budget!AbstractNext
  <2>o. PICK o \in Operators : o = call[r].op
    BY <1>1, NoCallIsNoCall DEF TypeOK, AcquireSlot, Calls
  <2>1. /\ InFlight(o)' = InFlight(o) \cup {r}
        /\ \A p \in Operators \ {o} : InFlight(p)' = InFlight(p)
    BY <1>1, <2>o DEF TypeOK, AcquireSlot, InFlight, HoldsSlot
  <2>2. /\ ExtraInFlight(o)' = IF NeedsExtra(call[r]) THEN ExtraInFlight(o) \cup {r}
                               ELSE ExtraInFlight(o)
        /\ \A p \in Operators \ {o} : ExtraInFlight(p)' = ExtraInFlight(p)
    BY <1>1, <2>o DEF TypeOK, AcquireSlot, ExtraInFlight, InFlight, HoldsSlot
  <2>3. \A p \in Operators : r \notin InFlight(p)
    BY <1>1 DEF AcquireSlot, InFlight, HoldsSlot
  <2>4. Cardinality(InFlight(o)) < Limit
    BY <1>1, <2>o DEF TokensAreOwed, AcquireSlot
  <2>5. CASE ~NeedsExtra(call[r])
    <3>0. \A p \in Operators : ExtraInFlight(p)' = ExtraInFlight(p)
      BY <2>2, <2>5
    <3>1. Budget!AbstractEnter(r, o)
      BY <2>1, <2>3, <2>4, <3>0, BudgetCardinality DEF Budget!AbstractEnter
    <3> QED
      BY <3>1 DEF Budget!AbstractNext
  <2>6. CASE NeedsExtra(call[r])
    <3>1. Cardinality(ExtraHolders(o)) <= ExtraLimit
      BY ExtraLimitBound DEF TypeOK, TokensAreOwed
    <3>2. ExtraInFlight(o) \in SUBSET (ExtraHolders(o) \ {r}) /\ r \in ExtraHolders(o)
      BY <1>1, <2>o, <2>6 DEF AcquireSlot, ExtraInFlight, InFlight, ExtraHolders, HoldsSlot, HoldsExtra
    <3>3. IsFiniteSet(ExtraHolders(o) \ {r})
           /\ Cardinality(ExtraHolders(o) \ {r}) = Cardinality(ExtraHolders(o)) - 1
      BY <3>2, HoldersFinite, FS_RemoveElement
    <3>4. Cardinality(ExtraInFlight(o)) <= Cardinality(ExtraHolders(o)) - 1
           /\ Cardinality(ExtraInFlight(o)) \in Nat
      BY <3>2, <3>3, FS_Subset, FS_CardinalityType
    <3>5. Cardinality(ExtraInFlight(o)) < ExtraLimit
      BY <3>1, <3>4, HoldersFinite, ExtraLimitBound
    <3>0. /\ ExtraInFlight(o)' = ExtraInFlight(o) \cup {r}
          /\ \A p \in Operators \ {o} : ExtraInFlight(p)' = ExtraInFlight(p)
      BY <2>2, <2>6
    <3>6. Budget!AbstractEnterExtra(r, o)
      BY <2>1, <2>3, <2>4, <3>0, <3>5, BudgetCardinality DEF Budget!AbstractEnterExtra
    <3> QED
      BY <3>6 DEF Budget!AbstractNext
  <2> QED
    BY <2>5, <2>6
<1>2. ASSUME NEW r \in Requests, Finish(r)
      PROVE  Budget!AbstractNext
  <2>o. PICK o \in Operators : o = call[r].op
    BY <1>2, NoCallIsNoCall DEF TypeOK, Finish, Calls
  <2>1. pc[r] = "http" /\ LeaveDoOperator(r)
    BY <1>2 DEF Finish
  <2>2. \A p \in Operators : InFlight(p)' = InFlight(p) \ {r}
    BY <2>1, LeaveStep
  <2>3. r \in InFlight(o) /\ \A p \in Operators \ {o} : r \notin InFlight(p)
    BY <2>o, <2>1 DEF InFlight, HoldsSlot
  <2>4. \A p \in Operators : ExtraInFlight(p)' = ExtraInFlight(p) \ {r}
    <3>1. \A q \in Requests \ {r} : call'[q] = call[q]
      BY <2>1 DEF TypeOK, LeaveDoOperator, Return
    <3> QED
      BY <2>2, <3>1 DEF ExtraInFlight, InFlight
  <2>5. \A p \in Operators \ {o} : /\ InFlight(p)' = InFlight(p)
                                   /\ ExtraInFlight(p)' = ExtraInFlight(p)
    BY <2>2, <2>3, <2>4 DEF ExtraInFlight
  <2>6. Budget!AbstractLeave(r, o)
    BY <2>2, <2>3, <2>4, <2>5 DEF Budget!AbstractLeave
  <2> QED
    BY <2>6 DEF Budget!AbstractNext
<1>3. ASSUME NEW r \in Requests, NEW c \in Calls, Begin(r, c)
      PROVE  Same
  BY <1>3 DEF TypeOK, Begin, ExtraInFlight, InFlight, HoldsSlot
<1>4. ASSUME NEW r \in Requests, AcquireExtra(r) \/ ReleaseExtra(r)
      PROVE  Same
  BY <1>4 DEF TypeOK, AcquireExtra, ReleaseExtra, Return, ExtraInFlight, InFlight, HoldsSlot
<1>5. ASSUME NEW r \in Requests, GiveUp(r)
      PROVE  Same
  BY <1>5 DEF TypeOK, GiveUp, LeaveDoOperator, Return, ExtraInFlight, InFlight, HoldsSlot
<1>6. CASE UNCHANGED vars
  <2>1. Same
    BY <1>6 DEF vars, ExtraInFlight, InFlight, HoldsSlot
  <2> QED
    BY <2>1, <1>s
<1> QED
  BY <1>s, <1>1, <1>2, <1>3, <1>4, <1>5, <1>6 DEF Next

(* operator_limit.go keeps the budget: hidden behind channels, timers and  *)
(* cancellations there are only calls that enter while there is room and   *)
(* calls that leave.                                                       *)
THEOREM LimiterImplementsBudget == Spec => ImplementsBudget
<1>1. Init => Budget!AbstractInit
  BY DEF Init, Budget!AbstractInit, ExtraInFlight, InFlight, HoldsSlot
<1>2. IInv /\ [Next]_vars => [Budget!AbstractNext]_(Budget!abstractVars)
  BY StepMapsToBudget DEF IInv
<1> QED
  BY <1>1, <1>2, Invariance, PTL DEF Spec, ImplementsBudget, Budget!AbstractSpec
=============================================================================
