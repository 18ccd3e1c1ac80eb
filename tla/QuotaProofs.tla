----------------------------- MODULE QuotaProofs -----------------------------
(***************************************************************************)
(* Proofs about Quota for any number of requests and days, any limits and  *)
(* any number of faults.  The counters are compared with the grants and    *)
(* the requests that are between two commands; the place of a calendar     *)
(* request that has passed the daily limit but not yet its budget is kept  *)
(* by ApprovedWithinLimit.  Paid requests are bounded through the          *)
(* permissions behind them, whose day may have passed (SpendingCovered).   *)
(***************************************************************************)
EXTENDS Quota, FiniteSetTheorems, TLAPS

IInv ==
    /\ TypeOK
    /\ CountersCoverGrants
    /\ ApprovedWithinLimit
    /\ GrantsWithinLimits

(* What was paid for was permitted, on that day or an earlier one, and     *)
(* every permission, used or not, is among the grants of its day.          *)
SpendingCovered ==
    /\ \A r \in Requests : /\ day[r] <= today
                           /\ paidOn[r] # NotPaid => pc[r] = "spent" /\ day[r] <= paidOn[r]
    /\ \A d \in Days : Cardinality(At(d, {"granted", "spent"})) <= live[d] + calendar[d]

(* The requests at given steps of a day are finitely many.                 *)
LEMMA AtFinite ==
    ASSUME NEW d, NEW S
    PROVE  IsFiniteSet(At(d, S)) /\ Cardinality(At(d, S)) \in Nat
<1>1. At(d, S) \in SUBSET Requests
  BY DEF At
<1> QED
  BY <1>1, RequestsAssumption, FS_Subset, FS_CardinalityType

(* A step of one request moves it from one set of steps to another and     *)
(* changes the size of each set by at most one.                            *)
LEMMA AtMove ==
    ASSUME TypeOK, NEW r \in Requests, NEW step \in Steps, GoTo(r, step), day' = day,
           NEW d, NEW S
    PROVE  Cardinality(At(d, S)') =
             Cardinality(At(d, S)) - (IF r \in At(d, S) THEN 1 ELSE 0)
                                   + (IF day[r] = d /\ step \in S THEN 1 ELSE 0)
<1> DEFINE Rest == At(d, S) \ {r}
<1>1. IsFiniteSet(Rest) /\ r \notin Rest
      /\ Cardinality(Rest) = Cardinality(At(d, S)) - (IF r \in At(d, S) THEN 1 ELSE 0)
  BY AtFinite, FS_RemoveElement
<1>2. CASE day[r] = d /\ step \in S
  <2>1. At(d, S)' = Rest \cup {r}
    BY <1>2 DEF At, GoTo, TypeOK
  <2>2. Cardinality(Rest \cup {r}) = Cardinality(Rest) + 1
    BY <1>1, FS_AddElement
  <2> QED
    BY <1>1, <1>2, <2>1, <2>2, AtFinite
<1>3. CASE ~(day[r] = d /\ step \in S)
  <2>1. At(d, S)' = Rest
    BY <1>3 DEF At, GoTo, TypeOK
  <2> QED
    BY <1>1, <1>3, <2>1, AtFinite
<1> QED
  BY <1>2, <1>3

(* The same for the three sets of the invariant. *)
LEMMA HoldersMove ==
    ASSUME TypeOK, NEW r \in Requests, NEW step \in Steps, GoTo(r, step), day' = day,
           NEW d
    PROVE  /\ Cardinality(HoldsTotal(d)) \in Nat /\ Cardinality(HoldsUsed(d)) \in Nat
           /\ Cardinality(Approved(d)) \in Nat /\ Cardinality(Approved(d)') \in Nat
           /\ Cardinality(Approved(d)) <= Cardinality(HoldsTotal(d))
           /\ Cardinality(HoldsTotal(d)') = Cardinality(HoldsTotal(d))
                - (IF day[r] = d /\ pc[r] \in {"countCalendar", "releaseTotal", "releaseBoth"}
                     THEN 1 ELSE 0)
                + (IF day[r] = d /\ step \in {"countCalendar", "releaseTotal", "releaseBoth"}
                     THEN 1 ELSE 0)
           /\ Cardinality(HoldsUsed(d)') = Cardinality(HoldsUsed(d))
                - (IF day[r] = d /\ pc[r] \in {"releaseBoth", "releaseCalendar"} THEN 1 ELSE 0)
                + (IF day[r] = d /\ step \in {"releaseBoth", "releaseCalendar"} THEN 1 ELSE 0)
           /\ Cardinality(Approved(d)') = Cardinality(Approved(d))
                - (IF day[r] = d /\ pc[r] = "countCalendar" THEN 1 ELSE 0)
                + (IF day[r] = d /\ step = "countCalendar" THEN 1 ELSE 0)
<1> DEFINE T == {"countCalendar", "releaseTotal", "releaseBoth"}
           U == {"releaseBoth", "releaseCalendar"}
           A == {"countCalendar"}
<1>1. HoldsTotal(d) = At(d, T) /\ HoldsUsed(d) = At(d, U) /\ Approved(d) = At(d, A)
  BY DEF HoldsTotal, HoldsUsed, Approved
<1>2. HoldsTotal(d)' = At(d, T)' /\ HoldsUsed(d)' = At(d, U)' /\ Approved(d)' = At(d, A)'
  BY DEF HoldsTotal, HoldsUsed, Approved
<1>3. \A S : r \in At(d, S) <=> day[r] = d /\ pc[r] \in S
  BY DEF At
<1>4. \A S : Cardinality(At(d, S)') =
             Cardinality(At(d, S)) - (IF day[r] = d /\ pc[r] \in S THEN 1 ELSE 0)
                                   + (IF day[r] = d /\ step \in S THEN 1 ELSE 0)
  BY AtMove, <1>3
<1>5. At(d, A) \in SUBSET At(d, T)
  BY DEF At
<1>6. Cardinality(At(d, A)) <= Cardinality(At(d, T))
  BY <1>5, AtFinite, FS_Subset
<1>7. Cardinality(At(d, A)') \in Nat
  <2>1. At(d, A)' \in SUBSET Requests
    BY DEF At
  <2> QED
    BY <2>1, RequestsAssumption, FS_Subset, FS_CardinalityType
<1> QED
  BY <1>1, <1>2, <1>4, <1>6, <1>7, AtFinite

(* Types, apart from the rest. *)
LEMMA TypeStep == TypeOK /\ [Next]_vars => TypeOK'
<1> SUFFICES ASSUME TypeOK, [Next]_vars
             PROVE  TypeOK'
  OBVIOUS
<1> USE DEF TypeOK, GoTo, Steps, Purposes, local, redis, history
<1>1. ASSUME NEW r \in Requests, NEW p \in Purposes, Arrive(r, p)
      PROVE  TypeOK'
  BY <1>1 DEF Arrive
<1>2. ASSUME NEW r \in Requests, CountTotal(r)
      PROVE  TypeOK'
  BY <1>2 DEF CountTotal, Grant
<1>3. ASSUME NEW r \in Requests, CountTotalFails(r)
      PROVE  TypeOK'
  BY <1>3, BoundsAssumption DEF CountTotalFails, Fault
<1>4. ASSUME NEW r \in Requests, CountCalendar(r)
      PROVE  TypeOK'
  BY <1>4 DEF CountCalendar, Grant
<1>5. ASSUME NEW r \in Requests, CountCalendarFails(r)
      PROVE  TypeOK'
  BY <1>5, BoundsAssumption DEF CountCalendarFails, Fault
<1>6. ASSUME NEW r \in Requests, Release(r)
      PROVE  TypeOK'
  BY <1>6 DEF Release, AfterRelease
<1>7. ASSUME NEW r \in Requests, ReleaseFails(r)
      PROVE  TypeOK'
  BY <1>7, BoundsAssumption DEF ReleaseFails, AfterRelease, Fault
<1>8. ASSUME NEW r \in Requests, ReleaseCalendar(r)
      PROVE  TypeOK'
  BY <1>8 DEF ReleaseCalendar
<1>9. ASSUME NEW r \in Requests, ReleaseCalendarFails(r)
      PROVE  TypeOK'
  BY <1>9, BoundsAssumption DEF ReleaseCalendarFails, Fault
<1>10. ASSUME NEW r \in Requests, Spend(r)
       PROVE  TypeOK'
  BY <1>10 DEF Spend
<1>11. CASE Midnight
  <2>1. today' \in Days
    BY <1>11, BoundsAssumption DEF Midnight, Days
  <2> QED
    BY <2>1, <1>11 DEF Midnight
<1>12. CASE Crash
  BY <1>12, BoundsAssumption DEF Crash, Fault
<1>13. CASE UNCHANGED vars
  BY <1>13 DEF vars
<1> QED
  BY <1>1, <1>2, <1>3, <1>4, <1>5, <1>6, <1>7, <1>8, <1>9, <1>10, <1>11, <1>12, <1>13 DEF Next

(* Steps that leave the counters, the grants and the pc alone, except for  *)
(* requests that hold nothing.                                             *)
LEMMA QuietStep ==
    ASSUME IInv, UNCHANGED <<total, used, live, calendar>>,
           \A d \in Days : /\ HoldsTotal(d)' \in SUBSET HoldsTotal(d)
                          /\ HoldsUsed(d)' \in SUBSET HoldsUsed(d)
                          /\ Approved(d)' \in SUBSET Approved(d)
    PROVE  CountersCoverGrants' /\ ApprovedWithinLimit' /\ GrantsWithinLimits'
<1>1. \A d \in Days :
         /\ Cardinality(HoldsTotal(d)') <= Cardinality(HoldsTotal(d))
         /\ Cardinality(HoldsUsed(d)') <= Cardinality(HoldsUsed(d))
         /\ Cardinality(Approved(d)') <= Cardinality(Approved(d))
         /\ Cardinality(HoldsTotal(d)') \in Nat /\ Cardinality(HoldsTotal(d)) \in Nat
         /\ Cardinality(HoldsUsed(d)') \in Nat /\ Cardinality(HoldsUsed(d)) \in Nat
         /\ Cardinality(Approved(d)') \in Nat /\ Cardinality(Approved(d)) \in Nat
  BY AtFinite, FS_Subset, FS_CardinalityType DEF HoldsTotal, HoldsUsed, Approved
<1>2. CountersCoverGrants'
  BY <1>1 DEF IInv, TypeOK, CountersCoverGrants
<1>3. ApprovedWithinLimit'
  BY <1>1, LimitsAssumption DEF IInv, TypeOK, ApprovedWithinLimit
<1>4. GrantsWithinLimits'
  BY DEF IInv, GrantsWithinLimits
<1> QED
  BY <1>2, <1>3, <1>4

(* The other conjuncts of the invariant, action by action. *)
LEMMA GrantsStep ==
    IInv /\ [Next]_vars => CountersCoverGrants' /\ ApprovedWithinLimit' /\ GrantsWithinLimits'
<1> DEFINE Goal == CountersCoverGrants' /\ ApprovedWithinLimit' /\ GrantsWithinLimits'
<1> SUFFICES ASSUME IInv, [Next]_vars
             PROVE  Goal
  OBVIOUS
<1>t. TypeOK /\ CountersCoverGrants /\ ApprovedWithinLimit /\ GrantsWithinLimits
  BY DEF IInv
<1>1. ASSUME NEW r \in Requests, NEW p \in Purposes, Arrive(r, p)
      PROVE  Goal
  <2>1. \A d \in Days : /\ HoldsTotal(d)' = HoldsTotal(d)
                       /\ HoldsUsed(d)' = HoldsUsed(d) /\ Approved(d)' = Approved(d)
    BY <1>t, <1>1 DEF TypeOK, Arrive, GoTo, HoldsTotal, HoldsUsed, Approved, At
  <2> QED
    BY <1>1, <2>1, QuietStep DEF Arrive, redis, history
<1>2. ASSUME NEW r \in Requests, CountTotal(r)
      PROVE  Goal
  <2>1. CASE purpose[r] = "live" /\ total[day[r]] + 1 <= LiveCap /\ Grant(r)
    <3>1. GoTo(r, "granted") /\ "granted" \in Steps /\ day' = day
      BY <1>2, <2>1 DEF CountTotal, Grant, local, Steps
    <3>2. CountersCoverGrants'
      BY <1>t, <1>2, <2>1, <3>1, HoldersMove DEF TypeOK, CountTotal, Grant, history, redis, local,
         CountersCoverGrants
    <3>3. ApprovedWithinLimit'
      BY <1>t, <1>2, <2>1, <3>1, HoldersMove, LimitsAssumption DEF TypeOK, CountTotal, Grant, history,
         redis, local, CountersCoverGrants, ApprovedWithinLimit, LiveCap
    <3>4. GrantsWithinLimits'
      BY <1>t, <1>2, <2>1, <3>1, <3>3, HoldersMove, LimitsAssumption DEF TypeOK, CountTotal, Grant, history,
         redis, local, CountersCoverGrants, GrantsWithinLimits, LiveCap
    <3> QED
      BY <3>2, <3>3, <3>4
  <2>2. CASE purpose[r] = "calendar" /\ total[day[r]] + 1 <= Limit /\ GoTo(r, "countCalendar") /\ UNCHANGED history
    <3>1. GoTo(r, "countCalendar") /\ "countCalendar" \in Steps /\ day' = day
      BY <1>2, <2>2 DEF CountTotal, Grant, local, Steps
    <3>2. CountersCoverGrants'
      BY <1>t, <1>2, <2>2, <3>1, HoldersMove DEF TypeOK, CountTotal, Grant, history, redis, local,
         CountersCoverGrants
    <3>3. ApprovedWithinLimit'
      BY <1>t, <1>2, <2>2, <3>1, HoldersMove, LimitsAssumption DEF TypeOK, CountTotal, Grant, history,
         redis, local, CountersCoverGrants, ApprovedWithinLimit, LiveCap
    <3>4. GrantsWithinLimits'
      BY <1>t, <1>2, <2>2, <3>1, <3>3, HoldersMove, LimitsAssumption DEF TypeOK, CountTotal, Grant, history,
         redis, local, CountersCoverGrants, GrantsWithinLimits, LiveCap
    <3> QED
      BY <3>2, <3>3, <3>4
  <2>3. CASE GoTo(r, "releaseTotal") /\ UNCHANGED history
    <3>1. GoTo(r, "releaseTotal") /\ "releaseTotal" \in Steps /\ day' = day
      BY <1>2, <2>3 DEF CountTotal, Grant, local, Steps
    <3>2. CountersCoverGrants'
      BY <1>t, <1>2, <2>3, <3>1, HoldersMove DEF TypeOK, CountTotal, Grant, history, redis, local,
         CountersCoverGrants
    <3>3. ApprovedWithinLimit'
      BY <1>t, <1>2, <2>3, <3>1, HoldersMove, LimitsAssumption DEF TypeOK, CountTotal, Grant, history,
         redis, local, CountersCoverGrants, ApprovedWithinLimit, LiveCap
    <3>4. GrantsWithinLimits'
      BY <1>t, <1>2, <2>3, <3>1, <3>3, HoldersMove, LimitsAssumption DEF TypeOK, CountTotal, Grant, history,
         redis, local, CountersCoverGrants, GrantsWithinLimits, LiveCap
    <3> QED
      BY <3>2, <3>3, <3>4
  <2> QED
    BY <1>t, <1>2, <2>1, <2>2, <2>3 DEF TypeOK, CountTotal, Grant, Purposes
<1>3. ASSUME NEW r \in Requests, CountTotalFails(r)
      PROVE  Goal
  <2>1. CASE TRUE
    <3>1. GoTo(r, "refused") /\ "refused" \in Steps /\ day' = day
      BY <1>3, <2>1 DEF CountTotalFails, local, Steps
    <3>2. CountersCoverGrants'
      BY <1>t, <1>3, <2>1, <3>1, HoldersMove DEF TypeOK, CountTotalFails, history, redis, local,
         CountersCoverGrants
    <3>3. ApprovedWithinLimit'
      BY <1>t, <1>3, <2>1, <3>1, HoldersMove, LimitsAssumption DEF TypeOK, CountTotalFails, history,
         redis, local, CountersCoverGrants, ApprovedWithinLimit, LiveCap
    <3>4. GrantsWithinLimits'
      BY <1>t, <1>3, <2>1, <3>1, <3>3, HoldersMove, LimitsAssumption DEF TypeOK, CountTotalFails, history,
         redis, local, CountersCoverGrants, GrantsWithinLimits, LiveCap
    <3> QED
      BY <3>2, <3>3, <3>4
  <2> QED
    BY <1>t, <1>3, <2>1 DEF TypeOK, CountTotalFails, Purposes
<1>4. ASSUME NEW r \in Requests, CountCalendar(r)
      PROVE  Goal
  <2>1. CASE used[day[r]] + 1 <= Budget /\ Grant(r)
    <3>1. GoTo(r, "granted") /\ "granted" \in Steps /\ day' = day
      BY <1>4, <2>1 DEF CountCalendar, Grant, local, Steps
    <3>2. CountersCoverGrants'
      BY <1>t, <1>4, <2>1, <3>1, HoldersMove DEF TypeOK, CountCalendar, Grant, history, redis, local,
         CountersCoverGrants
    <3>3. ApprovedWithinLimit'
      BY <1>t, <1>4, <2>1, <3>1, HoldersMove, LimitsAssumption DEF TypeOK, CountCalendar, Grant, history,
         redis, local, CountersCoverGrants, ApprovedWithinLimit, LiveCap
    <3>4. GrantsWithinLimits'
      <4>1. \A d \in Days : live'[d] + calendar'[d] <= Limit
        BY <1>t, <1>4, <2>1, <3>1, <3>3, HoldersMove, LimitsAssumption
           DEF TypeOK, CountCalendar, Grant, ApprovedWithinLimit
      <4>2. purpose[r] = "calendar" /\ live' = live
        BY <1>t, <1>4, <2>1 DEF TypeOK, CountCalendar, Grant
      <4>3. \A d \in Days : calendar'[d] <= Budget
        <5> SUFFICES ASSUME NEW d \in Days
                     PROVE  calendar'[d] <= Budget
          OBVIOUS
        <5>1. /\ calendar \in [Days -> Nat] /\ used \in [Days -> Int] /\ day[r] \in Days
              /\ Cardinality(HoldsUsed(day[r])) \in Nat
          BY <1>t, AtFinite DEF TypeOK, HoldsUsed
        <5>2. used[day[r]] >= calendar[day[r]] + Cardinality(HoldsUsed(day[r]))
          BY <1>t, <5>1 DEF CountersCoverGrants
        <5>3. used[day[r]] + 1 <= Budget
          BY <2>1
        <5>4. calendar'[d] = calendar[d] + (IF d = day[r] THEN 1 ELSE 0)
          BY <2>1, <4>2, <5>1 DEF Grant
        <5>5. calendar[d] <= Budget
          BY <1>t DEF GrantsWithinLimits
        <5> QED
          BY <5>1, <5>2, <5>3, <5>4, <5>5, LimitsAssumption
      <4> QED
        BY <1>t, <4>1, <4>2, <4>3 DEF GrantsWithinLimits
    <3> QED
      BY <3>2, <3>3, <3>4
  <2>2. CASE GoTo(r, "releaseBoth") /\ UNCHANGED history
    <3>1. GoTo(r, "releaseBoth") /\ "releaseBoth" \in Steps /\ day' = day
      BY <1>4, <2>2 DEF CountCalendar, Grant, local, Steps
    <3>2. CountersCoverGrants'
      BY <1>t, <1>4, <2>2, <3>1, HoldersMove DEF TypeOK, CountCalendar, Grant, history, redis, local,
         CountersCoverGrants
    <3>3. ApprovedWithinLimit'
      BY <1>t, <1>4, <2>2, <3>1, HoldersMove, LimitsAssumption DEF TypeOK, CountCalendar, Grant, history,
         redis, local, CountersCoverGrants, ApprovedWithinLimit, LiveCap
    <3>4. GrantsWithinLimits'
      BY <1>t, <1>4, <2>2, <3>1, <3>3, HoldersMove, LimitsAssumption DEF TypeOK, CountCalendar, Grant, history,
         redis, local, CountersCoverGrants, GrantsWithinLimits, LiveCap
    <3> QED
      BY <3>2, <3>3, <3>4
  <2> QED
    BY <1>t, <1>4, <2>1, <2>2 DEF TypeOK, CountCalendar, Grant, Purposes
<1>5. ASSUME NEW r \in Requests, CountCalendarFails(r)
      PROVE  Goal
  <2>1. CASE TRUE
    <3>1. GoTo(r, "releaseTotal") /\ "releaseTotal" \in Steps /\ day' = day
      BY <1>5, <2>1 DEF CountCalendarFails, local, Steps
    <3>2. CountersCoverGrants'
      BY <1>t, <1>5, <2>1, <3>1, HoldersMove DEF TypeOK, CountCalendarFails, history, redis, local,
         CountersCoverGrants
    <3>3. ApprovedWithinLimit'
      BY <1>t, <1>5, <2>1, <3>1, HoldersMove, LimitsAssumption DEF TypeOK, CountCalendarFails, history,
         redis, local, CountersCoverGrants, ApprovedWithinLimit, LiveCap
    <3>4. GrantsWithinLimits'
      BY <1>t, <1>5, <2>1, <3>1, <3>3, HoldersMove, LimitsAssumption DEF TypeOK, CountCalendarFails, history,
         redis, local, CountersCoverGrants, GrantsWithinLimits, LiveCap
    <3> QED
      BY <3>2, <3>3, <3>4
  <2> QED
    BY <1>t, <1>5, <2>1 DEF TypeOK, CountCalendarFails, Purposes
<1>6. ASSUME NEW r \in Requests, Release(r)
      PROVE  Goal
  <2>1. CASE pc[r] = "releaseBoth"
    <3>1. GoTo(r, "releaseCalendar") /\ "releaseCalendar" \in Steps /\ day' = day
      BY <1>6, <2>1 DEF Release, AfterRelease, local, Steps
    <3>2. CountersCoverGrants'
      BY <1>t, <1>6, <2>1, <3>1, HoldersMove DEF TypeOK, Release, AfterRelease, history, redis, local,
         CountersCoverGrants
    <3>3. ApprovedWithinLimit'
      BY <1>t, <1>6, <2>1, <3>1, HoldersMove, LimitsAssumption DEF TypeOK, Release, AfterRelease, history,
         redis, local, CountersCoverGrants, ApprovedWithinLimit, LiveCap
    <3>4. GrantsWithinLimits'
      BY <1>t, <1>6, <2>1, <3>1, <3>3, HoldersMove, LimitsAssumption DEF TypeOK, Release, AfterRelease, history,
         redis, local, CountersCoverGrants, GrantsWithinLimits, LiveCap
    <3> QED
      BY <3>2, <3>3, <3>4
  <2>2. CASE pc[r] = "releaseTotal"
    <3>1. GoTo(r, "refused") /\ "refused" \in Steps /\ day' = day
      BY <1>6, <2>2 DEF Release, AfterRelease, local, Steps
    <3>2. CountersCoverGrants'
      BY <1>t, <1>6, <2>2, <3>1, HoldersMove DEF TypeOK, Release, AfterRelease, history, redis, local,
         CountersCoverGrants
    <3>3. ApprovedWithinLimit'
      BY <1>t, <1>6, <2>2, <3>1, HoldersMove, LimitsAssumption DEF TypeOK, Release, AfterRelease, history,
         redis, local, CountersCoverGrants, ApprovedWithinLimit, LiveCap
    <3>4. GrantsWithinLimits'
      BY <1>t, <1>6, <2>2, <3>1, <3>3, HoldersMove, LimitsAssumption DEF TypeOK, Release, AfterRelease, history,
         redis, local, CountersCoverGrants, GrantsWithinLimits, LiveCap
    <3> QED
      BY <3>2, <3>3, <3>4
  <2> QED
    BY <1>t, <1>6, <2>1, <2>2 DEF TypeOK, Release, AfterRelease, Purposes
<1>7. ASSUME NEW r \in Requests, ReleaseFails(r)
      PROVE  Goal
  <2>1. CASE pc[r] = "releaseBoth"
    <3>1. GoTo(r, "releaseCalendar") /\ "releaseCalendar" \in Steps /\ day' = day
      BY <1>7, <2>1 DEF ReleaseFails, AfterRelease, local, Steps
    <3>2. CountersCoverGrants'
      BY <1>t, <1>7, <2>1, <3>1, HoldersMove DEF TypeOK, ReleaseFails, AfterRelease, history, redis, local,
         CountersCoverGrants
    <3>3. ApprovedWithinLimit'
      BY <1>t, <1>7, <2>1, <3>1, HoldersMove, LimitsAssumption DEF TypeOK, ReleaseFails, AfterRelease, history,
         redis, local, CountersCoverGrants, ApprovedWithinLimit, LiveCap
    <3>4. GrantsWithinLimits'
      BY <1>t, <1>7, <2>1, <3>1, <3>3, HoldersMove, LimitsAssumption DEF TypeOK, ReleaseFails, AfterRelease, history,
         redis, local, CountersCoverGrants, GrantsWithinLimits, LiveCap
    <3> QED
      BY <3>2, <3>3, <3>4
  <2>2. CASE pc[r] = "releaseTotal"
    <3>1. GoTo(r, "refused") /\ "refused" \in Steps /\ day' = day
      BY <1>7, <2>2 DEF ReleaseFails, AfterRelease, local, Steps
    <3>2. CountersCoverGrants'
      BY <1>t, <1>7, <2>2, <3>1, HoldersMove DEF TypeOK, ReleaseFails, AfterRelease, history, redis, local,
         CountersCoverGrants
    <3>3. ApprovedWithinLimit'
      BY <1>t, <1>7, <2>2, <3>1, HoldersMove, LimitsAssumption DEF TypeOK, ReleaseFails, AfterRelease, history,
         redis, local, CountersCoverGrants, ApprovedWithinLimit, LiveCap
    <3>4. GrantsWithinLimits'
      BY <1>t, <1>7, <2>2, <3>1, <3>3, HoldersMove, LimitsAssumption DEF TypeOK, ReleaseFails, AfterRelease, history,
         redis, local, CountersCoverGrants, GrantsWithinLimits, LiveCap
    <3> QED
      BY <3>2, <3>3, <3>4
  <2> QED
    BY <1>t, <1>7, <2>1, <2>2 DEF TypeOK, ReleaseFails, AfterRelease, Purposes
<1>8. ASSUME NEW r \in Requests, ReleaseCalendar(r)
      PROVE  Goal
  <2>1. CASE TRUE
    <3>1. GoTo(r, "refused") /\ "refused" \in Steps /\ day' = day
      BY <1>8, <2>1 DEF ReleaseCalendar, local, Steps
    <3>2. CountersCoverGrants'
      BY <1>t, <1>8, <2>1, <3>1, HoldersMove DEF TypeOK, ReleaseCalendar, history, redis, local,
         CountersCoverGrants
    <3>3. ApprovedWithinLimit'
      BY <1>t, <1>8, <2>1, <3>1, HoldersMove, LimitsAssumption DEF TypeOK, ReleaseCalendar, history,
         redis, local, CountersCoverGrants, ApprovedWithinLimit, LiveCap
    <3>4. GrantsWithinLimits'
      BY <1>t, <1>8, <2>1, <3>1, <3>3, HoldersMove, LimitsAssumption DEF TypeOK, ReleaseCalendar, history,
         redis, local, CountersCoverGrants, GrantsWithinLimits, LiveCap
    <3> QED
      BY <3>2, <3>3, <3>4
  <2> QED
    BY <1>t, <1>8, <2>1 DEF TypeOK, ReleaseCalendar, Purposes
<1>9. ASSUME NEW r \in Requests, ReleaseCalendarFails(r)
      PROVE  Goal
  <2>1. CASE TRUE
    <3>1. GoTo(r, "refused") /\ "refused" \in Steps /\ day' = day
      BY <1>9, <2>1 DEF ReleaseCalendarFails, local, Steps
    <3>2. CountersCoverGrants'
      BY <1>t, <1>9, <2>1, <3>1, HoldersMove DEF TypeOK, ReleaseCalendarFails, history, redis, local,
         CountersCoverGrants
    <3>3. ApprovedWithinLimit'
      BY <1>t, <1>9, <2>1, <3>1, HoldersMove, LimitsAssumption DEF TypeOK, ReleaseCalendarFails, history,
         redis, local, CountersCoverGrants, ApprovedWithinLimit, LiveCap
    <3>4. GrantsWithinLimits'
      BY <1>t, <1>9, <2>1, <3>1, <3>3, HoldersMove, LimitsAssumption DEF TypeOK, ReleaseCalendarFails, history,
         redis, local, CountersCoverGrants, GrantsWithinLimits, LiveCap
    <3> QED
      BY <3>2, <3>3, <3>4
  <2> QED
    BY <1>t, <1>9, <2>1 DEF TypeOK, ReleaseCalendarFails, Purposes
<1>10. ASSUME NEW r \in Requests, Spend(r)
       PROVE  Goal
  <2>1. \A d \in Days : /\ HoldsTotal(d)' = HoldsTotal(d)
                       /\ HoldsUsed(d)' = HoldsUsed(d) /\ Approved(d)' = Approved(d)
    BY <1>t, <1>10 DEF TypeOK, Spend, GoTo, local, HoldsTotal, HoldsUsed, Approved, At
  <2> QED
    BY <1>10, <2>1, QuietStep DEF Spend, redis
<1>11. CASE Midnight
  <2>1. \A d \in Days : /\ HoldsTotal(d)' = HoldsTotal(d)
                       /\ HoldsUsed(d)' = HoldsUsed(d) /\ Approved(d)' = Approved(d)
    BY <1>11 DEF Midnight, local, HoldsTotal, HoldsUsed, Approved, At
  <2> QED
    BY <1>11, <2>1, QuietStep DEF Midnight, redis, history
<1>12. CASE Crash
  <2>1. \A d \in Days : /\ HoldsTotal(d)' \in SUBSET HoldsTotal(d)
                       /\ HoldsUsed(d)' \in SUBSET HoldsUsed(d)
                       /\ Approved(d)' \in SUBSET Approved(d)
    BY <1>12 DEF Crash, local, HoldsTotal, HoldsUsed, Approved, At
  <2> QED
    BY <1>12, <2>1, QuietStep DEF Crash, redis, history
<1>13. CASE UNCHANGED vars
  <2>1. \A d \in Days : /\ HoldsTotal(d)' = HoldsTotal(d)
                       /\ HoldsUsed(d)' = HoldsUsed(d) /\ Approved(d)' = Approved(d)
    BY <1>13 DEF vars, local, HoldsTotal, HoldsUsed, Approved, At
  <2> QED
    BY <1>13, <2>1, QuietStep DEF vars, redis, history
<1> QED
  BY <1>1, <1>2, <1>3, <1>4, <1>5, <1>6, <1>7, <1>8, <1>9, <1>10, <1>11, <1>12, <1>13 DEF Next

(* The initial states satisfy the inductive invariant.                     *)
LEMMA InvariantInit == Init => IInv
<1> SUFFICES ASSUME Init
             PROVE  IInv
  OBVIOUS
<1>1. TypeOK
  BY BoundsAssumption DEF Init, TypeOK, Days, Steps, Purposes
<1>2. \A d, S : "idle" \notin S => At(d, S) = {}
  BY DEF Init, At
<1>3. \A d : HoldsTotal(d) = {} /\ HoldsUsed(d) = {} /\ Approved(d) = {}
  BY <1>2 DEF HoldsTotal, HoldsUsed, Approved
<1>4. \A d : /\ Cardinality(HoldsTotal(d)) = 0 /\ Cardinality(HoldsUsed(d)) = 0
           /\ Cardinality(Approved(d)) = 0
  BY <1>3, FS_EmptySet
<1>5. \A d \in Days : total[d] = 0 /\ used[d] = 0 /\ live[d] = 0 /\ calendar[d] = 0
  BY DEF Init
<1>6. CountersCoverGrants
  BY <1>4, <1>5 DEF CountersCoverGrants
<1>7. ApprovedWithinLimit
  BY <1>4, <1>5, LimitsAssumption DEF ApprovedWithinLimit
<1>8. GrantsWithinLimits
  BY LimitsAssumption DEF Init, GrantsWithinLimits
<1> QED
  BY <1>1, <1>6, <1>7, <1>8 DEF IInv

(* The inductive invariant holds throughout.                               *)
LEMMA Invariance == Spec => []IInv
<1>1. IInv /\ [Next]_vars => IInv'
  BY TypeStep, GrantsStep DEF IInv
<1> QED
  BY <1>1, InvariantInit, PTL DEF Spec

(* Every variable keeps its type. *)
THEOREM TypeCorrect == Spec => []TypeOK
BY Invariance, PTL DEF IInv

(* The counters in Redis never fall below what was granted, through any    *)
(* number of failed commands, crashes and midnights (quota.go:15-16).      *)
THEOREM CountersSafe == Spec => []CountersCoverGrants
BY Invariance, PTL DEF IInv

(* The limit of the day, the calendar's budget and the share that live     *)
(* searches leave to the calendar are kept (quota.go:85).                  *)
THEOREM QuotaRespected == Spec => []GrantsWithinLimits
BY Invariance, PTL DEF IInv

(* A step that pays nothing and after which no more permissions are given  *)
(* or used than before keeps what was spent covered.                       *)
LEMMA QuietSpending ==
    ASSUME TypeOK, SpendingCovered, UNCHANGED history,
           \A r \in Requests : /\ day'[r] <= today'
                               /\ pc[r] = "spent" => pc'[r] = "spent" /\ day'[r] = day[r],
           \A d \in Days : At(d, {"granted", "spent"})' \in SUBSET At(d, {"granted", "spent"})
    PROVE  SpendingCovered'
<1>1. live' = live /\ calendar' = calendar /\ paidOn' = paidOn
  BY DEF history
<1>2. ASSUME NEW d \in Days
      PROVE  Cardinality(At(d, {"granted", "spent"})') <= live'[d] + calendar'[d]
  <2>1. /\ Cardinality(At(d, {"granted", "spent"})') <= Cardinality(At(d, {"granted", "spent"}))
        /\ Cardinality(At(d, {"granted", "spent"})') \in Nat
        /\ Cardinality(At(d, {"granted", "spent"})) \in Nat
    BY AtFinite, FS_Subset, FS_CardinalityType
  <2>2. live[d] \in Nat /\ calendar[d] \in Nat
    BY DEF TypeOK
  <2>3. Cardinality(At(d, {"granted", "spent"})) <= live[d] + calendar[d]
    BY DEF SpendingCovered
  <2> QED
    BY <1>1, <2>1, <2>2, <2>3
<1>3. \A r \in Requests : paidOn'[r] # NotPaid => pc'[r] = "spent" /\ day'[r] <= paidOn'[r]
  BY <1>1 DEF SpendingCovered
<1> QED
  BY <1>2, <1>3 DEF SpendingCovered

(* A step of a request that neither has nor gets a permission. *)
LEMMA UnpaidSpending ==
    ASSUME TypeOK, SpendingCovered, UNCHANGED history,
           NEW r \in Requests, NEW step \in Steps \ {"granted", "spent"},
           pc[r] \notin {"granted", "spent"}, GoTo(r, step), UNCHANGED <<day, today>>
    PROVE  SpendingCovered'
<1>1. \A d : At(d, {"granted", "spent"})' = At(d, {"granted", "spent"})
  BY DEF At, GoTo, TypeOK
<1>2. \A q \in Requests : /\ day'[q] <= today'
                          /\ pc[q] = "spent" => pc'[q] = "spent" /\ day'[q] = day[q]
  BY DEF SpendingCovered, GoTo, TypeOK
<1> QED
  BY <1>1, <1>2, QuietSpending

(* A permission: one more on its day, unused. *)
LEMMA GrantSpending ==
    ASSUME TypeOK, SpendingCovered, NEW r \in Requests,
           pc[r] \notin {"granted", "spent"}, Grant(r), UNCHANGED <<day, today>>
    PROVE  SpendingCovered'
<1>1. GoTo(r, "granted") /\ paidOn' = paidOn /\ "granted" \in Steps
  BY DEF Grant, Steps
<1>2. \A q \in Requests :
         /\ day'[q] <= today'
         /\ paidOn'[q] # NotPaid => pc'[q] = "spent" /\ day'[q] <= paidOn'[q]
  BY <1>1 DEF SpendingCovered, GoTo, TypeOK
<1>3. ASSUME NEW d \in Days
      PROVE  Cardinality(At(d, {"granted", "spent"})') <= live'[d] + calendar'[d]
  <2>1. r \notin At(d, {"granted", "spent"})
    BY DEF At
  <2>2. Cardinality(At(d, {"granted", "spent"})')
          = Cardinality(At(d, {"granted", "spent"})) + (IF day[r] = d THEN 1 ELSE 0)
    BY <1>1, <2>1, AtMove, AtFinite
  <2>3. live'[d] + calendar'[d] = live[d] + calendar[d] + (IF day[r] = d THEN 1 ELSE 0)
    BY DEF Grant, TypeOK
  <2>4. Cardinality(At(d, {"granted", "spent"})) <= live[d] + calendar[d]
    BY DEF SpendingCovered
  <2>5. live[d] \in Nat /\ calendar[d] \in Nat /\ Cardinality(At(d, {"granted", "spent"})) \in Nat
    BY AtFinite DEF TypeOK
  <2> QED
    BY <2>2, <2>3, <2>4, <2>5
<1> QED
  BY <1>2, <1>3 DEF SpendingCovered

(* The paid request uses its permission up, on its day or a later one.     *)
LEMMA SpendSpending ==
    ASSUME TypeOK, SpendingCovered, NEW r \in Requests, Spend(r)
    PROVE  SpendingCovered'
<1>1. /\ GoTo(r, "spent") /\ pc[r] = "granted"
      /\ UNCHANGED <<day, today, live, calendar>>
  BY DEF Spend, local
<1>2. PICK reached \in {today, NotPaid} : paidOn' = [paidOn EXCEPT ![r] = reached]
  BY DEF Spend
<1>3. \A d : At(d, {"granted", "spent"})' = At(d, {"granted", "spent"})
  BY <1>1 DEF At, GoTo, TypeOK
<1>4. \A q \in Requests :
         /\ day'[q] <= today'
         /\ paidOn'[q] # NotPaid => pc'[q] = "spent" /\ day'[q] <= paidOn'[q]
  BY <1>1, <1>2 DEF SpendingCovered, GoTo, TypeOK
<1> QED
  BY <1>1, <1>3, <1>4 DEF SpendingCovered

(* What is spent stays covered, action by action.                          *)
LEMMA SpendingStep == TypeOK /\ SpendingCovered /\ [Next]_vars => SpendingCovered'
<1> SUFFICES ASSUME TypeOK, SpendingCovered, [Next]_vars
             PROVE  SpendingCovered'
  OBVIOUS
<1>1. ASSUME NEW r \in Requests, NEW p \in Purposes, Arrive(r, p)
      PROVE  SpendingCovered'
  <2>1. pc[r] = "idle" /\ day' = [day EXCEPT ![r] = today] /\ GoTo(r, "count")
        /\ today' = today /\ UNCHANGED history
    BY <1>1 DEF Arrive
  <2>2. \A d \in Days : At(d, {"granted", "spent"})' = At(d, {"granted", "spent"})
    BY <2>1 DEF At, GoTo, TypeOK
  <2>3. \A q \in Requests : /\ day'[q] <= today'
                            /\ pc[q] = "spent" => pc'[q] = "spent" /\ day'[q] = day[q]
    BY <2>1 DEF SpendingCovered, GoTo, TypeOK, Days
  <2> QED
    BY <2>1, <2>2, <2>3, QuietSpending
<1>2. ASSUME NEW r \in Requests, CountTotal(r)
      PROVE  SpendingCovered'
  <2>1. pc[r] \notin {"granted", "spent"} /\ UNCHANGED <<day, today>>
    BY <1>2 DEF CountTotal, local
  <2>2. CASE Grant(r)
    BY <2>1, <2>2, GrantSpending
  <2>3. ASSUME NEW step \in {"countCalendar", "releaseTotal"}, GoTo(r, step), UNCHANGED history
        PROVE  SpendingCovered'
    <3>1. step \in Steps \ {"granted", "spent"}
      BY DEF Steps
    <3> QED
      BY <2>1, <2>3, <3>1, UnpaidSpending
  <2> QED
    BY <1>2, <2>2, <2>3 DEF CountTotal
<1>3. ASSUME NEW r \in Requests, CountCalendar(r)
      PROVE  SpendingCovered'
  <2>1. pc[r] \notin {"granted", "spent"} /\ UNCHANGED <<day, today>>
    BY <1>3 DEF CountCalendar, local
  <2>2. CASE Grant(r)
    BY <2>1, <2>2, GrantSpending
  <2>3. CASE GoTo(r, "releaseBoth") /\ UNCHANGED history
    <3>1. "releaseBoth" \in Steps \ {"granted", "spent"}
      BY DEF Steps
    <3> QED
      BY <2>1, <2>3, <3>1, UnpaidSpending
  <2> QED
    BY <1>3, <2>2, <2>3 DEF CountCalendar
<1>4. ASSUME NEW r \in Requests,
             \/ CountTotalFails(r) \/ CountCalendarFails(r) \/ Release(r) \/ ReleaseFails(r)
             \/ ReleaseCalendar(r) \/ ReleaseCalendarFails(r)
      PROVE  SpendingCovered'
  <2>1. /\ pc[r] \notin {"granted", "spent"} /\ UNCHANGED <<day, today, history>>
        /\ \E step \in {"refused", "releaseTotal", "releaseCalendar"} : GoTo(r, step)
    BY <1>4 DEF CountTotalFails, CountCalendarFails, Release, ReleaseFails, AfterRelease,
       ReleaseCalendar, ReleaseCalendarFails, local, history
  <2>2. PICK step \in {"refused", "releaseTotal", "releaseCalendar"} : GoTo(r, step)
    BY <2>1
  <2>3. step \in Steps \ {"granted", "spent"}
    BY DEF Steps
  <2> QED
    BY <2>1, <2>2, <2>3, UnpaidSpending
<1>5. ASSUME NEW r \in Requests, Spend(r)
      PROVE  SpendingCovered'
  BY <1>5, SpendSpending
<1>6. CASE Midnight
  <2>1. \A d \in Days : At(d, {"granted", "spent"})' = At(d, {"granted", "spent"})
    BY <1>6 DEF Midnight, local, At
  <2>2. \A q \in Requests : /\ day'[q] <= today'
                            /\ pc[q] = "spent" => pc'[q] = "spent" /\ day'[q] = day[q]
    BY <1>6 DEF Midnight, local, SpendingCovered, TypeOK, Days
  <2> QED
    BY <1>6, <2>1, <2>2, QuietSpending DEF Midnight
<1>7. CASE Crash
  <2>1. \A d \in Days : At(d, {"granted", "spent"})' \in SUBSET At(d, {"granted", "spent"})
    BY <1>7 DEF Crash, local, At
  <2>2. \A q \in Requests : /\ day'[q] <= today'
                            /\ pc[q] = "spent" => pc'[q] = "spent" /\ day'[q] = day[q]
    BY <1>7 DEF Crash, local, SpendingCovered
  <2> QED
    BY <1>7, <2>1, <2>2, QuietSpending DEF Crash
<1>8. CASE UNCHANGED vars
  <2>1. \A d \in Days : At(d, {"granted", "spent"})' = At(d, {"granted", "spent"})
    BY <1>8 DEF vars, local, At
  <2>2. \A q \in Requests : /\ day'[q] <= today'
                            /\ pc[q] = "spent" => pc'[q] = "spent" /\ day'[q] = day[q]
    BY <1>8 DEF vars, local, SpendingCovered
  <2> QED
    BY <1>8, <2>1, <2>2, QuietSpending DEF vars
<1> QED
  BY <1>1, <1>2, <1>3, <1>4, <1>5, <1>6, <1>7, <1>8 DEF Next

(* Initially nothing is granted and nothing is spent.                      *)
LEMMA SpendingInit == Init => SpendingCovered
<1> SUFFICES ASSUME Init
             PROVE  SpendingCovered
  OBVIOUS
<1>1. \A d : At(d, {"granted", "spent"}) = {}
  BY DEF Init, At
<1> QED
  BY <1>1, FS_EmptySet DEF Init, SpendingCovered

(* A day's permissions pay for no more than its limit, and the requests    *)
(* Tourvisor is paid for on a day exceed the limit by no more than those   *)
(* that were permitted on an earlier day (quota.go:13-16, quota.go:100).   *)
THEOREM SpendingWithinLimit == Spec => []SpendingBounded
<1>1. TypeOK /\ SpendingCovered /\ GrantsWithinLimits => SpendingBounded
  <2> SUFFICES ASSUME TypeOK, SpendingCovered, GrantsWithinLimits, NEW d \in Days
               PROVE  /\ Cardinality({r \in Requests : day[r] = d /\ paidOn[r] # NotPaid}) <= Limit
                      /\ Cardinality(PaidOn(d))
                           <= Limit + Cardinality({r \in PaidOn(d) : day[r] < d})
    BY DEF SpendingBounded
  <2> DEFINE Own  == {r \in Requests : day[r] = d /\ paidOn[r] # NotPaid}
             Late == {r \in PaidOn(d) : day[r] < d}
  <2>1. Own \in SUBSET At(d, {"granted", "spent"})
    BY DEF SpendingCovered, At
  <2>2. PaidOn(d) \in SUBSET (Own \cup Late)
    <3> SUFFICES ASSUME NEW r \in PaidOn(d), ~(day[r] < d)
                 PROVE  r \in Own
      OBVIOUS
    <3>1. r \in Requests /\ paidOn[r] = d /\ d # NotPaid /\ d \in Int /\ day[r] \in Int
      BY DEF PaidOn, Days, NotPaid, TypeOK
    <3>2. day[r] <= d
      BY <3>1 DEF SpendingCovered
    <3> QED
      BY <3>1, <3>2
  <2>3. Late \in SUBSET Requests /\ Own \in SUBSET Requests
    BY DEF PaidOn
  <2> HIDE DEF Own, Late
  <2>4. /\ IsFiniteSet(Own) /\ Cardinality(Own) \in Nat
        /\ IsFiniteSet(Late) /\ Cardinality(Late) \in Nat
    BY <2>3, RequestsAssumption, FS_Subset, FS_CardinalityType
  <2>5. Cardinality(Own) <= Cardinality(At(d, {"granted", "spent"}))
    BY <2>1, AtFinite, FS_Subset
  <2>6. live[d] + calendar[d] <= Limit
        /\ Cardinality(At(d, {"granted", "spent"})) <= live[d] + calendar[d]
    BY DEF GrantsWithinLimits, SpendingCovered
  <2>7. live[d] \in Nat /\ calendar[d] \in Nat /\ Cardinality(At(d, {"granted", "spent"})) \in Nat
    BY AtFinite DEF TypeOK
  <2>8. Cardinality(Own) <= Limit
    BY <2>4, <2>5, <2>6, <2>7, LimitsAssumption
  <2>9. /\ IsFiniteSet(Own \cup Late) /\ Cardinality(Own \cap Late) \in Nat
        /\ Cardinality(Own \cup Late)
             = Cardinality(Own) + Cardinality(Late) - Cardinality(Own \cap Late)
    <3>1. IsFiniteSet(Own \cap Late)
      BY <2>4, FS_Intersection
    <3> QED
      BY <2>4, <3>1, FS_Union, FS_CardinalityType
  <2>10. Cardinality(PaidOn(d)) <= Cardinality(Own \cup Late) /\ Cardinality(PaidOn(d)) \in Nat
    BY <2>2, <2>9, FS_Subset, FS_CardinalityType
  <2>11. Cardinality(PaidOn(d)) <= Limit + Cardinality(Late)
    BY <2>4, <2>8, <2>9, <2>10, LimitsAssumption
  <2> QED
    BY <2>8, <2>11 DEF Own, Late
<1>2. TypeOK /\ SpendingCovered /\ [Next]_vars => SpendingCovered'
  BY SpendingStep
<1>3. Spec => [](TypeOK /\ SpendingCovered /\ GrantsWithinLimits)
  BY <1>2, SpendingInit, TypeCorrect, QuotaRespected, PTL DEF Spec
<1> QED
  BY <1>1, <1>3, PTL

(* reserveBillable implements a budget that is kept in one atomic step.    *)
THEOREM QuotaImplementsBudget == Spec => ImplementsDailyBudget
<1>1. Init => Abstract!BudgetInit
  BY DEF Init, Abstract!BudgetInit
<1>2. ASSUME IInv, [Next]_vars
      PROVE  [Abstract!BudgetNext]_(Abstract!budgetVars)
  <2> USE DEF Abstract!budgetVars
  <2>t. TypeOK /\ CountersCoverGrants /\ ApprovedWithinLimit
    BY <1>2 DEF IInv
  <2>1. ASSUME NEW r \in Requests, CountTotal(r)
        PROVE  [Abstract!BudgetNext]_(Abstract!budgetVars)
    <3>1. CASE purpose[r] = "live" /\ total[day[r]] + 1 <= LiveCap /\ Grant(r)
      <4>1. day[r] \in Days /\ total[day[r]] >= live[day[r]] + calendar[day[r]]
        BY <2>t, AtFinite DEF TypeOK, CountersCoverGrants, HoldsTotal
      <4>2. live[day[r]] + calendar[day[r]] < Limit - Budget
        BY <2>t, <3>1, <4>1, LimitsAssumption DEF LiveCap, TypeOK
      <4>3. Abstract!GrantLive(day[r])
        BY <3>1, <4>2 DEF Abstract!GrantLive, Grant
      <4> QED
        BY <4>1, <4>3 DEF Abstract!BudgetNext
    <3>2. CASE UNCHANGED history
      BY <3>2 DEF history
    <3> QED
      BY <2>1, <3>1, <3>2 DEF CountTotal
  <2>2. ASSUME NEW r \in Requests, CountCalendar(r)
        PROVE  [Abstract!BudgetNext]_(Abstract!budgetVars)
    <3>1. CASE used[day[r]] + 1 <= Budget /\ Grant(r)
      <4>1. day[r] \in Days /\ purpose[r] = "calendar" /\ pc[r] = "countCalendar"
        BY <2>t, <2>2 DEF TypeOK, CountCalendar
      <4>2. calendar[day[r]] < Budget
        BY <2>t, <3>1, <4>1, AtFinite, LimitsAssumption DEF TypeOK, CountersCoverGrants, HoldsUsed
      <4>3. Cardinality(Approved(day[r])) > 0
        <5>1. r \in Approved(day[r]) /\ IsFiniteSet(Approved(day[r]))
          BY <4>1, AtFinite DEF Approved, At
        <5> QED
          BY <5>1, FS_EmptySet, FS_CardinalityType
      <4>4. live[day[r]] + calendar[day[r]] < Limit
        BY <2>t, <4>1, <4>3, AtFinite, LimitsAssumption DEF TypeOK, ApprovedWithinLimit, Approved
      <4>5. Abstract!GrantCalendar(day[r])
        BY <3>1, <4>1, <4>2, <4>4 DEF Abstract!GrantCalendar, Grant
      <4> QED
        BY <4>1, <4>5 DEF Abstract!BudgetNext
    <3>2. CASE UNCHANGED history
      BY <3>2 DEF history
    <3> QED
      BY <2>2, <3>1, <3>2 DEF CountCalendar
  <2>3. CASE UNCHANGED <<live, calendar>>
    BY <2>3
  <2> QED
    BY <1>2, <2>1, <2>2, <2>3 DEF Next, vars, history, Arrive, CountTotalFails,
       CountCalendarFails, Release, ReleaseFails, ReleaseCalendar, ReleaseCalendarFails,
       Spend, Midnight, Crash
<1>3. IInv /\ [Next]_vars => [Abstract!BudgetNext]_(Abstract!budgetVars)
  BY <1>2
<1> QED
  BY <1>1, <1>3, Invariance, PTL DEF Spec, ImplementsDailyBudget, Abstract!BudgetSpec
=============================================================================
