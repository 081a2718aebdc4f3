--------------------------- MODULE ExpiryProofs -----------------------------
(***************************************************************************)
(* Theorems about the Expiry Engine, for every date, day and policy.       *)
(***************************************************************************)
EXTENDS DocumentAgeing, TLAPS

LEMMA WidestWindow ==
    ASSUME NEW row \in ExpiryPolicy
    PROVE  /\ WidestWarningWindow(row) \in WarningWindows(row)
           /\ \A window \in WarningWindows(row) : window <= WidestWarningWindow(row)
  <1>1. \A a, b, c, d \in Int : \E widest \in {a, b, c, d} :
            \A window \in {a, b, c, d} : window <= widest
    OBVIOUS
  <1>2. \E widest \in WarningWindows(row) :
            \A window \in WarningWindows(row) : window <= widest
    BY <1>1 DEF WarningWindows, ExpiryPolicy
  <1> QED
    BY <1>2 DEF WidestWarningWindow

\* The comparison with the widest window that ExpiryService makes is the four
\* sequential threshold checks of the comment beside it, whatever the thresholds.
THEOREM EngineIsFourChecks ==
    ASSUME NEW days \in Int, NEW row \in ExpiryPolicy
    PROVE  FutureStatus(days, row) = FourChecks(days, row)
  <1> DEFINE widest == WidestWarningWindow(row)
  <1>1. /\ widest \in {row.criticalDays, row.warningDays3,
                       row.warningDays2, row.warningDays1}
        /\ row.criticalDays <= widest /\ row.warningDays3 <= widest
        /\ row.warningDays2 <= widest /\ row.warningDays1 <= widest
    BY WidestWindow DEF WarningWindows
  <1>2. /\ row.criticalDays \in Int /\ row.warningDays3 \in Int
        /\ row.warningDays2 \in Int /\ row.warningDays1 \in Int
    BY DEF ExpiryPolicy
  <1>3. FutureStatus(days, row) = IF days <= widest THEN "EXPIRING_SOON" ELSE "VALID"
    BY DEF FutureStatus
  <1> HIDE DEF widest
  <1> QED
    BY <1>1, <1>2, <1>3 DEF FourChecks

-----------------------------------------------------------------------------
(* A document only ages *)

Computed(day) == CalculateStatus(expiryDate, day, policy, "VALID")

\* What is stored is a manual status or what the engine said on some day up to today.
AgeInv ==
    /\ TypeOK
    /\ expiryStatus \in ManualStatus \/ \E day \in 0..today : expiryStatus = Computed(day)

LEMMA StatusByDays ==
    ASSUME NEW e \in Int, NEW day \in Int, NEW row \in ExpiryPolicy, NEW s \in ExpiryStatus,
           s \notin ManualStatus
    PROVE  CalculateStatus(e, day, row, s) =
               IF e - day < 0 THEN PastStatus(e - day, row) ELSE FutureStatus(e - day, row)
  BY NoDateAssumption DEF CalculateStatus, CalendarDaysUntil

LEMMA SeverityGrows ==
    ASSUME NEW row \in ExpiryPolicy, NEW e \in Int \cup {NoDate}, NEW s \in ExpiryStatus,
           s \notin ManualStatus, NEW day \in Int, NEW later \in Int, day <= later
    PROVE  Severity(CalculateStatus(e, later, row, s)) >= Severity(CalculateStatus(e, day, row, s))
  <1>1. CASE e = NoDate
    BY <1>1 DEF CalculateStatus, Severity
  <1>2. CASE e \in Int
    <2> DEFINE widest == WidestWarningWindow(row)
    <2>1. widest \in Int
      BY WidestWindow DEF WarningWindows, ExpiryPolicy
    <2>2. row.gracePeriodDays \in Int
      BY DEF ExpiryPolicy
    <2>3. \A days \in Int : FutureStatus(days, row) = IF days <= widest THEN "EXPIRING_SOON" ELSE "VALID"
      BY DEF FutureStatus
    <2> HIDE DEF widest
    <2>4. CASE e - later >= 0
      BY <1>2, <2>1, <2>3, <2>4, StatusByDays DEF Severity
    <2>5. CASE e - later < 0 /\ e - day >= 0
      BY <1>2, <2>1, <2>3, <2>5, StatusByDays DEF Severity, PastStatus
    <2>6. CASE e - day < 0
      BY <1>2, <2>2, <2>6, StatusByDays DEF Severity, PastStatus, InGracePeriod
    <2> QED
      BY <1>2, <2>4, <2>5, <2>6
  <1> QED
    BY <1>1, <1>2

LEMMA EngineType ==
    ASSUME NEW e, NEW day, NEW row, NEW s \in ExpiryStatus
    PROVE  CalculateStatus(e, day, row, s) \in ExpiryStatus
  BY DEF CalculateStatus, PastStatus, FutureStatus, ExpiryStatus, ComputedStatus, ManualStatus

\* Of a status that is not manual the engine reads nothing.
LEMMA CurrentIsIrrelevant ==
    ASSUME NEW e, NEW day, NEW row, NEW s \in ExpiryStatus \ ManualStatus
    PROVE  CalculateStatus(e, day, row, s) = CalculateStatus(e, day, row, "VALID")
  BY DEF CalculateStatus, ManualStatus

LEMMA AgeInvariant == Spec => []AgeInv
  <1> USE AgeingAssumption
  <1>1. Init => AgeInv
    BY EngineType DEF Init, AgeInv, TypeOK, Computed, ExpiryStatus, ComputedStatus
  <1>2. AgeInv /\ [Next]_vars => AgeInv'
    <2> SUFFICES ASSUME AgeInv, [Next]_vars PROVE AgeInv'
      OBVIOUS
    <2>1. CASE DayPasses
      BY <2>1 DEF DayPasses, AgeInv, TypeOK, Computed
    <2>2. CASE Recalculate
      <3>1. expiryStatus' \in ExpiryStatus
        BY <2>2, EngineType DEF Recalculate, AgeInv, TypeOK
      <3>2. CASE expiryStatus \in ManualStatus
        BY <2>2, <3>1, <3>2 DEF Recalculate, AgeInv, TypeOK, CalculateStatus
      <3>3. CASE expiryStatus \notin ManualStatus
        <4>1. expiryStatus' = Computed(today) /\ today \in 0..today
          BY <2>2, <3>3, CurrentIsIrrelevant DEF Recalculate, AgeInv, TypeOK, Computed
        <4> QED
          BY <2>2, <3>1, <4>1 DEF Recalculate, AgeInv, TypeOK, Computed
      <3> QED
        BY <3>2, <3>3
    <2>3. ASSUME NEW status \in ManualStatus, Override(status) PROVE AgeInv'
      BY <2>3 DEF Override, AgeInv, TypeOK, ExpiryStatus
    <2>4. CASE UNCHANGED vars
      BY <2>4 DEF vars, AgeInv, TypeOK, Computed
    <2> QED
      BY <2>1, <2>2, <2>3, <2>4 DEF Next
  <1> QED
    BY <1>1, <1>2, PTL DEF Spec

\* The engine never yields a milder status than the one stored as long as the date and
\* the policy stay, for every date, policy and number of days.
THEOREM AgeingNeverImproves == Spec => NeverImproves
  <1> USE AgeingAssumption
  <1>1. AgeInv /\ [Next]_vars =>
            [expiryStatus' \notin ManualStatus => Severity(expiryStatus') >= Severity(expiryStatus)]_vars
    <2> SUFFICES ASSUME AgeInv, Next, expiryStatus' \notin ManualStatus
                 PROVE  Severity(expiryStatus') >= Severity(expiryStatus)
      OBVIOUS
    <2>1. CASE Recalculate
      <3>1. expiryStatus \notin ManualStatus
        BY <2>1 DEF Recalculate, CalculateStatus
      <3>2. expiryStatus' = Computed(today)
        BY <2>1, <3>1, CurrentIsIrrelevant DEF Recalculate, AgeInv, TypeOK, Computed
      <3>3. PICK day \in 0..today : expiryStatus = Computed(day)
        BY <3>1 DEF AgeInv
      <3>4. /\ policy \in ExpiryPolicy /\ expiryDate \in Int \cup {NoDate}
            /\ day \in Int /\ today \in Int /\ day <= today
            /\ "VALID" \in ExpiryStatus /\ "VALID" \notin ManualStatus
        BY DEF AgeInv, TypeOK, ExpiryStatus, ComputedStatus, ManualStatus
      <3> QED
        BY <3>2, <3>3, <3>4, SeverityGrows DEF Computed
    <2>2. CASE ~Recalculate
      <3>1. expiryStatus' = expiryStatus
        BY <2>2 DEF Next, DayPasses, Override
      <3>2. Severity(expiryStatus) \in Int
        BY DEF Severity
      <3> QED
        BY <3>1, <3>2
    <2> QED
      BY <2>1, <2>2
  <1> QED
    BY <1>1, AgeInvariant, PTL DEF Spec, NeverImproves

\* The engine yields nothing but a status of the column's CHECK, whatever was stored before.
THEOREM AgeingTypeOK == Spec => []TypeOK
BY AgeInvariant, PTL DEF AgeInv

\* At every day of a document, the comparison with the widest window decides as the four
\* checks of the comment do.
THEOREM WidestDecides == Spec => []WidestIsFourChecks
<1>1. AgeInv => WidestIsFourChecks
  <2> SUFFICES ASSUME AgeInv, expiryDate # NoDate
               PROVE  FutureStatus(DaysLeft, policy) = FourChecks(DaysLeft, policy)
    BY DEF WidestIsFourChecks
  <2>1. DaysLeft \in Int /\ policy \in ExpiryPolicy
    BY AgeingAssumption DEF AgeInv, TypeOK, DaysLeft, CalendarDaysUntil
  <2> QED
    BY <2>1, EngineIsFourChecks
<1> QED
  BY <1>1, AgeInvariant, PTL
=============================================================================
