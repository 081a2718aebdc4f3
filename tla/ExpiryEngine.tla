---------------------------- MODULE ExpiryEngine ----------------------------
(***************************************************************************)
(* The Expiry Engine: from the days left until a document expires, the     *)
(* policy of its tenant and the status it has now, the status it gets.     *)
(* The engine is pure; DocumentsService stores its result as a cache.      *)
(*                                                                         *)
(* A calendar date is an integer, the number of UTC days since an epoch.   *)
(***************************************************************************)
EXTENDS Integers

CONSTANT NoDate   \* the NULL of documents.expiry_date

ASSUME NoDateAssumption == NoDate \notin Int

ManualStatus == {"RENEWAL_IN_PROGRESS", "EXCEPTION"}

ComputedStatus == {"VALID", "EXPIRING_SOON", "EXPIRED", "BLOCKED"}

ExpiryStatus == ComputedStatus \cup ManualStatus

\* A row of expiry_policies (its columns carry no CHECK, so any integer).
ExpiryPolicy == [warningDays1 : Int, warningDays2 : Int, warningDays3 : Int,
                 criticalDays : Int, gracePeriodDays : Int, autoBlock : BOOLEAN]

CalendarDaysUntil(expiryDate, today) == expiryDate - today

WarningWindows(policy) ==
    {policy.criticalDays, policy.warningDays3, policy.warningDays2, policy.warningDays1}

\* Mutant: thresholds taken to be in order, the first of them the widest.
FirstWarningWindow(policy) == policy.warningDays1

WidestWarningWindow(policy) ==
    CHOOSE widest \in WarningWindows(policy) :
        \A window \in WarningWindows(policy) : window <= widest

InGracePeriod(days, policy) ==
    policy.gracePeriodDays > 0 /\ days >= -policy.gracePeriodDays

\* Mutant: a status of its own for the grace period.
PastStatusGrace(days, policy) ==
    IF InGracePeriod(days, policy) THEN "GRACE_PERIOD"
    ELSE IF policy.autoBlock THEN "BLOCKED" ELSE "EXPIRED"

PastStatus(days, policy) ==
    IF InGracePeriod(days, policy) THEN "EXPIRING_SOON"
    ELSE IF policy.autoBlock THEN "BLOCKED" ELSE "EXPIRED"

FutureStatus(days, policy) ==
    IF days <= WidestWarningWindow(policy) THEN "EXPIRING_SOON" ELSE "VALID"

\* Mutant: a manual status is computed over.
CalculateStatusAfresh(expiryDate, today, policy, currentStatus) ==
    IF expiryDate = NoDate THEN "VALID"
    ELSE LET days == CalendarDaysUntil(expiryDate, today)
         IN  IF days < 0 THEN PastStatus(days, policy) ELSE FutureStatus(days, policy)

CalculateStatus(expiryDate, today, policy, currentStatus) ==
    IF currentStatus \in ManualStatus THEN currentStatus
    ELSE IF expiryDate = NoDate THEN "VALID"
    ELSE LET days == CalendarDaysUntil(expiryDate, today)
         IN  IF days < 0 THEN PastStatus(days, policy) ELSE FutureStatus(days, policy)

-----------------------------------------------------------------------------
(* What the engine is specified to do: four checks, one after the other,   *)
(* each of them with the outcome EXPIRING_SOON.                            *)

FourChecks(days, policy) ==
    CASE days <= policy.criticalDays -> "EXPIRING_SOON"
      [] days > policy.criticalDays /\ days <= policy.warningDays3 -> "EXPIRING_SOON"
      [] days > policy.criticalDays /\ days > policy.warningDays3
            /\ days <= policy.warningDays2 -> "EXPIRING_SOON"
      [] days > policy.criticalDays /\ days > policy.warningDays3
            /\ days > policy.warningDays2 /\ days <= policy.warningDays1 -> "EXPIRING_SOON"
      [] OTHER -> "VALID"

\* How far a status is from VALID; a manual one ranks with the worst.
Severity(status) ==
    CASE status = "VALID" -> 0
      [] status = "EXPIRING_SOON" -> 1
      [] OTHER -> 2
=============================================================================
