--------------------------- MODULE DocumentAgeing ---------------------------
(***************************************************************************)
(* One document as the days pass: every request that changes it has the    *)
(* Expiry Engine recompute its status from the status stored before.       *)
(***************************************************************************)
EXTENDS ExpiryEngine

CONSTANTS
    ExpiryDates,    \* bound: the dates the document may expire on
    Policies,       \* bound: the policies of its type
    LastDay         \* bound: the last day modelled

ASSUME AgeingAssumption ==
    ExpiryDates \subseteq Int /\ Policies \subseteq ExpiryPolicy /\ LastDay \in Nat

VARIABLES today, policy, expiryDate, expiryStatus

vars == <<today, policy, expiryDate, expiryStatus>>

\* POST of the document on day 0.
Init ==
    /\ today = 0
    /\ policy \in Policies
    /\ expiryDate \in ExpiryDates \cup {NoDate}
    /\ expiryStatus = CalculateStatus(expiryDate, today, policy, "VALID")

DayPasses ==
    /\ today < LastDay
    /\ today' = today + 1
    /\ UNCHANGED <<policy, expiryDate, expiryStatus>>

\* PATCH without a manual status.
Recalculate ==
    /\ expiryStatus' = CalculateStatus(expiryDate, today, policy, expiryStatus)
    /\ UNCHANGED <<today, policy, expiryDate>>

\* PATCH with one.
Override(status) ==
    /\ expiryStatus' = status
    /\ UNCHANGED <<today, policy, expiryDate>>

Next == DayPasses \/ Recalculate \/ \E status \in ManualStatus : Override(status)

Spec == Init /\ [][Next]_vars

-----------------------------------------------------------------------------
(* Properties *)

\* The engine only ever yields a status of the column's CHECK.
TypeOK ==
    /\ today \in 0..LastDay
    /\ policy \in Policies
    /\ expiryDate \in ExpiryDates \cup {NoDate}
    /\ expiryStatus \in ExpiryStatus

DaysLeft == CalendarDaysUntil(expiryDate, today)

\* "Within any of the four thresholds" is "within the widest one", in whatever order a
\* tenant's thresholds come: the code's one comparison does what the four checks do.
WidestIsFourChecks ==
    expiryDate # NoDate /\ DaysLeft >= 0 => FutureStatus(DaysLeft, policy) = FourChecks(DaysLeft, policy)

\* The status of a document whose date and policy stay only gets worse: no day, no
\* boundary of a window, no end of a grace period brings it back, and the engine never
\* takes back a manual status (which ranks with the worst).
NeverImproves ==
    [][expiryStatus' \notin ManualStatus => Severity(expiryStatus') >= Severity(expiryStatus)]_vars
=============================================================================
