---------------------------- MODULE MCReminders -----------------------------
(***************************************************************************)
(* Instances of Reminders for TLC.                                         *)
(***************************************************************************)
EXTENDS Reminders, TLC

CONSTANTS d1, d2, t1, t2, j1, j2, j3

OneDocument == [d \in {d1} |-> t1]
TwoTenants == (d1 :> t1) @@ (d2 :> t2)

\* A warning window of one day, and grace of none.
ShortWindow == [d \in {d1, d2} |->
    [warningDays1 |-> 1, warningDays2 |-> 1, warningDays3 |-> 0, criticalDays |-> 0,
     gracePeriodDays |-> 0, autoBlock |-> FALSE]]

\* A window of two days and a day of grace.
LongWindow == [d \in {d1, d2} |->
    [warningDays1 |-> 2, warningDays2 |-> 1, warningDays3 |-> 1, criticalDays |-> 0,
     gracePeriodDays |-> 1, autoBlock |-> TRUE]]

OneDocPolicy == [d \in {d1} |-> LongWindow[d]]
OneDocShort == [d \in {d1} |-> ShortWindow[d]]

OnOff == {[enabled |-> on, reminderDaysBefore |-> {1}] : on \in BOOLEAN}
AlwaysOn == {[enabled |-> TRUE, reminderDaysBefore |-> {1, 2}]}
DayBefore == {[enabled |-> TRUE, reminderDaysBefore |-> {1}]}

JobSymmetry == Permutations(Jobs)
=============================================================================
