------------------------- MODULE MCDocumentAgeing ---------------------------
(***************************************************************************)
(* An instance of DocumentAgeing for TLC.                                  *)
(***************************************************************************)
EXTENDS DocumentAgeing

\* Every order of the four thresholds, with and without a day of grace.
EveryPolicy ==
    [warningDays1 : 0..2, warningDays2 : 0..2, warningDays3 : 0..1, criticalDays : 0..1,
     gracePeriodDays : 0..1, autoBlock : BOOLEAN]
=============================================================================
