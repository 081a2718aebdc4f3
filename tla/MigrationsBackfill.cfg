CONSTANTS
    LastFile = 4
    MarkerFile = 2
    Runs = {r1, r2, r3}
    AdoptedInTime = FALSE
    FirstAlone = TRUE
SPECIFICATION Spec
INVARIANTS RecordedWasApplied
CHECK_DEADLOCK FALSE
