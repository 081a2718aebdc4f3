CONSTANTS
    LastFile = 4
    MarkerFile = 2
    Runs = {r1, r2, r3}
    AdoptedInTime = TRUE
    FirstAlone = TRUE
SPECIFICATION Spec
INVARIANTS TypeOK TrackedAsApplied DoneMeansUpToDate
CHECK_DEADLOCK FALSE
