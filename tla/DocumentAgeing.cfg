\* All policies with thresholds of up to two days, a document from three days before
\* its expiry to the end of its grace period.  The model stops on its last day.
CONSTANTS
    NoDate = NoDate
    ExpiryDates = {0, 2, 3}
    Policies <- EveryPolicy
    LastDay = 5
SPECIFICATION Spec
INVARIANTS TypeOK WidestIsFourChecks
PROPERTIES NeverImproves
CHECK_DEADLOCK FALSE
