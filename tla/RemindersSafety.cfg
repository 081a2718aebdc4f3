\* One document, three interchangeable jobs, two edits or manual scans, one fault.
\* The model bounds days, jobs, edits and faults: it may stop.
CONSTANTS
    NoDate = NoDate
    d1 = d1  d2 = d2  t1 = t1  t2 = t2  j1 = j1  j2 = j2  j3 = j3
    Docs = {d1}
    Tenants = {t1}
    TenantOf <- OneDocument
    Jobs = {j1, j2, j3}
    PolicyOf <- OneDocPolicy
    ReminderPolicies <- AlwaysOn
    Concurrency = 2
    MaxStalledCount = 1
    ExpiryDates = {2}
    MaxDay = 0
    MaxEdits = 2
    MaxFaults = 1
SPECIFICATION Spec
SYMMETRY JobSymmetry
INVARIANTS TypeOK SettledOnce KeyClaimedIffSettled SentWasDelivered CompletedIsAccounted
PROPERTIES ClosedReminderIsQuiet LedgerSpec
CHECK_DEADLOCK FALSE
