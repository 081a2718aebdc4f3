\* Two tenants with a document each, one job at a time: the scanner among edits and faults,
\* on two days, under the fairness of a worker that is up.
\* The model bounds days, jobs, edits and faults: it may stop.
CONSTANTS
    NoDate = NoDate
    d1 = d1  d2 = d2  t1 = t1  t2 = t2  j1 = j1  j2 = j2  j3 = j3
    Docs = {d1, d2}
    Tenants = {t1, t2}
    TenantOf <- TwoTenants
    Jobs = {j1, j2}
    PolicyOf <- LongWindow
    ReminderPolicies <- OnOff
    Concurrency = 1
    MaxStalledCount = 1
    ExpiryDates = {2}
    MaxDay = 1
    MaxEdits = 1
    MaxFaults = 1
SPECIFICATION FairSpec
PROPERTIES ScanLeavesNoneBehind EveryJobEnds EveryScanEnds
CHECK_DEADLOCK FALSE
