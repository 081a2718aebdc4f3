\* A document that ages into a threshold while its cached status stays VALID.
\* The model bounds days, jobs, edits and faults: it may stop.
CONSTANTS
    NoDate = NoDate
    d1 = d1  d2 = d2  t1 = t1  t2 = t2  j1 = j1  j2 = j2  j3 = j3
    Docs = {d1}
    Tenants = {t1}
    TenantOf <- OneDocument
    Jobs = {j1, j2}
    PolicyOf <- OneDocShort
    ReminderPolicies <- DayBefore
    Concurrency = 2
    MaxStalledCount = 1
    ExpiryDates = {2}
    MaxDay = 1
    MaxEdits = 0
    MaxFaults = 0
SPECIFICATION Spec
PROPERTIES ScanFindsEveryDueDocument
CHECK_DEADLOCK FALSE
