\* Three requests on an employee and a document, from clients that send versions they have read.
\* It stops when every request is answered.
CONSTANTS
    NoDate = NoDate
    e1 = e1  d1 = d1
    Employees = {e1}
    Documents = {d1}
    OwnerOf <- Owner
    Fields = {f1, f2}
    Requests = {r1, r2, r3}
    ComputedStatuses = {"VALID", "EXPIRING_SOON"}
    ObservedVersions = TRUE
    Initial = Initial
    Absent = Absent
    MaxVersion = 3
    MaxFaults = 1
SPECIFICATION Spec
SYMMETRY Symmetry
INVARIANTS TypeOK OneWinnerPerVersion AuditTrailIsOneHistory AuditIsAtomic WaitsForOneThatGoesOn
PROPERTIES NoLostUpdate OverrideSticks StoreSpec
CHECK_DEADLOCK FALSE
