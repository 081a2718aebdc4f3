\* Two uploads of one file at the same time, without any fault.
\* It stops when every upload is answered.
CONSTANTS
    c1 = c1  Long = Long  Short = Short  Huge = Huge
    Uploads = {u1, u2}
    Files = {Short}
    RowsOf <- Contents
    Codes = {c1}
    Malformed = Malformed
    Absent = Absent
    MaxImportRows = 3
    MaxStalledCount = 1
    MaxEdits = 0
    MaxFaults = 0
SPECIFICATION Spec
INVARIANTS SameFileIsReplayed
CHECK_DEADLOCK FALSE
