\* Two uploads of two files, or of one, or above the row limit, race with edits of the
\* employee they name, and a fault.  It stops when every upload is answered.
CONSTANTS
    c1 = c1  Long = Long  Short = Short  Huge = Huge
    Uploads = {u1, u2}
    Files = {Long, Short, Huge}
    RowsOf <- Contents
    Codes = {c1}
    Malformed = Malformed
    Absent = Absent
    MaxImportRows = 3
    MaxStalledCount = 1
    MaxEdits = 2
    MaxFaults = 1
SPECIFICATION FairSpec
INVARIANTS TypeOK CountsAreTrue SuccessMeansWritten
PROPERTIES ReplacesWhatItSaw ArchivedStaysArchived PromiseSpec EveryUploadEnds EverySignalEnds
CHECK_DEADLOCK FALSE
