CONSTANTS
    a = a
    b = b
    w1 = w1
    Workers = {w1}
    Symbols = {a, b}
    Dates <- MCTwoDates
    Weekend = {}
    Ranges <- MCShortRange
    Requests <- MCRequests
    Payloads <- MCPayloads
    Concurrency = 2
    MaxVersion = 2
    MaxRuns = 2
    MaxFaults = 1
SPECIFICATION RerunSpec
INVARIANTS
    TypeOK
    RowsBacked
    QuarantineRecorded
    FinishedRunsLeaveNoGap
    ReportedRowsWereWritten
    FailuresAreFaults
PROPERTIES
    LedgerSpec
    RerunIsIdempotent
    SnapshotsAdvance
    GapsFilled
