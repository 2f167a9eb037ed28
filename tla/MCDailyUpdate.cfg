CONSTANTS
    a = a
    w1 = w1
    Workers = {w1}
    Symbols = {a}
    Dates <- MCDates
    Weekend = {3}
    Ranges <- MCRanges
    EndDates <- MCEndDates
    Requests <- MCRequests
    Payloads <- MCPayloads
    Concurrency = 2
    MaxVersion = 1
    MaxRuns = 3
    MaxFaults = 2
SPECIFICATION DailySpec
INVARIANTS
    SkippedDatesAreRecorded
PROPERTIES
    CandlesAreAppended
