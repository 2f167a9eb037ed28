CONSTANTS
    Clients = {c1, c2}
    Datasets = {"ohlcv", "foreign-flow", "order-book", "benchmark", "events", "news"}
    Files <- MCFiles
    Backfilled <- MCBackfilled
    Nil = Nil
    Text = Text
    NaN = NaN
    Infinite = Infinite
    MaxRequests = 3
    MaxCommits = 3
    MaxFaults = 1
SPECIFICATION Spec
INVARIANTS
    AnsweredRowsAreStored
    CalendarsAreKeyed
