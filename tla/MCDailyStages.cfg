CONSTANTS
    Names = {"COMPOSITE", "IHSG", "AK"}
    Brokers = {"AK"}
    Aliases = {"COMPOSITE", "IHSG"}
    NoName = "none"
    Dates <- MCDates
    Weekend = {}
    Ranges <- MCRanges
    IndexPayloads <- MCIndexes
    BrokerPayloads <- MCBrokers
    EndDates <- MCEndDates
    Concurrency = 2
    None = None
    MaxRuns = 2
    MaxFaults = 1
    MaxRevisions = 1
    MaxImports = 1
SPECIFICATION DailySpec
INVARIANTS
    NoSilentGap
    IndexGapsExplained
    GapsLieBehindImports
PROPERTY
    BoardSpec
