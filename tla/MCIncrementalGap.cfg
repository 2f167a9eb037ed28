CONSTANTS
    a = a
    b = b
    Symbols = {a, b}
    Dates <- MCDates
    Listings <- MCListings
    Histories <- MCHistories
    EndDates <- MCEndDates
    MaxCommands = 3
    MaxFaults = 2
SPECIFICATION Spec
INVARIANT
    GapsAreResumed
