SPECIFICATION Spec
CONSTANTS
    Requests = {r1, r2}
    Dates <- TwoDates
    Ttl = 2
    MaxChanges = 2
INVARIANT
    AnswersAreReads
PROPERTY
    EventuallyFresh
