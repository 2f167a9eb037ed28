CONSTANTS
    c1 = c1
    c2 = c2
    Clients = {c1, c2}
    Cooldown = 2
    BootClocks <- MCBootClocks
    MaxClock = 4
    MaxJobs = 2
    MaxServers = 2
    MaxFaults = 1
SPECIFICATION FairSpec
INVARIANTS
    TypeOK
    LiveProcessHoldsSlot
    StartsAreSpaced
    AnswersAreHonest
PROPERTY
    JobsEnd
