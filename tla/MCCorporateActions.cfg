CONSTANTS
    Workers = {w1, w2}
    Symbols = {"BBCA", "XXXX"}
    Registered = {"BBCA"}
    Dates <- MCDates
    Sessions = {1, 2}
    Types = {"split", "rights"}
    SplitTypes = {"split"}
    Payloads <- MCPayloads
    Waiting = Waiting
    Failed = Failed
    Done = Done
    MaxCommands = 2
    MaxRevisions = 1
    MaxFaults = 1
SPECIFICATION Spec
INVARIANTS
    OneEventPerAction
    OneRebuild
    FactorsFollowSplits
