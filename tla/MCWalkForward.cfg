SPECIFICATION WalkForwardSpec
CONSTANTS
    Days <- FourDates
    BenchmarkDates <- TwoDates
    ForeignDates <- TwoDates
    BrokerDates <- TwoDates
    DatedDates <- OneDate
    NewsDates <- OneDate
    Today = 4
    Averages <- ShortWindows
    Returns <- OneWindow
    Month = 1
    Half = 1
    Fortnight = 2
    Week = 1
    Horizon = 1
    MinHistory = 2
INVARIANTS
    IndicatorsAreCausal
    RangesAgree
PROPERTY
    OutcomesAreFinal
