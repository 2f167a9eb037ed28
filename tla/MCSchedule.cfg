SPECIFICATION ScheduleSpec
CONSTANTS
    HoursPerDay = 3
    Hour = 1
    MaxLate = 1
    Horizon = 26
    MaxOutages = 2
INVARIANT
    MissedSlotsAreExplained
PROPERTY
    OneLaunchPerWeekday
