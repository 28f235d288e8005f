SPECIFICATION DistributorSpec
CONSTANTS
    Users = {alice, bob}
    Week = 2
    MaxTime = 3
    Values = {3}
    Horizon = 6
    CheckpointGap = 5
    LastLock = 2
    MaxUserPoints = 2
    Tokens = {1}
    StartTime = 2
    Day = 1
    MaxWeeks = 1
    MaxUserSteps = 3
    EpochGap = 1
    Amounts = {3}
    MaxReceived = 3
SYMMETRY Symmetry
INVARIANTS SupplyIsSum CachesAreRight ShareOfEachWeekOnce Covered
CHECK_DEADLOCK FALSE
