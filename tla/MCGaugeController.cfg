SPECIFICATION ControllerSpec
CONSTANTS
    Users = {alice}
    Gauges = {g1, g2}
    Types = {0, 1}
    Week = 2
    WeightVoteDelay = 3
    MaxPower = 2
    Multiplier = 4
    Locks <- TwoLocks
    Powers = {0, 1, 2}
    TypeWeights = {1}
    GaugeWeights = {0, 1}
    Start = 4
    Horizon = 8
INVARIANTS WeightsAreVotes SumsAddUp
PROPERTIES PastIsFinal
CHECK_DEADLOCK FALSE
SYMMETRY Symmetry
