SPECIFICATION Spec
CONSTANTS
    Users = {}
    Gauges = {g1, g2}
    Types = {0}
    Week = 2
    WeightVoteDelay = 3
    MaxPower = 1
    Multiplier = 2
    Locks = {}
    Powers = {}
    TypeWeights = {1}
    GaugeWeights = {1}
    Start = 5
    Horizon = 12
    RateReductionTime = 3
    InitialRate = 16
    RateDenominator = 1
    RateCoefficient = 4
    Caps = {2}
    MaxRestrained = 0
    Thresholds = {}
INVARIANTS AllEmissionsAreCovered
CHECK_DEADLOCK FALSE
SYMMETRY Symmetry
