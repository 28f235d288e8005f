SPECIFICATION Spec
CONSTANTS
    Users = {}
    Gauges = {g1, g2}
    Types = {0}
    Week = 2
    WeightVoteDelay = 3
    MaxPower = 1
    Multiplier = 2
    Locks = {}
    Powers = {}
    TypeWeights = {1}
    GaugeWeights = {1}
    Start = 5
    Horizon = 10
    RateReductionTime = 3
    InitialRate = 4
    RateDenominator = 1
    RateCoefficient = 4
    Caps = {1, 2}
    MaxRestrained = 1
    Thresholds = {1}
INVARIANTS ScheduleCoversEmissions
PROPERTIES NothingSkipped
CHECK_DEADLOCK FALSE
SYMMETRY Symmetry
