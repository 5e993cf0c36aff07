SPECIFICATION FairSpec
CONSTANTS
    Second = 10
    RateUnit = 2
    Hint <- SomeHint
    Arch <- SomeArch
    GPU <- SomeGPU
    Specs <- SomeSpecs
    Samples <- SomeSamples
    Defaults <- DefaultTargets
    MaxRounds = 2
    None = None
CHECK_DEADLOCK FALSE
INVARIANTS
    TypeOK
    EnoughWithinLimits
    FirstThatMeets
    SmallestCompute
PROPERTIES
    OnlyEstimatesRecorded
    EvaluationEnds
