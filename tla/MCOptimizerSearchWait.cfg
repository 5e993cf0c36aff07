SPECIFICATION Spec
CONSTANTS
    Second = 10
    RateUnit = 2
    Hint <- SomeHint
    Arch <- SomeArch
    GPU <- SomeGPU
    Specs <- SomeSpecs
    Samples <- SomeSamples
    Defaults <- DefaultTargets
    MaxRounds = 1
    None = None
CHECK_DEADLOCK FALSE
INVARIANTS
    WaitAddsToService
