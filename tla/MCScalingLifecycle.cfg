SPECIFICATION SteadySpec
CONSTANTS
    Calls = {c1, c2}
    Handlers = {}
    Claims = {}
    Desired <- WideOrMany
    OrigSize <- OneGPU
    DefaultSize <- AssumedSize
    MinReplicas = 1
    Behavior <- NoLimits
    MaxGen = 2
    Faulty = FALSE
    None = None
SYMMETRY Symmetry
INVARIANTS
    TypeOK
    StableRollbackPoint
    UntouchedUntilFinalizer
PROPERTIES
    OneApplyPerGrace
    DesiredTemplateMovesForward
