SPECIFICATION Spec
CONSTANTS
    Calls = {c1}
    Handlers = {h1}
    Claims = {k1}
    Desired <- WideOrMany
    OrigSize <- OneGPU
    DefaultSize <- AssumedSize
    MinReplicas = 1
    Behavior <- NoLimits
    MaxGen = 2
    Faulty = TRUE
    None = None
INVARIANTS
    StableRollbackPoint
PROPERTIES
    DesiredTemplateMovesForward
