SPECIFICATION SteadySpec
CONSTANTS
    Calls = {c1}
    Handlers = {h1}
    Claims = {k1}
    Desired <- NarrowOrWide
    OrigSize <- OneGPU
    DefaultSize <- AssumedSize
    MinReplicas = 1
    Behavior <- NoLimits
    MaxGen = 2
    Faulty = FALSE
    None = None
INVARIANTS
    InUseTemplateExists
