SPECIFICATION FairSpec
CONSTANTS
    Calls = {c1}
    Handlers = {}
    Claims = {}
    Desired <- NarrowOrWide
    OrigSize <- OneGPU
    DefaultSize <- AssumedSize
    MinReplicas = 1
    Behavior <- NoLimits
    MaxGen = 2
    Faulty = TRUE
    None = None
INVARIANTS
    GoneIsUnregistered
PROPERTIES
    DeletionCompletes
    RestoredWhenQuiet
    InUseWhenExclusive
