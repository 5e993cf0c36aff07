SPECIFICATION Spec
CONSTANTS
    Replicas <- SmallReplicas
    GPUs <- SmallGPUs
    Computes <- SmallComputes
    Memories <- SmallMemories
    Behaviors <- NoTightLimit
INVARIANTS
    NeverPastTarget
    StepNearLimit
    StepGetsNearer
PROPERTIES
    Converges
