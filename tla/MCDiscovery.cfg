SPECIFICATION FairSpec
CONSTANTS
    Service = "svc"
    Objects <- Objs
    KindOf <- Kinds
    OwnerOf <- Owners
    Templates <- Tmpls
    ClassesOf <- Classes
    ClaimsOf <- Claims
    Target = "gpu"
    Volatile <- Moving
    FirstPods <- SomePods
    MaxChanges = 2
    None = None
INVARIANTS
    TypeOK
    FoundIsRight
PROPERTIES
    DiscoveryStays
    DiscoveredAtLast
    StatusSettles
