SPECIFICATION FairSpec
CONSTANTS
    Keys = {k1, k2}
    Ids = {e1, e2}
    Timers = {t1, t2}
    Specs = {s1}
    None = None
INVARIANTS
    TypeOK
    NoSilentRegistration
    OneLiveTimer
PROPERTIES
    NoTriggerOnceAbandoned
    ImplementsSampling
    LoopsEnd
    SampledForever
