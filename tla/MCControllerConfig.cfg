SPECIFICATION FairSpec
CONSTANTS
    Configs = {c1}
    Autoscalers = {s1}
    Settings <- EndpointsAndLevels
    Parsable <- OnlyA
    Faulty = TRUE
    None = None
INVARIANTS
    TypeOK
PROPERTIES
    EndpointLeftOnlyByRefusal
    MonitorGetsShared
    MonitoredAtLast
    ChangedEndpointTakesEffect
    LogLevelTakesEffect
