SPECIFICATION Spec
CONSTANTS
    Keys = {k1}
    Ids = {e1, e2}
    Timers = {t1, t2}
    Specs = {s1}
    None = None
INVARIANTS
    NeverPanics
