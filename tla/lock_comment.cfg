CONSTANTS
    Threads = {t1, t2, t3}
    Emails = {e1, e2}
    NoMutex = NoMutex
SYMMETRY Symmetry
SPECIFICATION Spec
INVARIANTS MutualExclusion
