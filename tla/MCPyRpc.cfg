SPECIFICATION FairSpec
CONSTANTS
    c1 = c1
    c2 = c2
    Callers = {c1, c2}
    Owner = Owner
    Nobody = Nobody
    f1 = f1
    Funcs = {f1}
INVARIANTS FreedFuncOnlyInFlight FutureReleasedOnce
PROPERTY NoGILDeadlock
CHECK_DEADLOCK FALSE
