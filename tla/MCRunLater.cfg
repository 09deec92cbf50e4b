SPECIFICATION FairSpec
CONSTANTS
    j1 = j1
    j2 = j2
    Jobs = {j1, j2}
    Reschedules = {j2}
    Pill = Pill
    Second = 3
    Delays = {0, 2, 4}
    MaxTime = 8
INVARIANTS NothingForgotten NeverOversleeps
PROPERTY JobsRunAndDtorReturns
CHECK_DEADLOCK FALSE
