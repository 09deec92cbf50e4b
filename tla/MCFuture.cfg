SPECIFICATION FairSpec
CONSTANTS
    Waiters = {w1}
    TimedWaiters = {t1, t2}
    Answer = "ENOTCONN"
    Second = 3
    Sec <- MCSec
    MaxSpurious = 2
    w1 = w1
    t1 = t1
    t2 = t2
INVARIANTS AnswerOrTimeout CallbackRan
PROPERTIES TimedWaitReturns
CHECK_DEADLOCK FALSE
