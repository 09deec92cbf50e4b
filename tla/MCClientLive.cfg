SPECIFICATION FairSpec
CONSTANTS
    c1 = c1
    c2 = c2
    Callers = {c1}
    Poll = Poll
    MaxXid = 2
    SockBuf = 1
PROPERTIES CloseWakesWaiters RequestsSent
