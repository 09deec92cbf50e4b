SPECIFICATION FairSpec
CONSTANTS
    p1 = p1
    p2 = p2
    p3 = p3
    f1 = f1
    f2 = f2
    Pollables = {p1, p2, p3}
    Fds = {f1, f2}
    NoFd = NoFd
    Nobody = Nobody
INVARIANTS RegistrationRight NoDanglingPollable
PROPERTIES RemovedIsReleased
