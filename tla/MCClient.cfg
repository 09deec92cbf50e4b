SPECIFICATION Spec
CONSTANTS
    c1 = c1
    c2 = c2
    Callers = {c1, c2}
    Poll = Poll
    MaxXid = 2
    SockBuf = 1
SYMMETRY Sym
INVARIANTS Lifetimes NothingPendingAfterClose EpollConsistent OnlyWholeRequests
PROPERTY ImplementsRpcCall
