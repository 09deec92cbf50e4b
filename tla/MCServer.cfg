SPECIFICATION Spec
CONSTANTS
    k1 = k1
    k2 = k2
    r1 = r1
    r2 = r2
    r3 = r3
    Conns = {k1, k2}
    Reqs = {r1, r2}
    Rpc <- MCRpc
    NoId = "none"
    Fast = {"fast"}
    SockBuf = 1
    Poll = Poll
    Owner = Owner
    Nothing = Nothing
SYMMETRY Sym
INVARIANTS Lifetimes ClosedCleanly RepliesCorrect
