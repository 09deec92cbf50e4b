SPECIFICATION Spec
CONSTANTS
    a1 = a1
    r1 = r1
    r2 = r2
    big = big
    Addrs = {a1}
    NoAddr = NoAddr
    parallel_connections_ = 2
    MaxClients = 3
    Reqs = {r1, r2, big}
    Size <- MCSize
    MaxUdp = 4
    Nobody = Nobody
INVARIANTS ClientsAccounted DatagramsWhole PollThreadNeverBlocks ConnectionAlive
CHECK_DEADLOCK FALSE
