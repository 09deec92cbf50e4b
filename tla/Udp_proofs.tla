----------------------------- MODULE Udp_proofs -----------------------------
(***************************************************************************)
(* Proofs about what client.cc has beside Client:                          *)
(*   - Future, for any number of threads in wait() and timed_wait();       *)
(*   - ClientPool and the UDP transport, for any addresses, clients and    *)
(*     requests, sizes and limits: no client is lost by the pool, each     *)
(*     datagram is a whole request, the poll thread never blocks, and the  *)
(*     server's connection object lives as long as it is used.             *)
(***************************************************************************)
EXTENDS Udp, Future, FiniteSetTheorems, WellFoundedInduction, TLAPS

-----------------------------------------------------------------------------
(* One future and the threads that wait for it                             *)

\* Somebody reported or will report the timeout: the thread that set
\* timed_out_ is on its way to the callback, or a callback has run.
TimeoutReported ==
    timed_out_ => \/ callbacks > 0
                  \/ \E t \in TimedWaiters : pc[t] \in {"left", "late"}

\* The inductive invariant: the loop is left only for a reason, the answer is
\* stored before ready_ is set, and a callback follows each of the two outcomes.
FutureInv ==
    /\ TypeOK
    /\ \A t \in Callers : pc[t] \in {"left", "late", "done"} => ready_ \/ timed_out_
    /\ \A t \in Callers : pc[t] = "late" => timed_out_
    /\ \A t \in Callers : pc[t] = "expired" => t \in TimedWaiters
    /\ ready_ => deliverer \in {"notified", "done"}
    /\ deliverer \in {"notified", "done"} => ready_ \/ timed_out_
    /\ (deliverer # "start" /\ ~timed_out_) => error_code_ = Answer
    /\ AnswerOrTimeout
    /\ (deliverer = "done" /\ ready_) => callbacks > 0
    /\ ~timed_out_ => callbacks = IF deliverer = "done" THEN 1 ELSE 0
    /\ TimeoutReported

\* The initial state satisfies the inductive invariant.
LEMMA FutureBegins == FutureInit => FutureInv
<1> SUFFICES ASSUME FutureInit PROVE FutureInv
    OBVIOUS
<1> USE FutureAssumption DEF Callers, WaitPlaces
<1>1. TypeOK
    <2>1. pc \in [Callers -> WaitPlaces] /\ spurious \in 0 .. MaxSpurious
        BY DEF FutureInit
    <2>2. remaining \in [TimedWaiters -> Nat]
        BY Zenon DEF FutureInit
    <2> QED BY <2>1, <2>2 DEF FutureInit, TypeOK
<1>2. ~ready_ /\ ~timed_out_ /\ \A t \in Callers : pc[t] = "call"
    BY DEF FutureInit
<1> QED BY <1>1, <1>2 DEF FutureInit, FutureInv, TimeoutReported, AnswerOrTimeout

\* The clock, a deadline that passes and a wake-up touch nothing of the future.
LEMMA FutureTimeSteps ==
    ASSUME FutureInv, Tick \/ \E t \in Callers : Expire(t) \/ WakeUp(t)
    PROVE  FutureInv'
<1> USE FutureAssumption
    DEF FutureInv, TimeoutReported, AnswerOrTimeout, TypeOK, Callers, WaitPlaces, Goto, state, time
<1>1. ASSUME NEW t \in Callers, Expire(t) PROVE FutureInv'
    BY <1>1 DEF Expire
<1>2. ASSUME NEW t \in Callers, WakeUp(t) PROVE FutureInv'
    BY <1>2 DEF WakeUp
<1>3. CASE Tick
    <2>1. (now + 1) % Second \in 0 .. Second - 1
        OBVIOUS
    <2>2. now' \in 0 .. Second - 1 /\ remaining' \in [TimedWaiters -> Nat]
        BY <1>3, <2>1 DEF Tick
    <2> QED BY <1>3, <2>2 DEF Tick
<1> QED BY <1>1, <1>2, <1>3

\* Every step of every thread preserves it.
LEMMA FutureSteps == FutureInv /\ [FutureNext]_futurevars => FutureInv'
<1> SUFFICES ASSUME FutureInv, [FutureNext]_futurevars PROVE FutureInv'
    OBVIOUS
<1> USE FutureAssumption
    DEF FutureInv, TimeoutReported, AnswerOrTimeout, TypeOK, Callers, WaitPlaces, Goto, state, time
<1>1. ASSUME NEW t \in Callers, ExitLoop(t) PROVE FutureInv'
    BY <1>1 DEF ExitLoop
<1>2. ASSUME NEW t \in Callers, CondWait(t) \/ CondTimedwait(t) PROVE FutureInv'
    <2>1. CASE CondWait(t)
        BY <2>1 DEF CondWait, Repeat
    <2>2. CASE CondTimedwait(t)
        <3>1. CASE Uncarried(t)
            BY <2>2, <3>1 DEF CondTimedwait, Repeat
        <3>2. CASE ~Uncarried(t)
            BY <2>2, <3>2 DEF CondTimedwait, Repeat
        <3> QED BY <3>1, <3>2
    <2> QED BY <1>2, <2>1, <2>2
<1>3. ASSUME NEW t \in Callers, SetTimedOut(t) PROVE FutureInv'
    BY <1>3 DEF SetTimedOut
<1>4. ASSUME NEW t \in Callers, Leave(t) PROVE FutureInv'
    <2>1. CASE t \in TimedWaiters /\ timed_out_
        BY <1>4, <2>1 DEF Leave
    <2>2. CASE ~(t \in TimedWaiters /\ timed_out_)
        BY <1>4, <2>2 DEF Leave
    <2> QED BY <2>1, <2>2
<1>5. ASSUME NEW t \in Callers, LateCallback(t) PROVE FutureInv'
    BY <1>5 DEF LateCallback
<1>6. CASE Deliver
    BY <1>6 DEF Deliver
<1>7. CASE notify_ready
    <2>1. CASE \E t \in Callers : pc[t] = "asleep"
        <3> PICK t \in Callers : pc[t] = "asleep" /\ pc' = [pc EXCEPT ![t] = "signalled"]
            BY <1>7, <2>1 DEF notify_ready, Signal
        <3> QED BY <1>7 DEF notify_ready
    <2>2. CASE ~\E t \in Callers : pc[t] = "asleep"
        BY <1>7, <2>2 DEF notify_ready, Signal
    <2> QED BY <2>1, <2>2
<1>8. CASE ReadyCallback
    BY <1>8 DEF ReadyCallback
<1>9. CASE UNCHANGED futurevars
    BY <1>9 DEF futurevars
<1> HIDE DEF FutureInv
<1> QED
    BY <1>1, <1>2, <1>3, <1>4, <1>5, <1>6, <1>7, <1>8, <1>9, FutureTimeSteps
    DEF FutureNext, Caller, Notifier

\* The fields of the future and the clock keep their types.
THEOREM FutureTypeCorrect == FutureSpec => []TypeOK
<1>1. FutureInv => TypeOK
    BY DEF FutureInv
<1> QED BY <1>1, FutureBegins, FutureSteps, PTL DEF FutureSpec

\* wait() and timed_wait() return with the delivered error code stored or, after
\* a timeout, ETIMEDOUT: however many threads wait, none but a wait() that another
\* thread's timeout let go sees the initial 0.
THEOREM AnswerStored == FutureSpec => []AnswerOrTimeout
<1>1. FutureInv => AnswerOrTimeout
    BY DEF FutureInv
<1> QED BY <1>1, FutureBegins, FutureSteps, PTL DEF FutureSpec

\* The callback is not lost in the race between the answer and the deadline, nor
\* run again without a timeout.
THEOREM CallbackNotLost == FutureSpec => []CallbackRan
<1>1. FutureInv => CallbackRan
    BY DEF FutureInv, CallbackRan, Quiet, Callers, TypeOK, TimeoutReported
<1> QED BY <1>1, FutureBegins, FutureSteps, PTL DEF FutureSpec

-----------------------------------------------------------------------------
(* The bytes of a buffer                                                   *)

\* Induction in the form that the proofs use: a set of numbers has a least one.
LEMMA SmallestNat ==
    ASSUME NEW T, T \subseteq Nat, T # {}
    PROVE  \E x \in T : \A y \in T : x <= y
<1>1. PICK x \in T : \A y \in T : <<y, x>> \notin OpToRel(<, Nat)
    BY NatLessThanWellFounded, WFMin, Zenon
<1>2. ASSUME NEW y \in T PROVE ~(y < x)
    BY <1>1, Zenon DEF OpToRel
<1> QED BY <1>2

\* f holds the sums of the first k sizes of s, as the function in Bytes does.
Sums(s, k, f) == f = [n \in 0 .. k |-> IF n = 0 THEN 0 ELSE f[n - 1] + Size[s[n]]]

\* There is such a function, and its values are numbers of bytes.
LEMMA SumsExist ==
    ASSUME NEW s \in Seq(Reqs)
    PROVE  \E f \in [0 .. Len(s) -> Nat] : Sums(s, Len(s), f)
<1> DEFINE Lacks(k) == ~\E f \in [0 .. k -> Nat] : Sums(s, k, f)
           T == {k \in 0 .. Len(s) : Lacks(k)}
<1> USE UdpAssumption
<1>1. T = {}
    <2> SUFFICES ASSUME T # {} PROVE FALSE
        OBVIOUS
    <2>1. T \subseteq Nat
        OBVIOUS
    <2>2. PICK k \in T : \A j \in T : k <= j
        <3> HIDE DEF T
        <3> QED BY <2>1, SmallestNat
    <2>3. k \in 0 .. Len(s) /\ Lacks(k)
        BY <2>2
    <2>4. k # 0
        <3> DEFINE f == [n \in 0 .. 0 |-> 0]
        <3>1. f \in [0 .. 0 -> Nat] /\ Sums(s, 0, f)
            BY DEF Sums
        <3> QED BY <2>3, <3>1
    <2>5. k - 1 \in 0 .. Len(s) /\ k - 1 \notin T
        <3>1. k \in Nat /\ k - 1 \in 0 .. Len(s)
            BY <2>3, <2>4
        <3> HIDE DEF T
        <3> QED BY <2>2, <3>1
    <2>6. PICK f \in [0 .. k - 1 -> Nat] : Sums(s, k - 1, f)
        BY <2>5
    <2> DEFINE g == [n \in 0 .. k |-> IF n = k THEN f[k - 1] + Size[s[k]] ELSE f[n]]
    <2>7. g \in [0 .. k -> Nat]
        <3>1. Size[s[k]] \in Nat
            BY <2>3, <2>4
        <3> QED BY <2>3, <2>4, <3>1
    <2>8. Sums(s, k, g)
        <3>1. ASSUME NEW n \in 0 .. k
              PROVE  g[n] = IF n = 0 THEN 0 ELSE g[n - 1] + Size[s[n]]
            <4>1. CASE n = k
                BY <2>3, <2>4, <4>1
            <4>2. CASE n # k
                <5>1. n \in 0 .. k - 1 /\ (n # 0 => n - 1 \in 0 .. k - 1)
                    BY <2>3, <2>4, <4>2
                <5>2. f[n] = IF n = 0 THEN 0 ELSE f[n - 1] + Size[s[n]]
                    BY <2>6, <5>1 DEF Sums
                <5>3. g[n] = f[n] /\ (n # 0 => g[n - 1] = f[n - 1])
                    BY <2>3, <2>4, <4>2, <5>1
                <5> QED BY <5>2, <5>3
            <4> QED BY <4>1, <4>2
        <3> HIDE DEF g
        <3>2. DOMAIN g = 0 .. k /\ g = [n \in DOMAIN g |-> g[n]]
            BY <2>7
        <3> QED BY <3>1, <3>2 DEF Sums
    <2> QED BY <2>3, <2>7, <2>8
<1>2. Len(s) \in 0 .. Len(s)
    OBVIOUS
<1> QED BY <1>1, <1>2

\* t begins with s.
Begins(s, t) == Len(s) <= Len(t) /\ \A i \in 1 .. Len(s) : s[i] = t[i]

\* Sequences that begin alike have the same sums there.
LEMMA SumsAgree ==
    ASSUME NEW a \in Seq(Reqs), NEW b \in Seq(Reqs), Begins(a, b),
           NEW x, NEW y, Sums(a, Len(a), x), Sums(b, Len(b), y)
    PROVE  x[Len(a)] = y[Len(a)]
<1> DEFINE T == {n \in 0 .. Len(a) : x[n] # y[n]}
<1> SUFFICES ASSUME T # {} PROVE FALSE
    <2>1. Len(a) \in 0 .. Len(a)
        OBVIOUS
    <2> QED BY <2>1
<1>1. PICK n \in T : \A m \in T : n <= m
    <2>1. T \subseteq Nat
        OBVIOUS
    <2> HIDE DEF T
    <2> QED BY <2>1, SmallestNat
<1>2. /\ x[n] = IF n = 0 THEN 0 ELSE x[n - 1] + Size[a[n]]
      /\ y[n] = IF n = 0 THEN 0 ELSE y[n - 1] + Size[b[n]]
    BY <1>1 DEF Sums, Begins
<1>3. n # 0
    BY <1>1, <1>2
<1>4. n - 1 \in 0 .. Len(a) /\ n - 1 \notin T
    BY <1>1, <1>3
<1> QED BY <1>1, <1>2, <1>3, <1>4 DEF Begins

\* Bytes(s) is the last of the sums.
LEMMA BytesAreSums ==
    ASSUME NEW s \in Seq(Reqs)
    PROVE  \E f \in [0 .. Len(s) -> Nat] : Sums(s, Len(s), f) /\ Bytes(s) = f[Len(s)]
<1> DEFINE b == CHOOSE f : Sums(s, Len(s), f)
<1>1. PICK f \in [0 .. Len(s) -> Nat] : Sums(s, Len(s), f)
    BY SumsExist
<1>2. Sums(s, Len(s), b)
    BY <1>1
<1>3. Bytes(s) = b[Len(s)]
    BY DEF Bytes, Sums
<1>4. b[Len(s)] = f[Len(s)]
    <2> HIDE DEF b
    <2>1. Begins(s, s)
        BY DEF Begins
    <2> QED BY <1>1, <1>2, <2>1, SumsAgree
<1> QED BY <1>1, <1>3, <1>4

\* A request adds its size to the buffer.
LEMMA BytesOfAppend ==
    ASSUME NEW s \in Seq(Reqs), NEW r \in Reqs
    PROVE  /\ Bytes(s) \in Nat
           /\ Bytes(Append(s, r)) = Bytes(s) + Size[r]
<1>1. PICK t \in Seq(Reqs) :
          /\ t = Append(s, r) /\ Len(t) = Len(s) + 1 /\ t[Len(t)] = r
          /\ \A i \in 1 .. Len(s) : s[i] = t[i]
    <2> DEFINE u == Append(s, r)
    <2>1. /\ u \in Seq(Reqs) /\ Len(u) = Len(s) + 1 /\ u[Len(u)] = r
          /\ \A i \in 1 .. Len(s) : s[i] = u[i]
        OBVIOUS
    <2>2. u = Append(s, r)
        OBVIOUS
    <2> HIDE DEF u
    <2> QED BY <2>1, <2>2, Zenon
<1>2. PICK f \in [0 .. Len(s) -> Nat] : Sums(s, Len(s), f) /\ Bytes(s) = f[Len(s)]
    BY BytesAreSums
<1>3. PICK g \in [0 .. Len(t) -> Nat] : Sums(t, Len(t), g) /\ Bytes(t) = g[Len(t)]
    BY BytesAreSums, <1>1
<1>4. f[Len(s)] = g[Len(s)]
    <2>1. Begins(s, t)
        BY <1>1 DEF Begins
    <2> QED BY <1>2, <1>3, <2>1, SumsAgree
<1>5. g[Len(t)] = g[Len(s)] + Size[r]
    <2>1. Len(t) \in 0 .. Len(t) /\ Len(t) # 0 /\ Len(t) - 1 = Len(s)
        BY <1>1
    <2> QED BY <1>1, <1>3, <2>1 DEF Sums
<1>6. Bytes(s) \in Nat
    BY <1>1, <1>2
<1> QED BY <1>2, <1>3, <1>4, <1>5, <1>6, <1>1

-----------------------------------------------------------------------------
(* The pool                                                                *)

PoolTyped ==
    /\ cache_ \in [Addrs -> Seq(Clients)]
    /\ making \in Addrs \cup {NoAddr} /\ fresh \in Seq(Clients)
    /\ status_ \in [Clients -> {"none", "NEW", "CONNECTED", "CLOSED", "released"}]
    /\ sock_ \in [Clients -> {"none", "open", "closed"}]
    /\ got \subseteq Clients /\ destroyed \in BOOLEAN

\* get_client works on an address without clients, and a known address has all its clients.
PoolCalls ==
    /\ making = NoAddr => fresh = <<>>
    /\ making # NoAddr => ~destroyed /\ cache_[making] = <<>>
    /\ \A a \in Addrs : cache_[a] # <<>> => Len(cache_[a]) = parallel_connections_

\* A client that was made and not released is in the new array or in the cache.
InFresh(c) == \E i \in 1 .. Len(fresh) : fresh[i] = c
InCache(c) == \E a \in Addrs : \E i \in 1 .. Len(cache_[a]) : cache_[a][i] = c

PoolKeeps ==
    /\ \A c \in Clients : status_[c] = "NEW" => InFresh(c)
    /\ \A c \in Clients : status_[c] \in {"CONNECTED", "CLOSED"} => InFresh(c) \/ InCache(c)
    /\ destroyed => \A c \in Clients : status_[c] \notin {"CONNECTED", "CLOSED"}
    /\ \A c \in Clients : sock_[c] = "open" => status_[c] = "CONNECTED"
    /\ \A c \in got : InCache(c)

PoolIInv == PoolTyped /\ PoolCalls /\ PoolKeeps

\* The pool's initial state satisfies its invariant.
LEMMA PoolInitIInv == PoolInit => PoolIInv
<1> SUFFICES ASSUME PoolInit PROVE PoolIInv
    OBVIOUS
<1>1. PoolTyped
    <2>1. cache_ \in [Addrs -> Seq(Clients)] /\ fresh \in Seq(Clients)
        BY DEF PoolInit
    <2> QED BY <2>1 DEF PoolInit, PoolTyped
<1>2. PoolCalls
    BY DEF PoolInit, PoolCalls
<1>3. PoolKeeps
    BY DEF PoolInit, PoolKeeps
<1> QED BY <1>1, <1>2, <1>3 DEF PoolIInv

\* Every step of the pool preserves it.
LEMMA PoolNextIInv == PoolIInv /\ PoolNext => PoolIInv'
<1> SUFFICES ASSUME PoolIInv, PoolNext PROVE PoolIInv'
    OBVIOUS
<1> USE PoolAssumption DEF PoolIInv
<1>1. ASSUME NEW a \in Addrs, GetCached(a) PROVE PoolIInv'
    <2>1. PICK i \in 1 .. parallel_connections_ : got' = got \cup {cache_[a][i]}
        BY <1>1 DEF GetCached
    <2>2. cache_[a][i] \in Clients /\ InCache(cache_[a][i])
        BY <1>1, <2>1 DEF GetCached, PoolTyped, PoolCalls, InCache
    <2>3. PoolTyped' /\ PoolCalls'
        BY <1>1, <2>1, <2>2 DEF GetCached, PoolTyped, PoolCalls
    <2>4. PoolKeeps'
        <3>1. \A c : (InCache(c)' <=> InCache(c)) /\ (InFresh(c)' <=> InFresh(c))
            BY <1>1 DEF GetCached, InFresh, InCache
        <3> QED BY <1>1, <2>1, <2>2, <3>1 DEF GetCached, PoolTyped, PoolKeeps
    <2> QED BY <2>3, <2>4
<1>2. ASSUME NEW a \in Addrs, GetNew(a) PROVE PoolIInv'
    BY <1>2 DEF GetNew, PoolTyped, PoolCalls, PoolKeeps, InFresh, InCache
<1>3. ASSUME NEW tcp \in BOOLEAN, NEW udp \in BOOLEAN, Connect(tcp, udp) PROVE PoolIInv'
    <2>1. PICK c \in Clients :
            /\ status_[c] = "none"
            /\ fresh' = Append(fresh, c)
            /\ status_' = [status_ EXCEPT ![c] = IF tcp /\ udp THEN "CONNECTED" ELSE "NEW"]
            /\ sock_' = [sock_ EXCEPT ![c] = IF ~tcp THEN "none"
                                             ELSE IF udp THEN "open" ELSE "closed"]
        BY <1>3 DEF Connect
    <2>2. UNCHANGED <<cache_, making, got, destroyed>> /\ making # NoAddr
        BY <1>3 DEF Connect
    <2>3. PoolTyped' /\ PoolCalls'
        BY <2>1, <2>2 DEF PoolTyped, PoolCalls
    <2>4. /\ InFresh(c)'
          /\ \A d \in Clients : InFresh(d) => InFresh(d)'
        <3>1. /\ Len(fresh') = Len(fresh) + 1 /\ Len(fresh) \in Nat
              /\ fresh'[Len(fresh) + 1] = c
              /\ \A i \in 1 .. Len(fresh) : fresh'[i] = fresh[i]
            BY <2>1 DEF PoolTyped
        <3>2. Len(fresh) + 1 \in 1 .. Len(fresh') /\ 1 .. Len(fresh) \subseteq 1 .. Len(fresh')
            BY <3>1
        <3> QED BY <3>1, <3>2 DEF InFresh
    <2>5. \A d : InCache(d)' <=> InCache(d)
        BY <2>2 DEF InCache
    <2>6. \A d \in Clients : d # c => status_'[d] = status_[d] /\ sock_'[d] = sock_[d]
        BY <2>1 DEF PoolTyped
    <2>7. /\ status_'[c] = IF tcp /\ udp THEN "CONNECTED" ELSE "NEW"
          /\ sock_'[c] = "open" => tcp /\ udp
        BY <2>1 DEF PoolTyped
    <2>8. PoolKeeps'
        BY <2>1, <2>2, <2>4, <2>5, <2>6, <2>7 DEF PoolTyped, PoolCalls, PoolKeeps
    <2> QED BY <2>3, <2>8
<1>4. CASE Insert
    <2>1. PICK i \in 1 .. parallel_connections_ : got' = got \cup {fresh[i]}
        BY <1>4 DEF Insert
    <2>2. /\ making \in Addrs /\ cache_[making] = <<>> /\ Len(fresh) = parallel_connections_
          /\ cache_' = [cache_ EXCEPT ![making] = fresh]
          /\ making' = NoAddr /\ fresh' = <<>>
          /\ UNCHANGED <<status_, sock_, destroyed>>
        BY <1>4 DEF Insert, PoolTyped, PoolCalls
    <2>3. \A c \in Clients : InCache(c) \/ InFresh(c) => InCache(c)'
        <3> TAKE c \in Clients
        <3>1. CASE InFresh(c)
            BY <2>2, <3>1 DEF PoolTyped, InFresh, InCache
        <3>2. CASE InCache(c)
            <4>1. PICK a \in Addrs : \E k \in 1 .. Len(cache_[a]) : cache_[a][k] = c
                BY <3>2 DEF InCache
            <4>2. a # making
                BY <2>2, <4>1
            <4> QED BY <2>2, <4>1, <4>2 DEF PoolTyped, InCache
        <3> QED BY <3>1, <3>2
    <2>4. \A c \in Clients : status_[c] # "NEW"
        BY <1>4 DEF Insert, Failed, PoolKeeps, InFresh
    <2>5. fresh[i] \in Clients /\ InFresh(fresh[i])
        BY <2>1, <2>2 DEF PoolTyped, InFresh
    <2>6. PoolTyped' /\ PoolCalls'
        BY <2>1, <2>2, <2>5 DEF PoolTyped, PoolCalls
    <2>7. PoolKeeps'
        BY <2>1, <2>2, <2>3, <2>4, <2>5 DEF PoolTyped, PoolKeeps
    <2> QED BY <2>6, <2>7
<1>5. CASE GiveUp
    <2>1. \A c \in Clients : InFresh(c) => status_'[c] = "released"
        BY <1>5 DEF GiveUp, CloseAndRelease, ToClose, InFresh
    <2>2. \A c \in Clients : status_'[c] = status_[c] \/ status_'[c] = "released"
        BY <1>5 DEF GiveUp, CloseAndRelease
    <2>3. \A c \in Clients : sock_'[c] = "open" => sock_[c] = "open" /\ status_'[c] = status_[c]
        BY <1>5 DEF GiveUp, CloseAndRelease, PoolKeeps
    <2>4. PoolTyped' /\ PoolCalls'
        BY <1>5 DEF GiveUp, CloseAndRelease, PoolTyped, PoolCalls
    <2>5. \A c : InCache(c)' <=> InCache(c)
        BY <1>5 DEF GiveUp, InCache
    <2>6. PoolKeeps'
        BY <1>5, <2>1, <2>2, <2>3, <2>5 DEF GiveUp, PoolTyped, PoolKeeps
    <2> QED BY <2>4, <2>6
<1>6. CASE DestroyPool
    <2>1. \A c \in Clients : InCache(c) => status_'[c] = "released"
        <3> TAKE c \in Clients
        <3> HAVE InCache(c)
        <3>1. c \in Cached
            BY DEF InCache, Cached
        <3> QED BY <1>6, <3>1 DEF DestroyPool, CloseAndRelease
    <2>2. \A c \in Clients : status_'[c] = status_[c] \/ status_'[c] = "released"
        BY <1>6 DEF DestroyPool, CloseAndRelease
    <2>3. \A c \in Clients : sock_'[c] = "open" => sock_[c] = "open" /\ status_'[c] = status_[c]
        BY <1>6 DEF DestroyPool, CloseAndRelease, PoolKeeps
    <2>4. \A c \in Clients : ~InFresh(c)
        BY <1>6 DEF DestroyPool, PoolCalls, InFresh
    <2>5. PoolTyped' /\ PoolCalls'
        BY <1>6 DEF DestroyPool, CloseAndRelease, PoolTyped, PoolCalls
    <2>6. PoolKeeps'
        BY <1>6, <2>1, <2>2, <2>3, <2>4 DEF DestroyPool, PoolTyped, PoolKeeps
    <2> QED BY <2>5, <2>6
<1>7. ASSUME NEW c \in Clients, Disconnected(c) PROVE PoolIInv'
    BY <1>7 DEF Disconnected, PoolTyped, PoolCalls, PoolKeeps, InFresh, InCache
<1> QED BY <1>1, <1>2, <1>3, <1>4, <1>5, <1>6, <1>7 DEF PoolNext

\* It implies what the run checks of the pool.
LEMMA PoolIsAccounted == PoolIInv => ClientsAccounted
<1> SUFFICES ASSUME PoolIInv PROVE ClientsAccounted
    OBVIOUS
<1>1. \A c \in Clients : InCache(c) => c \in Cached
    BY DEF InCache, Cached
<1> QED BY <1>1 DEF PoolIInv, PoolTyped, PoolCalls, PoolKeeps, InFresh, ClientsAccounted

-----------------------------------------------------------------------------
(* Requests, datagrams and the server's connection                         *)

Datagrams == {<<r>> : r \in Reqs}

Typed ==
    /\ call \in [Reqs -> {"none", "begun", "sent", "E2BIG"}]
    /\ udp_l_ \in [Clients -> Reqs \cup {Nobody}] /\ udp_ \in [Clients -> Seq(Reqs)]
    /\ net \subseteq Datagrams /\ queue \in Seq(Datagrams) /\ datagram \in Datagrams \cup {<<>>}
    /\ edge \in BOOLEAN /\ poll \in {"idle", "read", "handle", "undefined"}
    /\ jobs \subseteq Reqs /\ refs \in Int
    /\ removal \in BOOLEAN /\ loop \in {"start", "serving", "closed"}
    /\ dtor \in {"none", "join", "remove", "release", "pool", "pollmgr", "gone"}

\* Between begin and end the buffer ends with the request, and holds nothing else
\* unless it has overflowed; an idle buffer is empty or has overflowed.
Buffer(c) ==
    /\ udp_l_[c] # Nobody => /\ call[udp_l_[c]] = "begun"
                             /\ udp_[c] = <<udp_l_[c]>> \/ Bytes(udp_[c]) > MaxUdp
    /\ udp_l_[c] = Nobody => udp_[c] = <<>> \/ Bytes(udp_[c]) > MaxUdp

Sending ==
    /\ \A c \in Clients : Buffer(c)
    /\ \A c, d \in Clients : udp_l_[c] # Nobody /\ udp_l_[c] = udp_l_[d] => c = d

InQueue(r) == \E i \in 1 .. Len(queue) : queue[i] = <<r>>

\* A request that was sent is in one place at most, so that it is handled once.
Places ==
    /\ \A r \in Reqs :
           <<r>> \in net \/ InQueue(r) \/ datagram = <<r>> \/ r \in jobs => call[r] = "sent"
    /\ \A r \in Reqs : <<r>> \in net => ~InQueue(r) /\ datagram # <<r>> /\ r \notin jobs
    /\ \A r \in Reqs : InQueue(r) => datagram # <<r>> /\ r \notin jobs
    /\ \A r \in Reqs : datagram = <<r>> => r \notin jobs
    /\ \A i, k \in 1 .. Len(queue) : queue[i] = queue[k] => i = k

\* How far server_loop and ~Server are: nothing arrives before the one or after the
\* other, and the poll thread handles an event only while it is registered.
Life ==
    /\ loop = "start" => /\ queue = <<>> /\ ~edge /\ poll = "idle"
                         /\ refs = 0 /\ jobs = {} /\ datagram = <<>>
    /\ dtor \notin {"none", "join"} => loop = "closed"
    /\ loop = "closed" => ~edge
    /\ removal => dtor \in {"release", "pool", "pollmgr"}
    /\ poll \in {"read", "handle"} => dtor \in {"none", "join", "remove"} \/ removal

\* The references: the server's until Release, the PollMgr's until the removal has been
\* carried out, and one for each handler in the thread pool.
OwnerRef == IF dtor \in {"none", "join", "remove", "release"} THEN 1 ELSE 0
MgrRef == IF dtor \in {"none", "join", "remove"} \/ removal THEN 1 ELSE 0

Counted ==
    /\ IsFiniteSet(jobs)
    /\ loop # "start" => refs = Cardinality(jobs) + OwnerRef + MgrRef

\* The inductive invariant.
IInv == PoolIInv /\ Typed /\ Sending /\ Places /\ Life /\ Counted /\ PollThreadNeverBlocks

USE UdpAssumption DEF send, recv, life

\* The initial state satisfies the inductive invariant.
LEMMA InitIInv == Init => IInv
<1> SUFFICES ASSUME Init PROVE IInv
    OBVIOUS
<1>1. PoolIInv
    BY PoolInitIInv DEF Init
<1>2. Typed
    <2>1. udp_ \in [Clients -> Seq(Reqs)] /\ queue \in Seq(Datagrams) /\ refs \in Int
        BY DEF Init
    <2>2. udp_l_ \in [Clients -> Reqs \cup {Nobody}]
        BY DEF Init
    <2> QED BY <2>1, <2>2 DEF Init, Typed
<1>3. Sending
    BY DEF Init, Sending, Buffer
<1>4. Places
    BY DEF Init, Places, InQueue
<1>5. Life /\ PollThreadNeverBlocks
    BY DEF Init, Life, PollThreadNeverBlocks
<1>6. Counted
    BY FS_EmptySet DEF Init, Counted
<1> QED BY <1>1, <1>2, <1>3, <1>4, <1>5, <1>6 DEF IInv

\* end_udp_request sends the request alone, or keeps the overflowed buffer.
LEMMA EndEffect ==
    ASSUME Typed, Sending, NEW c \in Clients, end_udp_request(c)
    PROVE  /\ udp_l_[c] \in Reqs /\ call[udp_l_[c]] = "begun"
           /\ udp_l_' = [udp_l_ EXCEPT ![c] = Nobody]
           /\ \/ /\ Bytes(udp_[c]) > MaxUdp
                 /\ call' = [call EXCEPT ![udp_l_[c]] = "E2BIG"]
                 /\ UNCHANGED <<udp_, net>>
              \/ /\ call' = [call EXCEPT ![udp_l_[c]] = "sent"]
                 /\ net' = net \cup {<<udp_l_[c]>>}
                 /\ udp_' = [udp_ EXCEPT ![c] = <<>>]
<1>1. udp_l_[c] \in Reqs /\ udp_l_[c] # Nobody
    BY DEF end_udp_request, Typed
<1>2. call[udp_l_[c]] = "begun" /\ (udp_[c] = <<udp_l_[c]>> \/ Bytes(udp_[c]) > MaxUdp)
    BY <1>1 DEF Sending, Buffer
<1> QED BY <1>1, <1>2 DEF end_udp_request, Overflow

\* Dispatch hands out at most one request, which is not in the thread pool yet.
LEMMA DispatchEffect ==
    ASSUME Typed, Places, Dispatch
    PROVE  \/ UNCHANGED <<jobs, refs>>
           \/ \E r \in Reqs : /\ datagram = <<r>> /\ r \notin jobs
                              /\ jobs' = jobs \cup {r} /\ refs' = refs + 1
<1>1. PICK R \in SUBSET {datagram[i] : i \in 1 .. Len(datagram)} :
          jobs' = jobs \cup R /\ refs' = refs + Cardinality(R)
    BY DEF Dispatch
<1>2. CASE R = {}
    BY <1>1, <1>2, FS_EmptySet DEF Typed
<1>3. CASE R # {}
    <2>1. datagram # <<>>
        BY <1>3
    <2>2. PICK r \in Reqs : datagram = <<r>>
        BY <2>1 DEF Typed, Datagrams
    <2>3. R = {r}
        BY <1>3, <2>2
    <2>4. Cardinality({r}) = 1
        BY FS_Singleton
    <2>5. r \notin jobs
        BY <2>2 DEF Places
    <2> QED BY <1>1, <2>2, <2>3, <2>4, <2>5
<1> QED BY <1>2, <1>3

\* Every step keeps the types.
LEMMA NextTyped == Typed /\ Sending /\ Places /\ [Next]_vars => Typed'
<1> SUFFICES ASSUME Typed, Sending, Places, [Next]_vars PROVE Typed'
    OBVIOUS
<1>1. CASE \/ Pool \/ UNCHANGED vars
    BY <1>1 DEF Pool, vars, Typed
<1>2. ASSUME NEW r \in Reqs, NEW c \in Clients, begin_udp_request(r, c) PROVE Typed'
    BY <1>2 DEF begin_udp_request, Typed
<1>3. ASSUME NEW c \in Clients, end_udp_request(c) PROVE Typed'
    <2>1. <<udp_l_[c]>> \in Datagrams
        BY <1>3, EndEffect DEF Datagrams
    <2>2. /\ call' \in [Reqs -> {"none", "begun", "sent", "E2BIG"}]
          /\ udp_l_' \in [Clients -> Reqs \cup {Nobody}] /\ udp_' \in [Clients -> Seq(Reqs)]
          /\ net' \subseteq Datagrams
        <3>1. udp_l_[c] \in Reqs /\ udp_l_' = [udp_l_ EXCEPT ![c] = Nobody]
            BY <1>3, EndEffect
        <3>2. CASE /\ call' = [call EXCEPT ![udp_l_[c]] = "E2BIG"]
                   /\ UNCHANGED <<udp_, net>>
            BY <3>1, <3>2 DEF Typed
        <3>3. CASE /\ call' = [call EXCEPT ![udp_l_[c]] = "sent"]
                   /\ net' = net \cup {<<udp_l_[c]>>}
                   /\ udp_' = [udp_ EXCEPT ![c] = <<>>]
            <4>1. udp_' \in [Clients -> Seq(Reqs)]
                BY <3>3 DEF Typed
            <4> QED BY <2>1, <3>1, <3>3, <4>1 DEF Typed
        <3> QED BY <1>3, <3>2, <3>3, EndEffect
    <2> QED BY <1>3, <2>2 DEF end_udp_request, Typed
<1>4. ASSUME NEW d \in net, Arrive(d) PROVE Typed'
    BY <1>4 DEF Arrive, Typed
<1>5. CASE Recvfrom
    <2>1. queue # <<>> => Head(queue) \in Datagrams /\ Tail(queue) \in Seq(Datagrams)
        BY DEF Typed
    <2> QED BY <1>5, <2>1 DEF Recvfrom, RestAfterRead, Typed
<1>6. CASE Dispatch
    <2>1. jobs' \subseteq Reqs /\ refs' \in Int
        BY <1>6, DispatchEffect DEF Typed
    <2> QED BY <1>6, <2>1 DEF Dispatch, Typed
<1>7. CASE Drain
    <2>1. /\ refs \in Int /\ (refs' = refs - 1 \/ refs' = refs)
          /\ removal' = FALSE
        BY <1>7, Zenon DEF Drain, Typed
    <2>2. refs' \in Int
        BY <2>1
    <2> QED BY <1>7, <2>1, <2>2, Zenon DEF Drain, Typed
<1>8. ASSUME NEW r \in jobs, RunJob(r) PROVE Typed'
    BY <1>8 DEF RunJob, Typed
<1>9. CASE LoopStart
    BY <1>9 DEF LoopStart, Typed
<1>10. CASE LoopExit
    <2>1. queue' \in Seq(Datagrams)
        BY <1>10 DEF LoopExit
    <2> QED BY <1>10, <2>1 DEF LoopExit, Typed
<1>11. ASSUME NEW d \in net, Lose(d) PROVE Typed'
    BY <1>11 DEF Lose, Typed
<1>12. CASE PollWait
    BY <1>12 DEF PollWait, Typed
<1>13. CASE DispatchToFreedPool
    BY <1>13 DEF DispatchToFreedPool, Typed
<1>14. CASE Stop
    BY <1>14 DEF Stop, Typed
<1>15. CASE Joined
    BY <1>15 DEF Joined, Typed
<1>16. CASE Remove
    BY <1>16 DEF Remove, Typed
<1>17. CASE Release
    BY <1>17 DEF Release, Typed
<1>18. CASE PoolGone
    BY <1>18 DEF PoolGone, Typed
<1>19. CASE PollMgrGone
    <2>1. /\ refs \in Int /\ (refs' = refs - 1 \/ refs' = refs)
          /\ removal' = FALSE
        BY <1>19, Zenon DEF PollMgrGone, Typed
    <2>2. refs' \in Int
        BY <2>1
    <2> QED BY <1>19, <2>1, <2>2, Zenon DEF PollMgrGone, Typed
<1> QED BY <1>1, <1>2, <1>3, <1>4, <1>5, <1>6, <1>7, <1>8, <1>9, <1>10, <1>11, <1>12, <1>13,
           <1>14, <1>15, <1>16, <1>17, <1>18, <1>19 DEF Next, Poll, Dtor

\* Every step keeps the buffers right: a request behind an overflowed one overflows too.
LEMMA NextSending == Typed /\ Sending /\ [Next]_vars => Sending'
<1> SUFFICES ASSUME Typed, Sending, [Next]_vars PROVE Sending'
    OBVIOUS
<1>1. CASE \/ Pool \/ UNCHANGED vars
           \/ \E d \in net : Lose(d)
           \/ \E d \in net : Arrive(d)
           \/ \E r \in jobs : RunJob(r)
           \/ PollWait \/ Recvfrom \/ Dispatch \/ DispatchToFreedPool \/ Drain
           \/ LoopStart \/ Stop \/ LoopExit \/ Joined \/ Remove \/ Release
           \/ PoolGone \/ PollMgrGone
    BY <1>1 DEF Pool, vars, Lose, Arrive, PollWait, Recvfrom, RestAfterRead, Dispatch,
       DispatchToFreedPool, Drain, RunJob, LoopStart, Stop, LoopExit, Joined, Remove, Release,
       PoolGone, PollMgrGone, Sending, Buffer
<1>2. ASSUME NEW r \in Reqs, NEW c \in Clients, begin_udp_request(r, c) PROVE Sending'
    <2>1. udp_[c] # <<>> => Bytes(Append(udp_[c], r)) > MaxUdp
        <3>1. /\ udp_[c] \in Seq(Reqs) /\ Bytes(udp_[c]) \in Nat /\ Size[r] \in Nat
              /\ Bytes(Append(udp_[c], r)) = Bytes(udp_[c]) + Size[r]
            BY BytesOfAppend DEF Typed
        <3>2. udp_[c] # <<>> => Bytes(udp_[c]) > MaxUdp
            BY <1>2 DEF begin_udp_request, Sending, Buffer
        <3> QED BY <3>1, <3>2
    <2>2. udp_[c] = <<>> => Append(udp_[c], r) = <<r>>
        OBVIOUS
    <2>3. /\ udp_'[c] = Append(udp_[c], r) /\ udp_l_'[c] = r /\ call'[r] = "begun"
          /\ \A d \in Clients \ {c} : udp_'[d] = udp_[d] /\ udp_l_'[d] = udp_l_[d]
          /\ \A q \in Reqs \ {r} : call'[q] = call[q]
        BY <1>2 DEF begin_udp_request, Typed
    <2>4. \A d \in Clients : udp_l_[d] # r
        BY <1>2 DEF begin_udp_request, Sending, Buffer
    <2>5. /\ udp_'[c] = <<r>> \/ Bytes(udp_'[c]) > MaxUdp
          /\ r # Nobody
        BY <2>1, <2>2, <2>3
    <2>6. \A d \in Clients \ {c} : udp_l_[d] # Nobody => udp_l_[d] \in Reqs \ {r}
        BY <2>4 DEF Typed
    <2>7. \A d \in Clients : Buffer(d)'
        <3>1. Buffer(c)'
            BY <2>3, <2>5 DEF Buffer
        <3>2. ASSUME NEW d \in Clients \ {c} PROVE Buffer(d)'
            BY <2>3, <2>6 DEF Sending, Buffer
        <3> QED BY <3>1, <3>2
    <2>8. ASSUME NEW d \in Clients, NEW e \in Clients, udp_l_'[d] # Nobody,
        udp_l_'[d] = udp_l_'[e]
          PROVE  d = e
        BY <2>3, <2>4, <2>8 DEF Sending
    <2> QED BY <2>7, <2>8 DEF Sending
<1>3. ASSUME NEW c \in Clients, end_udp_request(c) PROVE Sending'
    <2>1. /\ udp_l_'[c] = Nobody
          /\ \A d \in Clients \ {c} : udp_'[d] = udp_[d] /\ udp_l_'[d] = udp_l_[d]
          /\ \A q \in Reqs \ {udp_l_[c]} : call'[q] = call[q]
        <3>1. udp_l_[c] \in Reqs /\ udp_l_' = [udp_l_ EXCEPT ![c] = Nobody]
            BY <1>3, EndEffect
        <3>2. udp_' = udp_ \/ udp_' = [udp_ EXCEPT ![c] = <<>>]
            BY <1>3, EndEffect
        <3>3. \E x : call' = [call EXCEPT ![udp_l_[c]] = x]
            BY <1>3, EndEffect
        <3>4. udp_l_'[c] = Nobody /\ \A d \in Clients \ {c} : udp_l_'[d] = udp_l_[d]
            BY <3>1 DEF Typed
        <3>5. \A d \in Clients \ {c} : udp_'[d] = udp_[d]
            BY <3>2 DEF Typed
        <3>6. \A q \in Reqs \ {udp_l_[c]} : call'[q] = call[q]
            BY <3>1, <3>3 DEF Typed
        <3> QED BY <3>4, <3>5, <3>6
    <2>2. udp_'[c] = <<>> \/ (udp_'[c] = udp_[c] /\ Bytes(udp_[c]) > MaxUdp)
        BY <1>3, EndEffect DEF Typed
    <2>3. \A d \in Clients \ {c} : udp_l_[d] # Nobody => udp_l_[d] # udp_l_[c]
        BY DEF Sending
    <2>4. \A d \in Clients \ {c} : udp_l_[d] # Nobody => udp_l_[d] \in Reqs \ {udp_l_[c]}
        BY <2>3 DEF Typed
    <2>5. \A d \in Clients : Buffer(d)'
        <3>1. Buffer(c)'
            BY <2>1, <2>2 DEF Buffer
        <3>2. ASSUME NEW d \in Clients \ {c} PROVE Buffer(d)'
            BY <2>1, <2>4 DEF Sending, Buffer
        <3> QED BY <3>1, <3>2
    <2>6. ASSUME NEW d \in Clients, NEW e \in Clients, udp_l_'[d] # Nobody,
        udp_l_'[d] = udp_l_'[e]
          PROVE  d = e
        BY <2>1, <2>6 DEF Sending
    <2> QED BY <2>5, <2>6 DEF Sending
<1> QED BY <1>1, <1>2, <1>3 DEF Next, Poll, Dtor

\* Every step keeps each request in one place.
LEMMA NextPlaces == Typed /\ Sending /\ Places /\ [Next]_vars => Places'
<1> SUFFICES ASSUME Typed, Sending, Places, [Next]_vars PROVE Places'
    OBVIOUS
<1>1. CASE \/ Pool \/ UNCHANGED vars
           \/ PollWait \/ DispatchToFreedPool \/ Drain \/ LoopStart \/ Stop
           \/ Joined \/ Remove \/ Release \/ PoolGone \/ PollMgrGone
    <2>1. UNCHANGED <<call, net, queue, datagram, jobs>>
        BY <1>1 DEF Pool, vars, PollWait, DispatchToFreedPool, Drain, LoopStart, Stop, Joined,
           Remove, Release, PoolGone, PollMgrGone
    <2>2. \A q : InQueue(q)' <=> InQueue(q)
        BY <2>1 DEF InQueue
    <2> QED BY <2>1, <2>2 DEF Places
<1>2. ASSUME NEW r \in Reqs, NEW c \in Clients, begin_udp_request(r, c) PROVE Places'
    <2>1. /\ call[r] = "none" /\ \A q \in Reqs \ {r} : call'[q] = call[q]
          /\ UNCHANGED <<net, queue, datagram, jobs>>
        BY <1>2 DEF begin_udp_request, Typed
    <2>2. \A q : InQueue(q)' <=> InQueue(q)
        BY <2>1 DEF InQueue
    <2> QED BY <2>1, <2>2 DEF Places
<1>3. ASSUME NEW c \in Clients, end_udp_request(c) PROVE Places'
    <2> DEFINE r == udp_l_[c]
    <2>1. /\ r \in Reqs /\ call[r] = "begun"
          /\ \A q \in Reqs \ {r} : call'[q] = call[q]
          /\ net' = net \/ (net' = net \cup {<<r>>} /\ call'[r] = "sent")
        <3>1. r \in Reqs /\ call[r] = "begun"
            BY <1>3, EndEffect
        <3>2. \/ call' = [call EXCEPT ![r] = "E2BIG"] /\ net' = net
              \/ call' = [call EXCEPT ![r] = "sent"] /\ net' = net \cup {<<r>>}
            BY <1>3, EndEffect
        <3> HIDE DEF r
        <3> QED BY <3>1, <3>2 DEF Typed
    <2>2. UNCHANGED <<queue, datagram, jobs>>
        BY <1>3 DEF end_udp_request
    <2>3. \A q : InQueue(q)' <=> InQueue(q)
        BY <2>2 DEF InQueue
    <2>4. <<r>> \notin net /\ ~InQueue(r) /\ datagram # <<r>> /\ r \notin jobs
        BY <2>1 DEF Places
    <2> HIDE DEF r
    <2>5. \A q \in Reqs : <<q>> \in net' => <<q>> \in net \/ (q = r /\ call'[r] = "sent")
        BY <2>1
    <2> QED BY <2>1, <2>2, <2>3, <2>4, <2>5 DEF Places
<1>4. ASSUME NEW d \in net, Lose(d) PROVE Places'
    <2>1. \A q : InQueue(q)' <=> InQueue(q)
        BY <1>4 DEF Lose, InQueue
    <2> QED BY <1>4, <2>1 DEF Lose, Places
<1>5. ASSUME NEW d \in net, Arrive(d) PROVE Places'
    <2>1. PICK r \in Reqs : d = <<r>>
        BY DEF Typed, Datagrams
    <2>2. /\ queue' = Append(queue, d) /\ net' = net \ {d}
          /\ UNCHANGED <<call, datagram, jobs>>
        BY <1>5 DEF Arrive
    <2>3. /\ Len(queue') = Len(queue) + 1 /\ Len(queue) \in Nat
          /\ queue'[Len(queue) + 1] = d
          /\ \A i \in 1 .. Len(queue) : queue'[i] = queue[i]
        BY <2>2 DEF Typed
    <2>4. \A i \in 1 .. Len(queue') : i \in 1 .. Len(queue) \/ i = Len(queue) + 1
        BY <2>3
    <2>5. \A q \in Reqs : InQueue(q)' => InQueue(q) \/ q = r
        BY <2>1, <2>3, <2>4 DEF InQueue
    <2>6. \A i \in 1 .. Len(queue) : queue[i] # d
        BY <2>1 DEF Places, InQueue
    <2>7. \A i, k \in 1 .. Len(queue') : queue'[i] = queue'[k] => i = k
        BY <2>3, <2>4, <2>6 DEF Places
    <2> QED BY <2>1, <2>2, <2>5, <2>7 DEF Places
<1>6. CASE Recvfrom
    <2>1. CASE UNCHANGED <<queue, datagram>>
        <3>1. \A q : InQueue(q)' <=> InQueue(q)
            BY <2>1 DEF InQueue
        <3> QED BY <1>6, <2>1, <3>1 DEF Recvfrom, Places
    <2>2. CASE queue # <<>> /\ datagram' = Head(queue) /\ queue' = Tail(queue)
        <3>1. /\ Len(queue) \in Nat \ {0} /\ datagram' = queue[1]
              /\ Len(queue') = Len(queue) - 1
              /\ \A i \in 1 .. Len(queue') : queue'[i] = queue[i + 1]
            BY <2>2 DEF Typed
        <3>2. \A i \in 1 .. Len(queue') : i + 1 \in 1 .. Len(queue) /\ i + 1 # 1
            BY <3>1
        <3>3. \A i, k \in 1 .. Len(queue') : queue'[i] = queue'[k] => i = k
            BY <3>1, <3>2 DEF Places
        <3>4. \A i \in 1 .. Len(queue') : queue'[i] # datagram'
            BY <3>1, <3>2 DEF Places
        <3>5. \A q \in Reqs : (InQueue(q)' => InQueue(q)) /\ (datagram' = <<q>> => InQueue(q))
            BY <3>1, <3>2 DEF InQueue
        <3>6. \A q \in Reqs : InQueue(q)' => datagram' # <<q>>
            BY <3>4 DEF InQueue
        <3> QED BY <1>6, <3>3, <3>5, <3>6 DEF Recvfrom, Places
    <2> QED BY <1>6, <2>1, <2>2 DEF Recvfrom, RestAfterRead
<1>7. CASE Dispatch
    <2>1. /\ datagram' = <<>> /\ UNCHANGED <<call, net, queue>>
          /\ \A q : InQueue(q)' <=> InQueue(q)
        BY <1>7 DEF Dispatch, InQueue
    <2>2. \A q \in Reqs : <<q>> # <<>>
        OBVIOUS
    <2>3. CASE UNCHANGED jobs
        BY <2>1, <2>2, <2>3 DEF Places
    <2>4. CASE \E r \in Reqs : datagram = <<r>> /\ jobs' = jobs \cup {r}
        BY <2>1, <2>2, <2>4 DEF Places
    <2> QED BY <1>7, <2>3, <2>4, DispatchEffect
<1>8. ASSUME NEW r \in jobs, RunJob(r) PROVE Places'
    <2>1. \A q : InQueue(q)' <=> InQueue(q)
        BY <1>8 DEF RunJob, InQueue
    <2> QED BY <1>8, <2>1 DEF RunJob, Places
<1>9. CASE LoopExit
    <2>1. \A q : ~InQueue(q)'
        BY <1>9 DEF LoopExit, InQueue
    <2> QED BY <1>9, <2>1 DEF LoopExit, Places
<1> QED BY <1>1, <1>2, <1>3, <1>4, <1>5, <1>6, <1>7, <1>8, <1>9 DEF Next, Poll, Dtor

\* Every step keeps the phases of server_loop and ~Server in order.
LEMMA NextLife == Typed /\ Life /\ [Next]_vars => Life'
<1> SUFFICES ASSUME Typed, Life, [Next]_vars PROVE Life'
    OBVIOUS
<1>1. CASE \/ Pool \/ UNCHANGED vars
           \/ \E r \in Reqs, c \in Clients : begin_udp_request(r, c)
           \/ \E c \in Clients : end_udp_request(c)
           \/ \E d \in net : Lose(d)
    BY <1>1 DEF Pool, vars, begin_udp_request, end_udp_request, Lose, Life
<1>2. ASSUME NEW d \in net, Arrive(d) PROVE Life'
    BY <1>2 DEF Arrive, Typed, Life
<1>3. CASE LoopStart
    BY <1>3 DEF LoopStart, Typed, Life
<1>4. CASE PollWait
    BY <1>4 DEF PollWait, Typed, Life
<1>5. CASE Recvfrom
    BY <1>5 DEF Recvfrom, RestAfterRead, Typed, Life
<1>6. CASE Dispatch
    BY <1>6 DEF Dispatch, Typed, Life
<1>7. CASE DispatchToFreedPool
    BY <1>7 DEF DispatchToFreedPool, Typed, Life
<1>8. CASE Drain
    BY <1>8 DEF Drain, Typed, Life
<1>9. ASSUME NEW r \in jobs, RunJob(r) PROVE Life'
    BY <1>9 DEF RunJob, Typed, Life
<1>10. CASE Stop
    BY <1>10 DEF Stop, Typed, Life
<1>11. CASE LoopExit
    BY <1>11 DEF LoopExit, Typed, Life
<1>12. CASE Joined
    BY <1>12 DEF Joined, Typed, Life
<1>13. CASE Remove
    BY <1>13 DEF Remove, Typed, Life
<1>14. CASE Release
    BY <1>14 DEF Release, Typed, Life
<1>15. CASE PoolGone
    BY <1>15 DEF PoolGone, Typed, Life
<1>16. CASE PollMgrGone
    BY <1>16 DEF PollMgrGone, Typed, Life
<1> QED BY <1>1, <1>2, <1>3, <1>4, <1>5, <1>6, <1>7, <1>8, <1>9, <1>10, <1>11, <1>12, <1>13,
           <1>14, <1>15, <1>16 DEF Next, Poll, Dtor

\* Every step leaves a datagram for each event.
LEMMA NextUnblocked ==
    Typed /\ Life /\ PollThreadNeverBlocks /\ [Next]_vars => PollThreadNeverBlocks'
<1> SUFFICES ASSUME Typed, Life, PollThreadNeverBlocks, [Next]_vars PROVE PollThreadNeverBlocks'
    OBVIOUS
<1>1. CASE \/ Pool \/ UNCHANGED vars
           \/ \E r \in Reqs, c \in Clients : begin_udp_request(r, c)
           \/ \E c \in Clients : end_udp_request(c)
           \/ \E d \in net : Lose(d)
           \/ \E r \in jobs : RunJob(r)
           \/ Dispatch \/ DispatchToFreedPool \/ Drain \/ Stop \/ LoopExit \/ Joined
           \/ Remove \/ Release \/ PoolGone \/ PollMgrGone
    BY <1>1 DEF Pool, vars, begin_udp_request, end_udp_request, Lose, Dispatch,
       DispatchToFreedPool, Drain, RunJob, Stop, LoopExit, Joined, Remove, Release, PoolGone,
       PollMgrGone, PollThreadNeverBlocks
<1>2. ASSUME NEW d \in net, Arrive(d) PROVE PollThreadNeverBlocks'
    BY <1>2 DEF Arrive, Typed, Life, PollThreadNeverBlocks
<1>3. CASE LoopStart
    BY <1>3 DEF LoopStart, Typed, Life, PollThreadNeverBlocks
<1>4. CASE PollWait
    BY <1>4 DEF PollWait, Typed, Life, PollThreadNeverBlocks
<1>5. CASE Recvfrom
    BY <1>5 DEF Recvfrom, RestAfterRead, Typed, Life, PollThreadNeverBlocks
<1> QED BY <1>1, <1>2, <1>3, <1>4, <1>5 DEF Next, Poll, Dtor

\* Every step keeps the reference count.
LEMMA NextCounted == Typed /\ Places /\ Life /\ Counted /\ [Next]_vars => Counted'
<1> SUFFICES ASSUME Typed, Places, Life, Counted, [Next]_vars PROVE Counted'
    OBVIOUS
<1>1. CASE \/ Pool \/ UNCHANGED vars
           \/ \E r \in Reqs, c \in Clients : begin_udp_request(r, c)
           \/ \E c \in Clients : end_udp_request(c)
           \/ \E d \in net : Lose(d)
           \/ \E d \in net : Arrive(d)
           \/ PollWait \/ Recvfrom \/ DispatchToFreedPool \/ LoopExit \/ PoolGone
    BY <1>1 DEF Pool, vars, begin_udp_request, end_udp_request, Lose, Arrive, PollWait,
       Recvfrom, RestAfterRead, DispatchToFreedPool, LoopExit, PoolGone, Typed, Life, Counted,
       OwnerRef, MgrRef
<1>2. CASE LoopStart
    BY <1>2, FS_EmptySet DEF LoopStart, Life, Counted, OwnerRef, MgrRef
<1>3. CASE Dispatch
    <2>1. loop # "start" /\ UNCHANGED <<loop, dtor, removal>>
        BY <1>3 DEF Dispatch, Life
    <2>2. CASE UNCHANGED <<jobs, refs>>
        BY <2>1, <2>2 DEF Counted, OwnerRef, MgrRef
    <2>3. ASSUME NEW r \in Reqs, r \notin jobs, jobs' = jobs \cup {r}, refs' = refs + 1
          PROVE  Counted'
        <3>1. IsFiniteSet(jobs') /\ Cardinality(jobs') = Cardinality(jobs) + 1
            BY <2>3, FS_AddElement DEF Counted
        <3>2. Cardinality(jobs) \in Nat
            BY FS_CardinalityType DEF Counted
        <3> QED BY <2>1, <2>3, <3>1, <3>2 DEF Counted, OwnerRef, MgrRef
    <2> QED BY <1>3, <2>2, <2>3, DispatchEffect
<1>4. ASSUME NEW r \in jobs, RunJob(r) PROVE Counted'
    <2>1. loop # "start" /\ UNCHANGED <<loop, dtor, removal>>
        BY <1>4 DEF RunJob, Life
    <2>2. IsFiniteSet(jobs') /\ Cardinality(jobs') = Cardinality(jobs) - 1
        BY <1>4, FS_RemoveElement DEF RunJob, Counted
    <2>3. Cardinality(jobs) \in Nat
        BY FS_CardinalityType DEF Counted
    <2> QED BY <1>4, <2>1, <2>2, <2>3 DEF RunJob, Counted, OwnerRef, MgrRef
<1>5. CASE Drain
    <2>1. Cardinality(jobs) \in Nat
        BY FS_CardinalityType DEF Counted
    <2> QED BY <1>5, <2>1 DEF Drain, Typed, Life, Counted, OwnerRef, MgrRef
<1>6. CASE Stop
    <2>1. Cardinality(jobs) \in Nat
        BY FS_CardinalityType DEF Counted
    <2> QED BY <1>6, <2>1 DEF Stop, Typed, Life, Counted, OwnerRef, MgrRef
<1>7. CASE Joined
    <2>1. Cardinality(jobs) \in Nat
        BY FS_CardinalityType DEF Counted
    <2> QED BY <1>7, <2>1 DEF Joined, Typed, Life, Counted, OwnerRef, MgrRef
<1>8. CASE Remove
    <2>1. Cardinality(jobs) \in Nat
        BY FS_CardinalityType DEF Counted
    <2> QED BY <1>8, <2>1 DEF Remove, Typed, Life, Counted, OwnerRef, MgrRef
<1>9. CASE Release
    <2>1. Cardinality(jobs) \in Nat
        BY FS_CardinalityType DEF Counted
    <2> QED BY <1>9, <2>1 DEF Release, Typed, Life, Counted, OwnerRef, MgrRef
<1>10. CASE PollMgrGone
    <2>1. Cardinality(jobs) \in Nat
        BY FS_CardinalityType DEF Counted
    <2> QED BY <1>10, <2>1 DEF PollMgrGone, Typed, Life, Counted, OwnerRef, MgrRef
<1> QED BY <1>1, <1>2, <1>3, <1>4, <1>5, <1>6, <1>7, <1>8, <1>9, <1>10 DEF Next, Poll, Dtor

-----------------------------------------------------------------------------

\* Every step preserves the inductive invariant.
LEMMA NextIInv == IInv /\ [Next]_vars => IInv'
<1> SUFFICES ASSUME IInv, [Next]_vars PROVE IInv'
    OBVIOUS
<1>1. PoolIInv'
    <2>1. CASE Pool
        BY <2>1, PoolNextIInv DEF Pool, IInv
    <2>2. CASE UNCHANGED poolvars
        BY <2>2 DEF poolvars, IInv, PoolIInv, PoolTyped, PoolCalls, PoolKeeps, InFresh, InCache
    <2>3. Pool \/ UNCHANGED poolvars
        BY DEF Next, Poll, Dtor, vars, begin_udp_request, end_udp_request, Lose, Arrive, PollWait,
           Recvfrom, Dispatch, DispatchToFreedPool, Drain, RunJob, LoopStart, Stop, LoopExit,
           Joined, Remove, Release, PoolGone, PollMgrGone
    <2> QED BY <2>1, <2>2, <2>3
<1> QED BY <1>1, NextTyped, NextSending, NextPlaces, NextLife, NextUnblocked, NextCounted DEF IInv

\* The inductive invariant is one.
LEMMA Invariant == Spec => []IInv
    BY InitIInv, NextIInv, PTL DEF Spec

\* get_client and ~ClientPool: every client made is cached or released, also when connecting
\* fails half-way, and a released one has no TCP socket.
THEOREM PoolAccountsCorrect == Spec => []ClientsAccounted
    BY Invariant, PoolIsAccounted, PTL DEF IInv

\* begin_udp_request, end_udp_request and UdpBuffer: a datagram is one whole request, and a
\* buffer that is not empty between two requests has overflowed for good.
THEOREM DatagramsCorrect == Spec => []DatagramsWhole
<1>1. ASSUME Typed, Sending PROVE DatagramsWhole
    <2>1. \A d \in net : Len(d) = 1
        BY <1>1 DEF Typed, Datagrams
    <2> QED BY <1>1, <2>1 DEF Sending, Buffer, DatagramsWhole
<1>2. IInv => DatagramsWhole
    BY <1>1 DEF IInv
<1> QED BY <1>2, Invariant, PTL

\* ServerUdpConnection::handle_read: the blocking recvfrom is called only with
\* a datagram in the socket.
THEOREM NeverBlocksCorrect == Spec => []PollThreadNeverBlocks
    BY Invariant, PTL DEF IInv

\* server_loop, ~Server and the handlers: the connection object is deleted by the last of its
\* users, neither earlier nor not at all.
THEOREM ConnectionAliveCorrect == Spec => []ConnectionAlive
<1>1. ASSUME Typed, Life, Counted PROVE ConnectionAlive
    <2>1. Cardinality(jobs) \in Nat
        BY <1>1, FS_CardinalityType DEF Counted
    <2> QED BY <1>1, <2>1 DEF Typed, Life, Counted, OwnerRef, MgrRef, ConnectionAlive
<1>2. IInv => ConnectionAlive
    BY <1>1 DEF IInv
<1> QED BY <1>2, Invariant, PTL
=============================================================================
