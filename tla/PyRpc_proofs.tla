---------------------------- MODULE PyRpc_proofs ----------------------------
(***************************************************************************)
(* Proofs about PyRpc, for any callers and functions: no function is freed *)
(* under a handler but one unregistered while the handler waits, and an    *)
(* rpc::Future is released once although any Python thread may wait for    *)
(* it, with or without a timeout.                                          *)
(***************************************************************************)
EXTENDS PyRpc, TLAPS

\* The types of the variables that the references depend on.
Typed ==
    /\ pc \in [Callers \cup {Owner} ->
               {"python", "async", "sync", "sending", "wait", "timedwait", "restore", "done",
                "unreg", "del", "fini", "deleting", "fini_restore"}]
    /\ on \in [Callers -> Callers]
    /\ refs \in [Callers -> Int]
    /\ objects \subseteq Callers
    /\ wait_ok \in [Callers -> BOOLEAN]
    /\ handlers_ \in Funcs \cup {Nobody} /\ func_ids \in Funcs \cup {Nobody}
    /\ func \in [Funcs -> Int]
    /\ calling \in Funcs \cup {Nobody}
    /\ caught \in BOOLEAN

\* The function in func_ids, and no other, has two references.  It is the one in
\* handlers_ but for the second half of unreg(), and a handler that waits is
\* that of handlers_, or caught.
FuncHeld ==
    /\ \A n \in Funcs : func[n] = IF n = func_ids THEN 2 ELSE 0
    /\ pc[Owner] = "python" => func_ids = handlers_
    /\ pc[Owner] \in {"unreg", "del"} => handlers_ = Nobody /\ func_ids # Nobody
    /\ pc[Owner] \notin {"python", "unreg", "del"} => handlers_ = Nobody /\ func_ids = Nobody
    /\ poll = "gil" => calling # Nobody /\ (calling = handlers_ \/ caught)

\* A call that has not been sent has no Future object yet, so that nobody can
\* wait for it; its own thread will wait for nothing else before.
FreshCalls ==
    \A c \in Callers : pc[c] \in {"python", "async", "sync", "sending"} =>
        /\ c \notin objects /\ on[c] = c /\ ~wait_ok[c]
        /\ refs[c] \in {0, 1}
        /\ pc[c] # "sending" => refs[c] = 0

\* Without a Future object only sync_call itself waits.
OwnWait == \A c, f \in Callers : Waits(c, f) /\ f \notin objects => c = f

\* At most one thread waits for a future that is not shared, and nobody does once
\* wait() has returned.
OneWaiter ==
    \A f \in Callers \ shared :
        /\ \A c, d \in Callers : Waits(c, f) /\ Waits(d, f) => c = d
        /\ f \in objects /\ wait_ok[f] => \A c \in Callers : ~Waits(c, f)

\* The reference is there until a wait that is through has released it.
OneReference ==
    \A f \in Callers \ shared :
        /\ refs[f] \in {0, 1}
        /\ \A c \in Callers : Waits(c, f) /\ pc[c] # "restore" => refs[f] = 1
        /\ (f \in objects /\ ~wait_ok[f] /\ \A c \in Callers : ~Waits(c, f)) => refs[f] = 1

\* The inductive invariant.
IInv == Typed /\ FuncHeld /\ FreshCalls /\ OwnWait /\ OneWaiter /\ OneReference

USE PyAssumption DEF Goto, client, handler, pollthread

\* The initial state satisfies the inductive invariant.
LEMMA InitIInv == Init => IInv
<1> SUFFICES ASSUME Init PROVE IInv
    OBVIOUS
<1>1. Typed
    <2>1. refs \in [Callers -> Int] /\ func \in [Funcs -> Int]
        BY DEF Init
    <2>2. wait_ok \in [Callers -> BOOLEAN] /\ caught \in BOOLEAN /\ objects \subseteq Callers
        BY Zenon DEF Init
    <2>3. on \in [Callers -> Callers]
        BY Zenon DEF Init
    <2>4. pc \in [Callers \cup {Owner} -> {"python"}]
        BY Zenon DEF Init
    <2>5. handlers_ = Nobody /\ func_ids = Nobody /\ calling = Nobody
        BY DEF Init
    <2> QED BY <2>1, <2>2, <2>3, <2>4, <2>5 DEF Typed
<1>2. FuncHeld
    BY DEF Init, FuncHeld
<1>3. FreshCalls
    BY DEF Init, FreshCalls
<1>4. \A c, f \in Callers : ~Waits(c, f)
    BY DEF Init, Waits
<1>5. OwnWait /\ OneWaiter /\ OneReference
    BY <1>4 DEF Init, OwnWait, OneWaiter, OneReference
<1> QED BY <1>1, <1>2, <1>3, <1>5 DEF IInv

\* A step that leaves the callers and their futures alone keeps what is said of them.
LEMMA ClientUnchanged ==
    ASSUME IInv, Typed', FuncHeld', UNCHANGED <<on, refs, objects, wait_ok, shared>>,
           \A c \in Callers : pc'[c] = pc[c]
    PROVE  IInv'
<1> USE DEF IInv, Typed
<1>1. FreshCalls' /\ OwnWait'
    BY DEF FreshCalls, OwnWait, Waits
<1>2. OneWaiter' /\ OneReference'
    BY DEF OneWaiter,
           OneReference, Waits
<1> QED BY <1>1, <1>2

\* Every step preserves it.
LEMMA NextIInv == IInv /\ [Next]_vars => IInv'
<1> SUFFICES ASSUME IInv, [Next]_vars PROVE IInv'
    OBVIOUS
<1> USE DEF IInv
<1>1. ASSUME NEW c \in Callers, AsyncCall(c) PROVE IInv'
    <2>1. Typed' /\ FuncHeld'
        BY <1>1 DEF AsyncCall, Typed, FuncHeld
    <2>2. FreshCalls' /\ OwnWait'
        BY <1>1 DEF AsyncCall, Typed, FreshCalls, OwnWait, Waits
    <2>3. OneWaiter'
        BY <1>1 DEF AsyncCall, Typed, FreshCalls, OwnWait, OneWaiter, Waits
    <2>4. OneReference'
        BY <1>1 DEF AsyncCall, Typed, FreshCalls, OwnWait, OneWaiter,
           OneReference, Waits
    <2> QED BY <2>1, <2>2, <2>3, <2>4
<1>2. ASSUME NEW c \in Callers, AsyncSend(c) PROVE IInv'
    <2>1. Typed' /\ FuncHeld'
        BY <1>2 DEF AsyncSend, begin_request, Typed, FuncHeld
    <2>2. FreshCalls' /\ OwnWait'
        BY <1>2 DEF AsyncSend, begin_request, Typed, FreshCalls, OwnWait, Waits
    <2>3. OneWaiter'
        BY <1>2 DEF AsyncSend, begin_request, Typed, FreshCalls, OwnWait, OneWaiter, Waits
    <2>4. OneReference'
        BY <1>2 DEF AsyncSend, begin_request, Typed, FreshCalls, OwnWait, OneWaiter,
           OneReference, Waits
    <2> QED BY <2>1, <2>2, <2>3, <2>4
<1>3. ASSUME NEW c \in Callers, SyncCall(c) PROVE IInv'
    <2>1. Typed' /\ FuncHeld'
        BY <1>3 DEF SyncCall, Typed, FuncHeld
    <2>2. FreshCalls' /\ OwnWait'
        BY <1>3 DEF SyncCall, Typed, FreshCalls, OwnWait, Waits
    <2>3. OneWaiter'
        BY <1>3 DEF SyncCall, Typed, FreshCalls, OwnWait, OneWaiter, Waits
    <2>4. OneReference'
        BY <1>3 DEF SyncCall, Typed, FreshCalls, OwnWait, OneWaiter,
           OneReference, Waits
    <2> QED BY <2>1, <2>2, <2>3, <2>4
<1>4. ASSUME NEW c \in Callers, SyncBegin(c) PROVE IInv'
    <2>1. Typed' /\ FuncHeld'
        BY <1>4 DEF SyncBegin, begin_request, Typed, FuncHeld
    <2>2. FreshCalls' /\ OwnWait'
        BY <1>4 DEF SyncBegin, begin_request, Typed, FreshCalls, OwnWait, Waits
    <2>3. OneWaiter'
        BY <1>4 DEF SyncBegin, begin_request, Typed, FreshCalls, OwnWait, OneWaiter, Waits
    <2>4. OneReference'
        BY <1>4 DEF SyncBegin, begin_request, Typed, FreshCalls, OwnWait, OneWaiter,
           OneReference, Waits
    <2> QED BY <2>1, <2>2, <2>3, <2>4
<1>5. ASSUME NEW c \in Callers, SyncEnd(c) PROVE IInv'
    <2>1. Typed' /\ FuncHeld'
        BY <1>5 DEF SyncEnd, Typed, FuncHeld
    <2>2. FreshCalls' /\ OwnWait'
        BY <1>5 DEF SyncEnd, Typed, FreshCalls, OwnWait, Waits
    <2>3. OneWaiter'
        BY <1>5 DEF SyncEnd, Typed, FreshCalls, OwnWait, OneWaiter, Waits
    <2>4. OneReference'
        BY <1>5 DEF SyncEnd, Typed, FreshCalls, OwnWait, OneWaiter,
           OneReference, Waits
    <2> QED BY <2>1, <2>2, <2>3, <2>4
<1>6. ASSUME NEW c \in Callers, Completed(c) PROVE IInv'
    <2>1. Typed' /\ FuncHeld'
        BY <1>6 DEF Completed, Typed, FuncHeld
    <2>2. FreshCalls' /\ OwnWait'
        BY <1>6 DEF Completed, Typed, FreshCalls, OwnWait, Waits
    <2>3. OneWaiter'
        BY <1>6 DEF Completed, Typed, FreshCalls, OwnWait, OneWaiter, Waits
    <2>4. OneReference'
        BY <1>6 DEF Completed, Typed, FreshCalls, OwnWait, OneWaiter,
           OneReference, Waits
    <2> QED BY <2>1, <2>2, <2>3, <2>4
<1>7. ASSUME NEW c \in Callers, TimedOut(c) PROVE IInv'
    <2>1. Typed' /\ FuncHeld'
        BY <1>7 DEF TimedOut, Typed, FuncHeld
    <2>2. FreshCalls' /\ OwnWait'
        BY <1>7 DEF TimedOut, Typed, FreshCalls, OwnWait, Waits
    <2>3. OneWaiter'
        BY <1>7 DEF TimedOut, Typed, FreshCalls, OwnWait, OneWaiter, Waits
    <2>4. OneReference'
        BY <1>7 DEF TimedOut, Typed, FreshCalls, OwnWait, OneWaiter,
           OneReference, Waits
    <2> QED BY <2>1, <2>2, <2>3, <2>4
<1>8. ASSUME NEW c \in Callers, Restore(c) PROVE IInv'
    <2>1. Typed' /\ FuncHeld'
        BY <1>8 DEF Restore, Typed, FuncHeld
    <2>2. FreshCalls' /\ OwnWait'
        BY <1>8 DEF Restore, Typed, FreshCalls, OwnWait, Waits
    <2>3. OneWaiter'
        BY <1>8 DEF Restore, Typed, FreshCalls, OwnWait, OneWaiter, Waits
    <2>4. OneReference'
        BY <1>8 DEF Restore, Typed, FreshCalls, OwnWait, OneWaiter,
           OneReference, Waits
    <2> QED BY <2>1, <2>2, <2>3, <2>4
<1>9. ASSUME NEW c \in Callers, NEW f \in Callers, FutureWait(c, f) PROVE IInv'
    <2>1. Typed' /\ FuncHeld'
        BY <1>9 DEF FutureWait, MayWait, Typed, FuncHeld
    <2>2. FreshCalls' /\ OwnWait'
        BY <1>9 DEF FutureWait, MayWait, Typed, FreshCalls, OwnWait, Waits
    <2>3. OneWaiter'
        BY <1>9 DEF FutureWait, MayWait, Typed, FreshCalls, OwnWait, OneWaiter, Waits
    <2>4. OneReference'
        BY <1>9 DEF FutureWait, MayWait, Typed, FreshCalls, OwnWait, OneWaiter,
           OneReference, Waits
    <2> QED BY <2>1, <2>2, <2>3, <2>4
<1>10. CASE Close \/ Poll
    <2>1. Typed'
        BY <1>10, Zenon DEF Close, Poll, Dispatch, CallPython, Reply, Typed
    <2>2. FuncHeld'
        BY <1>10 DEF Close, Poll, Dispatch, CallPython, Reply, Typed, FuncHeld
    <2>3. UNCHANGED <<on, refs, objects, wait_ok, shared, pc>>
        BY <1>10 DEF Close, Poll, Dispatch, CallPython, Reply
    <2> QED BY <2>1, <2>2, <2>3, ClientUnchanged
<1>11. CASE (\E n \in Funcs : __reg_func__(n)) \/ ServerUnreg("unreg") \/ Del \/ OwnerRuns
    <2> DEFINE Safe == /\ Typed' /\ FuncHeld'
                       /\ UNCHANGED <<on, refs, objects, wait_ok, shared>>
                       /\ \A c \in Callers : pc'[c] = pc[c]
    <2> SUFFICES Safe
        BY ClientUnchanged
    <2>1. ASSUME NEW n \in Funcs, __reg_func__(n) PROVE Safe
        <3>1. CASE handlers_ = Nobody
            BY <2>1, <3>1 DEF __reg_func__, Typed, FuncHeld
        <3>2. CASE handlers_ # Nobody
            BY <2>1, <3>2 DEF __reg_func__, Typed, FuncHeld
        <3> QED BY <3>1, <3>2
    <2>2. ASSUME NEW to \in {"unreg", "del"}, ServerUnreg(to) PROVE Safe
        <3>1. caught' \in BOOLEAN /\ (poll = "gil" => caught')
            BY <2>2, Zenon DEF ServerUnreg
        <3>2. Typed'
            BY <2>2, <3>1 DEF ServerUnreg, Typed
        <3> QED BY <2>2, <3>1, <3>2 DEF ServerUnreg, Typed, FuncHeld
    <2>3. CASE UnregRelease
        <3>1. PICK to \in {"python", "fini"} : pc' = [pc EXCEPT ![Owner] = to]
            BY <2>3 DEF UnregRelease
        <3>2. /\ pc[Owner] \in {"unreg", "del"} /\ func_ids' = Nobody
              /\ func' = [func EXCEPT ![func_ids] = @ - 2]
              /\ UNCHANGED <<on, client, handlers_, pollthread>>
            BY <2>3 DEF UnregRelease
        <3>3. Typed'
            BY <3>1, <3>2 DEF Typed, FuncHeld
        <3>4. FuncHeld'
            BY <3>1, <3>2, <3>3 DEF Typed, FuncHeld
        <3>5. \A c \in Callers : pc'[c] = pc[c]
            BY <3>1 DEF Typed
        <3> QED BY <3>2, <3>3, <3>4, <3>5
    <2>4. ASSUME NEW from \in {"python", "fini", "deleting", "fini_restore"},
                 NEW to \in {"fini", "deleting", "fini_restore", "done"},
                 pc[Owner] = from, pc' = [pc EXCEPT ![Owner] = to], func_ids = Nobody,
                 UNCHANGED <<on, refs, objects, wait_ok, shared, handler, poll, calling, caught>>
          PROVE  Safe
        <3>1. Typed'
            BY <2>4 DEF Typed
        <3>2. FuncHeld'
            BY <2>4 DEF Typed, FuncHeld
        <3> QED BY <2>4, <3>1, <3>2 DEF Typed
    <2> HIDE DEF Safe
    <2>5. CASE Del
        <3>1. CASE ServerUnreg("del")
            BY <2>2, <3>1
        <3>2. CASE ~ServerUnreg("del")
            <4>1. /\ pc[Owner] = "python" /\ pc' = [pc EXCEPT ![Owner] = "fini"]
                  /\ func_ids = Nobody
                  /\ UNCHANGED <<on, refs, objects, wait_ok, shared, handler, poll, calling, caught>>
                BY <2>5, <3>2 DEF Del
            <4> QED BY <2>4, <4>1
        <3> QED BY <3>1, <3>2
    <2>6. CASE FiniServer \/ Deleted \/ FiniRestore
        <3>1. func_ids = Nobody
            BY <2>6 DEF FiniServer, Deleted, FiniRestore, FuncHeld
        <3>2. UNCHANGED <<on, refs, objects, wait_ok, shared, handler, poll, calling, caught>>
            BY <2>6 DEF FiniServer, Deleted, FiniRestore
        <3>3. \/ pc[Owner] = "fini" /\ pc' = [pc EXCEPT ![Owner] = "deleting"]
              \/ pc[Owner] = "deleting" /\ pc' = [pc EXCEPT ![Owner] = "fini_restore"]
              \/ pc[Owner] = "fini_restore" /\ pc' = [pc EXCEPT ![Owner] = "done"]
            BY <2>6 DEF FiniServer, Deleted, FiniRestore
        <3> QED BY <2>4, <3>1, <3>2, <3>3
    <2> QED BY <1>11, <2>1, <2>2, <2>3, <2>5, <2>6, Zenon DEF OwnerRuns
<1>12. CASE UNCHANGED vars
    BY <1>12, ClientUnchanged DEF vars, Typed, FuncHeld
<1> QED BY <1>1, <1>2, <1>3, <1>4, <1>5, <1>6, <1>7, <1>8, <1>9, <1>10, <1>11, <1>12 DEF Next, Call

\* The inductive invariant is one.
LEMMA Invariant == Spec => []IInv
    BY InitIInv, NextIInv, PTL DEF Spec

\* __reg_func__, unreg and __del__, however they interleave with the poll thread: a handler
\* that waits for the GIL has a live function unless this was unregistered meanwhile, and
\* no function leaks.
THEOREM FuncsCorrect == Spec => []FreedFuncOnlyInFlight
<1>1. IInv => FreedFuncOnlyInFlight
    BY DEF IInv, Typed, FuncHeld, FreedFuncOnlyInFlight
<1> QED BY <1>1, Invariant, PTL

\* future_wait, future_timedwait and sync_call: unless two threads wait for one future at
\* once, its reference is there while a thread waits and is released once.
THEOREM ReleasedOnceCorrect == Spec => []FutureReleasedOnce
<1>1. ASSUME OneReference PROVE FutureReleasedOnce
    <2> SUFFICES ASSUME NEW f \in Callers \ shared PROVE refs[f] >= 0
        BY <1>1, Zenon DEF OneReference, FutureReleasedOnce
    <2>1. refs[f] \in {0, 1}
        BY <1>1, Zenon DEF OneReference
    <2> QED BY <2>1
<1>2. IInv => OneReference
    BY DEF IInv
<1> QED BY <1>1, <1>2, Invariant, PTL
=============================================================================
