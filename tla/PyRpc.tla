------------------------------- MODULE PyRpc --------------------------------
(***************************************************************************)
(* The Python bindings (pylib/simplerpc): a program whose threads call a   *)
(* Python server in the same process through one Python client.  Every     *)
(* thread needs the GIL to run Python code: the callers, the owner of the  *)
(* Server object, and the server's poll thread, which runs the handlers.   *)
(*                                                                         *)
(* A step of Python code takes the GIL and gives it up, as the interpreter *)
(* does between two bytecodes; gil names its owner where C++ code keeps it *)
(* while it waits.  C++ below the bindings is abstract here: Client and    *)
(* Future promise that a future is completed by the reply or by the end of *)
(* the connection, Server that ~Server waits for running handlers.         *)
(*                                                                         *)
(* The server has one rpc_id; a function that is freed may be made again,  *)
(* as Python reuses memory.                                                *)
(***************************************************************************)
EXTENDS Integers

CONSTANTS
    Callers,
    Owner,        \* the thread that has the Server object
    Funcs,        \* functions passed to __reg_func__
    Nobody

ASSUME PyAssumption == Owner \notin Callers /\ Nobody \notin Callers \cup Funcs \cup {Owner}

\* Each caller makes one call; its future bears its name.
VARIABLES
    gil,          \* the thread that keeps the GIL while it waits, or Nobody
    pc,           \* pc[t]: where a caller or the owner is
    on,           \* on[t]: the future that t waits for
    out_l_,       \* the caller between begin_request and end_request, or Nobody
    future,       \* future[f]: "none", "pending", "ready", "failed" or "timedout"
    refs,         \* refs[f]: the Python side's reference to the rpc::Future
    objects,      \* the Future objects of Python, of the asynchronous calls
    wait_ok,      \* wait_ok[f]: Future.wait has returned once
    shared,       \* futures for which two threads have waited at the same time
    closed,       \* Client.closed
    requests,     \* calls that wait for the server's poll thread
    handlers_,    \* the function in the server's handlers_, or Nobody
    func_ids,     \* the one in Server.func_ids, or Nobody
    func,         \* func[n]: reference count of the Python function n
    poll,         \* what the server's poll thread does
    serving,      \* the call it serves
    calling,      \* the function that it is going to call, or Nobody
    caught,       \* that function was unregistered after the dispatch (history)
    server        \* "up", "stopping" or "gone"

client == <<out_l_, future, refs, objects, wait_ok, shared, closed>>
handler == <<handlers_, func_ids, func>>
pollthread == <<requests, poll, serving, calling, caught>>
vars == <<gil, pc, on, client, handler, pollthread, server>>

Init == /\ gil = Nobody /\ out_l_ = Nobody
        /\ pc = [t \in Callers \cup {Owner} |-> "python"]
        /\ on = [t \in Callers |-> t]
        /\ future = [f \in Callers |-> "none"] /\ refs = [f \in Callers |-> 0]
        /\ objects = {} /\ wait_ok = [f \in Callers |-> FALSE] /\ shared = {}
        /\ closed = FALSE
        /\ requests = {} /\ poll = "idle" /\ serving = Nobody
        /\ calling = Nobody /\ caught = FALSE
        /\ handlers_ = Nobody /\ func_ids = Nobody /\ func = [n \in Funcs |-> 0]
        /\ server = "up"

Goto(t, from, to) == pc[t] = from /\ pc' = [pc EXCEPT ![t] = to]

\* The GIL can be taken: also the step that takes it and gives it up at once.
HasGIL(t) == gil \in {t, Nobody}

-----------------------------------------------------------------------------
(* Client and Future of client.py and future.py                            *)

\* begin_request: null when the connection has ended, otherwise a pending future
\* with a reference for the caller.
begin_request(c) ==
    IF server = "gone" THEN UNCHANGED <<future, refs>>
    ELSE /\ future' = [future EXCEPT ![c] = "pending"]
         /\ refs' = [refs EXCEPT ![c] = 1]

\* client_async_call enters begin_request with the GIL, ...  A program makes its calls
\* before it closes the client: close() releases the rpc::Client, and async_call,
\* sync_call and close() do not look at self.closed.
AsyncCall(c) ==
    /\ ~closed /\ Goto(c, "python", "async") /\ HasGIL(c) /\ gil' = c
    /\ UNCHANGED <<on, client, handler, pollthread, server>>

\* ... spins for out_l_, and returns the future or None (ENOTCONN).
AsyncSend(c) ==
    /\ pc[c] = "async" /\ out_l_ = Nobody
    /\ begin_request(c)
    /\ requests' = IF refs'[c] = 1 THEN requests \cup {c} ELSE requests
    /\ objects' = IF refs'[c] = 1 THEN objects \cup {c} ELSE objects
    /\ pc' = [pc EXCEPT ![c] = "done"]
    /\ gil' = Nobody
    /\ UNCHANGED <<on, out_l_, wait_ok, shared, closed, handler, poll, serving,
                   calling, caught, server>>

\* client_sync_call gives up the GIL (PyEval_SaveThread) ...
SyncCall(c) ==
    /\ ~closed /\ Goto(c, "python", "sync") /\ HasGIL(c)
    /\ UNCHANGED <<gil, on, client, handler, pollthread, server>>

\* ... for begin_request, ...
SyncBegin(c) ==
    /\ pc[c] = "sync" /\ out_l_ = Nobody
    /\ begin_request(c)
    /\ out_l_' = c
    /\ pc' = [pc EXCEPT ![c] = "sending"]
    /\ UNCHANGED <<gil, on, objects, wait_ok, shared, closed, handler, pollthread, server>>

\* ... end_request, and then the wait of get_error_code.
SyncEnd(c) ==
    /\ pc[c] = "sending"
    /\ out_l_' = Nobody
    /\ requests' = IF refs[c] = 1 THEN requests \cup {c} ELSE requests
    /\ pc' = [pc EXCEPT ![c] = IF refs[c] = 1 THEN "wait" ELSE "restore"]
    /\ UNCHANGED <<gil, on, future, refs, objects, wait_ok, shared, closed, handler, poll, serving,
                   calling, caught, server>>

\* Some caller is inside future_wait or future_timedwait for f.
Waits(t, f) == on[t] = f /\ pc[t] \in {"wait", "timedwait", "restore"}

\* Mutant: wait() does not look at wait_ok.
MayWaitAgain(f) == TRUE

\* "if self.wait_ok: return"
MayWait(f) == ~wait_ok[f]

\* Future.wait by any thread that is done with its own call.
FutureWait(c, f) ==
    /\ pc[c] = "done" /\ f \in objects /\ MayWait(f) /\ HasGIL(c)
    /\ \E how \in {"wait", "timedwait"} : pc' = [pc EXCEPT ![c] = how]
    /\ on' = [on EXCEPT ![c] = f]
    /\ shared' = IF \E t \in Callers : Waits(t, f) THEN shared \cup {f} ELSE shared
    /\ UNCHANGED <<gil, out_l_, future, refs, objects, wait_ok, closed, handler, pollthread, server>>

\* future_wait, future_timedwait and sync_call: the future is completed, its
\* reply moved, and the reference released, without the GIL.
Completed(c) ==
    /\ pc[c] \in {"wait", "timedwait"} /\ future[on[c]] # "pending"
    /\ refs' = [refs EXCEPT ![on[c]] = @ - 1]
    /\ pc' = [pc EXCEPT ![c] = "restore"]
    /\ UNCHANGED <<gil, on, out_l_, future, objects, wait_ok, shared, closed, handler, pollthread, server>>

TimedOut(c) ==
    /\ Goto(c, "timedwait", "restore") /\ future[on[c]] = "pending"
    /\ future' = [future EXCEPT ![on[c]] = "timedout"]
    /\ refs' = [refs EXCEPT ![on[c]] = @ - 1]
    /\ UNCHANGED <<gil, on, out_l_, objects, wait_ok, shared, closed, handler, pollthread, server>>

\* PyEval_RestoreThread, and in wait(): self.wait_ok = True.
Restore(c) ==
    /\ Goto(c, "restore", "done") /\ HasGIL(c)
    /\ wait_ok' = [wait_ok EXCEPT ![on[c]] = TRUE]
    /\ UNCHANGED <<gil, on, out_l_, future, refs, objects, shared, closed, handler, pollthread, server>>

\* What close() or the end of the connection does to the futures in F.
Fail(F) == future' = [f \in Callers |-> IF f \in F /\ future[f] = "pending" THEN "failed" ELSE future[f]]

\* Client.close(), once, by a program that has no call half-way through the client.
Close ==
    /\ ~closed /\ gil = Nobody
    /\ \A c \in Callers : pc[c] \notin {"sync", "sending", "async"}
    /\ closed' = TRUE /\ Fail(Callers)
    /\ UNCHANGED <<gil, pc, on, out_l_, refs, objects, wait_ok, shared, handler, pollthread, server>>

-----------------------------------------------------------------------------
(* The server's poll thread                                                *)

\* handle_read finds the handler, which then waits for the GIL, or replies ENOENT.
Dispatch(f) ==
    /\ poll = "idle" /\ server = "up" /\ f \in requests
    /\ requests' = requests \ {f}
    /\ poll' = IF handlers_ # Nobody THEN "gil" ELSE "reply"
    /\ serving' = f /\ calling' = handlers_ /\ caught' = FALSE
    /\ UNCHANGED <<gil, pc, on, client, handler, server>>

\* The lambda of server_reg: under the GIL it calls the Python function, which it
\* has as a pointer.
CallPython ==
    /\ poll = "gil" /\ gil = Nobody
    /\ poll' = "reply" /\ calling' = Nobody /\ caught' = FALSE
    /\ UNCHANGED <<gil, pc, on, client, handler, requests, serving, server>>

\* begin_reply, write_marshal, end_reply and release, without the GIL; the
\* client's poll thread completes the future.
Reply ==
    /\ poll = "reply"
    /\ future' = [future EXCEPT ![serving] = IF @ = "pending" THEN "ready" ELSE @]
    /\ poll' = "idle" /\ serving' = Nobody
    /\ UNCHANGED <<gil, pc, on, out_l_, refs, objects, wait_ok, shared, closed, handler, requests, calling, caught, server>>

-----------------------------------------------------------------------------
(* The Server object of server.py                                          *)

\* __reg_func__: one reference of func_ids and one for the lambda.  A second
\* registration fails with EEXIST, and the new function is given up again.
__reg_func__(n) ==
    /\ pc[Owner] = "python" /\ HasGIL(Owner)
    /\ IF handlers_ = Nobody
       THEN /\ func[n] = 0 /\ func' = [func EXCEPT ![n] = 2]
            /\ handlers_' = n /\ func_ids' = n
       ELSE UNCHANGED handler
    /\ UNCHANGED <<gil, pc, on, client, pollthread, server>>

\* Mutant: the function is released, but not unregistered.
ReleaseOnly(to) ==
    /\ Goto(Owner, "python", to) /\ HasGIL(Owner) /\ func_ids # Nobody
    /\ func' = [func EXCEPT ![func_ids] = 0]
    /\ UNCHANGED <<gil, on, client, handlers_, func_ids, pollthread, server>>

\* unreg() begins with server_unreg, which erases the lambda, whether or not the poll
\* thread is in it ...
ServerUnreg(to) ==
    /\ Goto(Owner, "python", to) /\ HasGIL(Owner) /\ func_ids # Nobody
    /\ handlers_' = Nobody
    /\ caught' = (caught \/ poll = "gil")
    /\ UNCHANGED <<gil, on, client, func_ids, func, requests, poll, serving, calling, server>>

\* ... and then gives up both references.
UnregRelease ==
    /\ Goto(Owner, "unreg", "python") \/ Goto(Owner, "del", "fini")
    /\ HasGIL(Owner)
    /\ func' = [func EXCEPT ![func_ids] = @ - 2] /\ func_ids' = Nobody
    /\ UNCHANGED <<gil, on, client, handlers_, pollthread, server>>

\* __del__: unreg() of what is registered, ...
Del == \/ ServerUnreg("del")
       \/ /\ Goto(Owner, "python", "fini") /\ HasGIL(Owner) /\ func_ids = Nobody
          /\ UNCHANGED <<gil, on, client, handler, pollthread, server>>

\* Mutant: fini_server keeps the GIL.
FiniKeepingGIL ==
    /\ Goto(Owner, "fini", "deleting") /\ HasGIL(Owner)
    /\ server' = "stopping" /\ gil' = Owner
    /\ UNCHANGED <<on, client, handler, pollthread>>

\* ... and fini_server, which gives up the GIL (Py_BEGIN_ALLOW_THREADS) ...
FiniServer ==
    /\ Goto(Owner, "fini", "deleting") /\ HasGIL(Owner)
    /\ server' = "stopping"
    /\ UNCHANGED <<gil, on, client, handler, pollthread>>

\* ... for ~Server: it closes the connections, which fails the calls not yet
\* served, and waits for the handler that is running.
Deleted ==
    /\ Goto(Owner, "deleting", "fini_restore") /\ poll = "idle"
    /\ server' = "gone" /\ requests' = {}
    /\ Fail(Callers)
    /\ UNCHANGED <<gil, on, out_l_, refs, objects, wait_ok, shared, closed, handler, poll, serving, calling, caught>>

FiniRestore ==
    /\ Goto(Owner, "fini_restore", "done") /\ gil' = Nobody /\ HasGIL(Owner)
    /\ UNCHANGED <<on, client, handler, pollthread, server>>

-----------------------------------------------------------------------------

Call(c) == \/ AsyncSend(c) \/ SyncBegin(c) \/ SyncEnd(c) \/ Completed(c) \/ TimedOut(c)
           \/ Restore(c)
Poll == \/ \E f \in Callers : Dispatch(f)
        \/ CallPython \/ Reply
OwnerRuns == UnregRelease \/ FiniServer \/ Deleted \/ FiniRestore

Next == \/ \E c \in Callers : \/ AsyncCall(c) \/ SyncCall(c) \/ Call(c)
                              \/ \E f \in Callers : FutureWait(c, f)
        \/ Close
        \/ Poll
        \/ \E n \in Funcs : __reg_func__(n)
        \/ ServerUnreg("unreg") \/ Del \/ OwnerRuns

\* Threads run, the interpreter hands the GIL round so that a thread which wants
\* it gets it in the end, and a spinning thread gets out_l_; handlers return.
Fairness == /\ \A c \in Callers : SF_vars(Call(c))
            /\ SF_vars(Poll) /\ SF_vars(OwnerRuns)

Spec == Init /\ [][Next]_vars
FairSpec == Spec /\ Fairness

-----------------------------------------------------------------------------
(* Properties                                                              *)

\* A handler that waits for the GIL finds its Python function alive, unless the
\* function was unregistered while it waited: registering again, a registration that
\* fails, unreg() and __del__ free no other function under a handler.  Nor does one
\* leak: between these calls only the registered function has references.
FreedFuncOnlyInFlight ==
    /\ poll = "gil" /\ ~caught => func[calling] > 0
    /\ pc[Owner] \notin {"unreg", "del"} =>
           \A n \in Funcs : func[n] = IF n = handlers_ THEN 2 ELSE 0

\* Unless two threads wait for it at the same time, a future is released once:
\* after a wait, with or without a timeout, the references are gone, and a second
\* wait does not touch the rpc::Future.
FutureReleasedOnce ==
    \A f \in Callers \ shared :
        /\ refs[f] >= 0
        /\ \A c \in Callers : (Waits(c, f) /\ pc[c] # "restore") => refs[f] = 1

\* The GIL deadlocks nobody: calls return although the server's poll thread
\* needs the GIL to answer them, and Server.__del__ returns although it waits
\* for a handler that needs the GIL.
NoGILDeadlock ==
    /\ \A c \in Callers : pc[c] \in {"async", "sync", "sending", "wait", "restore"}
                              ~> pc[c] = "done"
    /\ pc[Owner] \in {"del", "fini"} ~> pc[Owner] = "done"
=============================================================================
