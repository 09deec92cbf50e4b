------------------------------- MODULE Client -------------------------------
(***************************************************************************)
(* rpc::Client (rpc/client.{h,cc}) on one TCP connection, with what it     *)
(* uses of PollMgr (rpc/polling.cc) and of the kernel.  Application        *)
(* threads (Callers), each holding a reference to the client, make         *)
(* requests, wait for their futures and close_and_release(); the poll      *)
(* thread runs handle_read, handle_write and handle_error.  Nothing        *)
(* orders close() against the rest but out_l_, pending_fu_l_ and the order *)
(* of its own statements.                                                  *)
(*                                                                         *)
(* An action is one critical section of a lock or one unlocked access to   *)
(* shared state.  Packets are indivisible: in_ and out_ are sequences of   *)
(* packets, and read_from_fd and write_to_fd move whole ones.              *)
(***************************************************************************)
EXTENDS Integers, Sequences, FiniteSets

CONSTANTS
    Callers,   \* application threads
    Poll,      \* the poll thread that serves the connection
    MaxXid,    \* bound on xid_counter_: requests made in all
    SockBuf    \* packets the socket takes before write() returns EAGAIN

ASSUME ClientAssumption ==
    /\ IsFiniteSet(Callers) /\ Callers # {}
    /\ Poll \notin Callers /\ "free" \notin Callers
    /\ MaxXid \in Nat \ {0}
    /\ SockBuf \in Nat \ {0}

Threads == Callers \cup {Poll}
Xids    == 1 .. MaxXid
NoXid   == 0

VARIABLES
    \* fields of Client
    status_, sock_, pending_fu_, out_l_, out_, in_, xid_counter_, ref_count,
    \* the futures, by xid, and what PollMgr knows of the client
    future, registered, mode_, pending_remove_,
    \* the connection: kernel buffers, readiness, and the peer
    to_server, at_server, to_client, in_epoll, rdy, peer,
    \* control state of the threads
    pc, fu, batch, events,
    \* history: where a freed future was used, received packets
    freed_access, received

conn    == <<status_, sock_>>
client  == <<conn, pending_fu_, out_l_, out_, in_, xid_counter_, ref_count>>
pollmgr == <<registered, mode_, pending_remove_>>
net     == <<to_server, at_server, to_client>>
kernel  == <<net, in_epoll, rdy, peer>>
stack   == <<fu, batch, events>>
local   == <<pc, stack>>
history == <<freed_access, received>>
vars    == <<client, future, pollmgr, kernel, local, history>>

\* A Future object; one whose ref is 0 does not exist (yet, or any more).  The
\* error code of a reply, whatever the server chose, is written "0".
FutureType == [ref : Int, ready : BOOLEAN, timed_out : BOOLEAN,
               error : {"0", "ETIMEDOUT", "ENOTCONN"}, replied : BOOLEAN]
NewFuture  == [ref |-> 1, ready |-> FALSE, timed_out |-> FALSE,
               error |-> "0", replied |-> FALSE]

\* A request in out_: sized once its size bookmark is written, cut if operator<<
\* dropped some of its fields because status_ was no longer CONNECTED.
Packet == [xid : Xids, sized : BOOLEAN, cut : BOOLEAN]

Init ==
    /\ status_ = "NEW" /\ sock_ = "none"
    /\ pending_fu_ = {} /\ out_l_ = "free" /\ out_ = <<>> /\ in_ = <<>>
    /\ xid_counter_ = 1
    /\ ref_count = Cardinality(Callers)
    /\ future = [x \in Xids |-> [NewFuture EXCEPT !.ref = 0]]
    /\ registered = FALSE /\ mode_ = "R" /\ pending_remove_ = FALSE
    /\ to_server = <<>> /\ at_server = {} /\ to_client = <<>>
    /\ in_epoll = FALSE /\ rdy = FALSE /\ peer = "up"
    /\ pc = [t \in Threads |-> IF t = Poll THEN "poll" ELSE "idle"]
    /\ fu = [t \in Threads |-> NoXid]
    /\ batch = [t \in Threads |-> {}]
    /\ events = {}
    /\ freed_access = {} /\ received = {}

Goto(t, l) == pc' = [pc EXCEPT ![t] = l]

-----------------------------------------------------------------------------
(* connect(), before the client is shared                                  *)

ConnectOk ==
    /\ status_ = "NEW" /\ sock_ = "none"
    /\ sock_' = "open" /\ status_' = "CONNECTED"
    /\ registered' = TRUE /\ mode_' = "R"     \* pollmgr_->add(this)
    /\ ref_count' = ref_count + 1
    /\ in_epoll' = TRUE
    /\ UNCHANGED <<pending_fu_, out_l_, out_, in_, xid_counter_, future, pending_remove_,
                   net, rdy, peer, local, history>>

\* ENOTCONN: status_ stays NEW and no descriptor stays open.
ConnectFails ==
    /\ status_ = "NEW" /\ sock_ = "none"
    /\ sock_' = "closed"
    /\ UNCHANGED <<status_, pending_fu_, out_l_, out_, in_, xid_counter_, ref_count, future,
                   pollmgr, kernel, local, history>>

-----------------------------------------------------------------------------
(* Future                                                                  *)

\* A future is used; it is deleted when ref is 0.
Touch(t, x) ==
    freed_access' = IF future[x].ref = 0 THEN freed_access \cup {pc[t]} ELSE freed_access
AddRef(x, k) == future' = [future EXCEPT ![x].ref = @ + k]

\* The threads that carry a future they removed from pending_fu_.
notify_ready(t) ==
    /\ pc[t] \in {"reply_notify", "inval_notify"}
    /\ future' = [future EXCEPT ![fu[t]].ready = @ \/ ~future[fu[t]].timed_out]
    /\ Touch(t, fu[t])
    /\ Goto(t, IF pc[t] = "reply_notify" THEN "reply_release" ELSE "inval_release")
    /\ UNCHANGED <<client, pollmgr, kernel, stack, received>>

\* The callback, then "since we removed it from pending_fu_".
ReleaseRemoved(t) ==
    /\ pc[t] \in {"reply_release", "inval_release"}
    /\ AddRef(fu[t], -1) /\ Touch(t, fu[t])
    /\ fu' = [fu EXCEPT ![t] = NoXid]
    /\ Goto(t, IF pc[t] = "reply_release" THEN "parse" ELSE "invalidate")
    /\ UNCHANGED <<client, pollmgr, kernel, batch, events, received>>

\* wait(): one thread waits for each future, so a guard stands for the
\* condition variable (module Future has the condition variable itself).
Wait(c) ==
    /\ pc[c] = "wait"
    /\ future[fu[c]].ready \/ future[fu[c]].timed_out
    /\ Touch(c, fu[c])
    /\ Goto(c, IF future[fu[c]].timed_out THEN "late" ELSE "release")
    /\ UNCHANGED <<client, future, pollmgr, kernel, stack, received>>

\* timed_wait() gives up: the deadline passes, then timed_out_ is set once the
\* mutex is ours, even if the answer got in between.
Expire(c) ==
    /\ pc[c] = "wait"
    /\ ~future[fu[c]].ready
    /\ Goto(c, "expired")
    /\ UNCHANGED <<client, future, pollmgr, kernel, stack, history>>

\* pthread_cond_timedwait's ETIMEDOUT.  (Future has its other failure, which
\* aborts: the behaviours here are those in which it does not occur.)
SetTimedOut(c) ==
    /\ pc[c] = "expired"
    /\ future' = [future EXCEPT ![fu[c]].timed_out = TRUE]
    /\ Touch(c, fu[c])
    /\ Goto(c, "late")
    /\ UNCHANGED <<client, pollmgr, kernel, stack, received>>

\* error_code_ = ETIMEDOUT and the callback, without the mutex.
Late(c) ==
    /\ pc[c] = "late"
    /\ future' = [future EXCEPT ![fu[c]].error = "ETIMEDOUT"]
    /\ Touch(c, fu[c])
    /\ Goto(c, "release")
    /\ UNCHANGED <<client, pollmgr, kernel, stack, received>>

\* The application is done with the future.
ReleaseFuture(c) ==
    /\ pc[c] = "release"
    /\ AddRef(fu[c], -1) /\ Touch(c, fu[c])
    /\ fu' = [fu EXCEPT ![c] = NoXid]
    /\ Goto(c, "idle")
    /\ UNCHANGED <<client, pollmgr, kernel, batch, events, received>>

-----------------------------------------------------------------------------
(* begin_request ... end_request, which hold out_l_ from one to the other  *)

\* With SockBuf, xid_counter_ and the number of threads, the model is finite.
BeginRequest(c) ==
    /\ pc[c] = "idle" /\ sock_ # "none" /\ xid_counter_ <= MaxXid
    /\ out_l_ = "free"
    /\ out_l_' = c
    /\ Goto(c, IF status_ = "CONNECTED" THEN "insert" ELSE "end")
    /\ UNCHANGED <<conn, pending_fu_, out_, in_, xid_counter_, ref_count, future, pollmgr,
                   kernel, stack, history>>

InsertPending(c) ==
    /\ pc[c] = "insert"
    /\ LET x == xid_counter_ IN
       /\ xid_counter_' = x + 1
       /\ future' = [future EXCEPT ![x] = NewFuture]
       /\ pending_fu_' = pending_fu_ \cup {x}
       /\ fu' = [fu EXCEPT ![c] = x]
    /\ Goto(c, "recheck")
    /\ UNCHANGED <<conn, out_l_, out_, in_, ref_count, pollmgr, kernel, batch, events,
                   history>>

\* Mutant: no second test of status_.
NoRecheck(c) ==
    /\ pc[c] = "recheck"
    /\ Goto(c, "header")
    /\ UNCHANGED <<client, future, pollmgr, kernel, stack, history>>

\* "check if the client gets closed in the meantime"
Recheck(c) ==
    /\ pc[c] = "recheck"
    /\ Goto(c, IF status_ = "CONNECTED" THEN "header" ELSE "undo")
    /\ UNCHANGED <<client, future, pollmgr, kernel, stack, history>>

\* Mutant: the future is forgotten without releasing it.
UndoLeaking(c) ==
    /\ pc[c] = "undo"
    /\ pending_fu_' = pending_fu_ \ {fu[c]}
    /\ fu' = [fu EXCEPT ![c] = NoXid]
    /\ Goto(c, "end")
    /\ UNCHANGED <<conn, out_l_, out_, in_, xid_counter_, ref_count, future, pollmgr,
                   kernel, batch, events, history>>

\* Take the future back, unless a close has already taken it to fail it.
Undo(c) ==
    /\ pc[c] = "undo"
    /\ IF fu[c] \in pending_fu_
       THEN AddRef(fu[c], -1) ELSE UNCHANGED future
    /\ Touch(c, fu[c])
    /\ pending_fu_' = pending_fu_ \ {fu[c]}
    /\ fu' = [fu EXCEPT ![c] = NoXid]
    /\ Goto(c, "end")
    /\ UNCHANGED <<conn, out_l_, out_, in_, xid_counter_, ref_count, pollmgr, kernel, batch,
                   events, received>>

\* The bookmark, the xid and the rpc_id; operator<< tests status_ again.
WriteHeader(c) ==
    /\ pc[c] = "header"
    /\ out_' = Append(out_, [xid |-> fu[c], sized |-> FALSE, cut |-> status_ # "CONNECTED"])
    /\ Touch(c, fu[c])
    /\ Goto(c, "ref_copy")
    /\ UNCHANGED <<conn, pending_fu_, out_l_, in_, xid_counter_, ref_count, future, pollmgr,
                   kernel, stack, received>>

\* "one ref is already in pending_fu_"
RefCopy(c) ==
    /\ pc[c] = "ref_copy"
    /\ AddRef(fu[c], 1) /\ Touch(c, fu[c])
    /\ Goto(c, "args")
    /\ UNCHANGED <<client, pollmgr, kernel, stack, received>>

\* The caller's arguments, dropped like the header's fields after a close.
WriteArgs(c) ==
    /\ pc[c] = "args"
    /\ out_' = [out_ EXCEPT ![Len(out_)].cut = @ \/ status_ # "CONNECTED"]
    /\ Goto(c, "end")
    /\ UNCHANGED <<conn, pending_fu_, out_l_, in_, xid_counter_, ref_count, future, pollmgr,
                   kernel, stack, history>>

\* PollThread::update_mode: nothing unless registered; a change of mode is an
\* EPOLL_CTL_MOD, after which epoll looks at the descriptor again.
update_mode(m) ==
    IF registered /\ mode_ # m
    THEN mode_' = m /\ rdy' = TRUE
    ELSE UNCHANGED <<mode_, rdy>>

\* Mutant: write events are not asked for.
EndRequestQuietly(c) ==
    /\ pc[c] = "end"
    /\ out_' = IF fu[c] = NoXid THEN out_ ELSE [out_ EXCEPT ![Len(out_)].sized = TRUE]
    /\ out_l_' = "free"
    /\ Goto(c, IF fu[c] = NoXid THEN "idle" ELSE "wait")
    /\ UNCHANGED <<conn, pending_fu_, in_, xid_counter_, ref_count, future, pollmgr, kernel,
                   stack, history>>

\* The size goes into the bookmark, write events are enabled, out_l_ is freed.
EndRequest(c) ==
    /\ pc[c] = "end"
    /\ out_' = IF fu[c] = NoXid THEN out_ ELSE [out_ EXCEPT ![Len(out_)].sized = TRUE]
    /\ update_mode("RW")
    /\ out_l_' = "free"
    /\ Goto(c, IF fu[c] = NoXid THEN "idle" ELSE "wait")
    /\ UNCHANGED <<conn, pending_fu_, in_, xid_counter_, ref_count, future, registered,
                   pending_remove_, net, in_epoll, peer, stack, history>>

-----------------------------------------------------------------------------
(* close(), by close_and_release() or by handle_error()                    *)

CloseAndRelease(c) ==
    /\ pc[c] = "idle" /\ sock_ # "none"
    /\ Goto(c, "close")
    /\ UNCHANGED <<client, future, pollmgr, kernel, stack, history>>

\* Mutant: the descriptor is closed while it is still registered.
CloseTestNoRemove(t) ==
    /\ pc[t] = "close"
    /\ Goto(t, IF status_ = "CONNECTED" THEN "close_fd" ELSE "set_closed")
    /\ UNCHANGED <<client, future, pollmgr, kernel, stack, history>>

\* The unlocked test of status_.
CloseTest(t) ==
    /\ pc[t] = "close"
    /\ Goto(t, IF status_ = "CONNECTED" THEN "remove" ELSE "set_closed")
    /\ UNCHANGED <<client, future, pollmgr, kernel, stack, history>>

\* Mutant: remove() drops the poll thread's reference itself.
CloseRemoveNow(t) ==
    /\ pc[t] = "remove"
    /\ registered' = FALSE
    /\ ref_count' = IF registered THEN ref_count - 1 ELSE ref_count
    /\ Goto(t, "close_fd")
    /\ UNCHANGED <<conn, pending_fu_, out_l_, out_, in_, xid_counter_, future, mode_,
                   pending_remove_, kernel, stack, history>>

\* PollThread::remove; the poll thread's reference is released by its next
\* iteration.
CloseRemove(t) ==
    /\ pc[t] = "remove"
    /\ registered' = FALSE
    /\ pending_remove_' = (pending_remove_ \/ registered)
    /\ Goto(t, "close_fd")
    /\ UNCHANGED <<client, future, mode_, kernel, stack, history>>

CloseFd(t) ==
    /\ pc[t] = "close_fd"
    /\ sock_' = "closed"
    /\ in_epoll' = FALSE /\ rdy' = FALSE
    /\ Goto(t, "set_closed")
    /\ UNCHANGED <<status_, pending_fu_, out_l_, out_, in_, xid_counter_, ref_count, future,
                   pollmgr, net, peer, stack, freed_access, received>>

SetClosed(t) ==
    /\ pc[t] = "set_closed"
    /\ status_' = "CLOSED"
    /\ Goto(t, "take_pending")
    /\ UNCHANGED <<sock_, pending_fu_, out_l_, out_, in_, xid_counter_, ref_count, future,
                   pollmgr, kernel, stack, history>>

\* Mutant: the pending futures are cleared before they are copied.
TakeNothing(t) ==
    /\ pc[t] = "take_pending"
    /\ pending_fu_' = {}
    /\ Goto(t, "invalidate")
    /\ UNCHANGED <<conn, out_l_, out_, in_, xid_counter_, ref_count, future, pollmgr,
                   kernel, stack, history>>

\* invalidate_pending_futures: copy and clear under pending_fu_l_, ...
TakePending(t) ==
    /\ pc[t] = "take_pending"
    /\ batch' = [batch EXCEPT ![t] = pending_fu_]
    /\ pending_fu_' = {}
    /\ Goto(t, "invalidate")
    /\ UNCHANGED <<conn, out_l_, out_, in_, xid_counter_, ref_count, future, pollmgr,
                   kernel, fu, events, history>>

\* Mutant: the code is not set.
FailSilently(t) ==
    /\ pc[t] = "invalidate"
    /\ \E x \in batch[t] :
        /\ Touch(t, x)
        /\ fu' = [fu EXCEPT ![t] = x]
        /\ batch' = [batch EXCEPT ![t] = @ \ {x}]
    /\ Goto(t, "inval_notify")
    /\ UNCHANGED <<client, future, pollmgr, kernel, events, received>>

\* ... then fail the futures one by one, in the hash map's order.
FailOne(t) ==
    /\ pc[t] = "invalidate"
    /\ \E x \in batch[t] :
        /\ future' = [future EXCEPT ![x].error = "ENOTCONN"]
        /\ Touch(t, x)
        /\ fu' = [fu EXCEPT ![t] = x]
        /\ batch' = [batch EXCEPT ![t] = @ \ {x}]
    /\ Goto(t, "inval_notify")
    /\ UNCHANGED <<client, pollmgr, kernel, events, received>>

\* close() returns, or ~Client does when this was its invalidation.
Invalidated(t) ==
    /\ pc[t] = "invalidate" /\ batch[t] = {}
    /\ Goto(t, IF ref_count = 0 THEN "end_of_client"
               ELSE IF t = Poll THEN "drain" ELSE "unref")
    /\ UNCHANGED <<client, future, pollmgr, kernel, stack, history>>

\* release() of the client; the last one runs ~Client, which invalidates again.
DropClient(t) ==
    /\ ref_count' = ref_count - 1
    /\ Goto(t, IF ref_count = 1 THEN "take_pending"
               ELSE IF t = Poll THEN "poll" ELSE "end_of_client")

Unref(c) ==
    /\ pc[c] = "unref"
    /\ DropClient(c)
    /\ UNCHANGED <<conn, pending_fu_, out_l_, out_, in_, xid_counter_, future, pollmgr,
                   kernel, stack, history>>

-----------------------------------------------------------------------------
(* poll_loop: an iteration handles the events epoll_wait returned, in the  *)
(* order read, write, error, then drops what pending_remove_ holds         *)

Readable == to_client # <<>> \/ peer = "down"
Writable == Len(to_server) < SockBuf \/ peer = "down"

\* Edge triggered: the descriptor was made ready since the last look.
Reported == (IF Readable THEN {"IN"} ELSE {})
            \cup (IF Writable /\ mode_ = "RW" THEN {"OUT"} ELSE {})
            \cup (IF peer = "down" THEN {"HUP"} ELSE {})

EpollWait ==
    /\ pc[Poll] = "poll"
    /\ rdy \/ pending_remove_        \* an event, or the 50 ms timeout
    /\ events' = IF rdy THEN Reported ELSE {}
    /\ rdy' = FALSE
    /\ Goto(Poll, "read")
    /\ UNCHANGED <<client, future, pollmgr, net, in_epoll, peer, fu, batch, history>>

HandleRead ==
    /\ pc[Poll] = "read"
    /\ Goto(Poll, IF "IN" \in events /\ status_ = "CONNECTED" THEN "read_fd" ELSE "write")
    /\ UNCHANGED <<client, future, pollmgr, kernel, stack, history>>

\* read_from_fd reads until EAGAIN; a closed descriptor gives nothing, for there
\* is no other connection here that could have got its number.
ReadFd ==
    /\ pc[Poll] = "read_fd"
    /\ IF sock_ = "open" /\ to_client # <<>>
       THEN /\ in_' = in_ \o to_client
            /\ to_client' = <<>>
            /\ Goto(Poll, "parse")
       ELSE /\ UNCHANGED <<in_, to_client>>
            /\ Goto(Poll, "write")
    /\ UNCHANGED <<conn, pending_fu_, out_l_, out_, xid_counter_, ref_count, future,
                   pollmgr, to_server, at_server, in_epoll, rdy, peer, stack, history>>

\* One packet: look the future up and erase it under pending_fu_l_.
ParseReply ==
    /\ pc[Poll] = "parse" /\ in_ # <<>>
    /\ Head(in_) \in pending_fu_
    /\ in_' = Tail(in_)
    /\ pending_fu_' = pending_fu_ \ {Head(in_)}
    /\ fu' = [fu EXCEPT ![Poll] = Head(in_)]
    /\ Goto(Poll, "reply")
    /\ UNCHANGED <<conn, out_l_, out_, xid_counter_, ref_count, future, pollmgr, kernel,
                   batch, events, history>>

\* A reply without a future: its payload is not consumed, so unless it is empty
\* what follows in in_ no longer reads as packets.
ParseUnknown ==
    /\ pc[Poll] = "parse" /\ in_ # <<>>
    /\ Head(in_) \notin pending_fu_
    /\ in_' \in {Tail(in_), <<>>}
    /\ UNCHANGED <<conn, pending_fu_, out_l_, out_, xid_counter_, ref_count, future,
                   pollmgr, kernel, local, history>>

StoreReply ==
    /\ pc[Poll] = "reply"
    /\ future' = [future EXCEPT ![fu[Poll]].error = "0", ![fu[Poll]].replied = TRUE]
    /\ Touch(Poll, fu[Poll])
    /\ Goto(Poll, "reply_notify")
    /\ UNCHANGED <<client, pollmgr, kernel, stack, received>>

NoMorePackets ==
    /\ pc[Poll] = "parse" /\ in_ = <<>>
    /\ Goto(Poll, "write")
    /\ UNCHANGED <<client, future, pollmgr, kernel, stack, history>>

HandleWrite ==
    /\ pc[Poll] = "write"
    /\ Goto(Poll, IF "OUT" \in events /\ status_ = "CONNECTED" THEN "write_fd" ELSE "error")
    /\ UNCHANGED <<client, future, pollmgr, kernel, stack, history>>

\* Mutant: handle_write does not take out_l_.
NoOutLock == TRUE

\* handle_write holds out_l_, like a request from begin to end.
OutLock == out_l_ = "free"

\* Mutant: write events are turned off although out_ is not empty.
AlwaysReadMode == update_mode("R")

\* With out_ empty no more write events are asked for.
AfterWrite == IF out_' = <<>> THEN update_mode("R") ELSE UNCHANGED <<mode_, rdy>>

\* write_to_fd writes until EAGAIN or empty; all of it with out_l_ held.
WriteFd ==
    /\ pc[Poll] = "write_fd" /\ OutLock
    /\ LET room == IF sock_ = "open" /\ peer = "up" THEN SockBuf - Len(to_server) ELSE 0
           n    == IF Len(out_) <= room THEN Len(out_) ELSE room
       IN  /\ to_server' = to_server \o SubSeq(out_, 1, n)
           /\ out_' = SubSeq(out_, n + 1, Len(out_))
    /\ AfterWrite
    /\ Goto(Poll, "error")
    /\ UNCHANGED <<conn, pending_fu_, out_l_, in_, xid_counter_, ref_count, future,
                   registered, pending_remove_, at_server, to_client, in_epoll, peer, stack,
                   history>>

HandleError ==
    /\ pc[Poll] = "error"
    /\ Goto(Poll, IF "HUP" \in events THEN "close" ELSE "drain")
    /\ UNCHANGED <<client, future, pollmgr, kernel, stack, history>>

\* EPOLL_CTL_DEL, then the poll thread's reference.
Drain ==
    /\ pc[Poll] = "drain"
    /\ events' = {}
    /\ pending_remove_' = FALSE
    /\ IF pending_remove_
       THEN in_epoll' = FALSE /\ rdy' = FALSE /\ DropClient(Poll)
       ELSE UNCHANGED <<in_epoll, rdy, ref_count>> /\ Goto(Poll, "poll")
    /\ UNCHANGED <<conn, pending_fu_, out_l_, out_, in_, xid_counter_, future, registered,
                   mode_, net, peer, fu, batch, history>>

-----------------------------------------------------------------------------
(* The peer: receives requests in order, answers in any order, may go away *)

ServerReceives ==
    /\ peer = "up" /\ to_server # <<>>
    /\ LET p == Head(to_server) IN
       /\ received' = received \cup {p}
       /\ at_server' = at_server \cup {p.xid}
    /\ to_server' = Tail(to_server)
    /\ rdy' = (rdy \/ (in_epoll /\ Len(to_server) = SockBuf))
    /\ UNCHANGED <<client, future, pollmgr, to_client, in_epoll, peer, local,
                   freed_access>>

ServerReplies ==
    /\ peer = "up" /\ sock_ = "open"
    /\ \E x \in at_server : /\ at_server' = at_server \ {x}
                            /\ to_client' = Append(to_client, x)
    /\ rdy' = in_epoll
    /\ UNCHANGED <<client, future, pollmgr, to_server, in_epoll, peer, local, history>>

PeerCloses ==
    /\ peer = "up" /\ sock_ # "none"
    /\ peer' = "down"
    /\ rdy' = in_epoll
    /\ UNCHANGED <<client, future, pollmgr, net, in_epoll, local, history>>

-----------------------------------------------------------------------------

\* Every reference to the client has been released.
Gone == ref_count = 0 /\ \A c \in Callers : pc[c] = "end_of_client"
Terminated == Gone /\ pc[Poll] \in {"poll", "end_of_client"} /\ UNCHANGED vars

Close(t) == \/ CloseTest(t) \/ CloseRemove(t) \/ CloseFd(t) \/ SetClosed(t)
            \/ TakePending(t) \/ FailOne(t) \/ Invalidated(t)
            \/ notify_ready(t) \/ ReleaseRemoved(t)

\* What a caller that entered a method does until the method returns.
InCall(c) == \/ InsertPending(c) \/ Recheck(c) \/ Undo(c) \/ WriteHeader(c)
             \/ RefCopy(c) \/ WriteArgs(c) \/ EndRequest(c)
             \/ Wait(c) \/ SetTimedOut(c) \/ Late(c) \/ ReleaseFuture(c)
             \/ Unref(c) \/ Close(c)

PollLoop == \/ EpollWait \/ HandleRead \/ ReadFd \/ ParseReply \/ ParseUnknown
            \/ StoreReply \/ NoMorePackets \/ HandleWrite \/ WriteFd \/ HandleError
            \/ Drain \/ Close(Poll)

Next == \/ ConnectOk \/ ConnectFails
        \/ \E c \in Callers : \/ BeginRequest(c) \/ Expire(c) \/ CloseAndRelease(c)
                              \/ InCall(c)
        \/ PollLoop
        \/ ServerReceives \/ ServerReplies \/ PeerCloses
        \/ Terminated

\* Threads run and the peer's kernel reads; nobody has to make a request, to
\* close, to time out, to answer or to hang up.
Fairness == /\ \A c \in Callers : WF_vars(InCall(c))
            /\ WF_vars(PollLoop)
            /\ WF_vars(ServerReceives)

Spec == Init /\ [][Next]_vars
FairSpec == Spec /\ Fairness

-----------------------------------------------------------------------------
(* Properties                                                              *)

\* Where a thread can be.
Labels == {"idle", "insert", "recheck", "undo", "header", "ref_copy", "args", "end", "wait",
           "expired", "late", "release", "close", "remove", "close_fd", "set_closed",
           "take_pending", "invalidate", "inval_notify", "inval_release", "unref",
           "end_of_client", "poll", "read", "read_fd", "parse", "reply", "reply_notify",
           "reply_release", "write", "write_fd", "error", "drain"}

\* The types of the client's fields, of its futures and of the threads' state.
TypeOK ==
    /\ status_ \in {"NEW", "CONNECTED", "CLOSED"}
    /\ sock_ \in {"none", "open", "closed"}
    /\ pending_fu_ \subseteq Xids
    /\ out_l_ \in Callers \cup {"free"}
    /\ out_ \in Seq(Packet) /\ in_ \in Seq(Xids)
    /\ xid_counter_ \in 1 .. (MaxXid + 1)
    /\ ref_count \in Nat
    /\ future \in [Xids -> FutureType]
    /\ registered \in BOOLEAN /\ mode_ \in {"R", "RW"} /\ pending_remove_ \in BOOLEAN
    /\ to_server \in Seq(Packet) /\ at_server \subseteq Xids /\ to_client \in Seq(Xids)
    /\ in_epoll \in BOOLEAN /\ rdy \in BOOLEAN /\ peer \in {"up", "down"}
    /\ pc \in [Threads -> Labels]
    /\ fu \in [Threads -> Xids \cup {NoXid}]
    /\ batch \in [Threads -> SUBSET Xids]
    /\ events \subseteq {"IN", "OUT", "HUP"}
    /\ freed_access \subseteq Labels
    /\ received \subseteq Packet

\* Thread t took x out of pending_fu_ and has not released it yet.
Carries(t, x) ==
    \/ x \in batch[t]
    \/ fu[t] = x /\ pc[t] \in {"reply", "reply_notify", "reply_release",
                              "inval_notify", "inval_release"}

\* begin_request returned x to t, which has not released it yet.
Holds(t, x) ==
    fu[t] = x /\ pc[t] \in {"args", "end", "wait", "expired", "late", "release"}

\* A future's reference count is the number of places that own it: pending_fu_,
\* a thread that removed it from there (handle_read, or close on any thread),
\* and the caller.  No path, the undo of begin_request included, leaks or
\* releases twice, whatever a close on another thread did in between.
RefsAccounted ==
    \A x \in Xids :
        future[x].ref = (IF x \in pending_fu_ THEN 1 ELSE 0)
                        + Cardinality({t \in Threads : Carries(t, x)})
                        + Cardinality({t \in Threads : Holds(t, x)})

\* Between the insertion into pending_fu_ and ref_copy, begin_request uses a
\* future of which it owns no reference: a close may have deleted it.  Nobody
\* else ever uses a deleted future.
FreedOnlyInBegin == freed_access \subseteq {"undo", "header", "ref_copy"}

InClose(t) == pc[t] \in {"close", "remove", "close_fd", "set_closed", "take_pending"}
InBegin(t) == pc[t] \in {"insert", "recheck", "undo"}

\* No request is orphaned by a close: once status_ is CLOSED and no thread is
\* on its way through close() or between the two status_ tests of
\* begin_request, pending_fu_ is empty, so every future was failed or answered.
NothingPendingAfterClose ==
    (status_ = "CLOSED" /\ \A t \in Threads : ~InClose(t) /\ ~InBegin(t))
        => pending_fu_ = {}

\* update_mode's verify(epoll_ctl(EPOLL_CTL_MOD) == 0) cannot fail: as long as
\* the client is registered its descriptor is open, although end_request calls
\* update_mode without regard to a close in progress.
ModAlwaysValid == registered => sock_ = "open"

\* Requests waiting in out_ keep write events enabled whenever out_l_ is free,
\* whatever the order of handle_write and end_request.
WriteEventsEnabled ==
    (out_ # <<>> /\ out_l_ = "free" /\ registered) => mode_ = "RW"

\* The peer receives only complete requests: their size is filled in and no
\* field is missing, even when operator<< drops fields because of a close.
OnlyWholeRequests == \A p \in received : p.sized /\ ~p.cut

\* Nobody is inside a method of a deleted client: the poll thread's reference,
\* dropped only between its iterations, covers a close_and_release by the last
\* user while it is handling events.
ClientOutlivesCalls ==
    /\ registered \/ pending_remove_ => ref_count > 0
    /\ \A t \in Threads :
          (pc[t] \notin {"end_of_client", "take_pending", "invalidate",
                        "inval_notify", "inval_release"} /\ (t = Poll => pc[t] # "poll"))
              => ref_count > 0

\* The objects of the client live as long as they are used, and no longer.
Lifetimes == TypeOK /\ RefsAccounted /\ FreedOnlyInBegin /\ ClientOutlivesCalls

\* The call of future x: taken out of pending_fu_ by handle_read, by a close, whose
\* threads still hold it or have stored its code, or by begin_request itself.
Outcome(x) ==
    IF x >= xid_counter_ THEN "none"
    ELSE IF x \in pending_fu_ THEN "pending"
    ELSE IF future[x].replied \/ (pc[Poll] = "reply" /\ fu[Poll] = x) THEN "replied"
    ELSE IF future[x].error # "0" \/ \E t \in Threads : x \in batch[t] THEN "failed"
    ELSE "refused"

Promise == INSTANCE RpcCall WITH Calls <- Xids, outcome <- [x \in Xids |-> Outcome(x)]

\* The client implements RpcCall: handle_read, close on any thread and the undo of
\* begin_request race for a future, and exactly one of them completes it; a call
\* that fails never looks like one that succeeded.
ImplementsRpcCall == Promise!Spec

\* What epoll is told agrees with the descriptor and with what there is to send.
EpollConsistent == ModAlwaysValid /\ WriteEventsEnabled

\* A thread blocked in wait() is woken after a close, by the answer or by
\* ENOTCONN, even if its request was being inserted while close() ran.
CloseWakesWaiters ==
    \A c \in Callers : (status_ = "CLOSED" /\ pc[c] = "wait") ~> pc[c] # "wait"

\* A request that was queued leaves out_ unless the connection ends: the edge
\* triggered write events never get stuck.
RequestsSent ==
    \A x \in Xids : (\E k \in DOMAIN out_ : out_[k].xid = x)
                     ~> (\A k \in DOMAIN out_ : out_[k].xid # x) \/ status_ = "CLOSED"
=============================================================================
