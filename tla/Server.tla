------------------------------- MODULE Server -------------------------------
(***************************************************************************)
(* rpc::Server and ServerTcpConnection (rpc/server.{h,cc}): the accepting  *)
(* thread, the poll thread that runs the connections' handlers, the RPC    *)
(* handlers (on the poll thread, or on the thread pool by run_async or a   *)
(* DeferredReply), and the thread that destroys the server.                *)
(*                                                                         *)
(* An action is one critical section of a lock or one unlocked access to   *)
(* shared state; sconns_l_ is never held from one action to another and so *)
(* is not a variable.  Packets are indivisible, so handle_read leaves      *)
(* nothing in in_.  What PollMgr does is modelled in PollThread in detail, *)
(* and here as far as connections see it.                                  *)
(***************************************************************************)
EXTENDS Integers, Sequences, FiniteSets

CONSTANTS
    Conns,     \* connections clients may make
    Reqs,      \* requests clients may send
    Rpc,       \* Rpc[r]: the rpc_id in request r, or NoId if it is missing
    NoId,
    Fast,      \* the rpc_ids whose handler replies before it returns
    SockBuf,   \* packets a socket takes before write() returns EAGAIN
    Poll,      \* the poll thread
    Owner,     \* the thread that runs ~Server
    Nothing    \* no connection

ASSUME ServerAssumption ==
    /\ IsFiniteSet(Conns) /\ IsFiniteSet(Reqs)
    /\ Poll # Owner /\ Nothing \notin Conns /\ "free" \notin Reqs
    /\ SockBuf \in Nat \ {0}

Closers == {Poll, Owner}
Ids     == {Rpc[r] : r \in Reqs} \ {NoId}

VARIABLES
    \* fields of Server, and of ServerTcpConnection by connection
    handlers_, server_sock_, status_, sconns_, sconns_ctr_,
    status, sock_, ref, out_l_, out_,
    \* what PollMgr knows of a connection
    registered, mode_, pending_remove_,
    \* kernel buffers, readiness, and the clients' ends
    to_server, to_client, rdy, peer,
    \* control state: accepting thread, closers, poll thread, handlers by request
    loop, pc, tgt, should_release, ev, complete_requests, remove_poll, todo,
    handler, of,
    \* history: ::close(sock_) calls, who used a freed connection, replies received
    closes, freed_access, got

listening  == <<handlers_, server_sock_, status_>>
server     == <<listening, sconns_, sconns_ctr_>>
conn_state == <<status, sock_>>
reply_buf  == <<out_l_, out_>>
sconn      == <<conn_state, ref, reply_buf>>
pollmgr    == <<registered, mode_, pending_remove_>>
buffers    == <<to_server, to_client>>
kernel     == <<buffers, rdy, peer>>
closing    == <<tgt, should_release>>
polling    == <<ev, complete_requests, remove_poll>>
calls      == <<handler, of>>
threads    == <<loop, pc, closing, polling, todo, calls>>
history    == <<closes, freed_access, got>>
vars       == <<server, sconn, pollmgr, kernel, threads, history>>

\* A reply packet; sized once end_reply has filled in its size.
Reply == [req : Reqs, error : {"0", "ENOENT", "EINVAL"}, sized : BOOLEAN]

Init ==
    /\ handlers_ = {} /\ server_sock_ = "-1" /\ status_ = "NEW"
    /\ sconns_ = {} /\ sconns_ctr_ = 0
    /\ status = [k \in Conns |-> "none"]
    /\ sock_ = [k \in Conns |-> "none"]
    /\ ref = [k \in Conns |-> 0]
    /\ out_l_ = [k \in Conns |-> "free"]
    /\ out_ = [k \in Conns |-> <<>>]
    /\ registered = {} /\ mode_ = [k \in Conns |-> "R"] /\ pending_remove_ = {}
    /\ to_server = [k \in Conns |-> <<>>]
    /\ to_client = [k \in Conns |-> <<>>]
    /\ rdy = {} /\ peer = [k \in Conns |-> "none"]
    /\ loop = "none"
    /\ pc = [t \in Closers |-> IF t = Poll THEN "wait" ELSE "serving"]
    /\ tgt = [t \in Closers |-> Nothing]
    /\ should_release = {}
    /\ ev = [k \in Conns |-> {}]
    /\ complete_requests = <<>> /\ remove_poll = {} /\ todo = {}
    /\ handler = [r \in Reqs |-> "none"]
    /\ of = [r \in Reqs |-> Nothing]
    /\ closes = [k \in Conns |-> 0] /\ freed_access = {}
    /\ got = [r \in Reqs |-> <<>>]

Goto(t, l) == pc' = [pc EXCEPT ![t] = l]

\* Memory of a connection is used; it is gone when ref is 0.
Touch(t, k) == freed_access' = IF ref[k] = 0 THEN freed_access \cup {t} ELSE freed_access

\* Mutant: the destructor does not count the connection out.
ReleaseUncounted(k) ==
    /\ ref' = [ref EXCEPT ![k] = @ - 1]
    /\ UNCHANGED sconns_ctr_

\* release(); the last one runs ~ServerTcpConnection.
Release(k) ==
    /\ ref' = [ref EXCEPT ![k] = @ - 1]
    /\ sconns_ctr_' = IF ref[k] = 1 THEN sconns_ctr_ - 1 ELSE sconns_ctr_

-----------------------------------------------------------------------------
(* reg, unreg, start and the accepting thread                              *)

\* Before start(): handlers_ has no lock, and handle_read reads it.
reg(i) ==
    /\ status_ = "NEW" /\ pc[Owner] = "serving" /\ i \notin handlers_
    /\ handlers_' = handlers_ \cup {i}
    /\ UNCHANGED <<server_sock_, status_, sconns_, sconns_ctr_, sconn, pollmgr, kernel,
                   threads, history>>

unreg(i) ==
    /\ status_ = "NEW" /\ pc[Owner] = "serving" /\ i \in handlers_
    /\ handlers_' = handlers_ \ {i}
    /\ UNCHANGED <<server_sock_, status_, sconns_, sconns_ctr_, sconn, pollmgr, kernel,
                   threads, history>>

\* A start() that fails leaves server_sock_ and status_ as they were.
start ==
    /\ status_ = "NEW" /\ pc[Owner] = "serving"
    /\ status_' = "RUNNING" /\ server_sock_' = "listening"
    /\ loop' = "select"
    /\ UNCHANGED <<handlers_, sconns_, sconns_ctr_, sconn, pollmgr, kernel, pc, closing,
                   polling, todo, calls, history>>

Backlog == {k \in Conns : peer[k] # "none" /\ sock_[k] = "none"}

\* select reports a client; its timeout leads back to the same test.
Select ==
    /\ loop = "select"
    /\ \/ status_ = "RUNNING" /\ Backlog # {} /\ loop' = "accept"
       \/ status_ # "RUNNING" /\ loop' = "exit"
    /\ UNCHANGED <<server, sconn, pollmgr, kernel, pc, closing, polling, todo, calls,
                   history>>

\* The connection enters sconns_ and PollMgr while sconns_l_ is held: one
\* reference each.
Accept ==
    /\ loop = "accept" /\ status_ = "RUNNING"
    /\ \E k \in Backlog :
        /\ sock_' = [sock_ EXCEPT ![k] = "open"]
        /\ status' = [status EXCEPT ![k] = "CONNECTED"]
        /\ ref' = [ref EXCEPT ![k] = 2]
        /\ sconns_' = sconns_ \cup {k}
        /\ registered' = registered \cup {k}
        /\ rdy' = IF to_server[k] # <<>> \/ peer[k] = "down" THEN rdy \cup {k} ELSE rdy
    /\ sconns_ctr_' = sconns_ctr_ + 1
    /\ loop' = "select"
    /\ UNCHANGED <<listening, reply_buf, mode_, pending_remove_, buffers, peer, pc, closing,
                   polling, todo, calls, history>>

\* The server stops between select and accept: the loop breaks before accept, or
\* accept succeeds and the socket is dropped, still open.
AcceptLate ==
    /\ loop = "accept" /\ status_ # "RUNNING"
    /\ \/ UNCHANGED sock_
       \/ \E k \in Backlog : sock_' = [sock_ EXCEPT ![k] = "leaked"]
    /\ loop' = "exit"
    /\ UNCHANGED <<server, status, ref, reply_buf, pollmgr, kernel, pc, closing, polling,
                   todo, calls, history>>

LoopExits ==
    /\ loop = "exit"
    /\ server_sock_' = "-1" /\ status_' = "STOPPED"
    /\ loop' = "done"
    /\ UNCHANGED <<handlers_, sconns_, sconns_ctr_, sconn, pollmgr, kernel, pc, closing,
                   polling, todo, calls, history>>

-----------------------------------------------------------------------------
(* ServerTcpConnection::close, by ~Server or by handle_error               *)

\* close() returns: ~Server goes on with its copy, poll_loop with its events.
Returned(t) == /\ Goto(t, IF t = Poll THEN "next" ELSE "closing")
               /\ tgt' = [tgt EXCEPT ![t] = Nothing]
               /\ should_release' = should_release \ {t}

\* The unlocked test of status_.
CloseTest(t) ==
    /\ pc[t] = "close"
    /\ Touch(t, tgt[t])
    /\ IF status[tgt[t]] = "CONNECTED"
       THEN Goto(t, "erase") /\ UNCHANGED closing
       ELSE Returned(t)
    /\ UNCHANGED <<server, sconn, pollmgr, kernel, loop, polling, todo, calls, closes, got>>

\* Mutant: a connection that is no longer in sconns_ is closed all the same.
CloseEraseNoReturn(t) ==
    /\ pc[t] = "erase"
    /\ LET k == tgt[t] IN
       /\ sconns_' = sconns_ \ {k}
       /\ registered' = registered \ {k}
       /\ pending_remove_' = IF k \in sconns_ THEN pending_remove_ \cup {k} ELSE pending_remove_
       /\ should_release' = IF k \in sconns_ THEN should_release \cup {t} ELSE should_release
    /\ Goto(t, "set_closed")
    /\ Touch(t, tgt[t])
    /\ UNCHANGED <<listening, sconns_ctr_, sconn, mode_, kernel, loop, tgt, polling, todo,
                   calls, closes, got>>

\* Mutant: the connection is closed without remove().
CloseEraseNoRemove(t) ==
    /\ pc[t] = "erase"
    /\ LET k == tgt[t] IN
       IF k \in sconns_
       THEN /\ sconns_' = sconns_ \ {k}
            /\ should_release' = should_release \cup {t}
            /\ Goto(t, "set_closed") /\ UNCHANGED tgt
       ELSE Returned(t) /\ UNCHANGED sconns_
    /\ Touch(t, tgt[t])
    /\ UNCHANGED <<listening, sconns_ctr_, sconn, pollmgr, kernel, loop, polling, todo,
                   calls, closes, got>>

\* "another thread has already calling close()", or erase and remove.
CloseErase(t) ==
    /\ pc[t] = "erase"
    /\ LET k == tgt[t] IN
       IF k \in sconns_
       THEN /\ sconns_' = sconns_ \ {k}
            /\ should_release' = should_release \cup {t}
            /\ registered' = registered \ {k}
            /\ pending_remove_' = pending_remove_ \cup {k}
            /\ Goto(t, "set_closed") /\ UNCHANGED tgt
       ELSE Returned(t) /\ UNCHANGED <<sconns_, registered, pending_remove_>>
    /\ Touch(t, tgt[t])
    /\ UNCHANGED <<listening, sconns_ctr_, sconn, mode_, kernel, loop, polling, todo, calls,
                   closes, got>>

SetClosed(t) ==
    /\ pc[t] = "set_closed"
    /\ status' = [status EXCEPT ![tgt[t]] = "CLOSED"]
    /\ Touch(t, tgt[t])
    /\ Goto(t, "close_fd")
    /\ UNCHANGED <<server, sock_, ref, reply_buf, pollmgr, kernel, loop, closing, polling,
                   todo, calls, closes, got>>

CloseFd(t) ==
    /\ pc[t] = "close_fd"
    /\ sock_' = [sock_ EXCEPT ![tgt[t]] = "closed"]
    /\ closes' = [closes EXCEPT ![tgt[t]] = @ + 1]
    /\ rdy' = rdy \ {tgt[t]}
    /\ Touch(t, tgt[t])
    /\ Goto(t, "release")
    /\ UNCHANGED <<server, status, ref, reply_buf, pollmgr, buffers, peer, loop, closing,
                   polling, todo, calls, got>>

\* "because we released this connection from server_->sconns_"
CloseRelease(t) ==
    /\ pc[t] = "release"
    /\ IF t \in should_release
       THEN Release(tgt[t]) /\ Touch(t, tgt[t])
       ELSE UNCHANGED <<ref, sconns_ctr_, freed_access>>
    /\ Returned(t)
    /\ UNCHANGED <<listening, sconns_, conn_state, reply_buf, pollmgr, kernel, loop,
                   polling, todo, calls, closes, got>>

Close(t) == CloseTest(t) \/ CloseErase(t) \/ SetClosed(t) \/ CloseFd(t) \/ CloseRelease(t)

-----------------------------------------------------------------------------
(* ~Server                                                                 *)

Destroy ==
    /\ pc[Owner] = "serving"
    /\ IF status_ = "RUNNING"
       THEN status_' = "STOPPING" /\ Goto(Owner, "join")
       ELSE UNCHANGED status_ /\ Goto(Owner, "copy")
    /\ UNCHANGED <<handlers_, server_sock_, sconns_, sconns_ctr_, sconn, pollmgr, kernel,
                   loop, closing, polling, todo, calls, history>>

JoinLoop ==
    /\ pc[Owner] = "join" /\ loop = "done"
    /\ Goto(Owner, "copy")
    /\ UNCHANGED <<server, sconn, pollmgr, kernel, loop, closing, polling, todo, calls,
                   history>>

\* Mutant: sconns_ is cleared with the copy.
CopyAndClear ==
    /\ pc[Owner] = "copy"
    /\ todo' = sconns_
    /\ sconns_' = {}
    /\ Goto(Owner, "closing")
    /\ UNCHANGED <<listening, sconns_ctr_, sconn, pollmgr, kernel, loop, closing, polling,
                   calls, history>>

\* The copy takes no references.
CopySconns ==
    /\ pc[Owner] = "copy"
    /\ todo' = sconns_
    /\ Goto(Owner, "closing")
    /\ UNCHANGED <<server, sconn, pollmgr, kernel, loop, closing, polling, calls, history>>

CloseNext ==
    /\ pc[Owner] = "closing"
    /\ IF todo = {}
       THEN Goto(Owner, "waiting") /\ UNCHANGED <<tgt, todo>>
       ELSE \E k \in todo : /\ todo' = todo \ {k}
                            /\ tgt' = [tgt EXCEPT ![Owner] = k]
                            /\ Goto(Owner, "close")
    /\ UNCHANGED <<should_release, server, sconn, pollmgr, kernel, loop, polling, calls,
                   history>>

\* Mutant: ~Server does not wait for the connections to be deleted.
AllClosedAtOnce ==
    /\ pc[Owner] = "waiting"
    /\ Goto(Owner, "gone")
    /\ UNCHANGED <<server, sconn, pollmgr, kernel, loop, closing, polling, todo, calls,
                   history>>

\* "make sure all open connections are closed": look at sconns_ctr_ every 50 ms,
\* then release threadpool_ and pollmgr_.
AllClosed ==
    /\ pc[Owner] = "waiting"
    /\ IF sconns_ctr_ <= 0 THEN Goto(Owner, "gone") ELSE UNCHANGED pc
    /\ UNCHANGED <<server, sconn, pollmgr, kernel, loop, closing, polling, todo, calls,
                   history>>

-----------------------------------------------------------------------------
(* Replies                                                                 *)

\* PollThread::update_mode, as in module Client.
update_mode(k, m) ==
    IF k \in registered /\ mode_[k] # m
    THEN mode_' = [mode_ EXCEPT ![k] = m] /\ rdy' = rdy \cup {k}
    ELSE UNCHANGED <<mode_, rdy>>

\* Mutant: write events are not enabled.
EnableNothing(k) == UNCHANGED <<mode_, rdy>>

\* "always enable write events"
EnableWrite(k) == update_mode(k, "RW")

\* A handler locks out_l_ and starts its reply, ...
begin_reply(r) ==
    /\ handler[r] = "running" /\ out_l_[of[r]] = "free"
    /\ out_l_' = [out_l_ EXCEPT ![of[r]] = r]
    /\ out_' = [out_ EXCEPT ![of[r]] =
                   Append(@, [req |-> r, error |-> "0", sized |-> FALSE])]
    /\ Touch(r, of[r])
    /\ handler' = [handler EXCEPT ![r] = "replying"]
    /\ UNCHANGED <<server, conn_state, ref, pollmgr, kernel, loop, pc, closing, polling,
                   todo, of, closes, got>>

\* ... fills in the size, enables write events, and unlocks, ...
end_reply(r) ==
    /\ handler[r] = "replying"
    /\ LET k == of[r] IN
       /\ out_' = [out_ EXCEPT ![k][Len(out_[k])].sized = TRUE]
       /\ EnableWrite(k)
       /\ out_l_' = [out_l_ EXCEPT ![k] = "free"]
       /\ Touch(r, k)
    /\ handler' = [handler EXCEPT ![r] = "replied"]
    /\ UNCHANGED <<server, conn_state, ref, registered, pending_remove_, buffers, peer,
                   loop, pc, closing, polling, todo, of, closes, got>>

\* ... then deletes the request and releases the connection.
HandlerReturns(r) ==
    /\ handler[r] = "replied"
    /\ Release(of[r]) /\ Touch(r, of[r])
    /\ handler' = [handler EXCEPT ![r] = "done"]
    /\ UNCHANGED <<listening, sconns_, conn_state, reply_buf, pollmgr, kernel, loop, pc,
                   closing, polling, todo, of, closes, got>>

-----------------------------------------------------------------------------
(* poll_loop, serving all connections                                      *)

Readable(k) == to_server[k] # <<>> \/ peer[k] = "down"
Writable(k) == Len(to_client[k]) < SockBuf \/ peer[k] = "down"

\* What edge-triggered epoll reports of a connection made ready.
Reported(k) == (IF Readable(k) THEN {"IN"} ELSE {})
               \cup (IF Writable(k) /\ mode_[k] = "RW" THEN {"OUT"} ELSE {})
               \cup (IF peer[k] = "down" THEN {"HUP"} ELSE {})

EpollWait ==
    /\ pc[Poll] = "wait"
    /\ rdy # {} \/ pending_remove_ # {}      \* an event, or the 50 ms timeout
    /\ ev' = [k \in Conns |-> IF k \in rdy THEN Reported(k) ELSE {}]
    /\ rdy' = {}
    /\ Goto(Poll, "next")
    /\ UNCHANGED <<server, sconn, pollmgr, buffers, peer, loop, closing, complete_requests,
                   remove_poll, todo, calls, history>>

\* One event after the other; then the removals queued so far.
NextEvent ==
    /\ pc[Poll] = "next"
    /\ IF \A k \in Conns : ev[k] = {}
       THEN /\ remove_poll' = pending_remove_ /\ pending_remove_' = {}
            /\ Goto(Poll, "drain") /\ UNCHANGED tgt
       ELSE /\ \E k \in Conns : ev[k] # {} /\ tgt' = [tgt EXCEPT ![Poll] = k]
            /\ Goto(Poll, "read") /\ UNCHANGED <<remove_poll, pending_remove_>>
    /\ UNCHANGED <<should_release, server, sconn, registered, mode_, kernel, loop, ev,
                   complete_requests, todo, calls, history>>

HandleRead ==
    /\ pc[Poll] = "read"
    /\ Touch(Poll, tgt[Poll])
    /\ Goto(Poll, IF "IN" \in ev[tgt[Poll]] /\ status[tgt[Poll]] # "CLOSED"
                  THEN "read_fd" ELSE "write")
    /\ UNCHANGED <<server, sconn, pollmgr, kernel, loop, closing, polling, todo, calls,
                   closes, got>>

\* All packets that have arrived become complete_requests.
ReadFd ==
    /\ pc[Poll] = "read_fd"
    /\ LET k == tgt[Poll] IN
       IF sock_[k] = "open" /\ to_server[k] # <<>>
       THEN /\ complete_requests' = to_server[k]
            /\ to_server' = [to_server EXCEPT ![k] = <<>>]
            /\ Goto(Poll, "dispatch")
       ELSE Goto(Poll, "write") /\ UNCHANGED <<complete_requests, to_server>>
    /\ UNCHANGED <<server, sconn, pollmgr, to_client, rdy, peer, loop, closing, ev,
                   remove_poll, todo, calls, history>>

\* begin_reply(req, error); end_reply() by handle_read itself.
ReplyError(error) ==
    LET r == Head(complete_requests)
        k == tgt[Poll]
    IN  /\ out_l_[k] = "free"
        /\ out_' = [out_ EXCEPT ![k] =
                       Append(@, [req |-> r, error |-> error, sized |-> TRUE])]
        /\ EnableWrite(k)
        /\ of' = [of EXCEPT ![r] = k]
        /\ complete_requests' = Tail(complete_requests)
        /\ UNCHANGED <<server, conn_state, ref, out_l_, registered, pending_remove_,
                       buffers, peer, loop, pc, closing, ev, remove_poll, todo, handler,
                       history>>

\* "rpc id not provided"
DispatchInvalid ==
    /\ pc[Poll] = "dispatch" /\ complete_requests # <<>>
    /\ Rpc[Head(complete_requests)] = NoId
    /\ ReplyError("EINVAL")

\* "no handler for rpc_id"
DispatchMissing ==
    /\ pc[Poll] = "dispatch" /\ complete_requests # <<>>
    /\ Rpc[Head(complete_requests)] \notin handlers_ \cup {NoId}
    /\ ReplyError("ENOENT")

\* The handler is called with a reference of its own to the connection; a fast
\* one runs here, the others have handed their work to another thread.
Dispatch ==
    /\ pc[Poll] = "dispatch" /\ complete_requests # <<>>
    /\ Rpc[Head(complete_requests)] \in handlers_
    /\ LET r == Head(complete_requests) IN
       /\ ref' = [ref EXCEPT ![tgt[Poll]] = @ + 1]
       /\ of' = [of EXCEPT ![r] = tgt[Poll]]
       /\ handler' = [handler EXCEPT ![r] = "running"]
       /\ IF Rpc[r] \in Fast
          THEN Goto(Poll, "in_handler") /\ UNCHANGED complete_requests
          ELSE complete_requests' = Tail(complete_requests) /\ UNCHANGED pc
    /\ UNCHANGED <<server, conn_state, reply_buf, pollmgr, kernel, loop, closing, ev,
                   remove_poll, todo, history>>

FastReturned ==
    /\ pc[Poll] = "in_handler" /\ handler[Head(complete_requests)] = "done"
    /\ complete_requests' = Tail(complete_requests)
    /\ Goto(Poll, "dispatch")
    /\ UNCHANGED <<server, sconn, pollmgr, kernel, loop, closing, ev, remove_poll, todo,
                   calls, history>>

AllDispatched ==
    /\ pc[Poll] = "dispatch" /\ complete_requests = <<>>
    /\ Goto(Poll, "write")
    /\ UNCHANGED <<server, sconn, pollmgr, kernel, loop, closing, polling, todo, calls,
                   history>>

HandleWrite ==
    /\ pc[Poll] = "write"
    /\ Touch(Poll, tgt[Poll])
    /\ Goto(Poll, IF "OUT" \in ev[tgt[Poll]] /\ status[tgt[Poll]] # "CLOSED"
                  THEN "write_fd" ELSE "error")
    /\ UNCHANGED <<server, sconn, pollmgr, kernel, loop, closing, polling, todo, calls,
                   closes, got>>

\* Mutant: handle_write does not take out_l_.
NoOutLock(k) == TRUE

OutLock(k) == out_l_[k] = "free"

\* handle_write with out_l_ held: write until EAGAIN, and no more write events
\* once out_ is empty.
WriteFd ==
    /\ pc[Poll] = "write_fd" /\ OutLock(tgt[Poll])
    /\ LET k    == tgt[Poll]
           room == IF sock_[k] = "open" /\ peer[k] = "up"
                   THEN SockBuf - Len(to_client[k]) ELSE 0
           n    == IF Len(out_[k]) <= room THEN Len(out_[k]) ELSE room
       IN  /\ to_client' = [to_client EXCEPT ![k] = @ \o SubSeq(out_[k], 1, n)]
           /\ out_' = [out_ EXCEPT ![k] = SubSeq(@, n + 1, Len(@))]
           /\ IF out_'[k] = <<>> THEN update_mode(k, "R") ELSE UNCHANGED <<mode_, rdy>>
    /\ Goto(Poll, "error")
    /\ UNCHANGED <<server, conn_state, ref, out_l_, registered, pending_remove_, to_server,
                   peer, loop, closing, polling, todo, calls, history>>

HandleError ==
    /\ pc[Poll] = "error"
    /\ ev' = [ev EXCEPT ![tgt[Poll]] = {}]
    /\ IF "HUP" \in ev[tgt[Poll]]
       THEN Goto(Poll, "close") /\ UNCHANGED tgt
       ELSE Goto(Poll, "next") /\ tgt' = [tgt EXCEPT ![Poll] = Nothing]
    /\ UNCHANGED <<should_release, server, sconn, pollmgr, kernel, loop, complete_requests,
                   remove_poll, todo, calls, history>>

\* EPOLL_CTL_DEL, then the reference add() took.
Drain ==
    /\ pc[Poll] = "drain"
    /\ IF remove_poll = {}
       THEN Goto(Poll, "wait") /\ UNCHANGED <<ref, sconns_ctr_, remove_poll, rdy>>
       ELSE \E k \in remove_poll : /\ Release(k)
                                   /\ rdy' = rdy \ {k}
                                   /\ remove_poll' = remove_poll \ {k}
                                   /\ UNCHANGED pc
    /\ UNCHANGED <<listening, sconns_, conn_state, reply_buf, pollmgr, buffers, peer, loop,
                   closing, ev, complete_requests, todo, calls, history>>

-----------------------------------------------------------------------------
(* The clients                                                             *)

ClientConnects(k) ==
    /\ peer[k] = "none" /\ server_sock_ = "listening"
    /\ peer' = [peer EXCEPT ![k] = "up"]
    /\ UNCHANGED <<server, sconn, pollmgr, buffers, rdy, threads, history>>

Sent == {r \in Reqs : \/ \E k \in Conns : \E n \in DOMAIN to_server[k] : to_server[k][n] = r
                      \/ \E n \in DOMAIN complete_requests : complete_requests[n] = r
                      \/ of[r] # Nothing}

\* epoll has a descriptor from add() to the deferred EPOLL_CTL_DEL or its close.
Arrived(k) ==
    IF sock_[k] = "open" /\ k \in registered \cup pending_remove_ \cup remove_poll
    THEN rdy \cup {k} ELSE rdy

ClientSends(k, r) ==
    /\ peer[k] = "up" /\ sock_[k] \in {"none", "open"} /\ r \notin Sent
    /\ to_server' = [to_server EXCEPT ![k] = Append(@, r)]
    /\ rdy' = Arrived(k)
    /\ UNCHANGED <<server, sconn, pollmgr, to_client, peer, threads, history>>

ClientReceives(k) ==
    /\ peer[k] = "up" /\ to_client[k] # <<>>
    /\ got' = [got EXCEPT ![Head(to_client[k]).req] = Append(@, Head(to_client[k]))]
    /\ to_client' = [to_client EXCEPT ![k] = Tail(@)]
    /\ rdy' = IF Len(to_client[k]) = SockBuf THEN Arrived(k) ELSE rdy
    /\ UNCHANGED <<server, sconn, pollmgr, to_server, peer, threads, closes, freed_access>>

ClientCloses(k) ==
    /\ peer[k] = "up"
    /\ peer' = [peer EXCEPT ![k] = "down"]
    /\ rdy' = Arrived(k)
    /\ UNCHANGED <<server, sconn, pollmgr, buffers, threads, history>>

-----------------------------------------------------------------------------

LoopThread == Select \/ Accept \/ AcceptLate \/ LoopExits

Dtor == JoinLoop \/ CopySconns \/ CloseNext \/ AllClosed \/ Close(Owner)

PollLoop == \/ EpollWait \/ NextEvent \/ HandleRead \/ ReadFd
            \/ DispatchInvalid \/ DispatchMissing \/ Dispatch \/ FastReturned
            \/ AllDispatched \/ HandleWrite \/ WriteFd \/ HandleError \/ Drain
            \/ Close(Poll)

Handler(r) == begin_reply(r) \/ end_reply(r) \/ HandlerReturns(r)

\* The server is gone; clients may still be there.
Terminated == pc[Owner] = "gone" /\ UNCHANGED vars

Next == \/ \E i \in Ids : reg(i) \/ unreg(i)
        \/ start \/ Destroy \/ LoopThread \/ Dtor \/ PollLoop
        \/ \E r \in Reqs : Handler(r)
        \/ \E k \in Conns : \/ ClientConnects(k) \/ ClientReceives(k) \/ ClientCloses(k)
                            \/ \E r \in Reqs : ClientSends(k, r)
        \/ Terminated

\* The server's threads run, handlers reply as reg() asks of them, and clients
\* read.  Nobody has to connect, send or close, or to destroy the server.
Fairness == /\ WF_vars(LoopThread) /\ WF_vars(Dtor) /\ WF_vars(PollLoop)
            /\ \A r \in Reqs : WF_vars(Handler(r))
            /\ \A k \in Conns : WF_vars(ClientReceives(k))

Spec == Init /\ [][Next]_vars
FairSpec == Spec /\ Fairness

-----------------------------------------------------------------------------
(* Properties                                                              *)

\* Where ~Server and the poll thread can be.
Labels == {"serving", "join", "copy", "closing", "waiting", "gone", "wait", "next", "read",
           "read_fd", "dispatch", "in_handler", "write", "write_fd", "error", "drain",
           "close", "erase", "set_closed", "close_fd", "release"}

\* The types of the server's and the connections' fields and of the threads'
\* state.
TypeOK ==
    /\ handlers_ \subseteq Ids /\ server_sock_ \in {"-1", "listening"}
    /\ status_ \in {"NEW", "RUNNING", "STOPPING", "STOPPED"}
    /\ sconns_ \subseteq Conns /\ sconns_ctr_ \in Nat
    /\ status \in [Conns -> {"none", "CONNECTED", "CLOSED"}]
    /\ sock_ \in [Conns -> {"none", "open", "closed", "leaked"}]
    /\ ref \in [Conns -> Nat]
    /\ out_l_ \in [Conns -> Reqs \cup {"free"}]
    /\ out_ \in [Conns -> Seq(Reply)]
    /\ registered \subseteq Conns /\ pending_remove_ \subseteq Conns
    /\ mode_ \in [Conns -> {"R", "RW"}]
    /\ to_server \in [Conns -> Seq(Reqs)] /\ to_client \in [Conns -> Seq(Reply)]
    /\ rdy \subseteq Conns /\ peer \in [Conns -> {"none", "up", "down"}]
    /\ loop \in {"none", "select", "accept", "exit", "done"}
    /\ pc \in [Closers -> Labels] /\ tgt \in [Closers -> Conns \cup {Nothing}]
    /\ should_release \subseteq Closers
    /\ ev \in [Conns -> SUBSET {"IN", "OUT", "HUP"}]
    /\ complete_requests \in Seq(Reqs)
    /\ remove_poll \subseteq Conns /\ todo \subseteq Conns
    /\ handler \in [Reqs -> {"none", "running", "replying", "replied", "done"}]
    /\ of \in [Reqs -> Conns \cup {Nothing}]
    /\ closes \in [Conns -> Nat] /\ freed_access \subseteq Closers \cup Reqs
    /\ got \in [Reqs -> Seq(Reply)]

Working(r) == handler[r] \in {"running", "replying", "replied"}

\* A connection's references are those of sconns_ (or of the thread that erased
\* it there and is still closing it), of PollMgr (until its deferred release),
\* and of the handlers still working; sconns_ctr_ counts the connections that
\* have any.  No interleaving of ~Server, a hang-up and late replies leaks a
\* connection or deletes it under one of them.
RefsAccounted ==
    /\ \A k \in Conns :
          ref[k] = Cardinality({t \in should_release : tgt[t] = k})
                   + (IF k \in sconns_ THEN 1 ELSE 0)
                   + (IF k \in registered \cup pending_remove_ \cup remove_poll THEN 1 ELSE 0)
                   + Cardinality({r \in Reqs : of[r] = k /\ Working(r)})
    /\ sconns_ctr_ = Cardinality({k \in Conns : ref[k] > 0})

\* ~Server walks over a copy of sconns_ made without references, in which a
\* connection that hangs up meanwhile is deleted.  Nobody else ever uses a deleted
\* connection.
FreedOnlyByDtor == freed_access \subseteq {Owner}

\* "another thread has already calling close()": ~Server and a hang-up may both
\* get into close(), yet the descriptor is closed once.
ClosedOnce == \A k \in Conns : closes[k] <= 1

\* A client gets at most one reply to a request, complete and with the code its
\* rpc_id calls for, although handlers of several threads write to one
\* connection while the poll thread writes errors and sends.
RepliesCorrect ==
    \A r \in Reqs :
        /\ Len(got[r]) <= 1
        /\ \A n \in DOMAIN got[r] :
              /\ got[r][n].sized
              /\ got[r][n].error = IF Rpc[r] = NoId THEN "EINVAL"
                                   ELSE IF Rpc[r] \in handlers_ THEN "0" ELSE "ENOENT"

\* Nothing uses the server once ~Server has returned: no connection is left, no
\* handler is at work and the poll thread is inside no connection.
ServerOutlivesConns ==
    pc[Owner] = "gone" =>
        /\ sconns_ = {} /\ \A k \in Conns : ref[k] = 0
        /\ \A r \in Reqs : ~Working(r)
        /\ pc[Poll] \in {"wait", "next", "drain"}

\* update_mode's verify(epoll_ctl(EPOLL_CTL_MOD) == 0) cannot fail: a late reply
\* never finds its connection registered with a closed descriptor.
ModAlwaysValid == \A k \in registered : sock_[k] = "open"

\* Connections and the server live as long as they are used, and no longer.
Lifetimes == TypeOK /\ RefsAccounted /\ FreedOnlyByDtor /\ ServerOutlivesConns

\* A connection is taken apart once, and in the order its users rely on.
ClosedCleanly == ClosedOnce /\ ModAlwaysValid

\* ~Server returns, however many connections it finds and whatever their
\* handlers are doing.
DtorReturns == pc[Owner] \in {"join", "copy"} ~> pc[Owner] = "gone"

\* A request that was read is answered unless its connection ends: neither the
\* edge-triggered write events nor out_l_ get stuck.
RequestsAnswered ==
    \A r \in Reqs : of[r] # Nothing
                        ~> \/ got[r] # <<>>
                           \/ \E k \in Conns : /\ of[r] = k
                                               /\ status[k] = "CLOSED" \/ peer[k] = "down"
=============================================================================
