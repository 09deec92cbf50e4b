--------------------------- MODULE Server_proofs ----------------------------
(***************************************************************************)
(* Proofs about Server, for any connections, requests and handlers and any *)
(* socket buffer: connections and the server live as long as they are      *)
(* used, a connection is closed once and never while it is registered, and *)
(* every client gets at most one, whole and right reply to a request.      *)
(***************************************************************************)
EXTENDS Server, FiniteSetTheorems, SequenceTheorems, TLAPS

-----------------------------------------------------------------------------
(* The inductive invariant, in parts                                       *)

ReleasePcs == {"set_closed", "close_fd", "release"}
ClosePcs   == {"close", "erase"} \cup ReleasePcs
ServePcs   == {"read", "read_fd", "dispatch", "in_handler", "write", "write_fd", "error"}
OwnerPcs   == {"serving", "join", "copy", "closing", "waiting", "gone"} \cup ClosePcs
PollPcs    == {"wait", "next", "drain"} \cup ServePcs \cup ClosePcs

\* Where the threads are and what their locals hold there.
Control ==
    /\ pc[Owner] \in OwnerPcs /\ pc[Poll] \in PollPcs
    /\ tgt[Owner] \in Conns <=> pc[Owner] \in ClosePcs
    /\ tgt[Poll] \in Conns <=> pc[Poll] \in ClosePcs \cup ServePcs
    /\ \A t \in Closers : t \in should_release <=> pc[t] \in ReleasePcs
    /\ remove_poll # {} => pc[Poll] = "drain"
    /\ complete_requests # <<>> => pc[Poll] \in {"dispatch", "in_handler"}
    /\ pc[Poll] = "in_handler" => complete_requests # <<>>

\* The accepting thread works from start() until ~Server has joined it.
Listening ==
    /\ status_ = "NEW" => /\ loop = "none" /\ server_sock_ = "-1"
                          /\ \A k \in Conns : peer[k] = "none"
    /\ loop = "none" => status_ = "NEW"
    /\ loop \in {"exit", "done"} => status_ \notin {"NEW", "RUNNING"}
    /\ pc[Owner] = "serving" => status_ \in {"NEW", "RUNNING"}
    /\ pc[Owner] \notin {"serving", "join"} => loop \in {"none", "done"}
    /\ \A k \in Conns : peer[k] = "none" => sock_[k] = "none"

\* A connection is registered while it is in sconns_, and in one of PollMgr's
\* lists.
Polled == registered \cup pending_remove_ \cup remove_poll
Lists ==
    /\ registered = sconns_
    /\ registered \cap pending_remove_ = {}
    /\ remove_poll \cap (registered \cup pending_remove_) = {}

\* Connections that are in use have been accepted, those in sconns_ are open, and
\* each was closed at most once.
Opened ==
    /\ \A k \in sconns_ : sock_[k] = "open"
    /\ \A k \in Polled : sock_[k] \in {"open", "closed"}
    /\ \A r \in Reqs : of[r] \in Conns => sock_[of[r]] \in {"open", "closed"}
    /\ \A k \in Conns : closes[k] = IF sock_[k] = "closed" THEN 1 ELSE 0

\* The thread that erased a connection from sconns_ is the only one to close it.
Closing == {tgt[t] : t \in should_release}
OneCloser ==
    /\ \A t \in Closers : pc[t] \in {"set_closed", "close_fd"} => sock_[tgt[t]] = "open"
    /\ \A t \in Closers : pc[t] = "release" => sock_[tgt[t]] = "closed"
    /\ \A t \in should_release : tgt[t] \notin sconns_
    /\ \A t \in should_release, u \in should_release : tgt[t] = tgt[u] => t = u

\* The poll thread works on connections that PollMgr still refers to.
Events ==
    /\ rdy \subseteq Polled
    /\ \A k \in Conns : ev[k] # {} => k \in registered \cup pending_remove_
    /\ tgt[Poll] \in Conns => tgt[Poll] \in registered \cup pending_remove_

\* A request is in one place only, and of[r] is set when it leaves handle_read's
\* list.
Requests ==
    /\ \A k \in Conns : \A i \in DOMAIN to_server[k] : of[to_server[k][i]] = Nothing
    /\ \A k \in Conns, l \in Conns :
           \A i \in DOMAIN to_server[k], j \in DOMAIN to_server[l] :
               to_server[k][i] = to_server[l][j] => k = l /\ i = j
    /\ \A i \in DOMAIN complete_requests :
           \/ of[complete_requests[i]] = Nothing
           \/ i = 1 /\ pc[Poll] = "in_handler"
    /\ \A i \in DOMAIN complete_requests, j \in DOMAIN complete_requests :
           complete_requests[i] = complete_requests[j] => i = j
    /\ \A i \in DOMAIN complete_requests, k \in Conns :
           \A j \in DOMAIN to_server[k] : complete_requests[i] # to_server[k][j]
    /\ \A r \in Reqs : handler[r] # "none" => of[r] \in Conns

\* A connection has a reference for each of its users.
Serving == [k \in Conns |-> {r \in Reqs : of[r] = k /\ Working(r)}]
Alive   == {k \in Conns : ref[k] > 0}
Refs ==
    \A k \in Conns : ref[k] = (IF k \in Closing THEN 1 ELSE 0) + (IF k \in sconns_ THEN 1 ELSE 0)
                              + (IF k \in Polled THEN 1 ELSE 0) + Cardinality(Serving[k])
Counted ==
    /\ sconns_ctr_ = Cardinality(Alive)
    /\ pc[Owner] = "gone" => Alive = {}

\* The reply being written is the last one in out_, and the others have their
\* size; out_l_ is held by the handler that writes it.
Sized ==
    /\ \A k \in Conns : out_l_[k] # "free" =>
           /\ out_[k] # <<>> /\ handler[out_l_[k]] = "replying" /\ of[out_l_[k]] = k
    /\ \A r \in Reqs : handler[r] = "replying" => out_l_[of[r]] = r
    /\ \A k \in Conns : \A i \in DOMAIN out_[k] :
           out_[k][i].sized \/ (i = Len(out_[k]) /\ out_l_[k] # "free")
    /\ \A k \in Conns : \A i \in DOMAIN to_client[k] : to_client[k][i].sized
    /\ \A k \in Conns : Len(to_client[k]) <= SockBuf

\* What the rpc_id of r calls for.
Code(r) == IF Rpc[r] = NoId THEN "EINVAL"
           ELSE IF Rpc[r] \in handlers_ THEN "0" ELSE "ENOENT"
Codes == [r \in Reqs |-> Code(r)]

\* The replies on their way to the client of connection k, in order: one to a
\* request of k that is no longer unanswered.
Pipe == [k \in Conns |-> to_client[k] \o out_[k]]
Unanswered == {r \in Reqs : of[r] = Nothing \/ handler[r] = "running"}
Replies ==
    /\ \A r \in Reqs : handler[r] = "running" => Rpc[r] \in handlers_
    /\ status_ = "NEW" => \A r \in Reqs : of[r] = Nothing
    /\ \A k \in Conns : \A i \in DOMAIN Pipe[k] :
           /\ of[Pipe[k][i].req] = k /\ Pipe[k][i].req \notin Unanswered
           /\ got[Pipe[k][i].req] = <<>>
           /\ Pipe[k][i].error = Codes[Pipe[k][i].req]
    /\ \A k \in Conns : \A i \in DOMAIN Pipe[k], j \in DOMAIN Pipe[k] :
           Pipe[k][i].req = Pipe[k][j].req => i = j
    /\ \A r \in Unanswered : got[r] = <<>>

IInv == /\ TypeOK /\ Control /\ Listening /\ Lists /\ Opened /\ OneCloser
        /\ Events /\ Requests /\ Refs /\ Counted /\ FreedOnlyByDtor
        /\ Sized /\ Replies /\ RepliesCorrect

USE ServerAssumption DEF Goto, Closers, listening, server, conn_state, reply_buf, sconn,
    pollmgr, buffers, kernel, closing, polling, calls, threads, history, vars,
    ReleasePcs, ClosePcs, ServePcs, OwnerPcs, PollPcs

\* A server that was just made satisfies the invariant.
LEMMA InitIInv == Init => IInv
<1> SUFFICES ASSUME Init PROVE IInv
    OBVIOUS
<1>1. TypeOK /\ Control /\ Listening
    BY DEF Init, TypeOK, Control, Listening, Ids, Labels
<1>2. Lists /\ Opened /\ OneCloser /\ Events /\ Requests /\ FreedOnlyByDtor
    BY DEF Init, Lists, Opened, OneCloser, Events, Requests, FreedOnlyByDtor, Polled
<1>3. Serving = [k \in Conns |-> {}] /\ Alive = {}
    BY DEF Init, Serving, Alive, Working
<1>4. Refs /\ Counted
    BY <1>3, FS_EmptySet DEF Init, Refs, Counted, Polled, Closing
<1>5. Sized /\ RepliesCorrect
    BY DEF Init, Sized, RepliesCorrect
<1>6. Pipe = [k \in Conns |-> <<>>]
    BY DEF Init, Pipe
<1>7. Replies
    BY <1>6 DEF Init, Replies, Unanswered
<1> QED BY <1>1, <1>2, <1>4, <1>5, <1>7 DEF IInv

-----------------------------------------------------------------------------
(* What the longer actions do                                              *)

\* update_mode makes at most its connection ready, and only if it is registered.
LEMMA UpdateMode ==
    ASSUME NEW k, NEW m \in {"R", "RW"}, update_mode(k, m)
    PROVE  /\ rdy' \subseteq rdy \cup (registered \cap {k})
           /\ mode_ \in [Conns -> {"R", "RW"}] => mode_' \in [Conns -> {"R", "RW"}]
BY DEF update_mode

\* The replies that handle_read writes itself, for want of an rpc_id or a handler.
LEMMA ErrorRepliesEffect ==
    ASSUME DispatchInvalid \/ DispatchMissing
    PROVE  /\ pc[Poll] = "dispatch" /\ complete_requests # <<>>
           /\ out_l_[tgt[Poll]] = "free"
           /\ out_' = [out_ EXCEPT ![tgt[Poll]] =
                          Append(@, [req |-> Head(complete_requests),
                                     error |-> Code(Head(complete_requests)),
                                     sized |-> TRUE])]
           /\ of' = [of EXCEPT ![Head(complete_requests)] = tgt[Poll]]
           /\ complete_requests' = Tail(complete_requests)
           /\ rdy' \subseteq rdy \cup (registered \cap {tgt[Poll]})
           /\ mode_ \in [Conns -> {"R", "RW"}] => mode_' \in [Conns -> {"R", "RW"}]
           /\ UNCHANGED <<server, conn_state, ref, out_l_, registered, pending_remove_,
                          buffers, peer, loop, pc, closing, ev, remove_poll, todo, handler,
                          history>>
<1>1. CASE DispatchInvalid
    <2>1. Code(Head(complete_requests)) = "EINVAL"
        BY <1>1 DEF DispatchInvalid, Code
    <2>2. update_mode(tgt[Poll], "RW")
        BY <1>1 DEF DispatchInvalid, ReplyError, EnableWrite
    <2> QED BY <1>1, <2>1, <2>2, UpdateMode DEF DispatchInvalid, ReplyError
<1>2. CASE DispatchMissing
    <2>1. Code(Head(complete_requests)) = "ENOENT"
        BY <1>2 DEF DispatchMissing, Code
    <2>2. update_mode(tgt[Poll], "RW")
        BY <1>2 DEF DispatchMissing, ReplyError, EnableWrite
    <2> QED BY <1>2, <2>1, <2>2, UpdateMode DEF DispatchMissing, ReplyError
<1> QED BY <1>1, <1>2

\* handle_write moves some n packets from out_ to the socket.
Moved(k, n) ==
    /\ n <= Len(out_[k]) /\ (n = 0 \/ n <= SockBuf - Len(to_client[k]))
    /\ to_client' = [to_client EXCEPT ![k] = @ \o SubSeq(out_[k], 1, n)]
    /\ out_' = [out_ EXCEPT ![k] = SubSeq(@, n + 1, Len(@))]

\* What handle_write does, however much the socket takes.
LEMMA WriteFdEffect ==
    ASSUME WriteFd
    PROVE  /\ pc[Poll] = "write_fd" /\ out_l_[tgt[Poll]] = "free"
           /\ pc' = [pc EXCEPT ![Poll] = "error"]
           /\ TypeOK /\ tgt[Poll] \in Conns /\ Len(to_client[tgt[Poll]]) <= SockBuf
                  => \E n \in Nat : Moved(tgt[Poll], n)
           /\ rdy' \subseteq rdy \cup (registered \cap {tgt[Poll]})
           /\ mode_ \in [Conns -> {"R", "RW"}] => mode_' \in [Conns -> {"R", "RW"}]
           /\ UNCHANGED <<server, conn_state, ref, out_l_, registered, pending_remove_,
                          to_server, peer, loop, closing, polling, todo, calls, history>>
<1> DEFINE k == tgt[Poll]
           room == IF sock_[k] = "open" /\ peer[k] = "up"
                   THEN SockBuf - Len(to_client[k]) ELSE 0
           n == IF Len(out_[k]) <= room THEN Len(out_[k]) ELSE room
<1>1. /\ to_client' = [to_client EXCEPT ![k] = @ \o SubSeq(out_[k], 1, n)]
      /\ out_' = [out_ EXCEPT ![k] = SubSeq(@, n + 1, Len(@))]
    BY DEF WriteFd
<1>2. ASSUME TypeOK, tgt[Poll] \in Conns, Len(to_client[k]) <= SockBuf
      PROVE  \E i \in Nat : Moved(k, i)
    <2>1. Len(out_[k]) \in Nat /\ Len(to_client[k]) \in Nat
        BY <1>2, LenProperties DEF TypeOK
    <2>2. PICK L \in Nat, M \in Nat : L = Len(out_[k]) /\ M = Len(to_client[k])
        BY <2>1
    <2>3. room \in Nat /\ (room = 0 \/ room = SockBuf - M)
        <3>1. M <= SockBuf /\ room \in {0, SockBuf - M}
            BY <1>2, <2>2
        <3> HIDE DEF room
        <3> QED BY <3>1
    <2>4. n = IF L <= room THEN L ELSE room
        BY <2>2
    <2> HIDE DEF n, room
    <2>5. n \in Nat /\ n <= L /\ (n = 0 \/ n <= SockBuf - M)
        BY <2>3, <2>4
    <2> QED BY <1>1, <2>2, <2>5 DEF Moved
<1>3. /\ rdy' \subseteq rdy \cup (registered \cap {tgt[Poll]})
      /\ mode_ \in [Conns -> {"R", "RW"}] => mode_' \in [Conns -> {"R", "RW"}]
    <2>1. CASE update_mode(k, "R")
        BY <2>1, UpdateMode
    <2>2. CASE UNCHANGED <<mode_, rdy>>
        BY <2>2
    <2> QED BY <2>1, <2>2 DEF WriteFd
<1> QED BY <1>2, <1>3 DEF WriteFd, OutLock

\* One deferred removal, or the end of them.
LEMMA DrainEffect ==
    ASSUME Drain
    PROVE  /\ pc[Poll] = "drain"
           /\ \/ /\ remove_poll = {} /\ pc' = [pc EXCEPT ![Poll] = "wait"]
                 /\ UNCHANGED <<ref, sconns_ctr_, remove_poll, rdy>>
              \/ \E k \in remove_poll : /\ Release(k) /\ rdy' = rdy \ {k}
                                        /\ remove_poll' = remove_poll \ {k} /\ UNCHANGED pc
           /\ UNCHANGED <<listening, sconns_, conn_state, reply_buf, pollmgr, buffers, peer,
                          loop, closing, ev, complete_requests, todo, calls, history>>
BY DEF Drain

-----------------------------------------------------------------------------
(* The threads, and PollMgr's lists                                        *)

\* Every step keeps the threads' locals right.
LEMMA NextControl == IInv /\ [Next]_vars => Control'
<1> SUFFICES ASSUME IInv, [Next]_vars PROVE Control'
    OBVIOUS
<1> USE DEF IInv
<1>1. CASE UNCHANGED <<pc, tgt, should_release, remove_poll, complete_requests>>
    BY <1>1 DEF Control
<1>2. ASSUME NEW i \in Ids,
             reg(i) \/ unreg(i) PROVE Control'
    BY <1>1, <1>2 DEF reg, unreg
<1>3. CASE start \/ Select \/ Accept \/ AcceptLate \/ LoopExits \/ Terminated
    BY <1>1, <1>3 DEF start, Select, Accept, AcceptLate, LoopExits, Terminated
<1>4. ASSUME NEW r \in Reqs,
             begin_reply(r) \/ end_reply(r) \/ HandlerReturns(r) PROVE Control'
    BY <1>1, <1>4 DEF begin_reply, end_reply, HandlerReturns
<1>5. ASSUME NEW k \in Conns,
             ClientConnects(k) \/ ClientReceives(k) \/ ClientCloses(k) PROVE Control'
    BY <1>1, <1>5 DEF ClientConnects, ClientReceives, ClientCloses
<1>6. ASSUME NEW k \in Conns, NEW r \in Reqs,
             ClientSends(k, r) PROVE Control'
    BY <1>1, <1>6 DEF ClientSends
<1>7. ASSUME NEW t \in Closers, CloseTest(t) PROVE Control'
    <2>1. CASE status[tgt[t]] = "CONNECTED"
        BY <1>7, <2>1 DEF CloseTest, Touch, Returned, TypeOK, Control
    <2>2. CASE ~(status[tgt[t]] = "CONNECTED")
        BY <1>7, <2>2 DEF CloseTest, Touch, Returned, TypeOK, Control
    <2> QED BY <2>1, <2>2
<1>8. ASSUME NEW t \in Closers, CloseErase(t) PROVE Control'
    <2>1. CASE tgt[t] \in sconns_
        BY <1>8, <2>1 DEF CloseErase, Touch, Returned, TypeOK, Control
    <2>2. CASE ~(tgt[t] \in sconns_)
        <3>1. /\ pc[t] = "erase"
              /\ pc' = [pc EXCEPT ![t] = IF t = Poll THEN "next" ELSE "closing"]
              /\ tgt' = [tgt EXCEPT ![t] = Nothing] /\ should_release' = should_release \ {t}
              /\ UNCHANGED <<remove_poll, complete_requests>>
            BY <1>8, <2>2 DEF CloseErase, Returned
        <3>2. CASE t = Poll
            <4>1. /\ pc'[Poll] = "next" /\ pc'[Owner] = pc[Owner]
                  /\ tgt'[Poll] = Nothing /\ tgt'[Owner] = tgt[Owner]
                BY <3>1, <3>2 DEF TypeOK
            <4> QED BY <3>1, <3>2, <4>1 DEF Control
        <3>3. CASE t = Owner
            <4>1. /\ pc'[Owner] = "closing" /\ pc'[Poll] = pc[Poll]
                  /\ tgt'[Owner] = Nothing /\ tgt'[Poll] = tgt[Poll]
                BY <3>1, <3>3 DEF TypeOK
            <4> QED BY <3>1, <3>3, <4>1 DEF Control
        <3> QED BY <3>2, <3>3
    <2> QED BY <2>1, <2>2
<1>9. ASSUME NEW t \in Closers, SetClosed(t) PROVE Control'
    BY <1>9 DEF SetClosed, Touch, TypeOK, Control
<1>10. ASSUME NEW t \in Closers, CloseFd(t) PROVE Control'
    <2>1. /\ pc[t] = "close_fd" /\ pc' = [pc EXCEPT ![t] = "release"]
          /\ UNCHANGED <<tgt, should_release, remove_poll, complete_requests>>
        BY <1>10 DEF CloseFd
    <2>2. pc'[t] = "release" /\ \A u \in Closers : u # t => pc'[u] = pc[u]
        BY <2>1 DEF TypeOK
    <2> QED BY <2>1, <2>2 DEF Control
<1>11. ASSUME NEW t \in Closers, CloseRelease(t) PROVE Control'
    BY <1>11 DEF CloseRelease, Touch, Returned, Release, TypeOK, Control
<1>12. CASE Destroy
    BY <1>12 DEF Destroy, TypeOK, Control
<1>13. CASE JoinLoop
    BY <1>13 DEF JoinLoop, TypeOK, Control
<1>14. CASE CopySconns
    BY <1>14 DEF CopySconns, TypeOK, Control
<1>15. CASE CloseNext
    BY <1>15 DEF CloseNext, TypeOK, Control
<1>16. CASE AllClosed
    BY <1>16 DEF AllClosed, TypeOK, Control
<1>17. CASE EpollWait
    BY <1>17 DEF EpollWait, Reported, Readable, Writable, TypeOK, Control
<1>18. CASE NextEvent
    <2>1. CASE \A k \in Conns : ev[k] = {}
        BY <1>18, <2>1 DEF NextEvent, TypeOK, Control
    <2>2. CASE ~\A k \in Conns : ev[k] = {}
        <3>1. PICK k \in Conns : ev[k] # {} /\ tgt' = [tgt EXCEPT ![Poll] = k]
            BY <1>18, <2>2 DEF NextEvent
        <3> QED BY <1>18, <2>2, <3>1 DEF NextEvent, TypeOK, Control
    <2> QED BY <2>1, <2>2
<1>19. CASE HandleRead
    BY <1>19 DEF HandleRead, Touch, TypeOK, Control
<1>20. CASE ReadFd
    <2>1. UNCHANGED <<tgt, should_release, remove_poll>> /\ pc[Poll] = "read_fd"
        BY <1>20 DEF ReadFd
    <2>2. PICK l \in {"dispatch", "write"} :
              /\ pc' = [pc EXCEPT ![Poll] = l]
              /\ l = "write" => complete_requests' = complete_requests
        BY <1>20 DEF ReadFd
    <2>3. pc'[Poll] = l /\ pc'[Owner] = pc[Owner]
        BY <2>2 DEF TypeOK
    <2> QED BY <2>1, <2>2, <2>3 DEF Control
<1>21. CASE DispatchInvalid \/ DispatchMissing
    <2>1. /\ pc[Poll] = "dispatch"
          /\ UNCHANGED <<pc, tgt, should_release, remove_poll>>
        BY <1>21, ErrorRepliesEffect
    <2> QED BY <2>1 DEF TypeOK, Control
<1>22. CASE Dispatch
    BY <1>22 DEF Dispatch, TypeOK, Control
<1>23. CASE FastReturned
    BY <1>23 DEF FastReturned, TypeOK, Control
<1>24. CASE AllDispatched
    BY <1>24 DEF AllDispatched, TypeOK, Control
<1>25. CASE HandleWrite
    BY <1>25 DEF HandleWrite, Touch, TypeOK, Control
<1>26. CASE WriteFd
    <2>1. /\ pc[Poll] = "write_fd" /\ pc' = [pc EXCEPT ![Poll] = "error"]
          /\ UNCHANGED <<tgt, should_release, remove_poll, complete_requests>>
        BY <1>26, WriteFdEffect
    <2> QED BY <2>1 DEF TypeOK, Control
<1>27. CASE HandleError
    BY <1>27 DEF HandleError, TypeOK, Control
<1>28. CASE Drain
    BY <1>28, DrainEffect DEF TypeOK, Control
<1> QED
    BY <1>1, <1>2, <1>3, <1>4, <1>5, <1>6, <1>7, <1>8, <1>9, <1>10, <1>11, <1>12, <1>13,
       <1>14, <1>15, <1>16, <1>17, <1>18, <1>19, <1>20, <1>21, <1>22, <1>23, <1>24,
       <1>25, <1>26, <1>27, <1>28
    DEF Next, LoopThread, Dtor, PollLoop, Close, Handler

\* Every step keeps server_loop and ~Server in step.
LEMMA NextListening == IInv /\ [Next]_vars => Listening'
<1> SUFFICES ASSUME IInv, [Next]_vars PROVE Listening'
    OBVIOUS
<1> USE DEF IInv
<1>1. CASE UNCHANGED <<status_, loop, server_sock_, peer, pc, sock_>>
    BY <1>1 DEF Listening
<1>2. ASSUME NEW i \in Ids,
             reg(i) \/ unreg(i) PROVE Listening'
    BY <1>1, <1>2 DEF reg, unreg
<1>3. ASSUME NEW r \in Reqs,
             begin_reply(r) \/ end_reply(r) \/ HandlerReturns(r) PROVE Listening'
    BY <1>1, <1>3 DEF begin_reply, end_reply, HandlerReturns
<1>4. CASE DispatchInvalid \/ DispatchMissing \/ Terminated
    BY <1>1, <1>4, ErrorRepliesEffect DEF Terminated
<1>5. ASSUME NEW k \in Conns, NEW r \in Reqs,
             ClientSends(k, r) PROVE Listening'
    BY <1>1, <1>5 DEF ClientSends
<1>6. ASSUME NEW k \in Conns,
             ClientReceives(k) PROVE Listening'
    BY <1>1, <1>6 DEF ClientReceives
<1>7. CASE start
    BY <1>7 DEF start, TypeOK, Control, Listening
<1>8. CASE Select
    BY <1>8 DEF Select, TypeOK, Control, Listening
<1>9. CASE Accept
    BY <1>9 DEF Accept, Backlog, TypeOK, Control, Listening
<1>10. CASE AcceptLate
    BY <1>10 DEF AcceptLate, Backlog, TypeOK, Control, Listening
<1>11. CASE LoopExits
    BY <1>11 DEF LoopExits, TypeOK, Control, Listening
<1>12. ASSUME NEW t \in Closers, CloseTest(t) PROVE Listening'
    BY <1>12 DEF CloseTest, Touch, Returned, TypeOK, Control, Listening
<1>13. ASSUME NEW t \in Closers, CloseErase(t) PROVE Listening'
    BY <1>13 DEF CloseErase, Touch, Returned, TypeOK, Control, Listening
<1>14. ASSUME NEW t \in Closers, SetClosed(t) PROVE Listening'
    BY <1>14 DEF SetClosed, Touch, TypeOK, Control, Listening
<1>15. ASSUME NEW t \in Closers, CloseFd(t) PROVE Listening'
    <2>1. sock_[tgt[t]] = "open" /\ tgt[t] \in Conns
        BY <1>15 DEF CloseFd, Control, OneCloser
    <2> QED BY <1>15, <2>1 DEF CloseFd, TypeOK, Listening
<1>16. ASSUME NEW t \in Closers, CloseRelease(t) PROVE Listening'
    BY <1>16 DEF CloseRelease, Touch, Returned, Release, TypeOK, Control, Listening
<1>17. CASE Destroy
    BY <1>17 DEF Destroy, TypeOK, Control, Listening
<1>18. CASE JoinLoop
    BY <1>18 DEF JoinLoop, TypeOK, Control, Listening
<1>19. CASE CopySconns
    BY <1>19 DEF CopySconns, TypeOK, Control, Listening
<1>20. CASE CloseNext
    BY <1>20 DEF CloseNext, TypeOK, Control, Listening
<1>21. CASE AllClosed
    BY <1>21 DEF AllClosed, TypeOK, Control, Listening
<1>22. CASE EpollWait
    BY <1>22 DEF EpollWait, Reported, Readable, Writable, TypeOK, Control, Listening
<1>23. CASE NextEvent
    BY <1>23 DEF NextEvent, TypeOK, Control, Listening
<1>24. CASE HandleRead
    BY <1>24 DEF HandleRead, Touch, TypeOK, Control, Listening
<1>25. CASE ReadFd
    BY <1>25 DEF ReadFd, TypeOK, Control, Listening
<1>26. CASE Dispatch
    BY <1>26 DEF Dispatch, TypeOK, Control, Listening
<1>27. CASE FastReturned
    BY <1>27 DEF FastReturned, TypeOK, Control, Listening
<1>28. CASE AllDispatched
    BY <1>28 DEF AllDispatched, TypeOK, Control, Listening
<1>29. CASE HandleWrite
    BY <1>29 DEF HandleWrite, Touch, TypeOK, Control, Listening
<1>30. CASE WriteFd
    BY <1>30, WriteFdEffect DEF TypeOK, Control, Listening
<1>31. CASE HandleError
    BY <1>31 DEF HandleError, TypeOK, Control, Listening
<1>32. CASE Drain
    BY <1>32, DrainEffect DEF TypeOK, Control, Listening
<1>33. ASSUME NEW k \in Conns, ClientConnects(k) PROVE Listening'
    BY <1>33 DEF ClientConnects, TypeOK, Control, Listening
<1>34. ASSUME NEW k \in Conns, ClientCloses(k) PROVE Listening'
    BY <1>34 DEF ClientCloses, Arrived, TypeOK, Control, Listening
<1> QED
    BY <1>1, <1>2, <1>3, <1>4, <1>5, <1>6, <1>7, <1>8, <1>9, <1>10, <1>11, <1>12, <1>13,
       <1>14, <1>15, <1>16, <1>17, <1>18, <1>19, <1>20, <1>21, <1>22, <1>23, <1>24,
       <1>25, <1>26, <1>27, <1>28, <1>29, <1>30, <1>31, <1>32, <1>33, <1>34
    DEF Next, LoopThread, Dtor, PollLoop, Close, Handler

\* A connection is in one of PollMgr's lists at a time.
LEMMA NextLists == IInv /\ [Next]_vars => Lists'
<1> SUFFICES ASSUME IInv, [Next]_vars PROVE Lists'
    OBVIOUS
<1> USE DEF IInv
<1>1. CASE UNCHANGED <<registered, sconns_, pending_remove_, remove_poll>>
    BY <1>1 DEF Lists
<1>2. ASSUME NEW i \in Ids,
             reg(i) \/ unreg(i) PROVE Lists'
    BY <1>1, <1>2 DEF reg, unreg
<1>3. CASE start \/ Select \/ AcceptLate \/ LoopExits \/ Destroy \/ JoinLoop \/
          CopySconns \/ CloseNext \/ AllClosed \/ EpollWait \/ HandleRead \/ ReadFd \/
          DispatchInvalid \/ DispatchMissing \/ Dispatch \/ FastReturned \/
          AllDispatched \/ HandleWrite \/ WriteFd \/ HandleError \/ Terminated
    BY <1>1, <1>3, ErrorRepliesEffect, WriteFdEffect DEF start, Select, AcceptLate,
       LoopExits, Destroy, JoinLoop, CopySconns, CloseNext,
       AllClosed, EpollWait, HandleRead, ReadFd, Dispatch, FastReturned,
       AllDispatched, HandleWrite, HandleError, Terminated
<1>4. ASSUME NEW t \in Closers,
             CloseTest(t) \/ SetClosed(t) \/ CloseFd(t) \/ CloseRelease(t) PROVE Lists'
    BY <1>1, <1>4 DEF CloseTest, SetClosed, CloseFd, CloseRelease
<1>5. ASSUME NEW r \in Reqs,
             begin_reply(r) \/ end_reply(r) \/ HandlerReturns(r) PROVE Lists'
    BY <1>1, <1>5 DEF begin_reply, end_reply, HandlerReturns
<1>6. ASSUME NEW k \in Conns,
             ClientConnects(k) \/ ClientReceives(k) \/ ClientCloses(k) PROVE Lists'
    BY <1>1, <1>6 DEF ClientConnects, ClientReceives, ClientCloses
<1>7. ASSUME NEW k \in Conns, NEW r \in Reqs,
             ClientSends(k, r) PROVE Lists'
    BY <1>1, <1>7 DEF ClientSends
<1>8. CASE Accept
    <2>1. PICK k \in Backlog : sconns_' = sconns_ \cup {k} /\ registered' = registered \cup {k}
        BY <1>8 DEF Accept
    <2>2. k \notin Polled
        BY DEF Backlog, Opened
    <2> QED BY <1>8, <2>1, <2>2 DEF Accept, Lists, Polled
<1>9. ASSUME NEW t \in Closers, CloseErase(t) PROVE Lists'
    <2>1. CASE tgt[t] \in sconns_
        <3>1. /\ sconns_' = sconns_ \ {tgt[t]} /\ registered' = registered \ {tgt[t]}
              /\ pending_remove_' = pending_remove_ \cup {tgt[t]} /\ UNCHANGED remove_poll
            BY <1>9, <2>1 DEF CloseErase
        <3> QED BY <2>1, <3>1 DEF Lists
    <2>2. CASE ~(tgt[t] \in sconns_)
        BY <1>9, <2>2 DEF CloseErase, Touch, Returned, Control, Lists
    <2> QED BY <2>1, <2>2
<1>10. CASE NextEvent
    BY <1>10 DEF NextEvent, TypeOK, Control, Lists
<1>11. CASE Drain
    BY <1>11, DrainEffect DEF TypeOK, Control, Lists
<1> QED
    BY <1>1, <1>2, <1>3, <1>4, <1>5, <1>6, <1>7, <1>8, <1>9, <1>10, <1>11
    DEF Next, LoopThread, Dtor, PollLoop, Close, Handler

\* Connections are accepted before they are used and closed once.
LEMMA NextOpened == IInv /\ [Next]_vars => Opened'
<1> SUFFICES ASSUME IInv, [Next]_vars PROVE Opened'
    OBVIOUS
<1> USE DEF IInv
<1>1. CASE UNCHANGED <<sconns_, sock_, registered, pending_remove_, remove_poll, of,
                    closes>>
    BY <1>1 DEF Opened, Polled
<1>2. ASSUME NEW i \in Ids,
             reg(i) \/ unreg(i) PROVE Opened'
    BY <1>1, <1>2 DEF reg, unreg
<1>3. CASE start \/ Select \/ LoopExits \/ Destroy \/ JoinLoop \/ CopySconns \/
          CloseNext \/ AllClosed \/ EpollWait \/ HandleRead \/ ReadFd \/
          FastReturned \/ AllDispatched \/ HandleWrite \/ WriteFd \/ HandleError \/
          Terminated
    BY <1>1, <1>3, WriteFdEffect DEF start, Select, LoopExits, Destroy, JoinLoop,
       CopySconns, CloseNext, AllClosed,
       EpollWait, HandleRead, ReadFd, FastReturned, AllDispatched, HandleWrite,
       HandleError, Terminated
<1>4. ASSUME NEW t \in Closers,
             CloseTest(t) \/ SetClosed(t) \/ CloseRelease(t) PROVE Opened'
    BY <1>1, <1>4 DEF CloseTest, SetClosed, CloseRelease
<1>5. ASSUME NEW r \in Reqs,
             begin_reply(r) \/ end_reply(r) \/ HandlerReturns(r) PROVE Opened'
    BY <1>1, <1>5 DEF begin_reply, end_reply, HandlerReturns
<1>6. ASSUME NEW k \in Conns,
             ClientConnects(k) \/ ClientReceives(k) \/ ClientCloses(k) PROVE Opened'
    BY <1>1, <1>6 DEF ClientConnects, ClientReceives, ClientCloses
<1>7. ASSUME NEW k \in Conns, NEW r \in Reqs,
             ClientSends(k, r) PROVE Opened'
    BY <1>1, <1>7 DEF ClientSends
<1>8. CASE Accept
    <2>1. PICK k \in Backlog : /\ sock_' = [sock_ EXCEPT ![k] = "open"]
                               /\ sconns_' = sconns_ \cup {k}
                               /\ registered' = registered \cup {k}
        BY <1>8 DEF Accept
    <2>2. sock_[k] = "none" /\ k \in Conns
        BY DEF Backlog
    <2>3. UNCHANGED <<pending_remove_, remove_poll, of, closes>>
        BY <1>8 DEF Accept
    <2> QED BY <2>1, <2>2, <2>3 DEF Opened, Polled, TypeOK
<1>9. CASE AcceptLate
    <2>1. UNCHANGED <<sconns_, registered, pending_remove_, remove_poll, of, closes>>
        BY <1>9 DEF AcceptLate
    <2>2. CASE UNCHANGED sock_
        BY <2>1, <2>2 DEF Opened, Polled
    <2>3. ASSUME NEW k \in Backlog, sock_' = [sock_ EXCEPT ![k] = "leaked"]
          PROVE  Opened'
        BY <2>1, <2>3 DEF Opened, Polled, TypeOK, Backlog
    <2> QED BY <1>9, <2>2, <2>3 DEF AcceptLate
<1>10. ASSUME NEW t \in Closers, CloseErase(t) PROVE Opened'
    <2>1. CASE tgt[t] \in sconns_
        BY <1>10, <2>1 DEF CloseErase, Touch, Returned, TypeOK, Opened, Polled
    <2>2. CASE ~(tgt[t] \in sconns_)
        BY <1>10, <2>2 DEF CloseErase, Touch, Returned, TypeOK, Opened, Polled
    <2> QED BY <2>1, <2>2
<1>11. ASSUME NEW t \in Closers, CloseFd(t) PROVE Opened'
    <2>1. tgt[t] \in Conns /\ tgt[t] \notin sconns_ /\ sock_[tgt[t]] = "open"
        BY <1>11 DEF CloseFd, Control, OneCloser
    <2>2. /\ sock_' = [sock_ EXCEPT ![tgt[t]] = "closed"]
          /\ UNCHANGED <<sconns_, registered, pending_remove_, remove_poll, of>>
        BY <1>11 DEF CloseFd
    <2>3. closes[tgt[t]] = 0
        BY <2>1 DEF Opened
    <2>4. closes' = [closes EXCEPT ![tgt[t]] = closes[tgt[t]] + 1]
        BY <1>11 DEF CloseFd
    <2>5. closes' = [closes EXCEPT ![tgt[t]] = 1]
        BY <2>3, <2>4
    <2>6. PICK k \in Conns : k = tgt[t]
        BY <2>1
    <2>7. /\ sock_'[k] = "closed" /\ closes'[k] = 1
          /\ \A l \in Conns : l # k => sock_'[l] = sock_[l] /\ closes'[l] = closes[l]
        BY <2>2, <2>5, <2>6 DEF TypeOK
    <2>8. \A l \in sconns_ : l # k /\ l \in Conns
        BY <2>1, <2>6 DEF TypeOK
    <2>9. Polled' = Polled /\ Polled \subseteq Conns
        BY <2>2 DEF Polled, TypeOK
    <2> QED BY <2>2, <2>7, <2>8, <2>9 DEF Opened
<1>12. CASE NextEvent
    BY <1>12 DEF NextEvent, TypeOK, Opened, Polled
<1>13. CASE DispatchInvalid \/ DispatchMissing
    <2>1. tgt[Poll] \in Conns /\ tgt[Poll] \in Polled
        BY <1>13, ErrorRepliesEffect DEF Control, Events, Polled
    <2>2. /\ of' = [of EXCEPT ![Head(complete_requests)] = tgt[Poll]]
          /\ UNCHANGED <<sconns_, sock_, registered, pending_remove_, remove_poll, closes>>
        BY <1>13, ErrorRepliesEffect
    <2> QED BY <2>1, <2>2 DEF Opened, Polled, TypeOK
<1>14. CASE Dispatch
    <2>1. tgt[Poll] \in Conns /\ tgt[Poll] \in Polled
        BY <1>14 DEF Dispatch, Control, Events, Polled
    <2>2. /\ of' = [of EXCEPT ![Head(complete_requests)] = tgt[Poll]]
          /\ UNCHANGED <<sconns_, sock_, registered, pending_remove_, remove_poll, closes>>
        BY <1>14 DEF Dispatch
    <2> QED BY <2>1, <2>2 DEF Opened, Polled, TypeOK
<1>15. CASE Drain
    BY <1>15, DrainEffect DEF TypeOK, Opened, Polled
<1> QED
    BY <1>1, <1>2, <1>3, <1>4, <1>5, <1>6, <1>7, <1>8, <1>9, <1>10, <1>11, <1>12, <1>13,
       <1>14, <1>15
    DEF Next, LoopThread, Dtor, PollLoop, Close, Handler

\* A connection has one closer.
LEMMA NextOneCloser == IInv /\ [Next]_vars => OneCloser'
<1> SUFFICES ASSUME IInv, [Next]_vars PROVE OneCloser'
    OBVIOUS
<1> USE DEF IInv
<1>1. CASE UNCHANGED <<sconns_, sock_, pc, tgt, should_release>>
    BY <1>1 DEF OneCloser
<1>2. ASSUME NEW i \in Ids,
             reg(i) \/ unreg(i) PROVE OneCloser'
    BY <1>1, <1>2 DEF reg, unreg
<1>3. CASE start \/ Select \/ LoopExits \/ DispatchInvalid \/ DispatchMissing \/
          Terminated
    BY <1>1, <1>3, ErrorRepliesEffect DEF start, Select, LoopExits, Terminated
<1>4. ASSUME NEW r \in Reqs,
             begin_reply(r) \/ end_reply(r) \/ HandlerReturns(r) PROVE OneCloser'
    BY <1>1, <1>4 DEF begin_reply, end_reply, HandlerReturns
<1>5. ASSUME NEW k \in Conns,
             ClientConnects(k) \/ ClientReceives(k) \/ ClientCloses(k) PROVE OneCloser'
    BY <1>1, <1>5 DEF ClientConnects, ClientReceives, ClientCloses
<1>6. ASSUME NEW k \in Conns, NEW r \in Reqs,
             ClientSends(k, r) PROVE OneCloser'
    BY <1>1, <1>6 DEF ClientSends
<1>7. CASE Accept
    <2>1. PICK k \in Backlog : /\ sock_' = [sock_ EXCEPT ![k] = "open"]
                               /\ sconns_' = sconns_ \cup {k}
        BY <1>7 DEF Accept
    <2>2. sock_[k] = "none" /\ k \in Conns /\ UNCHANGED <<pc, tgt, should_release>>
        BY <1>7 DEF Accept, Backlog
    <2>3. \A t \in Closers : pc[t] \in ReleasePcs => tgt[t] # k
        BY <2>2 DEF OneCloser
    <2>4. \A l \in Conns : l # k => sock_'[l] = sock_[l]
        BY <2>1 DEF TypeOK
    <2>5. \A t \in Closers : pc[t] \in ReleasePcs => tgt[t] \in Conns
        BY DEF Control
    <2>6. \A t \in should_release : t \in Closers /\ pc[t] \in ReleasePcs
        BY DEF TypeOK, Control
    <2> QED BY <2>1, <2>2, <2>3, <2>4, <2>5, <2>6 DEF OneCloser
<1>8. CASE AcceptLate
    <2>1. UNCHANGED <<sconns_, pc, tgt, should_release>>
        BY <1>8 DEF AcceptLate
    <2>2. CASE UNCHANGED sock_
        BY <2>1, <2>2 DEF OneCloser
    <2>3. ASSUME NEW k \in Backlog, sock_' = [sock_ EXCEPT ![k] = "leaked"]
          PROVE  OneCloser'
        BY <2>1, <2>3 DEF OneCloser, Control, TypeOK, Backlog
    <2> QED BY <1>8, <2>2, <2>3 DEF AcceptLate
<1>9. ASSUME NEW t \in Closers, CloseTest(t) PROVE OneCloser'
    <2>1. CASE status[tgt[t]] = "CONNECTED"
        BY <1>9, <2>1 DEF CloseTest, Touch, Returned, TypeOK, Control, OneCloser
    <2>2. CASE ~(status[tgt[t]] = "CONNECTED")
        BY <1>9, <2>2 DEF CloseTest, Touch, Returned, TypeOK, Control, OneCloser
    <2> QED BY <2>1, <2>2
<1>10. ASSUME NEW t \in Closers, CloseErase(t) PROVE OneCloser'
    <2>1. CASE tgt[t] \in sconns_
        <3>1. /\ pc[t] = "erase" /\ pc' = [pc EXCEPT ![t] = "set_closed"]
              /\ sconns_' = sconns_ \ {tgt[t]} /\ should_release' = should_release \cup {t}
              /\ UNCHANGED <<tgt, sock_>>
            BY <1>10, <2>1 DEF CloseErase
        <3>2. sock_[tgt[t]] = "open"
            BY <2>1 DEF Opened
        <3> QED BY <2>1, <3>1, <3>2 DEF OneCloser, Control, TypeOK
    <2>2. CASE tgt[t] \notin sconns_
        BY <1>10, <2>2 DEF CloseErase, Returned, OneCloser, Control, TypeOK
    <2> QED BY <2>1, <2>2
<1>11. ASSUME NEW t \in Closers, SetClosed(t) PROVE OneCloser'
    BY <1>11 DEF SetClosed, Touch, TypeOK, Control, OneCloser
<1>12. ASSUME NEW t \in Closers, CloseFd(t) PROVE OneCloser'
    BY <1>12 DEF CloseFd, Touch, TypeOK, Control, OneCloser
<1>13. ASSUME NEW t \in Closers, CloseRelease(t) PROVE OneCloser'
    BY <1>13 DEF CloseRelease, Touch, Returned, Release, TypeOK, Control, OneCloser
<1>14. CASE Destroy
    BY <1>14 DEF Destroy, TypeOK, Control, OneCloser
<1>15. CASE JoinLoop
    BY <1>15 DEF JoinLoop, TypeOK, Control, OneCloser
<1>16. CASE CopySconns
    BY <1>16 DEF CopySconns, TypeOK, Control, OneCloser
<1>17. CASE CloseNext
    <2>1. UNCHANGED <<sock_, should_release, sconns_>> /\ pc[Owner] = "closing"
        BY <1>17 DEF CloseNext
    <2>2. PICK l \in {"waiting", "close"} : pc' = [pc EXCEPT ![Owner] = l]
        BY <1>17 DEF CloseNext
    <2>3. UNCHANGED tgt \/ \E k \in todo : tgt' = [tgt EXCEPT ![Owner] = k]
        BY <1>17 DEF CloseNext
    <2>4. \A t \in Closers : t # Owner => pc'[t] = pc[t] /\ tgt'[t] = tgt[t]
        BY <2>2, <2>3 DEF TypeOK
    <2>5. pc'[Owner] = l /\ Owner \notin should_release
        BY <2>1, <2>2 DEF TypeOK, Control
    <2>6. \A t \in should_release : t \in Closers /\ t # Owner /\ tgt'[t] = tgt[t]
        BY <2>4, <2>5 DEF TypeOK
    <2>7. \A t \in Closers : pc'[t] \in ReleasePcs => pc'[t] = pc[t] /\ tgt'[t] = tgt[t]
        BY <2>4, <2>5
    <2> QED BY <2>1, <2>6, <2>7 DEF OneCloser
<1>18. CASE AllClosed
    BY <1>18 DEF AllClosed, TypeOK, Control, OneCloser
<1>19. CASE EpollWait
    BY <1>19 DEF EpollWait, Reported, Readable, Writable, TypeOK, Control, OneCloser
<1>20. CASE NextEvent
    <2>1. CASE \A k \in Conns : ev[k] = {}
        BY <1>20, <2>1 DEF NextEvent, TypeOK, Control, OneCloser
    <2>2. CASE ~\A k \in Conns : ev[k] = {}
        <3>1. PICK k \in Conns : ev[k] # {} /\ tgt' = [tgt EXCEPT ![Poll] = k]
            BY <1>20, <2>2 DEF NextEvent
        <3> QED BY <1>20, <2>2, <3>1 DEF NextEvent, TypeOK, Control, OneCloser
    <2> QED BY <2>1, <2>2
<1>21. CASE HandleRead
    BY <1>21 DEF HandleRead, Touch, TypeOK, Control, OneCloser
<1>22. CASE ReadFd
    BY <1>22 DEF ReadFd, TypeOK, Control, OneCloser
<1>23. CASE Dispatch
    <2>1. UNCHANGED <<sock_, tgt, should_release, sconns_>>
        BY <1>23 DEF Dispatch
    <2>2. pc[Poll] = "dispatch" /\ (UNCHANGED pc \/ pc' = [pc EXCEPT ![Poll] = "in_handler"])
        BY <1>23 DEF Dispatch
    <2>3. \A t \in Closers : pc'[t] \in ReleasePcs => pc'[t] = pc[t]
        BY <2>2 DEF TypeOK
    <2> QED BY <2>1, <2>3 DEF OneCloser
<1>24. CASE FastReturned
    BY <1>24 DEF FastReturned, TypeOK, Control, OneCloser
<1>25. CASE AllDispatched
    BY <1>25 DEF AllDispatched, TypeOK, Control, OneCloser
<1>26. CASE HandleWrite
    BY <1>26 DEF HandleWrite, Touch, TypeOK, Control, OneCloser
<1>27. CASE WriteFd
    <2>1. /\ pc[Poll] = "write_fd" /\ pc' = [pc EXCEPT ![Poll] = "error"]
          /\ UNCHANGED <<sconns_, sock_, tgt, should_release>>
        BY <1>27, WriteFdEffect
    <2> QED BY <2>1 DEF TypeOK, Control, OneCloser
<1>28. CASE HandleError
    BY <1>28 DEF HandleError, TypeOK, Control, OneCloser
<1>29. CASE Drain
    <2>1. /\ pc[Poll] = "drain"
          /\ pc' = [pc EXCEPT ![Poll] = "wait"] \/ pc' = pc
          /\ UNCHANGED <<sconns_, sock_, tgt, should_release>>
        BY <1>29, DrainEffect
    <2> QED BY <2>1 DEF TypeOK, Control, OneCloser
<1> QED
    BY <1>1, <1>2, <1>3, <1>4, <1>5, <1>6, <1>7, <1>8, <1>9, <1>10, <1>11, <1>12, <1>13,
       <1>14, <1>15, <1>16, <1>17, <1>18, <1>19, <1>20, <1>21, <1>22, <1>23, <1>24,
       <1>25, <1>26, <1>27, <1>28, <1>29
    DEF Next, LoopThread, Dtor, PollLoop, Close, Handler

\* Every step keeps the poll thread on connections that PollMgr refers to.
LEMMA NextEvents == IInv /\ [Next]_vars => Events'
<1> SUFFICES ASSUME IInv, [Next]_vars PROVE Events'
    OBVIOUS
<1> USE DEF IInv
<1>1. CASE UNCHANGED <<rdy, registered, pending_remove_, remove_poll, ev, tgt>>
    BY <1>1 DEF Events, Polled
<1>2. ASSUME NEW i \in Ids,
             reg(i) \/ unreg(i) PROVE Events'
    BY <1>1, <1>2 DEF reg, unreg
<1>3. CASE start \/ Select \/ AcceptLate \/ LoopExits \/ Destroy \/ JoinLoop \/
          CopySconns \/ AllClosed \/ HandleRead \/ ReadFd \/ Dispatch \/
          FastReturned \/ AllDispatched \/ HandleWrite \/ Terminated
    BY <1>1, <1>3 DEF start, Select, AcceptLate, LoopExits, Destroy, JoinLoop,
       CopySconns, AllClosed,
       HandleRead, ReadFd, Dispatch, FastReturned, AllDispatched, HandleWrite,
       Terminated
<1>4. ASSUME NEW t \in Closers,
             SetClosed(t) PROVE Events'
    BY <1>1, <1>4 DEF SetClosed
<1>5. ASSUME NEW r \in Reqs,
             begin_reply(r) \/ HandlerReturns(r) PROVE Events'
    BY <1>1, <1>5 DEF begin_reply, HandlerReturns
<1>6. ASSUME NEW k \in Conns,
             ClientConnects(k) PROVE Events'
    BY <1>1, <1>6 DEF ClientConnects
<1>7. CASE Accept
    BY <1>7 DEF Accept, Backlog, TypeOK, Control, Lists, Events, Polled
<1>8. ASSUME NEW t \in Closers, CloseTest(t) PROVE Events'
    BY <1>8 DEF CloseTest, Touch, Returned, TypeOK, Control, Lists, Events, Polled
<1>9. ASSUME NEW t \in Closers, CloseErase(t) PROVE Events'
    <2>1. CASE tgt[t] \in sconns_
        BY <1>9, <2>1 DEF CloseErase, Touch, Returned, TypeOK, Control, Lists, Events,
           Polled
    <2>2. CASE ~(tgt[t] \in sconns_)
        BY <1>9, <2>2 DEF CloseErase, Touch, Returned, TypeOK, Control, Lists, Events,
           Polled
    <2> QED BY <2>1, <2>2
<1>10. ASSUME NEW t \in Closers, CloseFd(t) PROVE Events'
    BY <1>10 DEF CloseFd, Touch, TypeOK, Control, Lists, Events, Polled
<1>11. ASSUME NEW t \in Closers, CloseRelease(t) PROVE Events'
    BY <1>11 DEF CloseRelease, Touch, Returned, Release, TypeOK, Control, Lists, Events,
       Polled
<1>12. CASE CloseNext
    BY <1>12 DEF CloseNext, TypeOK, Control, Lists, Events, Polled
<1>13. ASSUME NEW r \in Reqs, end_reply(r) PROVE Events'
    <2>1. /\ rdy' \subseteq rdy \cup Polled
          /\ UNCHANGED <<registered, pending_remove_, remove_poll, ev, tgt>>
        BY <1>13 DEF end_reply, EnableWrite, update_mode, Polled
    <2> QED BY <2>1 DEF Events, Polled
<1>14. CASE EpollWait
    BY <1>14 DEF EpollWait, Reported, Readable, Writable, TypeOK, Control, Lists,
       Events, Polled
<1>15. CASE NextEvent
    <2>1. CASE \A k \in Conns : ev[k] = {}
        BY <1>15, <2>1 DEF NextEvent, TypeOK, Control, Lists, Events, Polled
    <2>2. CASE ~\A k \in Conns : ev[k] = {}
        <3>1. PICK k \in Conns : ev[k] # {} /\ tgt' = [tgt EXCEPT ![Poll] = k]
            BY <1>15, <2>2 DEF NextEvent
        <3> QED BY <1>15, <2>2, <3>1 DEF NextEvent, TypeOK, Control, Lists, Events, Polled
    <2> QED BY <2>1, <2>2
<1>16. CASE DispatchInvalid \/ DispatchMissing
    <2>1. /\ rdy' \subseteq rdy \cup registered
          /\ UNCHANGED <<registered, pending_remove_, remove_poll, ev, tgt>>
        BY <1>16, ErrorRepliesEffect
    <2> QED BY <2>1 DEF Events, Polled
<1>17. CASE WriteFd
    <2>1. /\ rdy' \subseteq rdy \cup registered
          /\ UNCHANGED <<registered, pending_remove_, remove_poll, ev, tgt>>
        BY <1>17, WriteFdEffect
    <2> QED BY <2>1 DEF Events, Polled
<1>18. CASE HandleError
    BY <1>18 DEF HandleError, TypeOK, Control, Lists, Events, Polled
<1>19. CASE Drain
    BY <1>19, DrainEffect DEF TypeOK, Control, Lists, Events, Polled
<1>20. ASSUME NEW k \in Conns, NEW r \in Reqs, ClientSends(k, r) PROVE Events'
    <2>1. /\ rdy' \subseteq rdy \cup Polled
          /\ UNCHANGED <<registered, pending_remove_, remove_poll, ev, tgt>>
        BY <1>20 DEF ClientSends, Arrived, Polled
    <2> QED BY <2>1 DEF Events, Polled
<1>21. ASSUME NEW k \in Conns, ClientReceives(k) PROVE Events'
    <2>1. /\ rdy' \subseteq rdy \cup Polled
          /\ UNCHANGED <<registered, pending_remove_, remove_poll, ev, tgt>>
        BY <1>21 DEF ClientReceives, Arrived, Polled
    <2> QED BY <2>1 DEF Events, Polled
<1>22. ASSUME NEW k \in Conns, ClientCloses(k) PROVE Events'
    <2>1. /\ rdy' \subseteq rdy \cup Polled
          /\ UNCHANGED <<registered, pending_remove_, remove_poll, ev, tgt>>
        BY <1>22 DEF ClientCloses, Arrived, Polled
    <2> QED BY <2>1 DEF Events, Polled
<1> QED
    BY <1>1, <1>2, <1>3, <1>4, <1>5, <1>6, <1>7, <1>8, <1>9, <1>10, <1>11, <1>12, <1>13,
       <1>14, <1>15, <1>16, <1>17, <1>18, <1>19, <1>20, <1>21, <1>22
    DEF Next, LoopThread, Dtor, PollLoop, Close, Handler

-----------------------------------------------------------------------------
(* Requests                                                                *)

\* What Head, Tail and Append do to the elements of a sequence.
LEMMA SeqHeadTail ==
    ASSUME NEW S, NEW q \in Seq(S), q # <<>>
    PROVE  /\ Head(q) = q[1] /\ Head(q) \in S /\ 1 \in DOMAIN q
           /\ Tail(q) \in Seq(S)
           /\ \A i \in DOMAIN Tail(q) : /\ i \in Nat /\ i + 1 \in DOMAIN q /\ i + 1 # 1
                                        /\ Tail(q)[i] = q[i + 1]
<1>1. Len(q) \in Nat /\ DOMAIN q = 1 .. Len(q) /\ Len(q) # 0
    BY LenProperties, EmptySeq
<1>2. Tail(q) \in Seq(S) /\ Len(Tail(q)) = Len(q) - 1
    BY HeadTailProperties
<1>3. DOMAIN Tail(q) = 1 .. Len(q) - 1
    BY <1>2, LenProperties
<1>4. \A i \in 1 .. Len(q) - 1 : i \in Nat /\ i + 1 \in 1 .. Len(q) /\ i + 1 # 1
    BY <1>1
<1>5. \A i \in 1 .. Len(q) - 1 : Tail(q)[i] = q[i + 1]
    BY HeadTailProperties
<1>6. 1 \in 1 .. Len(q)
    BY <1>1
<1> QED BY <1>1, <1>2, <1>3, <1>4, <1>5, <1>6, HeadTailProperties

\* ... and an appended element comes after all others.
LEMMA SeqAppend ==
    ASSUME NEW S, NEW q \in Seq(S), NEW e \in S
    PROVE  /\ Append(q, e) \in Seq(S) /\ Len(q) \in Nat /\ Len(q) + 1 \notin DOMAIN q
           /\ DOMAIN Append(q, e) = DOMAIN q \cup {Len(q) + 1}
           /\ Append(q, e)[Len(q) + 1] = e
           /\ \A i \in DOMAIN q : Append(q, e)[i] = q[i]
<1>1. Len(q) \in Nat /\ DOMAIN q = 1 .. Len(q)
    BY LenProperties
<1>2. /\ Append(q, e) \in Seq(S) /\ Len(Append(q, e)) = Len(q) + 1
      /\ \A i \in 1 .. Len(q) : Append(q, e)[i] = q[i]
      /\ Append(q, e)[Len(q) + 1] = e
    BY AppendProperties
<1>3. DOMAIN Append(q, e) = 1 .. (Len(q) + 1)
    BY <1>2, LenProperties
<1>4. 1 .. (Len(q) + 1) = (1 .. Len(q)) \cup {Len(q) + 1} /\ Len(q) + 1 \notin 1 .. Len(q)
    BY <1>1
<1> QED BY <1>1, <1>2, <1>3, <1>4

\* A step that moves no request.
LEMMA RequestsFrame ==
    ASSUME Requests, UNCHANGED <<to_server, of, complete_requests>>,
           \A r \in Reqs : handler'[r] # "none" => handler[r] # "none",
           pc[Poll] = "in_handler" => pc'[Poll] = "in_handler"
    PROVE  Requests'
BY DEF Requests

\* handle_read's list is taken from the socket ...
LEMMA ReadFdRequests ==
    ASSUME TypeOK, Control, Requests, ReadFd
    PROVE  Requests'
<1> DEFINE k == tgt[Poll]
<1>1. k \in Conns /\ pc[Poll] = "read_fd"
    BY DEF ReadFd, Control
<1>2. CASE sock_[k] = "open" /\ to_server[k] # <<>>
    <2>1. /\ complete_requests' = to_server[k]
          /\ to_server' = [to_server EXCEPT ![k] = <<>>]
          /\ UNCHANGED <<of, handler>>
        BY <1>2 DEF ReadFd
    <2>2. to_server'[k] = <<>> /\ \A l \in Conns : l # k => to_server'[l] = to_server[l]
        BY <1>1, <2>1 DEF TypeOK
    <2>3. \A l \in Conns : \A i \in DOMAIN to_server'[l] :
              l # k /\ i \in DOMAIN to_server[l] /\ to_server'[l][i] = to_server[l][i]
        BY <2>2
    <2> HIDE DEF k
    <2> QED BY <1>1, <2>1, <2>3 DEF Requests
<1>3. CASE ~(sock_[k] = "open" /\ to_server[k] # <<>>)
    <2>1. /\ UNCHANGED <<to_server, of, complete_requests, handler>>
          /\ pc' = [pc EXCEPT ![Poll] = "write"]
        BY <1>3 DEF ReadFd
    <2> QED BY <1>1, <2>1, RequestsFrame
<1> QED BY <1>2, <1>3

\* ... and a request leaves it, or stays while its fast handler runs.
LEMMA TakeRequest ==
    ASSUME TypeOK, Control, Requests, pc[Poll] = "dispatch", complete_requests # <<>>,
           of' = [of EXCEPT ![Head(complete_requests)] = tgt[Poll]],
           UNCHANGED to_server,
           \/ complete_requests' = Tail(complete_requests)
           \/ complete_requests' = complete_requests /\ pc'[Poll] = "in_handler",
           \A r \in Reqs : handler'[r] # "none"
                               => handler[r] # "none" \/ r = Head(complete_requests)
    PROVE  Requests'
<1>0. PICK q \in Seq(Reqs) : q = complete_requests
    BY DEF TypeOK
<1>1. PICK h : h = Head(complete_requests)
    OBVIOUS
<1>2. h \in Reqs /\ tgt[Poll] \in Conns /\ 1 \in DOMAIN q /\ q[1] = h
    BY <1>0, <1>1, SeqHeadTail DEF Control
<1>3. of'[h] = tgt[Poll] /\ \A r \in Reqs : r # h => of'[r] = of[r]
    BY <1>1, <1>2 DEF TypeOK
<1>4. \A i \in DOMAIN q : q[i] \in Reqs /\ (i # 1 => q[i] # h)
    BY <1>0, <1>2, ElementOfSeq, LenProperties DEF Requests
<1>5. \A l \in Conns : \A i \in DOMAIN to_server[l] :
          to_server[l][i] \in Reqs /\ to_server[l][i] # h
    BY <1>0, <1>2, ElementOfSeq, LenProperties DEF Requests, TypeOK
<1>6. \A l \in Conns : \A i \in DOMAIN to_server'[l] : of'[to_server'[l][i]] = Nothing
    BY <1>3, <1>5 DEF Requests
<1>7. \A r \in Reqs : handler'[r] # "none" => of'[r] \in Conns
    BY <1>1, <1>2, <1>3 DEF Requests
<1>8. \A i \in DOMAIN q : i # 1 => of'[q[i]] = Nothing
    BY <1>0, <1>3, <1>4 DEF Requests
<1>9. CASE complete_requests' = complete_requests /\ pc'[Poll] = "in_handler"
    BY <1>0, <1>6, <1>7, <1>8, <1>9 DEF Requests
<1>10. CASE complete_requests' = Tail(complete_requests)
    <2>1. \A i \in DOMAIN complete_requests' :
              /\ i \in Nat /\ i + 1 \in DOMAIN q /\ i + 1 # 1
              /\ complete_requests'[i] = q[i + 1]
        BY <1>0, <1>10, SeqHeadTail
    <2>2. \A i \in DOMAIN complete_requests' : of'[complete_requests'[i]] = Nothing
        BY <1>8, <2>1
    <2>3. \A i \in DOMAIN complete_requests', j \in DOMAIN complete_requests' :
              complete_requests'[i] = complete_requests'[j] => i = j
        <3> SUFFICES ASSUME NEW i \in DOMAIN complete_requests',
                            NEW j \in DOMAIN complete_requests',
                            complete_requests'[i] = complete_requests'[j]
                     PROVE  i = j
            OBVIOUS
        <3>1. i \in Nat /\ j \in Nat /\ i + 1 = j + 1
            BY <1>0, <2>1 DEF Requests
        <3> QED BY <3>1
    <2>4. \A i \in DOMAIN complete_requests', l \in Conns :
              \A j \in DOMAIN to_server'[l] : complete_requests'[i] # to_server'[l][j]
        BY <1>0, <2>1 DEF Requests
    <2> QED BY <1>6, <1>7, <2>2, <2>3, <2>4 DEF Requests
<1> QED BY <1>9, <1>10

\* The fast handler has returned.
LEMMA FastReturnedRequests ==
    ASSUME TypeOK, Control, Requests, FastReturned
    PROVE  Requests'
<1>0. PICK q \in Seq(Reqs) : q = complete_requests
    BY DEF TypeOK
<1>1. /\ pc[Poll] = "in_handler" /\ q # <<>> /\ complete_requests' = Tail(q)
      /\ UNCHANGED <<to_server, of, handler>>
    BY <1>0 DEF FastReturned, Control
<1>2. \A i \in DOMAIN complete_requests' :
          /\ i \in Nat /\ i + 1 \in DOMAIN q /\ i + 1 # 1
          /\ complete_requests'[i] = q[i + 1]
    BY <1>1, SeqHeadTail
<1>3. \A i \in DOMAIN complete_requests' : of'[complete_requests'[i]] = Nothing
    BY <1>0, <1>1, <1>2 DEF Requests
<1>4. \A i \in DOMAIN complete_requests', j \in DOMAIN complete_requests' :
          complete_requests'[i] = complete_requests'[j] => i = j
    <2> SUFFICES ASSUME NEW i \in DOMAIN complete_requests',
                        NEW j \in DOMAIN complete_requests',
                        complete_requests'[i] = complete_requests'[j]
                 PROVE  i = j
        OBVIOUS
    <2>1. i \in Nat /\ j \in Nat /\ i + 1 = j + 1
        BY <1>0, <1>2 DEF Requests
    <2> QED BY <2>1
<1>5. \A i \in DOMAIN complete_requests', l \in Conns :
          \A j \in DOMAIN to_server'[l] : complete_requests'[i] # to_server'[l][j]
    BY <1>0, <1>1, <1>2 DEF Requests
<1> QED BY <1>1, <1>3, <1>4, <1>5 DEF Requests

\* A request that was never sent enters the socket.
LEMMA ClientSendsRequests ==
    ASSUME TypeOK, Requests, NEW k \in Conns, NEW r \in Reqs, ClientSends(k, r)
    PROVE  Requests'
<1>1. /\ to_server' = [to_server EXCEPT ![k] = Append(to_server[k], r)]
      /\ r \notin Sent /\ UNCHANGED <<of, complete_requests, handler, pc>>
    BY DEF ClientSends
<1>2. /\ \A l \in Conns : \A i \in DOMAIN to_server[l] : to_server[l][i] # r
      /\ \A i \in DOMAIN complete_requests : complete_requests[i] # r
      /\ of[r] = Nothing
    BY <1>1 DEF Sent
<1>3. PICK q \in Seq(Reqs) : q = to_server[k]
    BY DEF TypeOK
<1>4. PICK n : n = Len(q) + 1
    OBVIOUS
<1>5. /\ DOMAIN to_server'[k] = DOMAIN q \cup {n} /\ n \notin DOMAIN q
      /\ to_server'[k][n] = r /\ \A i \in DOMAIN q : to_server'[k][i] = q[i]
      /\ \A l \in Conns : l # k => to_server'[l] = to_server[l]
    <2>1. to_server'[k] = Append(q, r) /\ \A l \in Conns : l # k => to_server'[l] = to_server[l]
        BY <1>1, <1>3 DEF TypeOK
    <2> QED BY <1>4, <2>1, SeqAppend
<1>6. \A l \in Conns : \A i \in DOMAIN to_server'[l] :
          \/ l = k /\ i = n /\ to_server'[l][i] = r
          \/ i \in DOMAIN to_server[l] /\ to_server'[l][i] = to_server[l][i]
    BY <1>3, <1>5
<1>7. \A l \in Conns : \A i \in DOMAIN to_server'[l] : of'[to_server'[l][i]] = Nothing
    BY <1>1, <1>2, <1>6 DEF Requests
<1>8. \A l \in Conns, m \in Conns :
          \A i \in DOMAIN to_server'[l], j \in DOMAIN to_server'[m] :
              to_server'[l][i] = to_server'[m][j] => l = m /\ i = j
    BY <1>2, <1>6 DEF Requests
<1>9. \A i \in DOMAIN complete_requests', l \in Conns :
          \A j \in DOMAIN to_server'[l] : complete_requests'[i] # to_server'[l][j]
    BY <1>1, <1>2, <1>6 DEF Requests
<1> QED BY <1>1, <1>7, <1>8, <1>9 DEF Requests

\* A request is in one place at a time.
LEMMA NextRequests == IInv /\ [Next]_vars => Requests'
<1> SUFFICES ASSUME IInv, [Next]_vars PROVE Requests'
    OBVIOUS
<1> USE DEF IInv
<1>1. CASE UNCHANGED <<to_server, of, complete_requests, pc, handler>>
    BY <1>1 DEF Requests
<1>2. ASSUME NEW i \in Ids,
             reg(i) \/ unreg(i) PROVE Requests'
    BY <1>1, <1>2 DEF reg, unreg
<1>3. CASE start \/ Select \/ Accept \/ AcceptLate \/ LoopExits \/ Terminated
    BY <1>1, <1>3 DEF start, Select, Accept, AcceptLate, LoopExits, Terminated
<1>4. ASSUME NEW k \in Conns,
             ClientConnects(k) \/ ClientReceives(k) \/ ClientCloses(k) PROVE Requests'
    BY <1>1, <1>4 DEF ClientConnects, ClientReceives, ClientCloses
<1>5. ASSUME NEW t \in Closers, CloseTest(t) PROVE Requests'
    <2>1. /\ UNCHANGED <<to_server, of, complete_requests, handler>>
          /\ pc[Poll] = "in_handler" => pc'[Poll] = "in_handler"
        BY <1>5 DEF CloseTest, Returned, TypeOK
    <2> QED BY <2>1, RequestsFrame
<1>6. ASSUME NEW t \in Closers, CloseErase(t) PROVE Requests'
    <2>1. /\ UNCHANGED <<to_server, of, complete_requests, handler>>
          /\ pc[Poll] = "in_handler" => pc'[Poll] = "in_handler"
        BY <1>6 DEF CloseErase, Returned, TypeOK
    <2> QED BY <2>1, RequestsFrame
<1>7. ASSUME NEW t \in Closers, SetClosed(t) PROVE Requests'
    <2>1. /\ UNCHANGED <<to_server, of, complete_requests, handler>>
          /\ pc[Poll] = "in_handler" => pc'[Poll] = "in_handler"
        BY <1>7 DEF SetClosed, Returned, TypeOK
    <2> QED BY <2>1, RequestsFrame
<1>8. ASSUME NEW t \in Closers, CloseFd(t) PROVE Requests'
    <2>1. /\ UNCHANGED <<to_server, of, complete_requests, handler>>
          /\ pc[Poll] = "in_handler" => pc'[Poll] = "in_handler"
        BY <1>8 DEF CloseFd, Returned, TypeOK
    <2> QED BY <2>1, RequestsFrame
<1>9. ASSUME NEW t \in Closers, CloseRelease(t) PROVE Requests'
    <2>1. /\ UNCHANGED <<to_server, of, complete_requests, handler>>
          /\ pc[Poll] = "in_handler" => pc'[Poll] = "in_handler"
        BY <1>9 DEF CloseRelease, Returned, TypeOK
    <2> QED BY <2>1, RequestsFrame
<1>10. CASE Destroy
    BY <1>10, RequestsFrame DEF Destroy, TypeOK
<1>11. CASE JoinLoop
    BY <1>11, RequestsFrame DEF JoinLoop, TypeOK
<1>12. CASE CopySconns
    BY <1>12, RequestsFrame DEF CopySconns, TypeOK
<1>13. CASE CloseNext
    BY <1>13, RequestsFrame DEF CloseNext, TypeOK
<1>14. CASE AllClosed
    BY <1>14, RequestsFrame DEF AllClosed, TypeOK
<1>15. ASSUME NEW r \in Reqs, begin_reply(r) PROVE Requests'
    <2>1. /\ UNCHANGED <<to_server, of, complete_requests, pc>>
          /\ \A q \in Reqs : handler'[q] # "none" => handler[q] # "none"
        BY <1>15 DEF begin_reply, TypeOK
    <2> QED BY <2>1, RequestsFrame
<1>16. ASSUME NEW r \in Reqs, end_reply(r) PROVE Requests'
    <2>1. /\ UNCHANGED <<to_server, of, complete_requests, pc>>
          /\ \A q \in Reqs : handler'[q] # "none" => handler[q] # "none"
        BY <1>16 DEF end_reply, TypeOK
    <2> QED BY <2>1, RequestsFrame
<1>17. ASSUME NEW r \in Reqs, HandlerReturns(r) PROVE Requests'
    <2>1. /\ UNCHANGED <<to_server, of, complete_requests, pc>>
          /\ \A q \in Reqs : handler'[q] # "none" => handler[q] # "none"
        BY <1>17 DEF HandlerReturns, TypeOK
    <2> QED BY <2>1, RequestsFrame
<1>18. CASE EpollWait
    BY <1>18, RequestsFrame DEF EpollWait, TypeOK
<1>19. CASE NextEvent
    BY <1>19, RequestsFrame DEF NextEvent, TypeOK
<1>20. CASE HandleRead
    BY <1>20, RequestsFrame DEF HandleRead, TypeOK
<1>21. CASE ReadFd
    BY <1>21, ReadFdRequests
<1>22. CASE DispatchInvalid \/ DispatchMissing
    <2>1. /\ pc[Poll] = "dispatch" /\ complete_requests # <<>>
          /\ of' = [of EXCEPT ![Head(complete_requests)] = tgt[Poll]]
          /\ complete_requests' = Tail(complete_requests)
          /\ UNCHANGED <<to_server, handler>>
        BY <1>22, ErrorRepliesEffect
    <2> QED BY <2>1, TakeRequest
<1>23. CASE Dispatch
    <2>1. /\ pc[Poll] = "dispatch" /\ complete_requests # <<>>
          /\ of' = [of EXCEPT ![Head(complete_requests)] = tgt[Poll]]
          /\ handler' = [handler EXCEPT ![Head(complete_requests)] = "running"]
          /\ UNCHANGED to_server
        BY <1>23 DEF Dispatch
    <2>2. \/ complete_requests' = Tail(complete_requests)
          \/ complete_requests' = complete_requests /\ pc'[Poll] = "in_handler"
        BY <1>23 DEF Dispatch, TypeOK
    <2>3. \A r \in Reqs : handler'[r] # "none"
                              => handler[r] # "none" \/ r = Head(complete_requests)
        BY <2>1 DEF TypeOK
    <2> QED BY <2>1, <2>2, <2>3, TakeRequest
<1>24. CASE FastReturned
    BY <1>24, FastReturnedRequests
<1>25. CASE AllDispatched
    BY <1>25, RequestsFrame DEF AllDispatched, TypeOK
<1>26. CASE HandleWrite
    BY <1>26, RequestsFrame DEF HandleWrite, TypeOK
<1>27. CASE WriteFd
    <2>1. /\ UNCHANGED <<to_server, of, complete_requests, handler>>
          /\ pc[Poll] # "in_handler"
        BY <1>27, WriteFdEffect
    <2> QED BY <2>1, RequestsFrame
<1>28. CASE HandleError
    BY <1>28, RequestsFrame DEF HandleError, TypeOK
<1>29. CASE Drain
    <2>1. /\ UNCHANGED <<to_server, of, complete_requests, handler>>
          /\ pc[Poll] # "in_handler"
        BY <1>29, DrainEffect
    <2> QED BY <2>1, RequestsFrame
<1>30. ASSUME NEW k \in Conns, NEW r \in Reqs, ClientSends(k, r) PROVE Requests'
    BY <1>30, ClientSendsRequests
<1> QED
    BY <1>1, <1>2, <1>3, <1>4, <1>5, <1>6, <1>7, <1>8, <1>9, <1>10, <1>11, <1>12, <1>13,
       <1>14, <1>15, <1>16, <1>17, <1>18, <1>19, <1>20, <1>21, <1>22, <1>23, <1>24,
       <1>25, <1>26, <1>27, <1>28, <1>29, <1>30
    DEF Next, LoopThread, Dtor, PollLoop, Close, Handler

-----------------------------------------------------------------------------
(* References                                                              *)

\* The numbers that a count of references is the sum of.
InClosing == [k \in Conns |-> IF k \in Closing THEN 1 ELSE 0]
InSconns  == [k \in Conns |-> IF k \in sconns_ THEN 1 ELSE 0]
InPolled  == [k \in Conns |-> IF k \in Polled THEN 1 ELSE 0]
AtWork    == [k \in Conns |-> Cardinality(Serving[k])]

\* References counted by kind of user, each kind a function of its own.
LEMMA RefsAre ==
    /\ Refs <=> \A k \in Conns : ref[k] = InClosing[k] + InSconns[k] + InPolled[k] + AtWork[k]
    /\ \A k \in Conns : /\ InClosing[k] \in {0, 1} /\ InSconns[k] \in {0, 1}
                        /\ InPolled[k] \in {0, 1}
                        /\ IsFiniteSet(Serving[k]) /\ AtWork[k] \in Nat
<1>1. \A k \in Conns : IsFiniteSet(Serving[k])
    <2> TAKE k \in Conns
    <2>1. Serving[k] \subseteq Reqs
        BY DEF Serving
    <2> QED BY <2>1, FS_Subset
<1>2. \A k \in Conns : AtWork[k] \in Nat
    BY <1>1, FS_CardinalityType DEF AtWork
<1> QED BY <1>1, <1>2 DEF Refs, InClosing, InSconns, InPolled, AtWork

\* A step that changes no reference and no user.
LEMMA RefsFrame ==
    ASSUME Refs, UNCHANGED <<ref, sconns_, Closing, Polled, Serving>>
    PROVE  Refs'
BY DEF Refs

\* A step that leaves the closing threads and their connections alone.
LEMMA ClosingSame ==
    ASSUME should_release' = should_release, \A t \in should_release : tgt'[t] = tgt[t]
    PROVE  Closing' = Closing
BY DEF Closing

\* A step that starts and ends no handler's work.
LEMMA ServingSame ==
    ASSUME \A r \in Reqs : \/ UNCHANGED <<of[r], Working(r)>>
                           \/ ~Working(r) /\ ~Working(r)'
    PROVE  Serving' = Serving
BY DEF Serving

\* What is used has a reference.
LEMMA UsedIsAlive ==
    ASSUME TypeOK, Refs, NEW k \in Conns,
           k \in Closing \cup sconns_ \cup Polled \/ Serving[k] # {}
    PROVE  ref[k] \in Nat /\ ref[k] > 0
<1>1. ref[k] \in Nat
    BY DEF TypeOK
<1>2. ref[k] = InClosing[k] + InSconns[k] + InPolled[k] + AtWork[k]
    BY RefsAre
<1>3. /\ InClosing[k] \in {0, 1} /\ InSconns[k] \in {0, 1} /\ InPolled[k] \in {0, 1}
      /\ IsFiniteSet(Serving[k]) /\ AtWork[k] \in Nat
    BY RefsAre
<1>4. CASE k \in Closing \cup sconns_ \cup Polled
    <2>1. InClosing[k] = 1 \/ InSconns[k] = 1 \/ InPolled[k] = 1
        BY <1>4 DEF InClosing, InSconns, InPolled
    <2> QED BY <1>2, <1>3, <2>1
<1>5. CASE Serving[k] # {}
    <2>1. AtWork[k] # 0
        BY <1>3, <1>5, FS_EmptySet DEF AtWork
    <2> QED BY <1>2, <1>3, <2>1
<1> QED BY <1>1, <1>4, <1>5

\* release() by a user: the count goes down, and with it the connection that it
\* takes the last reference of.
LEMMA ReleaseCounts ==
    ASSUME TypeOK, NEW k \in Conns, ref[k] > 0, Release(k)
    PROVE  /\ ref'[k] = ref[k] - 1 /\ \A l \in Conns : l # k => ref'[l] = ref[l]
           /\ ref' \in [Conns -> Nat] /\ Alive' \subseteq Alive
           /\ sconns_ctr_ = Cardinality(Alive) => sconns_ctr_' = Cardinality(Alive')
<1>1. ref' = [ref EXCEPT ![k] = ref[k] - 1] /\ ref \in [Conns -> Nat]
    BY DEF Release, TypeOK
<1>2. ref[k] - 1 \in Nat
    BY <1>1
<1>3. ref'[k] = ref[k] - 1 /\ (\A l \in Conns : l # k => ref'[l] = ref[l])
      /\ ref' \in [Conns -> Nat]
    BY <1>1, <1>2
<1>4. k \in Alive /\ \A l \in Conns : l # k => (l \in Alive' <=> l \in Alive)
    BY <1>3 DEF Alive
<1>5. Alive \subseteq Conns /\ Alive' \subseteq Conns
    BY DEF Alive
<1>6. CASE ref[k] = 1
    <2>1. k \notin Alive'
        BY <1>3, <1>6 DEF Alive
    <2>2. Alive' = Alive \ {k}
        BY <1>4, <1>5, <2>1
    <2>3. IsFiniteSet(Alive)
        BY <1>5, FS_Subset
    <2>4. Cardinality(Alive') = Cardinality(Alive) - 1
        BY <1>4, <2>2, <2>3, FS_RemoveElement
    <2> QED BY <1>3, <1>6, <2>2, <2>4 DEF Release
<1>7. CASE ref[k] # 1
    <2>1. ref'[k] > 0
        BY <1>1, <1>3, <1>7
    <2>2. k \in Alive'
        BY <2>1 DEF Alive
    <2>3. Alive' = Alive
        BY <1>4, <1>5, <2>2
    <2>4. sconns_ctr_' = sconns_ctr_
        BY <1>7 DEF Release
    <2> QED BY <1>3, <2>3, <2>4
<1> QED BY <1>6, <1>7

\* accept: the references of sconns_ and of PollMgr.
LEMMA AcceptRefs ==
    ASSUME IInv, Accept
    PROVE  /\ Refs' /\ sconns_ctr_' = Cardinality(Alive') /\ ref' \in [Conns -> Nat]
<1>1. PICK k \in Backlog : /\ ref' = [ref EXCEPT ![k] = 2]
                           /\ sconns_' = sconns_ \cup {k}
                           /\ registered' = registered \cup {k}
    BY DEF Accept
<1>2. k \in Conns /\ sock_[k] = "none"
    BY DEF Backlog
<1>3. UNCHANGED <<pending_remove_, remove_poll, of, handler, should_release, tgt>>
    BY DEF Accept
<1>4. Polled' = Polled \cup {k}
    BY <1>1, <1>3 DEF Polled
<1>5. Closing' = Closing /\ Serving' = Serving
    BY <1>3 DEF Closing, Serving, Working
<1>6. k \notin sconns_ /\ k \notin Polled /\ Serving[k] = {}
    BY <1>2 DEF IInv, Opened, Serving
<1>7. k \notin Closing
    <2>1. \A t \in should_release : sock_[tgt[t]] # "none"
        <3> SUFFICES ASSUME NEW t \in should_release PROVE sock_[tgt[t]] # "none"
            OBVIOUS
        <3>1. t \in Closers
            BY DEF IInv, TypeOK
        <3>2. pc[t] \in ReleasePcs
            BY <3>1 DEF IInv, Control
        <3> QED BY <3>1, <3>2 DEF IInv, OneCloser
    <2> QED BY <1>2, <2>1 DEF Closing
<1>8. ref'[k] = 2 /\ (\A l \in Conns : l # k => ref'[l] = ref[l]) /\ ref' \in [Conns -> Nat]
    BY <1>1, <1>2 DEF IInv, TypeOK
<1>9. /\ InClosing[k]' = 0 /\ InSconns[k]' = 1 /\ InPolled[k]' = 1
      /\ \A l \in Conns : l # k => /\ InClosing[l]' = InClosing[l]
                                   /\ InSconns[l]' = InSconns[l] /\ InPolled[l]' = InPolled[l]
    BY <1>1, <1>2, <1>4, <1>5, <1>7 DEF InClosing, InSconns, InPolled
<1>10. AtWork' = AtWork /\ AtWork[k] = 0
    BY <1>2, <1>5, <1>6, FS_EmptySet DEF AtWork
<1>11. Refs /\ (Refs => \A l \in Conns :
                          ref[l] = InClosing[l] + InSconns[l] + InPolled[l] + AtWork[l])
    BY RefsAre DEF IInv
<1>12. \A l \in Conns : ref'[l] = InClosing[l]' + InSconns[l]' + InPolled[l]' + AtWork[l]'
    BY <1>2, <1>8, <1>9, <1>10, <1>11
<1>13. Refs'
    BY <1>12, RefsAre DEF InClosing, InSconns, InPolled, AtWork, Refs
<1>14. ref[k] = 0
    <2>1. InClosing[k] = 0 /\ InSconns[k] = 0 /\ InPolled[k] = 0
        BY <1>2, <1>6, <1>7 DEF InClosing, InSconns, InPolled
    <2> QED BY <1>2, <1>10, <1>11, <2>1
<1>15. Alive' = Alive \cup {k} /\ k \notin Alive
    BY <1>2, <1>8, <1>14 DEF Alive
<1>16. IsFiniteSet(Alive)
    <2>1. Alive \subseteq Conns
        BY DEF Alive
    <2> QED BY <2>1, FS_Subset
<1>17. Cardinality(Alive') = Cardinality(Alive) + 1
    BY <1>15, <1>16, FS_AddElement
<1> QED BY <1>8, <1>13, <1>17 DEF IInv, Counted, Accept

\* A change in the references of one connection k.
LEMMA RefsOfOne ==
    ASSUME TypeOK, Refs, NEW k \in Conns,
           \A l \in Conns : l # k => /\ ref'[l] = ref[l]
                                     /\ InClosing'[l] = InClosing[l]
                                     /\ InSconns'[l] = InSconns[l]
                                     /\ InPolled'[l] = InPolled[l]
                                     /\ AtWork'[l] = AtWork[l],
           ref'[k] = InClosing'[k] + InSconns'[k] + InPolled'[k] + AtWork'[k]
    PROVE  Refs'
<1>1. \A l \in Conns : ref[l] = InClosing[l] + InSconns[l] + InPolled[l] + AtWork[l]
    BY RefsAre
<1>2. \A l \in Conns : ref'[l] = InClosing'[l] + InSconns'[l] + InPolled'[l] + AtWork'[l]
    BY <1>1
<1> QED BY <1>2 DEF InClosing, InSconns, InPolled, AtWork, Refs

\* close() moves the reference of sconns_ to the closer, ...
LEMMA CloseEraseRefs ==
    ASSUME IInv, NEW t \in Closers, CloseErase(t)
    PROVE  Refs'
<1>1. tgt[t] \in Conns /\ t \notin should_release
    BY DEF IInv, CloseErase, Control
<1>2. UNCHANGED <<ref, remove_poll, of, handler>>
    BY DEF CloseErase
<1>3. Serving' = Serving
    BY <1>2 DEF Serving, Working
<1>4. CASE tgt[t] \in sconns_
    <2>0. PICK k \in Conns : k = tgt[t]
        BY <1>1
    <2>1. /\ sconns_' = sconns_ \ {k} /\ should_release' = should_release \cup {t}
          /\ registered' = registered \ {k} /\ pending_remove_' = pending_remove_ \cup {k}
          /\ UNCHANGED tgt
        BY <1>4, <2>0 DEF CloseErase
    <2>2. Polled' = Polled
        BY <1>2, <1>4, <2>0, <2>1 DEF IInv, Lists, Polled
    <2>3. Closing' = Closing \cup {k}
        BY <2>0, <2>1 DEF Closing
    <2>4. k \notin Closing
        BY <1>4, <2>0 DEF IInv, OneCloser, Closing
    <2>5. /\ InClosing[k] = 0 /\ InSconns[k] = 1 /\ InClosing'[k] = 1 /\ InSconns'[k] = 0
          /\ \A l \in Conns : l # k => InClosing'[l] = InClosing[l] /\ InSconns'[l] = InSconns[l]
        BY <1>4, <2>0, <2>1, <2>3, <2>4 DEF InClosing, InSconns
    <2>6. InPolled' = InPolled /\ AtWork' = AtWork
        BY <1>3, <2>2 DEF InPolled, AtWork
    <2>7. /\ ref[k] = InClosing[k] + InSconns[k] + InPolled[k] + AtWork[k]
          /\ InPolled[k] \in {0, 1} /\ AtWork[k] \in Nat
        BY RefsAre DEF IInv
    <2>8. ref'[k] = InClosing'[k] + InSconns'[k] + InPolled'[k] + AtWork'[k]
        BY <1>2, <2>5, <2>6, <2>7
    <2> QED BY <1>2, <2>5, <2>6, <2>8, RefsOfOne DEF IInv
<1>5. CASE tgt[t] \notin sconns_
    <2>1. /\ should_release' = should_release \ {t} /\ tgt' = [tgt EXCEPT ![t] = Nothing]
          /\ UNCHANGED <<sconns_, registered, pending_remove_>>
        BY <1>5 DEF CloseErase, Returned
    <2>2. Closing' = Closing
        BY <1>1, <2>1, ClosingSame DEF IInv, TypeOK
    <2>3. Polled' = Polled
        BY <1>2, <2>1 DEF Polled
    <2> QED BY <1>2, <1>3, <2>1, <2>2, <2>3, RefsFrame DEF IInv
<1> QED BY <1>4, <1>5

\* ... who gives it up.
LEMMA CloseReleaseRefs ==
    ASSUME IInv, NEW t \in Closers, CloseRelease(t)
    PROVE  /\ Refs' /\ sconns_ctr_' = Cardinality(Alive') /\ ref' \in [Conns -> Nat]
           /\ Alive' \subseteq Alive /\ UNCHANGED freed_access
<1>0. PICK k : k = tgt[t]
    OBVIOUS
<1>1. k \in Conns /\ t \in should_release
    BY <1>0 DEF IInv, CloseRelease, Control
<1>2. k \in Closing
    BY <1>0, <1>1 DEF Closing
<1>3. ref[k] > 0
    BY <1>1, <1>2, UsedIsAlive DEF IInv
<1>4. /\ Release(k) /\ Touch(t, k)
      /\ should_release' = should_release \ {t} /\ tgt' = [tgt EXCEPT ![t] = Nothing]
      /\ UNCHANGED <<sconns_, registered, pending_remove_, remove_poll, of, handler>>
    BY <1>0, <1>1 DEF CloseRelease, Returned
<1>5. /\ ref'[k] = ref[k] - 1 /\ \A l \in Conns : l # k => ref'[l] = ref[l]
      /\ ref' \in [Conns -> Nat] /\ Alive' \subseteq Alive
      /\ sconns_ctr_' = Cardinality(Alive')
    BY <1>1, <1>3, <1>4, ReleaseCounts DEF IInv, Counted
<1>6. Closing' = Closing \ {k}
    <2>1. \A u \in should_release' : tgt'[u] = tgt[u] /\ tgt[u] # k
        BY <1>0, <1>1, <1>4 DEF IInv, TypeOK, OneCloser
    <2>2. Closing' = {tgt[u] : u \in should_release'}
        BY <2>1 DEF Closing
    <2>3. \A u \in should_release : u \in should_release' \/ tgt[u] = k
        BY <1>0, <1>4
    <2> QED BY <2>1, <2>2, <2>3, <1>4 DEF Closing
<1>7. Polled' = Polled /\ Serving' = Serving
    BY <1>4 DEF Polled, Serving, Working
<1>8. InSconns' = InSconns /\ InPolled' = InPolled /\ AtWork' = AtWork
    BY <1>4, <1>7 DEF InSconns, InPolled, AtWork
<1>9. /\ InClosing[k] = 1 /\ InClosing'[k] = 0
      /\ \A l \in Conns : l # k => InClosing'[l] = InClosing[l]
    BY <1>1, <1>2, <1>6 DEF InClosing
<1>10. /\ ref[k] = InClosing[k] + InSconns[k] + InPolled[k] + AtWork[k]
       /\ InSconns[k] \in {0, 1} /\ InPolled[k] \in {0, 1} /\ AtWork[k] \in Nat
    BY <1>1, RefsAre DEF IInv
<1>11. ref'[k] = InClosing'[k] + InSconns'[k] + InPolled'[k] + AtWork'[k]
    BY <1>5, <1>8, <1>9, <1>10
<1>12. Refs'
    BY <1>1, <1>5, <1>8, <1>9, <1>11, RefsOfOne DEF IInv
<1>13. UNCHANGED freed_access
    BY <1>3, <1>4 DEF Touch
<1> QED BY <1>5, <1>12, <1>13

\* A handler gets a reference, ...
LEMMA DispatchRefs ==
    ASSUME IInv, Dispatch
    PROVE  Refs' /\ Alive' = Alive /\ ref' \in [Conns -> Nat]
<1>0. PICK k, h : k = tgt[Poll] /\ h = Head(complete_requests)
    OBVIOUS
<1>1. k \in Conns /\ k \in Polled
    BY <1>0 DEF IInv, Dispatch, Control, Events, Polled
<1>2. h \in Reqs /\ of[h] = Nothing
    <2>1. /\ complete_requests \in Seq(Reqs) /\ complete_requests # <<>>
          /\ pc[Poll] = "dispatch"
        BY DEF IInv, TypeOK, Dispatch
    <2>2. h = complete_requests[1] /\ h \in Reqs /\ 1 \in DOMAIN complete_requests
        BY <1>0, <2>1, SeqHeadTail
    <2> QED BY <2>1, <2>2 DEF IInv, Requests
<1>3. handler[h] = "none"
    BY <1>2 DEF IInv, Requests
<1>4. /\ ref' = [ref EXCEPT ![k] = @ + 1]
      /\ of' = [of EXCEPT ![h] = k] /\ handler' = [handler EXCEPT ![h] = "running"]
      /\ UNCHANGED <<sconns_, registered, pending_remove_, remove_poll, should_release, tgt>>
    BY <1>0 DEF Dispatch
<1>5. ref'[k] = ref[k] + 1 /\ ref[k] \in Nat
      /\ (\A l \in Conns : l # k => ref'[l] = ref[l]) /\ ref' \in [Conns -> Nat]
    BY <1>1, <1>4 DEF IInv, TypeOK
<1>6. /\ h \notin Serving[k] /\ Serving'[k] = Serving[k] \cup {h}
      /\ \A l \in Conns : l # k => Serving'[l] = Serving[l]
    <2>1. /\ of'[h] = k /\ handler'[h] = "running"
          /\ \A r \in Reqs : r # h => of'[r] = of[r] /\ handler'[r] = handler[r]
        BY <1>2, <1>4 DEF IInv, TypeOK
    <2>2. \A l \in Conns : h \notin Serving[l]
        BY <1>2 DEF Serving
    <2>3. \A l \in Conns, r \in Reqs : r # h => (r \in Serving'[l] <=> r \in Serving[l])
        BY <2>1 DEF Serving, Working
    <2>4. \A l \in Conns : h \in Serving'[l] <=> l = k
        BY <1>2, <2>1 DEF Serving, Working
    <2>5. \A l \in Conns : Serving[l] \subseteq Reqs /\ Serving'[l] \subseteq Reqs
        BY DEF Serving
    <2>6. ASSUME NEW l \in Conns, l # k PROVE Serving'[l] = Serving[l]
        <3>1. \A r \in Reqs : r \in Serving'[l] <=> r \in Serving[l]
            BY <2>2, <2>3, <2>4, <2>6
        <3> QED BY <2>5, <3>1
    <2>7. Serving'[k] = Serving[k] \cup {h}
        <3>1. \A r \in Reqs : r \in Serving'[k] <=> r \in Serving[k] \cup {h}
            BY <1>1, <2>3, <2>4
        <3> QED BY <1>1, <1>2, <2>5, <3>1
    <2> QED BY <1>1, <2>2, <2>6, <2>7
<1>7. AtWork'[k] = AtWork[k] + 1 /\ \A l \in Conns : l # k => AtWork'[l] = AtWork[l]
    <2>1. IsFiniteSet(Serving[k])
        BY <1>1, RefsAre
    <2>2. Cardinality(Serving'[k]) = Cardinality(Serving[k]) + 1
        BY <1>6, <2>1, FS_AddElement
    <2> QED BY <1>1, <1>6, <2>2 DEF AtWork
<1>8. Closing' = Closing /\ Polled' = Polled
    BY <1>4 DEF Closing, Polled
<1>9. InClosing' = InClosing /\ InSconns' = InSconns /\ InPolled' = InPolled
    BY <1>4, <1>8 DEF InClosing, InSconns, InPolled
<1>10. /\ ref[k] = InClosing[k] + InSconns[k] + InPolled[k] + AtWork[k]
       /\ InClosing[k] \in {0, 1} /\ InSconns[k] \in {0, 1} /\ InPolled[k] \in {0, 1}
       /\ AtWork[k] \in Nat
    BY <1>1, RefsAre DEF IInv
<1>11. ref'[k] = InClosing'[k] + InSconns'[k] + InPolled'[k] + AtWork'[k]
    BY <1>5, <1>7, <1>9, <1>10
<1>12. Refs'
    BY <1>1, <1>5, <1>7, <1>9, <1>11, RefsOfOne DEF IInv
<1>13. ref[k] > 0
    BY <1>1, UsedIsAlive DEF IInv
<1>14. Alive' = Alive
    BY <1>5, <1>13 DEF Alive
<1> QED BY <1>5, <1>12, <1>14

\* ... and gives it up when it returns.
LEMMA HandlerReturnsRefs ==
    ASSUME IInv, NEW r \in Reqs, HandlerReturns(r)
    PROVE  /\ Refs' /\ sconns_ctr_' = Cardinality(Alive') /\ ref' \in [Conns -> Nat]
           /\ Alive' \subseteq Alive /\ UNCHANGED freed_access
<1>0. PICK k : k = of[r]
    OBVIOUS
<1>1. /\ k \in Conns /\ r \in Serving[k]
    BY <1>0 DEF IInv, HandlerReturns, Requests, Serving, Working
<1>2. ref[k] > 0
    BY <1>1, UsedIsAlive DEF IInv
<1>3. /\ Release(k) /\ Touch(r, k)
      /\ handler' = [handler EXCEPT ![r] = "done"]
      /\ UNCHANGED <<sconns_, registered, pending_remove_, remove_poll, of, should_release,
                     tgt>>
    BY <1>0 DEF HandlerReturns
<1>4. /\ ref'[k] = ref[k] - 1 /\ \A l \in Conns : l # k => ref'[l] = ref[l]
      /\ ref' \in [Conns -> Nat] /\ Alive' \subseteq Alive
      /\ sconns_ctr_' = Cardinality(Alive')
    BY <1>1, <1>2, <1>3, ReleaseCounts DEF IInv, Counted
<1>5. Serving'[k] = Serving[k] \ {r} /\ \A l \in Conns : l # k => Serving'[l] = Serving[l]
    <2>1. handler'[r] = "done" /\ \A q \in Reqs : q # r => handler'[q] = handler[q]
        BY <1>3 DEF IInv, TypeOK
    <2>2. \A l \in Conns, q \in Reqs :
              /\ q # r => (q \in Serving'[l] <=> q \in Serving[l])
              /\ r \notin Serving'[l] /\ (l # k => r \notin Serving[l])
        BY <1>0, <1>3, <2>1 DEF Serving, Working
    <2>3. \A l \in Conns : Serving[l] \subseteq Reqs /\ Serving'[l] \subseteq Reqs
        BY DEF Serving
    <2>4. ASSUME NEW l \in Conns, l # k PROVE Serving'[l] = Serving[l]
        <3>1. \A q \in Reqs : q \in Serving'[l] <=> q \in Serving[l]
            BY <2>2, <2>4
        <3> QED BY <2>3, <3>1
    <2>5. Serving'[k] = Serving[k] \ {r}
        <3>1. \A q \in Reqs : q \in Serving'[k] <=> q \in Serving[k] \ {r}
            BY <1>1, <2>2
        <3> QED BY <1>1, <2>3, <3>1
    <2> QED BY <2>4, <2>5
<1>6. AtWork'[k] = AtWork[k] - 1 /\ \A l \in Conns : l # k => AtWork'[l] = AtWork[l]
    <2>1. IsFiniteSet(Serving[k])
        BY <1>1, RefsAre
    <2>2. Cardinality(Serving'[k]) = Cardinality(Serving[k]) - 1
        BY <1>1, <1>5, <2>1, FS_RemoveElement
    <2> QED BY <1>1, <1>5, <2>2 DEF AtWork
<1>7. Closing' = Closing /\ Polled' = Polled
    BY <1>3 DEF Closing, Polled
<1>8. InClosing' = InClosing /\ InSconns' = InSconns /\ InPolled' = InPolled
    BY <1>3, <1>7 DEF InClosing, InSconns, InPolled
<1>9. /\ ref[k] = InClosing[k] + InSconns[k] + InPolled[k] + AtWork[k]
      /\ InClosing[k] \in {0, 1} /\ InSconns[k] \in {0, 1} /\ InPolled[k] \in {0, 1}
      /\ AtWork[k] \in Nat
    BY <1>1, RefsAre DEF IInv
<1>10. ref'[k] = InClosing'[k] + InSconns'[k] + InPolled'[k] + AtWork'[k]
    BY <1>4, <1>6, <1>8, <1>9
<1>11. Refs'
    BY <1>1, <1>4, <1>6, <1>8, <1>10, RefsOfOne DEF IInv
<1>12. UNCHANGED freed_access
    BY <1>2, <1>3 DEF Touch
<1> QED BY <1>4, <1>11, <1>12

\* The deferred release of PollMgr's reference.
LEMMA DrainRefs ==
    ASSUME IInv, NEW k \in remove_poll, Drain, Release(k), remove_poll' = remove_poll \ {k}
    PROVE  /\ Refs' /\ sconns_ctr_' = Cardinality(Alive') /\ ref' \in [Conns -> Nat]
           /\ Alive' \subseteq Alive
<1>1. k \in Conns /\ k \in Polled /\ k \notin registered \cup pending_remove_
    BY DEF IInv, TypeOK, Lists, Polled
<1>2. ref[k] > 0
    BY <1>1, UsedIsAlive DEF IInv
<1>3. UNCHANGED <<sconns_, registered, pending_remove_, of, handler, should_release, tgt>>
    BY DrainEffect
<1>4. /\ ref'[k] = ref[k] - 1 /\ \A l \in Conns : l # k => ref'[l] = ref[l]
      /\ ref' \in [Conns -> Nat] /\ Alive' \subseteq Alive
      /\ sconns_ctr_' = Cardinality(Alive')
    BY <1>1, <1>2, ReleaseCounts DEF IInv, Counted
<1>5. Polled' = Polled \ {k}
    BY <1>1, <1>3 DEF Polled
<1>6. Closing' = Closing /\ Serving' = Serving
    BY <1>3 DEF Closing, Serving, Working
<1>7. InClosing' = InClosing /\ InSconns' = InSconns /\ AtWork' = AtWork
    BY <1>3, <1>6 DEF InClosing, InSconns, AtWork
<1>8. /\ InPolled[k] = 1 /\ InPolled'[k] = 0
      /\ \A l \in Conns : l # k => InPolled'[l] = InPolled[l]
    BY <1>1, <1>5 DEF InPolled
<1>9. /\ ref[k] = InClosing[k] + InSconns[k] + InPolled[k] + AtWork[k]
      /\ InClosing[k] \in {0, 1} /\ InSconns[k] \in {0, 1} /\ AtWork[k] \in Nat
    BY <1>1, RefsAre DEF IInv
<1>10. ref'[k] = InClosing'[k] + InSconns'[k] + InPolled'[k] + AtWork'[k]
    BY <1>4, <1>7, <1>8, <1>9
<1>11. Refs'
    BY <1>1, <1>4, <1>7, <1>8, <1>10, RefsOfOne DEF IInv
<1> QED BY <1>4, <1>11

\* Every step keeps references and users in agreement.
LEMMA NextRefs == IInv /\ [Next]_vars => Refs'
<1> SUFFICES ASSUME IInv, [Next]_vars PROVE Refs'
    OBVIOUS
<1> USE DEF IInv
<1>1. CASE UNCHANGED <<ref, sconns_, registered, pending_remove_, remove_poll, of,
                    handler, should_release, tgt>>
    BY <1>1 DEF Refs, Polled, Closing, Serving, Working
<1>2. ASSUME NEW i \in Ids,
             reg(i) \/ unreg(i) PROVE Refs'
    BY <1>1, <1>2 DEF reg, unreg
<1>3. CASE start \/ Select \/ AcceptLate \/ LoopExits \/ Destroy \/ JoinLoop \/
          CopySconns \/ AllClosed \/ EpollWait \/ HandleRead \/ ReadFd \/
          FastReturned \/ AllDispatched \/ HandleWrite \/ WriteFd \/ Terminated
    BY <1>1, <1>3, WriteFdEffect DEF start, Select, AcceptLate, LoopExits, Destroy,
       JoinLoop, CopySconns, AllClosed,
       EpollWait, HandleRead, ReadFd, FastReturned, AllDispatched, HandleWrite,
       Terminated
<1>4. ASSUME NEW t \in Closers,
             SetClosed(t) \/ CloseFd(t) PROVE Refs'
    BY <1>1, <1>4 DEF SetClosed, CloseFd
<1>5. ASSUME NEW k \in Conns,
             ClientConnects(k) \/ ClientReceives(k) \/ ClientCloses(k) PROVE Refs'
    BY <1>1, <1>5 DEF ClientConnects, ClientReceives, ClientCloses
<1>6. ASSUME NEW k \in Conns, NEW r \in Reqs,
             ClientSends(k, r) PROVE Refs'
    BY <1>1, <1>6 DEF ClientSends
<1>7. CASE Accept
    BY <1>7, AcceptRefs DEF IInv
<1>8. ASSUME NEW t \in Closers, CloseTest(t) PROVE Refs'
    <2>1. UNCHANGED <<ref, sconns_, registered, pending_remove_, remove_poll, of, handler>>
        BY <1>8 DEF CloseTest
    <2>2. Polled' = Polled /\ Serving' = Serving
        BY <2>1 DEF Polled, Serving, Working
    <2>3. should_release' = should_release /\ \A u \in should_release : tgt'[u] = tgt[u]
        <3>1. t \notin should_release
            BY <1>8 DEF CloseTest, Control
        <3>2. \/ UNCHANGED <<tgt, should_release>>
              \/ /\ tgt' = [tgt EXCEPT ![t] = Nothing]
                 /\ should_release' = should_release \ {t}
            BY <1>8 DEF CloseTest, Returned
        <3>3. should_release' = should_release
            BY <3>1, <3>2
        <3>4. \A u \in Closers : u # t => tgt'[u] = tgt[u]
            BY <3>2 DEF TypeOK
        <3> QED BY <3>1, <3>3, <3>4 DEF TypeOK
    <2>4. Closing' = Closing
        BY <2>3, ClosingSame
    <2> QED BY <2>1, <2>2, <2>4, RefsFrame
<1>9. ASSUME NEW t \in Closers, CloseErase(t) PROVE Refs'
    BY <1>9, CloseEraseRefs
<1>10. ASSUME NEW t \in Closers, CloseRelease(t) PROVE Refs'
    BY <1>10, CloseReleaseRefs
<1>11. CASE CloseNext
    <2>1. UNCHANGED <<ref, sconns_, registered, pending_remove_, remove_poll, of, handler>>
        BY <1>11 DEF CloseNext
    <2>2. Polled' = Polled /\ Serving' = Serving
        BY <2>1 DEF Polled, Serving, Working
    <2>3. should_release' = should_release /\ \A u \in should_release : tgt'[u] = tgt[u]
        BY <1>11 DEF CloseNext, Returned, TypeOK, Control
    <2>4. Closing' = Closing
        BY <2>3, ClosingSame
    <2> QED BY <2>1, <2>2, <2>4, RefsFrame
<1>12. ASSUME NEW r \in Reqs, begin_reply(r) PROVE Refs'
    <2>1. UNCHANGED <<ref, sconns_, registered, pending_remove_, remove_poll, of, should_release,
                      tgt>>
        BY <1>12 DEF begin_reply
    <2>2. \A q \in Reqs : Working(q)' <=> Working(q)
        BY <1>12 DEF begin_reply, Working, TypeOK
    <2>3. Serving' = Serving
        BY <2>1, <2>2 DEF Serving
    <2>4. Polled' = Polled /\ Closing' = Closing
        BY <2>1 DEF Polled, Closing
    <2> QED BY <2>1, <2>3, <2>4, RefsFrame
<1>13. ASSUME NEW r \in Reqs, end_reply(r) PROVE Refs'
    <2>1. UNCHANGED <<ref, sconns_, registered, pending_remove_, remove_poll, of, should_release,
                      tgt>>
        BY <1>13 DEF end_reply
    <2>2. \A q \in Reqs : Working(q)' <=> Working(q)
        BY <1>13 DEF end_reply, Working, TypeOK
    <2>3. Serving' = Serving
        BY <2>1, <2>2 DEF Serving
    <2>4. Polled' = Polled /\ Closing' = Closing
        BY <2>1 DEF Polled, Closing
    <2> QED BY <2>1, <2>3, <2>4, RefsFrame
<1>14. ASSUME NEW r \in Reqs, HandlerReturns(r) PROVE Refs'
    BY <1>14, HandlerReturnsRefs
<1>15. CASE NextEvent
    <2>1. UNCHANGED <<ref, sconns_, registered, of, handler, should_release>>
        BY <1>15 DEF NextEvent
    <2>2. remove_poll = {} /\ Poll \notin should_release
        BY <1>15 DEF NextEvent, Control
    <2>3. Polled' = Polled
        BY <1>15, <2>1, <2>2 DEF NextEvent, Polled
    <2>4. Serving' = Serving
        BY <2>1 DEF Serving, Working
    <2>5. \A u \in Closers : u # Poll => tgt'[u] = tgt[u]
        BY <1>15 DEF NextEvent, TypeOK
    <2>6. Closing' = Closing
        BY <2>1, <2>2, <2>5, ClosingSame DEF TypeOK
    <2> QED BY <2>1, <2>3, <2>4, <2>6, RefsFrame
<1>16. CASE DispatchInvalid \/ DispatchMissing
    <2>1. PICK h : h = Head(complete_requests)
        OBVIOUS
    <2>2. h \in Reqs /\ handler[h] = "none"
        <3>1. /\ complete_requests \in Seq(Reqs) /\ complete_requests # <<>>
              /\ pc[Poll] = "dispatch"
            BY <1>16, ErrorRepliesEffect DEF TypeOK
        <3>2. h = complete_requests[1] /\ h \in Reqs /\ 1 \in DOMAIN complete_requests
            BY <2>1, <3>1, SeqHeadTail
        <3> QED BY <3>1, <3>2 DEF Requests
    <2>3. /\ UNCHANGED <<ref, sconns_, registered, pending_remove_, remove_poll, handler,
                         should_release, tgt>>
          /\ \A r \in Reqs : r # h => of'[r] = of[r]
        BY <1>16, <2>1, ErrorRepliesEffect DEF TypeOK
    <2>4. Serving' = Serving
        BY <2>2, <2>3, ServingSame DEF Working
    <2>5. Polled' = Polled /\ Closing' = Closing
        BY <2>3 DEF Polled, Closing
    <2> QED BY <2>3, <2>4, <2>5, RefsFrame
<1>17. CASE Dispatch
    BY <1>17, DispatchRefs
<1>18. CASE HandleError
    <2>1. UNCHANGED <<ref, sconns_, registered, pending_remove_, remove_poll, of, handler>>
        BY <1>18 DEF HandleError
    <2>2. Polled' = Polled /\ Serving' = Serving
        BY <2>1 DEF Polled, Serving, Working
    <2>3. should_release' = should_release /\ \A u \in should_release : tgt'[u] = tgt[u]
        BY <1>18 DEF HandleError, Returned, TypeOK, Control
    <2>4. Closing' = Closing
        BY <2>3, ClosingSame
    <2> QED BY <2>1, <2>2, <2>4, RefsFrame
<1>19. CASE Drain
    <2>1. CASE remove_poll = {}
        <3>1. UNCHANGED <<ref, sconns_, registered, pending_remove_, remove_poll, of, handler,
                          should_release, tgt>>
            BY <1>19, <2>1, DrainEffect
        <3> QED BY <1>1, <3>1
    <2>2. ASSUME NEW k \in remove_poll, Release(k), remove_poll' = remove_poll \ {k}
          PROVE  Refs'
        BY <1>19, <2>2, DrainRefs
    <2> QED BY <1>19, <2>1, <2>2, DrainEffect
<1> QED
    BY <1>1, <1>2, <1>3, <1>4, <1>5, <1>6, <1>7, <1>8, <1>9, <1>10, <1>11, <1>12, <1>13,
       <1>14, <1>15, <1>16, <1>17, <1>18, <1>19
    DEF Next, LoopThread, Dtor, PollLoop, Close, Handler

\* Every step keeps sconns_ctr_ right.
LEMMA NextCounted == IInv /\ [Next]_vars => Counted'
<1> SUFFICES ASSUME IInv, [Next]_vars PROVE Counted'
    OBVIOUS
<1> USE DEF IInv
<1>1. CASE UNCHANGED <<sconns_ctr_, ref, pc>>
    BY <1>1 DEF Counted, Alive
<1>2. ASSUME NEW i \in Ids,
             reg(i) \/ unreg(i) PROVE Counted'
    BY <1>1, <1>2 DEF reg, unreg
<1>3. CASE start \/ Select \/ AcceptLate \/ LoopExits \/
          DispatchInvalid \/ DispatchMissing \/ Terminated
    BY <1>1, <1>3, ErrorRepliesEffect DEF start, Select, AcceptLate, LoopExits, Terminated
<1>4. ASSUME NEW r \in Reqs,
             begin_reply(r) \/ end_reply(r) PROVE Counted'
    BY <1>1, <1>4 DEF begin_reply, end_reply
<1>5. ASSUME NEW k \in Conns,
             ClientConnects(k) \/ ClientReceives(k) \/ ClientCloses(k) PROVE Counted'
    BY <1>1, <1>5 DEF ClientConnects, ClientReceives, ClientCloses
<1>6. ASSUME NEW k \in Conns, NEW r \in Reqs,
             ClientSends(k, r) PROVE Counted'
    BY <1>1, <1>6 DEF ClientSends
<1>7. CASE Accept
    <2>1. pc[Owner] # "gone" /\ UNCHANGED pc
        BY <1>7 DEF Accept, Listening
    <2> QED BY <1>7, <2>1, AcceptRefs DEF IInv, Counted
<1>8. ASSUME NEW t \in Closers, CloseTest(t) PROVE Counted'
    <2>1. UNCHANGED <<ref, sconns_ctr_>> /\ (pc'[Owner] = "gone" => pc[Owner] = "gone")
        BY <1>8 DEF CloseTest, Returned, TypeOK
    <2> QED BY <2>1 DEF Counted, Alive
<1>9. ASSUME NEW t \in Closers, CloseErase(t) PROVE Counted'
    <2>1. UNCHANGED <<ref, sconns_ctr_>> /\ (pc'[Owner] = "gone" => pc[Owner] = "gone")
        BY <1>9 DEF CloseErase, Returned, TypeOK
    <2> QED BY <2>1 DEF Counted, Alive
<1>10. ASSUME NEW t \in Closers, SetClosed(t) PROVE Counted'
    <2>1. UNCHANGED <<ref, sconns_ctr_>> /\ (pc'[Owner] = "gone" => pc[Owner] = "gone")
        BY <1>10 DEF SetClosed, TypeOK
    <2> QED BY <2>1 DEF Counted, Alive
<1>11. ASSUME NEW t \in Closers, CloseFd(t) PROVE Counted'
    <2>1. UNCHANGED <<ref, sconns_ctr_>> /\ (pc'[Owner] = "gone" => pc[Owner] = "gone")
        BY <1>11 DEF CloseFd, TypeOK
    <2> QED BY <2>1 DEF Counted, Alive
<1>12. ASSUME NEW t \in Closers, CloseRelease(t) PROVE Counted'
    <2>1. pc'[Owner] = "gone" => pc[Owner] = "gone"
        BY <1>12 DEF CloseRelease, Returned, TypeOK
    <2> QED BY <1>12, <2>1, CloseReleaseRefs DEF Counted
<1>13. CASE Destroy
    <2>1. UNCHANGED <<ref, sconns_ctr_>> /\ (pc'[Owner] = "gone" => pc[Owner] = "gone")
        BY <1>13 DEF Destroy, TypeOK
    <2> QED BY <2>1 DEF Counted, Alive
<1>14. CASE JoinLoop
    <2>1. UNCHANGED <<ref, sconns_ctr_>> /\ (pc'[Owner] = "gone" => pc[Owner] = "gone")
        BY <1>14 DEF JoinLoop, TypeOK
    <2> QED BY <2>1 DEF Counted, Alive
<1>15. CASE CopySconns
    <2>1. UNCHANGED <<ref, sconns_ctr_>> /\ (pc'[Owner] = "gone" => pc[Owner] = "gone")
        BY <1>15 DEF CopySconns, TypeOK
    <2> QED BY <2>1 DEF Counted, Alive
<1>16. CASE CloseNext
    <2>1. UNCHANGED <<ref, sconns_ctr_>> /\ (pc'[Owner] = "gone" => pc[Owner] = "gone")
        BY <1>16 DEF CloseNext, TypeOK
    <2> QED BY <2>1 DEF Counted, Alive
<1>17. CASE AllClosed
    <2>1. UNCHANGED <<ref, sconns_ctr_>>
        BY <1>17 DEF AllClosed
    <2>2. Alive' = Alive
        BY <2>1 DEF Alive
    <2>3. CASE UNCHANGED pc
        BY <2>1, <2>2, <2>3 DEF Counted
    <2>4. CASE sconns_ctr_ <= 0
        <3>1. IsFiniteSet(Alive)
            BY FS_Subset DEF Alive
        <3>2. Cardinality(Alive) = 0
            BY <2>4 DEF Counted, TypeOK
        <3> QED BY <2>1, <2>2, <3>1, <3>2, FS_EmptySet DEF Counted
    <2> QED BY <1>17, <2>3, <2>4 DEF AllClosed
<1>18. ASSUME NEW r \in Reqs, HandlerReturns(r) PROVE Counted'
    <2>1. UNCHANGED pc
        BY <1>18 DEF HandlerReturns
    <2> QED BY <1>18, <2>1, HandlerReturnsRefs DEF Counted
<1>19. CASE EpollWait
    <2>1. UNCHANGED <<ref, sconns_ctr_>> /\ (pc'[Owner] = "gone" => pc[Owner] = "gone")
        BY <1>19 DEF EpollWait, TypeOK
    <2> QED BY <2>1 DEF Counted, Alive
<1>20. CASE NextEvent
    <2>1. UNCHANGED <<ref, sconns_ctr_>> /\ (pc'[Owner] = "gone" => pc[Owner] = "gone")
        BY <1>20 DEF NextEvent, TypeOK
    <2> QED BY <2>1 DEF Counted, Alive
<1>21. CASE HandleRead
    <2>1. UNCHANGED <<ref, sconns_ctr_>> /\ (pc'[Owner] = "gone" => pc[Owner] = "gone")
        BY <1>21 DEF HandleRead, TypeOK
    <2> QED BY <2>1 DEF Counted, Alive
<1>22. CASE ReadFd
    <2>1. UNCHANGED <<ref, sconns_ctr_>> /\ (pc'[Owner] = "gone" => pc[Owner] = "gone")
        BY <1>22 DEF ReadFd, TypeOK
    <2> QED BY <2>1 DEF Counted, Alive
<1>23. CASE Dispatch
    <2>1. UNCHANGED sconns_ctr_ /\ (pc'[Owner] = "gone" => pc[Owner] = "gone")
        BY <1>23 DEF Dispatch, TypeOK
    <2> QED BY <1>23, <2>1, DispatchRefs DEF Counted
<1>24. CASE FastReturned
    <2>1. UNCHANGED <<ref, sconns_ctr_>> /\ (pc'[Owner] = "gone" => pc[Owner] = "gone")
        BY <1>24 DEF FastReturned, TypeOK
    <2> QED BY <2>1 DEF Counted, Alive
<1>25. CASE AllDispatched
    <2>1. UNCHANGED <<ref, sconns_ctr_>> /\ (pc'[Owner] = "gone" => pc[Owner] = "gone")
        BY <1>25 DEF AllDispatched, TypeOK
    <2> QED BY <2>1 DEF Counted, Alive
<1>26. CASE HandleWrite
    <2>1. UNCHANGED <<ref, sconns_ctr_>> /\ (pc'[Owner] = "gone" => pc[Owner] = "gone")
        BY <1>26 DEF HandleWrite, TypeOK
    <2> QED BY <2>1 DEF Counted, Alive
<1>27. CASE WriteFd
    <2>1. UNCHANGED <<ref, sconns_ctr_>> /\ (pc'[Owner] = "gone" => pc[Owner] = "gone")
        BY <1>27, WriteFdEffect DEF TypeOK
    <2> QED BY <2>1 DEF Counted, Alive
<1>28. CASE HandleError
    <2>1. UNCHANGED <<ref, sconns_ctr_>> /\ (pc'[Owner] = "gone" => pc[Owner] = "gone")
        BY <1>28 DEF HandleError, TypeOK
    <2> QED BY <2>1 DEF Counted, Alive
<1>29. CASE Drain
    <2>1. pc'[Owner] = "gone" => pc[Owner] = "gone"
        BY <1>29, DrainEffect DEF TypeOK
    <2>2. CASE remove_poll = {}
        <3>1. UNCHANGED <<ref, sconns_ctr_>>
            BY <1>29, <2>2, DrainEffect
        <3> QED BY <2>1, <3>1 DEF Counted, Alive
    <2>3. ASSUME NEW k \in remove_poll, Release(k), remove_poll' = remove_poll \ {k}
          PROVE  Counted'
        BY <1>29, <2>1, <2>3, DrainRefs DEF Counted
    <2> QED BY <1>29, <2>2, <2>3, DrainEffect
<1> QED
    BY <1>1, <1>2, <1>3, <1>4, <1>5, <1>6, <1>7, <1>8, <1>9, <1>10, <1>11, <1>12, <1>13,
       <1>14, <1>15, <1>16, <1>17, <1>18, <1>19, <1>20, <1>21, <1>22, <1>23, <1>24,
       <1>25, <1>26, <1>27, <1>28, <1>29
    DEF Next, LoopThread, Dtor, PollLoop, Close, Handler

\* The poll thread and the handlers use connections that are alive.
LEMMA PollTargetAlive ==
    ASSUME IInv, pc[Poll] \in ClosePcs \cup ServePcs
    PROVE  ref[tgt[Poll]] > 0
<1>1. tgt[Poll] \in Conns /\ tgt[Poll] \in Polled
    BY DEF IInv, Control, Events, Polled
<1> QED BY <1>1, UsedIsAlive DEF IInv

\* A handler at work has a connection that is alive.
LEMMA HandlerTargetAlive ==
    ASSUME IInv, NEW r \in Reqs, Working(r)
    PROVE  of[r] \in Conns /\ ref[of[r]] > 0
<1>1. of[r] \in Conns
    BY DEF IInv, Requests, Working
<1>2. Serving[of[r]] # {}
    BY <1>1 DEF Serving
<1> QED BY <1>1, <1>2, UsedIsAlive DEF IInv

\* Only ~Server uses a deleted connection.
LEMMA NextFreed == IInv /\ [Next]_vars => FreedOnlyByDtor'
<1> SUFFICES ASSUME IInv, [Next]_vars PROVE FreedOnlyByDtor'
    OBVIOUS
<1> USE DEF IInv
<1>1. CASE UNCHANGED <<freed_access>>
    BY <1>1 DEF FreedOnlyByDtor
<1>2. ASSUME NEW i \in Ids,
             reg(i) \/ unreg(i) PROVE FreedOnlyByDtor'
    BY <1>1, <1>2 DEF reg, unreg
<1>3. CASE start \/ Select \/ Accept \/ AcceptLate \/ LoopExits \/ Destroy \/
          JoinLoop \/ CopySconns \/ CloseNext \/ AllClosed \/ EpollWait \/
          NextEvent \/ ReadFd \/ DispatchInvalid \/ DispatchMissing \/ Dispatch \/
          FastReturned \/ AllDispatched \/ WriteFd \/ HandleError \/ Drain \/
          Terminated
    BY <1>1, <1>3, ErrorRepliesEffect, WriteFdEffect, DrainEffect DEF start, Select,
       Accept, AcceptLate, LoopExits, Destroy, JoinLoop, CopySconns,
       CloseNext, AllClosed, EpollWait, NextEvent, ReadFd, Dispatch, FastReturned,
       AllDispatched, HandleError, Terminated
<1>4. ASSUME NEW k \in Conns,
             ClientConnects(k) \/ ClientReceives(k) \/ ClientCloses(k) PROVE FreedOnlyByDtor'
    BY <1>1, <1>4 DEF ClientConnects, ClientReceives, ClientCloses
<1>5. ASSUME NEW k \in Conns, NEW r \in Reqs,
             ClientSends(k, r) PROVE FreedOnlyByDtor'
    BY <1>1, <1>5 DEF ClientSends
<1>6. ASSUME NEW t \in Closers, CloseTest(t) PROVE FreedOnlyByDtor'
    <2>1. CASE t = Owner
        BY <1>6, <2>1 DEF CloseTest, Touch, FreedOnlyByDtor
    <2>2. CASE t = Poll
        <3>1. ref[tgt[Poll]] > 0
            BY <1>6, <2>2, PollTargetAlive DEF CloseTest
        <3> QED BY <1>6, <2>2, <3>1 DEF CloseTest, Touch, FreedOnlyByDtor
    <2> QED BY <2>1, <2>2
<1>7. ASSUME NEW t \in Closers, CloseErase(t) PROVE FreedOnlyByDtor'
    <2>1. CASE t = Owner
        BY <1>7, <2>1 DEF CloseErase, Touch, FreedOnlyByDtor
    <2>2. CASE t = Poll
        <3>1. ref[tgt[Poll]] > 0
            BY <1>7, <2>2, PollTargetAlive DEF CloseErase
        <3> QED BY <1>7, <2>2, <3>1 DEF CloseErase, Touch, FreedOnlyByDtor
    <2> QED BY <2>1, <2>2
<1>8. ASSUME NEW t \in Closers, SetClosed(t) PROVE FreedOnlyByDtor'
    <2>1. CASE t = Owner
        BY <1>8, <2>1 DEF SetClosed, Touch, FreedOnlyByDtor
    <2>2. CASE t = Poll
        <3>1. ref[tgt[Poll]] > 0
            BY <1>8, <2>2, PollTargetAlive DEF SetClosed
        <3> QED BY <1>8, <2>2, <3>1 DEF SetClosed, Touch, FreedOnlyByDtor
    <2> QED BY <2>1, <2>2
<1>9. ASSUME NEW t \in Closers, CloseFd(t) PROVE FreedOnlyByDtor'
    <2>1. CASE t = Owner
        BY <1>9, <2>1 DEF CloseFd, Touch, FreedOnlyByDtor
    <2>2. CASE t = Poll
        <3>1. ref[tgt[Poll]] > 0
            BY <1>9, <2>2, PollTargetAlive DEF CloseFd
        <3> QED BY <1>9, <2>2, <3>1 DEF CloseFd, Touch, FreedOnlyByDtor
    <2> QED BY <2>1, <2>2
<1>10. ASSUME NEW t \in Closers, CloseRelease(t) PROVE FreedOnlyByDtor'
    BY <1>10, CloseReleaseRefs DEF FreedOnlyByDtor
<1>11. ASSUME NEW r \in Reqs, begin_reply(r) PROVE FreedOnlyByDtor'
    <2>1. ref[of[r]] > 0
        BY <1>11, HandlerTargetAlive DEF begin_reply, Working
    <2> QED BY <1>11, <2>1 DEF begin_reply, Touch, FreedOnlyByDtor
<1>12. ASSUME NEW r \in Reqs, end_reply(r) PROVE FreedOnlyByDtor'
    <2>1. ref[of[r]] > 0
        BY <1>12, HandlerTargetAlive DEF end_reply, Working
    <2> QED BY <1>12, <2>1 DEF end_reply, Touch, FreedOnlyByDtor
<1>13. ASSUME NEW r \in Reqs, HandlerReturns(r) PROVE FreedOnlyByDtor'
    BY <1>13, HandlerReturnsRefs DEF FreedOnlyByDtor
<1>14. CASE HandleRead
    <2>1. ref[tgt[Poll]] > 0
        BY <1>14, PollTargetAlive DEF HandleRead
    <2> QED BY <1>14, <2>1 DEF HandleRead, Touch, FreedOnlyByDtor
<1>15. CASE HandleWrite
    <2>1. ref[tgt[Poll]] > 0
        BY <1>15, PollTargetAlive DEF HandleWrite
    <2> QED BY <1>15, <2>1 DEF HandleWrite, Touch, FreedOnlyByDtor
<1> QED
    BY <1>1, <1>2, <1>3, <1>4, <1>5, <1>6, <1>7, <1>8, <1>9, <1>10, <1>11, <1>12, <1>13,
       <1>14, <1>15
    DEF Next, LoopThread, Dtor, PollLoop, Close, Handler

-----------------------------------------------------------------------------
(* Replies                                                                 *)

\* A step that touches no reply.
LEMMA SizedFrame ==
    ASSUME Sized, UNCHANGED <<out_l_, out_, to_client, of>>,
           \A r \in Reqs : handler'[r] = "replying" <=> handler[r] = "replying",
           TypeOK
    PROVE  Sized'
BY DEF Sized, TypeOK

\* A handler's begin_reply leaves one unfinished reply, its own, at the end.
LEMMA BeginReplySized ==
    ASSUME IInv, NEW r \in Reqs, begin_reply(r)
    PROVE  Sized' /\ out_' \in [Conns -> Seq(Reply)]
<1>0. PICK k, e : k = of[r] /\ e = [req |-> r, error |-> "0", sized |-> FALSE]
    OBVIOUS
<1>1. /\ k \in Conns /\ e \in Reply /\ handler[r] = "running" /\ out_l_[k] = "free"
      /\ out_l_' = [out_l_ EXCEPT ![k] = r]
      /\ out_' = [out_ EXCEPT ![k] = Append(out_[k], e)]
      /\ handler' = [handler EXCEPT ![r] = "replying"]
      /\ UNCHANGED <<of, to_client>>
    BY <1>0 DEF IInv, Requests, begin_reply, Reply
<1>2. PICK q \in Seq(Reply), n \in Nat : q = out_[k] /\ n = Len(q) + 1
    BY <1>1, LenProperties DEF IInv, TypeOK
<1>3. /\ Append(q, e) \in Seq(Reply) /\ DOMAIN Append(q, e) = DOMAIN q \cup {n}
      /\ Append(q, e)[n] = e /\ n \notin DOMAIN q
      /\ \A i \in DOMAIN q : Append(q, e)[i] = q[i]
      /\ Len(Append(q, e)) = n /\ Append(q, e) # <<>>
    BY <1>1, <1>2, SeqAppend, AppendProperties
<1>4. /\ out_'[k] = Append(q, e) /\ \A l \in Conns : l # k => out_'[l] = out_[l]
      /\ out_' \in [Conns -> Seq(Reply)]
    BY <1>1, <1>2, <1>3 DEF IInv, TypeOK
<1>5. /\ out_l_'[k] = r /\ \A l \in Conns : l # k => out_l_'[l] = out_l_[l]
      /\ handler'[r] = "replying" /\ \A p \in Reqs : p # r => handler'[p] = handler[p]
    BY <1>1 DEF IInv, TypeOK
<1>6. \A l \in Conns : out_l_'[l] # "free" =>
          /\ out_'[l] # <<>> /\ handler'[out_l_'[l]] = "replying" /\ of'[out_l_'[l]] = l
    <2> SUFFICES ASSUME NEW l \in Conns, out_l_'[l] # "free"
                 PROVE  /\ out_'[l] # <<>> /\ handler'[out_l_'[l]] = "replying"
                        /\ of'[out_l_'[l]] = l
        OBVIOUS
    <2>1. CASE l = k
        BY <1>0, <1>1, <1>3, <1>4, <1>5, <2>1
    <2>2. CASE l # k
        <3>1. /\ out_l_[l] # "free" /\ out_[l] # <<>> /\ handler[out_l_[l]] = "replying"
              /\ of[out_l_[l]] = l /\ out_l_[l] \in Reqs
            BY <1>5, <2>2 DEF IInv, Sized, TypeOK
        <3> QED BY <1>1, <1>4, <1>5, <2>2, <3>1
    <2> QED BY <2>1, <2>2
<1>7. \A p \in Reqs : handler'[p] = "replying" => out_l_'[of'[p]] = p
    <2> SUFFICES ASSUME NEW p \in Reqs, handler'[p] = "replying" PROVE out_l_'[of'[p]] = p
        OBVIOUS
    <2>1. CASE p = r
        BY <1>0, <1>1, <1>5, <2>1
    <2>2. CASE p # r
        <3>1. handler[p] = "replying" /\ out_l_[of[p]] = p /\ of[p] \in Conns
            BY <1>5, <2>2 DEF IInv, Sized, Requests
        <3>2. of[p] # k
            BY <1>1, <3>1
        <3> QED BY <1>1, <1>5, <3>1, <3>2
    <2> QED BY <2>1, <2>2
<1>8. \A l \in Conns : \A i \in DOMAIN out_'[l] :
          out_'[l][i].sized \/ (i = Len(out_'[l]) /\ out_l_'[l] # "free")
    <2> SUFFICES ASSUME NEW l \in Conns, NEW i \in DOMAIN out_'[l]
                 PROVE  out_'[l][i].sized \/ (i = Len(out_'[l]) /\ out_l_'[l] # "free")
        OBVIOUS
    <2>1. CASE l = k /\ i = n
        BY <1>3, <1>4, <1>5, <2>1
    <2>2. CASE l = k /\ i # n
        <3>1. i \in DOMAIN out_[k] /\ out_'[k][i] = out_[k][i]
            BY <1>2, <1>3, <1>4, <2>2
        <3> QED BY <1>1, <2>2, <3>1 DEF IInv, Sized
    <2>3. CASE l # k
        BY <1>4, <1>5, <2>3 DEF IInv, Sized
    <2> QED BY <2>1, <2>2, <2>3
<1>9. \A l \in Conns : /\ \A i \in DOMAIN to_client'[l] : to_client'[l][i].sized
                       /\ Len(to_client'[l]) <= SockBuf
    BY <1>1 DEF IInv, Sized
<1> QED BY <1>4, <1>6, <1>7, <1>8, <1>9 DEF Sized

\* The reply that r is writing to connection k gets its size.
Filled(k, r) ==
    /\ k = of[r] /\ out_l_[k] = r /\ handler[r] = "replying"
    /\ out_' \in [Conns -> Seq(Reply)]
    /\ \A l \in Conns : l # k => out_'[l] = out_[l]
    /\ out_'[k] # <<>> /\ Len(out_'[k]) = Len(out_[k])
    /\ DOMAIN out_'[k] = DOMAIN out_[k]
    /\ \A i \in DOMAIN out_[k] :
           /\ out_'[k][i].req = out_[k][i].req
           /\ out_'[k][i].error = out_[k][i].error
           /\ out_'[k][i].sized = TRUE

\* end_reply changes the last reply of out_ only, and nothing of it but its size.
LEMMA EndReplyOut ==
    ASSUME IInv, NEW r \in Reqs, end_reply(r)
    PROVE  \E k \in Conns : Filled(k, r)
<1>0. PICK k : k = of[r]
    OBVIOUS
<1>1. k \in Conns /\ out_l_[k] = r /\ handler[r] = "replying"
    BY <1>0 DEF IInv, Requests, Sized, end_reply
<1>2. PICK q \in Seq(Reply) : q = out_[k] /\ q # <<>>
    BY <1>1 DEF IInv, TypeOK, Sized
<1>3. PICK n : n = Len(q)
    OBVIOUS
<1>4. n \in Nat /\ DOMAIN q = 1 .. n /\ n # 0
    BY <1>2, <1>3, LenProperties, EmptySeq
<1>5. n \in DOMAIN q
    BY <1>4
<1>6. \A i \in DOMAIN q : q[i] \in Reply
    BY <1>3, <1>4, ElementOfSeq
<1>7. out_' = [out_ EXCEPT ![k] = [q EXCEPT ![n] = [q[n] EXCEPT !.sized = TRUE]]]
    BY <1>0, <1>2, <1>3 DEF end_reply
<1>8. PICK e : e = [q[n] EXCEPT !.sized = TRUE]
    OBVIOUS
<1>9. e \in Reply /\ e.req = q[n].req /\ e.error = q[n].error /\ e.sized = TRUE
    BY <1>5, <1>6, <1>8 DEF Reply
<1>10. PICK p : p = [q EXCEPT ![n] = e]
    OBVIOUS
<1>11. p \in Seq(Reply) /\ Len(p) = Len(q) /\ DOMAIN p = DOMAIN q
    BY <1>3, <1>4, <1>5, <1>9, <1>10, ExceptSeq, LenProperties
<1>12. p[n] = e /\ \A i \in DOMAIN q : i # n => p[i] = q[i]
    BY <1>4, <1>5, <1>10
<1>13. /\ out_'[k] = p /\ (\A l \in Conns : l # k => out_'[l] = out_[l])
       /\ out_' \in [Conns -> Seq(Reply)]
    BY <1>1, <1>7, <1>8, <1>10, <1>11 DEF IInv, TypeOK
<1>14. p # <<>>
    BY <1>3, <1>4, <1>11, EmptySeq
<1>15. \A i \in DOMAIN q : i # n => q[i].sized = TRUE
    BY <1>1, <1>2, <1>3, <1>6 DEF IInv, Sized, Reply
<1>16. \A i \in DOMAIN q : p[i].req = q[i].req /\ p[i].error = q[i].error /\ p[i].sized = TRUE
    BY <1>9, <1>12, <1>15
<1> QED BY <1>0, <1>1, <1>2, <1>11, <1>13, <1>14, <1>16 DEF Filled

\* end_reply leaves no unfinished reply in out_.
LEMMA EndReplySized ==
    ASSUME IInv, NEW r \in Reqs, end_reply(r)
    PROVE  Sized'
<1>0. PICK k \in Conns : Filled(k, r)
    BY EndReplyOut
<1>1. /\ k = of[r] /\ out_l_[k] = r /\ handler[r] = "replying"
      /\ out_' \in [Conns -> Seq(Reply)]
      /\ \A l \in Conns : l # k => out_'[l] = out_[l]
      /\ out_'[k] # <<>> /\ Len(out_'[k]) = Len(out_[k])
      /\ DOMAIN out_'[k] = DOMAIN out_[k]
      /\ \A i \in DOMAIN out_[k] :
             /\ out_'[k][i].req = out_[k][i].req
             /\ out_'[k][i].error = out_[k][i].error
             /\ out_'[k][i].sized = TRUE
    BY <1>0 DEF Filled
<1>2. /\ out_l_' = [out_l_ EXCEPT ![k] = "free"]
      /\ handler' = [handler EXCEPT ![r] = "replied"] /\ UNCHANGED <<of, to_client>>
    BY <1>1 DEF end_reply
<1>3. /\ out_l_'[k] = "free" /\ \A l \in Conns : l # k => out_l_'[l] = out_l_[l]
      /\ handler'[r] = "replied" /\ \A p \in Reqs : p # r => handler'[p] = handler[p]
    BY <1>1, <1>2 DEF IInv, TypeOK
<1>4. \A l \in Conns : out_l_'[l] # "free" =>
          /\ out_'[l] # <<>> /\ handler'[out_l_'[l]] = "replying" /\ of'[out_l_'[l]] = l
    <2> SUFFICES ASSUME NEW l \in Conns, out_l_'[l] # "free"
                 PROVE  /\ out_'[l] # <<>> /\ handler'[out_l_'[l]] = "replying"
                        /\ of'[out_l_'[l]] = l
        OBVIOUS
    <2>1. l # k
        BY <1>3
    <2>2. /\ out_l_[l] # "free" /\ out_[l] # <<>> /\ handler[out_l_[l]] = "replying"
          /\ of[out_l_[l]] = l /\ out_l_[l] \in Reqs
        BY <1>3, <2>1 DEF IInv, Sized, TypeOK
    <2>3. out_l_[l] # r
        BY <1>1, <2>1, <2>2
    <2> QED BY <1>1, <1>2, <1>3, <2>1, <2>2, <2>3
<1>5. \A p \in Reqs : handler'[p] = "replying" => out_l_'[of'[p]] = p
    <2> SUFFICES ASSUME NEW p \in Reqs, handler'[p] = "replying" PROVE out_l_'[of'[p]] = p
        OBVIOUS
    <2>1. p # r /\ handler[p] = "replying" /\ out_l_[of[p]] = p /\ of[p] \in Conns
        BY <1>3 DEF IInv, Sized, Requests
    <2> QED BY <1>1, <1>2, <1>3, <2>1
<1>6. \A l \in Conns : \A i \in DOMAIN out_'[l] :
          out_'[l][i].sized \/ (i = Len(out_'[l]) /\ out_l_'[l] # "free")
    BY <1>1, <1>3 DEF IInv, Sized
<1>7. \A l \in Conns : /\ \A i \in DOMAIN to_client'[l] : to_client'[l][i].sized
                       /\ Len(to_client'[l]) <= SockBuf
    BY <1>2 DEF IInv, Sized
<1> QED BY <1>4, <1>5, <1>6, <1>7 DEF Sized

\* handle_read's own replies have their size when they enter out_.
LEMMA ErrorRepliesSized ==
    ASSUME IInv, DispatchInvalid \/ DispatchMissing
    PROVE  Sized' /\ out_' \in [Conns -> Seq(Reply)]
<1>0. PICK k, h : k = tgt[Poll] /\ h = Head(complete_requests)
    OBVIOUS
<1>1. /\ pc[Poll] = "dispatch" /\ complete_requests # <<>> /\ out_l_[k] = "free"
      /\ of' = [of EXCEPT ![h] = k] /\ UNCHANGED <<out_l_, handler, to_client>>
    BY <1>0, ErrorRepliesEffect
<1>2. k \in Conns
    BY <1>0, <1>1 DEF IInv, Control
<1>3. h \in Reqs /\ of[h] = Nothing
    <2>1. complete_requests \in Seq(Reqs)
        BY DEF IInv, TypeOK
    <2>2. h = complete_requests[1] /\ h \in Reqs /\ 1 \in DOMAIN complete_requests
        BY <1>0, <1>1, <2>1, SeqHeadTail
    <2> QED BY <1>1, <2>2 DEF IInv, Requests
<1>4. handler[h] = "none"
    BY <1>3 DEF IInv, Requests
<1>5. PICK e \in Reply : /\ e = [req |-> h, error |-> Code(h), sized |-> TRUE]
                         /\ out_' = [out_ EXCEPT ![k] = Append(out_[k], e)]
    <2>1. [req |-> h, error |-> Code(h), sized |-> TRUE] \in Reply
        BY <1>3 DEF Reply, Code
    <2>2. out_' = [out_ EXCEPT ![k] =
                      Append(out_[k], [req |-> h, error |-> Code(h), sized |-> TRUE])]
        BY <1>0, ErrorRepliesEffect
    <2> QED BY <2>1, <2>2
<1>6. PICK q \in Seq(Reply), n \in Nat : q = out_[k] /\ n = Len(q) + 1
    BY <1>2, LenProperties DEF IInv, TypeOK
<1>7. /\ Append(q, e) \in Seq(Reply) /\ DOMAIN Append(q, e) = DOMAIN q \cup {n}
      /\ Append(q, e)[n] = e
      /\ \A i \in DOMAIN q : Append(q, e)[i] = q[i]
      /\ Append(q, e) # <<>>
    BY <1>6, SeqAppend, AppendProperties
<1>8. /\ out_'[k] = Append(q, e) /\ \A l \in Conns : l # k => out_'[l] = out_[l]
      /\ out_' \in [Conns -> Seq(Reply)]
    BY <1>2, <1>5, <1>6, <1>7 DEF IInv, TypeOK
<1>9. \A p \in Reqs : p # h => of'[p] = of[p]
    BY <1>1 DEF IInv, TypeOK
<1>10. \A l \in Conns : out_l_'[l] # "free" =>
           /\ out_'[l] # <<>> /\ handler'[out_l_'[l]] = "replying" /\ of'[out_l_'[l]] = l
    <2> SUFFICES ASSUME NEW l \in Conns, out_l_[l] # "free"
                 PROVE  /\ out_'[l] # <<>> /\ handler[out_l_[l]] = "replying"
                        /\ of'[out_l_[l]] = l
        BY <1>1
    <2>1. /\ out_[l] # <<>> /\ handler[out_l_[l]] = "replying"
          /\ of[out_l_[l]] = l /\ out_l_[l] \in Reqs
        BY DEF IInv, Sized, TypeOK
    <2> QED BY <1>1, <1>4, <1>8, <1>9, <2>1
<1>11. \A p \in Reqs : handler'[p] = "replying" => out_l_'[of'[p]] = p
    BY <1>1, <1>4, <1>9 DEF IInv, Sized
<1>12. \A l \in Conns : \A i \in DOMAIN out_'[l] :
           out_'[l][i].sized \/ (i = Len(out_'[l]) /\ out_l_'[l] # "free")
    <2> SUFFICES ASSUME NEW l \in Conns, NEW i \in DOMAIN out_'[l]
                 PROVE  out_'[l][i].sized \/ (i = Len(out_'[l]) /\ out_l_'[l] # "free")
        OBVIOUS
    <2>1. CASE l = k /\ i = n
        BY <1>5, <1>7, <1>8, <2>1
    <2>2. CASE l = k /\ i # n
        <3>1. i \in DOMAIN out_[k] /\ out_'[k][i] = out_[k][i]
            BY <1>6, <1>7, <1>8, <2>2
        <3> QED BY <1>1, <1>2, <2>2, <3>1 DEF IInv, Sized
    <2>3. CASE l # k
        <3>1. out_'[l] = out_[l] /\ out_l_'[l] = out_l_[l]
            BY <1>1, <1>8, <2>3
        <3> QED BY <3>1 DEF IInv, Sized
    <2> QED BY <2>1, <2>2, <2>3
<1>13. \A l \in Conns : /\ \A i \in DOMAIN to_client'[l] : to_client'[l][i].sized
                        /\ Len(to_client'[l]) <= SockBuf
    BY <1>1 DEF IInv, Sized
<1> QED BY <1>8, <1>10, <1>11, <1>12, <1>13 DEF Sized

\* The first n packets of a sequence, and the others.
LEMMA SeqSplit ==
    ASSUME NEW S, NEW q \in Seq(S), NEW n \in Nat, n <= Len(q)
    PROVE  /\ SubSeq(q, 1, n) \in Seq(S) /\ Len(SubSeq(q, 1, n)) = n
           /\ \A i \in 1 .. n : SubSeq(q, 1, n)[i] = q[i]
           /\ SubSeq(q, n + 1, Len(q)) \in Seq(S)
           /\ Len(SubSeq(q, n + 1, Len(q))) = Len(q) - n
           /\ \A i \in 1 .. (Len(q) - n) : SubSeq(q, n + 1, Len(q))[i] = q[n + i]
<1>0. PICK L \in Nat : L = Len(q) /\ DOMAIN q = 1 .. L
    BY LenProperties
<1>1. \A i \in 1 .. L : q[i] \in S
    BY <1>0, ElementOfSeq
<1>2. /\ SubSeq(q, 1, n) \in Seq(S)
      /\ Len(SubSeq(q, 1, n)) = IF 1 <= n THEN n - 1 + 1 ELSE 0
      /\ \A i \in 1 .. (n - 1 + 1) : SubSeq(q, 1, n)[i] = q[1 + i - 1]
    <2>1. \A i \in 1 .. n : q[i] \in S
        BY <1>0, <1>1
    <2> QED BY <2>1, SubSeqProperties
<1>3. /\ SubSeq(q, n + 1, L) \in Seq(S)
      /\ Len(SubSeq(q, n + 1, L)) = IF n + 1 <= L THEN L - (n + 1) + 1 ELSE 0
      /\ \A i \in 1 .. (L - (n + 1) + 1) : SubSeq(q, n + 1, L)[i] = q[(n + 1) + i - 1]
    <2>1. \A i \in (n + 1) .. L : q[i] \in S
        BY <1>1
    <2>2. n + 1 \in Int
        OBVIOUS
    <2> QED BY <2>1, <2>2, SubSeqProperties
<1>4. /\ (IF 1 <= n THEN n - 1 + 1 ELSE 0) = n /\ n - 1 + 1 = n
      /\ \A i \in 1 .. n : 1 + i - 1 = i
    OBVIOUS
<1>5. /\ (IF n + 1 <= L THEN L - (n + 1) + 1 ELSE 0) = L - n /\ L - (n + 1) + 1 = L - n
      /\ \A i \in 1 .. (L - n) : (n + 1) + i - 1 = n + i
    BY <1>0
<1>6. \A i \in 1 .. n : SubSeq(q, 1, n)[i] = q[i]
    BY <1>2, <1>4
<1>7. \A i \in 1 .. (L - n) : SubSeq(q, n + 1, L)[i] = q[n + i]
    BY <1>3, <1>5
<1> QED BY <1>0, <1>2, <1>3, <1>4, <1>5, <1>6, <1>7

\* What concatenation does to the elements of two sequences.
LEMMA SeqConcat ==
    ASSUME NEW S, NEW a \in Seq(S), NEW b \in Seq(S),
           NEW m \in Nat, NEW n \in Nat, Len(a) = m, Len(b) = n
    PROVE  /\ a \o b \in Seq(S) /\ Len(a \o b) = m + n /\ DOMAIN (a \o b) = 1 .. (m + n)
           /\ \A i \in 1 .. (m + n) : (a \o b)[i] = IF i <= m THEN a[i] ELSE b[i - m]
<1>1. a \o b \in Seq(S) /\ Len(a \o b) = m + n
    BY ConcatProperties
<1>2. DOMAIN (a \o b) = 1 .. (m + n)
    BY <1>1, LenProperties
<1>3. \A i \in 1 .. (Len(a) + Len(b)) :
          (a \o b)[i] = IF i <= Len(a) THEN a[i] ELSE b[i - Len(a)]
    BY ConcatProperties
<1> QED BY <1>1, <1>2, <1>3

\* handle_write moves replies along their way to the client, and drops none.
LEMMA WriteFdReplies ==
    ASSUME IInv, WriteFd
    PROVE  /\ Sized' /\ Pipe' = Pipe
           /\ out_' \in [Conns -> Seq(Reply)] /\ to_client' \in [Conns -> Seq(Reply)]
<1>0. PICK k \in Conns : k = tgt[Poll]
    BY WriteFdEffect DEF IInv, Control
<1>1. PICK n \in Nat : Moved(k, n)
    BY <1>0, WriteFdEffect DEF IInv, Sized
<1>2. out_l_[k] = "free" /\ UNCHANGED <<out_l_, handler, of>>
    BY <1>0, WriteFdEffect
<1>3. PICK q \in Seq(Reply), c \in Seq(Reply) : q = out_[k] /\ c = to_client[k]
    BY DEF IInv, TypeOK
<1>4. PICK L \in Nat, M \in Nat :
          /\ L = Len(q) /\ M = Len(c) /\ DOMAIN q = 1 .. L /\ DOMAIN c = 1 .. M
    BY LenProperties
<1>5. n <= L /\ (n = 0 \/ n <= SockBuf - M) /\ M <= SockBuf
    BY <1>1, <1>3, <1>4 DEF Moved, IInv, Sized
<1>6. PICK a, b : a = SubSeq(q, 1, n) /\ b = SubSeq(q, n + 1, L)
    OBVIOUS
<1>7. /\ a \in Seq(Reply) /\ Len(a) = n /\ \A i \in 1 .. n : a[i] = q[i]
      /\ b \in Seq(Reply) /\ Len(b) = L - n /\ \A i \in 1 .. (L - n) : b[i] = q[n + i]
    BY <1>4, <1>5, <1>6, SeqSplit
<1>8. /\ c \o a \in Seq(Reply) /\ Len(c \o a) = M + n /\ DOMAIN (c \o a) = 1 .. (M + n)
      /\ \A i \in 1 .. (M + n) : (c \o a)[i] = IF i <= M THEN c[i] ELSE a[i - M]
    <2>1. a \in Seq(Reply) /\ Len(a) = n /\ Len(c) = M
        BY <1>4, <1>7
    <2>2. /\ c \o a \in Seq(Reply) /\ Len(c \o a) = M + n /\ DOMAIN (c \o a) = 1 .. (M + n)
        BY <2>1, SeqConcat
    <2>3. \A i \in 1 .. (M + n) : (c \o a)[i] = IF i <= M THEN c[i] ELSE a[i - M]
        <3>1. \A i \in 1 .. (Len(c) + Len(a)) :
                  (c \o a)[i] = IF i <= Len(c) THEN c[i] ELSE a[i - Len(c)]
            BY <2>1, ConcatProperties
        <3> QED BY <2>1, <3>1
    <2> QED BY <2>2, <2>3
<1>9. /\ to_client' = [to_client EXCEPT ![k] = c \o a] /\ out_' = [out_ EXCEPT ![k] = b]
    BY <1>1, <1>3, <1>4, <1>6 DEF Moved
<1>10. /\ to_client'[k] = c \o a /\ \A l \in Conns : l # k => to_client'[l] = to_client[l]
       /\ out_'[k] = b /\ \A l \in Conns : l # k => out_'[l] = out_[l]
       /\ out_' \in [Conns -> Seq(Reply)] /\ to_client' \in [Conns -> Seq(Reply)]
    BY <1>7, <1>8, <1>9 DEF IInv, TypeOK
<1>11. \A i \in 1 .. L : q[i].sized
    BY <1>2, <1>3, <1>4 DEF IInv, Sized
<1>12. /\ \A i \in 1 .. (M + n) : (c \o a)[i].sized
       /\ M + n <= SockBuf
    <2>1. \A i \in 1 .. M : c[i].sized
        BY <1>3, <1>4 DEF IInv, Sized
    <2>2. \A i \in 1 .. n : a[i].sized
        BY <1>5, <1>7, <1>11
    <2>3. ASSUME NEW i \in 1 .. (M + n) PROVE (c \o a)[i].sized
        <3>1. CASE i <= M
            <4>1. i \in 1 .. M /\ (c \o a)[i] = c[i]
                BY <1>8, <3>1
            <4> QED BY <2>1, <4>1
        <3>2. CASE ~(i <= M)
            <4>1. i - M \in 1 .. n
                BY <3>2
            <4>2. (c \o a)[i] = a[i - M]
                BY <1>8, <3>2
            <4> QED BY <2>2, <4>1, <4>2
        <3> QED BY <3>1, <3>2
    <2>4. M + n <= SockBuf
        BY <1>5
    <2> QED BY <2>3, <2>4
<1>13. \A i \in DOMAIN b : b[i].sized
    <2>1. DOMAIN b = 1 .. (L - n)
        BY <1>7, LenProperties
    <2>2. \A i \in 1 .. (L - n) : n + i \in 1 .. L
        BY <1>5
    <2> QED BY <1>7, <1>11, <2>1, <2>2
<1>14. \A l \in Conns : out_l_'[l] # "free" =>
           /\ out_'[l] # <<>> /\ handler'[out_l_'[l]] = "replying" /\ of'[out_l_'[l]] = l
    BY <1>2, <1>10 DEF IInv, Sized
<1>15. \A p \in Reqs : handler'[p] = "replying" => out_l_'[of'[p]] = p
    BY <1>2 DEF IInv, Sized
<1>16. \A l \in Conns : \A i \in DOMAIN out_'[l] :
           out_'[l][i].sized \/ (i = Len(out_'[l]) /\ out_l_'[l] # "free")
    <2> SUFFICES ASSUME NEW l \in Conns, NEW i \in DOMAIN out_'[l]
                 PROVE  out_'[l][i].sized \/ (i = Len(out_'[l]) /\ out_l_'[l] # "free")
        OBVIOUS
    <2>1. CASE l = k
        <3>1. out_'[l] = b
            BY <1>10, <2>1
        <3> QED BY <1>13, <3>1
    <2>2. CASE l # k
        <3>1. out_'[l] = out_[l] /\ out_l_'[l] = out_l_[l]
            BY <1>2, <1>10, <2>2
        <3> QED BY <3>1 DEF IInv, Sized
    <2> QED BY <2>1, <2>2
<1>17. \A l \in Conns : /\ \A i \in DOMAIN to_client'[l] : to_client'[l][i].sized
                        /\ Len(to_client'[l]) <= SockBuf
    <2> SUFFICES ASSUME NEW l \in Conns
                 PROVE  /\ \A i \in DOMAIN to_client'[l] : to_client'[l][i].sized
                        /\ Len(to_client'[l]) <= SockBuf
        OBVIOUS
    <2>1. CASE l = k
        <3>1. to_client'[l] = c \o a
            BY <1>10, <2>1
        <3> QED BY <1>8, <1>12, <3>1
    <2>2. CASE l # k
        <3>1. to_client'[l] = to_client[l]
            BY <1>10, <2>2
        <3> QED BY <3>1 DEF IInv, Sized
    <2> QED BY <2>1, <2>2
<1>18. Sized'
    BY <1>14, <1>15, <1>16, <1>17 DEF Sized
<1>19. (c \o a) \o b = c \o q
    <2>1. (c \o a) \o b = c \o (a \o b)
        <3>1. a \in Seq(Reply) /\ b \in Seq(Reply)
            BY <1>7
        <3> QED BY <3>1, ConcatAssociative
    <2>2. 1 \in 1 .. (L + 1) /\ n \in (1 - 1) .. L /\ L \in n .. L
        BY <1>5
    <2>3. a \o b = SubSeq(q, 1, L)
        BY <1>4, <1>6, <2>2, ConcatAdjacentSubSeq
    <2>4. SubSeq(q, 1, L) = q
        BY <1>4, SubSeqFull
    <2> QED BY <2>1, <2>3, <2>4
<1>20. \A l \in Conns : to_client'[l] \o out_'[l] = to_client[l] \o out_[l]
    BY <1>3, <1>10, <1>19
<1>21. Pipe' = Pipe
    BY <1>20 DEF Pipe
<1> QED BY <1>10, <1>18, <1>21

\* The client takes the reply at the head of the pipe.
LEMMA ClientReceivesReplies ==
    ASSUME IInv, NEW k \in Conns, ClientReceives(k)
    PROVE  /\ Sized' /\ to_client' \in [Conns -> Seq(Reply)]
           /\ Pipe[k] \in Seq(Reply) /\ Pipe[k] # <<>>
           /\ Head(to_client[k]) = Pipe[k][1] /\ Pipe[k][1].sized
           /\ Pipe' = [Pipe EXCEPT ![k] = Tail(Pipe[k])]
<1>1. /\ to_client' = [to_client EXCEPT ![k] = Tail(to_client[k])] /\ to_client[k] # <<>>
      /\ UNCHANGED <<out_l_, out_, handler, of>>
    BY DEF ClientReceives
<1>2. PICK q \in Seq(Reply), c \in Seq(Reply) : q = out_[k] /\ c = to_client[k]
    BY DEF IInv, TypeOK
<1>3. /\ Head(c) = c[1] /\ 1 \in DOMAIN c /\ Tail(c) \in Seq(Reply)
      /\ \A i \in DOMAIN Tail(c) : i + 1 \in DOMAIN c /\ Tail(c)[i] = c[i + 1]
    BY <1>1, <1>2, SeqHeadTail
<1>4. /\ to_client'[k] = Tail(c) /\ \A l \in Conns : l # k => to_client'[l] = to_client[l]
      /\ to_client' \in [Conns -> Seq(Reply)]
    BY <1>1, <1>2, <1>3 DEF IInv, TypeOK
<1>5. PICK L \in Nat, M \in Nat : L = Len(q) /\ M = Len(c) /\ M # 0
    BY <1>1, <1>2, LenProperties, EmptySeq
<1>6. Len(Tail(c)) = M - 1 /\ \A i \in 1 .. (M - 1) : Tail(c)[i] = c[i + 1]
    BY <1>1, <1>2, <1>5, HeadTailProperties
<1>7. Sized'
    <2>1. \A i \in DOMAIN c : c[i].sized
        BY <1>2 DEF IInv, Sized
    <2>2. \A i \in DOMAIN Tail(c) : Tail(c)[i].sized
        BY <1>3, <2>1
    <2>3. M - 1 <= SockBuf
        BY <1>2, <1>5 DEF IInv, Sized
    <2>4. \A l \in Conns : /\ \A i \in DOMAIN to_client'[l] : to_client'[l][i].sized
                           /\ Len(to_client'[l]) <= SockBuf
        <3> SUFFICES ASSUME NEW l \in Conns
                     PROVE  /\ \A i \in DOMAIN to_client'[l] : to_client'[l][i].sized
                            /\ Len(to_client'[l]) <= SockBuf
            OBVIOUS
        <3>1. CASE l = k
            <4>1. to_client'[l] = Tail(c)
                BY <1>4, <3>1
            <4> QED BY <1>6, <2>2, <2>3, <4>1
        <3>2. CASE l # k
            <4>1. to_client'[l] = to_client[l]
                BY <1>4, <3>2
            <4> QED BY <4>1 DEF IInv, Sized
        <3> QED BY <3>1, <3>2
    <2> QED BY <1>1, <2>4 DEF IInv, Sized
<1>8. PICK p : p = c \o q
    OBVIOUS
<1>9. /\ p \in Seq(Reply) /\ Len(p) = M + L
      /\ \A i \in 1 .. (M + L) : p[i] = IF i <= M THEN c[i] ELSE q[i - M]
    BY <1>5, <1>8, SeqConcat
<1>10. p # <<>> /\ p[1] = c[1]
    <2>1. M + L # 0 /\ 1 \in 1 .. (M + L) /\ 1 <= M
        BY <1>5
    <2> QED BY <1>9, <2>1, EmptySeq
<1>11. Tail(c) \o q = Tail(p)
    <2>1. /\ Tail(p) \in Seq(Reply) /\ Len(Tail(p)) = M + L - 1
          /\ \A i \in 1 .. (M + L - 1) : Tail(p)[i] = p[i + 1]
        BY <1>9, <1>10, HeadTailProperties
    <2>2. /\ Tail(c) \o q \in Seq(Reply) /\ Len(Tail(c) \o q) = (M - 1) + L
          /\ \A i \in 1 .. ((M - 1) + L) :
                 (Tail(c) \o q)[i] = IF i <= M - 1 THEN Tail(c)[i] ELSE q[i - (M - 1)]
        BY <1>3, <1>5, <1>6, ConcatProperties
    <2>3. (M - 1) + L = M + L - 1
        OBVIOUS
    <2>4. ASSUME NEW i \in 1 .. (M + L - 1) PROVE (Tail(c) \o q)[i] = Tail(p)[i]
        <3>1. i + 1 \in 1 .. (M + L)
            OBVIOUS
        <3>2. CASE i <= M - 1
            <4>1. i \in 1 .. (M - 1) /\ i + 1 <= M /\ i \in 1 .. ((M - 1) + L)
                BY <3>2
            <4>2. (Tail(c) \o q)[i] = Tail(c)[i] /\ Tail(c)[i] = c[i + 1]
                BY <1>6, <2>2, <3>2, <4>1
            <4>3. p[i + 1] = c[i + 1]
                BY <1>9, <3>1, <4>1
            <4> QED BY <2>1, <4>2, <4>3
        <3>3. CASE ~(i <= M - 1)
            <4>1. ~(i + 1 <= M) /\ (i + 1) - M = i - (M - 1) /\ i \in 1 .. ((M - 1) + L)
                BY <3>3
            <4>2. (Tail(c) \o q)[i] = q[i - (M - 1)]
                BY <2>2, <3>3, <4>1
            <4>3. p[i + 1] = q[(i + 1) - M]
                BY <1>9, <3>1, <4>1
            <4> QED BY <2>1, <4>1, <4>2, <4>3
        <3> QED BY <3>2, <3>3
    <2> QED BY <2>1, <2>2, <2>3, <2>4, SeqEqual
<1>12. Pipe[k] = p /\ Pipe'[k] = Tail(p) /\ \A l \in Conns : l # k => Pipe'[l] = Pipe[l]
    BY <1>1, <1>2, <1>4, <1>8, <1>11 DEF Pipe
<1>13. Pipe' = [Pipe EXCEPT ![k] = Tail(Pipe[k])]
    <2>1. Pipe = [l \in Conns |-> Pipe[l]] /\ Pipe' = [l \in Conns |-> Pipe'[l]]
        BY DEF Pipe
    <2> QED BY <1>12, <2>1
<1>14. c[1].sized
    BY <1>2, <1>3 DEF IInv, Sized
<1> QED BY <1>2, <1>3, <1>4, <1>7, <1>9, <1>10, <1>12, <1>13, <1>14

\* Every step keeps all replies but the one being written complete.
LEMMA NextSized == IInv /\ [Next]_vars => Sized'
<1> SUFFICES ASSUME IInv, [Next]_vars PROVE Sized'
    OBVIOUS
<1> USE DEF IInv
<1>1. CASE UNCHANGED <<out_l_, out_, to_client, of, handler>>
    BY <1>1 DEF Sized
<1>2. ASSUME NEW i \in Ids,
             reg(i) \/ unreg(i) PROVE Sized'
    BY <1>1, <1>2 DEF reg, unreg
<1>3. CASE start \/ Select \/ Accept \/ AcceptLate \/ LoopExits \/ Destroy \/
          JoinLoop \/ CopySconns \/ CloseNext \/ AllClosed \/ EpollWait \/
          NextEvent \/ HandleRead \/ ReadFd \/ FastReturned \/ AllDispatched \/
          HandleWrite \/ HandleError \/ Drain \/ Terminated
    BY <1>1, <1>3, DrainEffect DEF start, Select, Accept, AcceptLate, LoopExits,
       Destroy, JoinLoop, CopySconns,
       CloseNext, AllClosed, EpollWait, NextEvent, HandleRead, ReadFd, FastReturned,
       AllDispatched, HandleWrite, HandleError, Terminated
<1>4. ASSUME NEW t \in Closers,
             CloseTest(t) \/ CloseErase(t) \/ SetClosed(t) \/ CloseFd(t) \/
          CloseRelease(t) PROVE Sized'
    BY <1>1, <1>4 DEF CloseTest, CloseErase, SetClosed, CloseFd, CloseRelease
<1>5. ASSUME NEW k \in Conns,
             ClientConnects(k) \/ ClientCloses(k) PROVE Sized'
    BY <1>1, <1>5 DEF ClientConnects, ClientCloses
<1>6. ASSUME NEW k \in Conns, NEW r \in Reqs,
             ClientSends(k, r) PROVE Sized'
    BY <1>1, <1>6 DEF ClientSends
<1>7. ASSUME NEW r \in Reqs, begin_reply(r) PROVE Sized'
    BY <1>7, BeginReplySized
<1>8. ASSUME NEW r \in Reqs, end_reply(r) PROVE Sized'
    BY <1>8, EndReplySized
<1>9. ASSUME NEW r \in Reqs, HandlerReturns(r) PROVE Sized'
    BY <1>9, SizedFrame DEF HandlerReturns, TypeOK
<1>10. CASE DispatchInvalid \/ DispatchMissing
    BY <1>10, ErrorRepliesSized
<1>11. CASE Dispatch
    <2>1. PICK h : h = Head(complete_requests)
        OBVIOUS
    <2>2. h \in Reqs /\ handler[h] = "none"
        <3>1. /\ complete_requests \in Seq(Reqs) /\ complete_requests # <<>>
              /\ pc[Poll] = "dispatch"
            BY <1>11 DEF Dispatch, TypeOK
        <3>2. h = complete_requests[1] /\ h \in Reqs /\ 1 \in DOMAIN complete_requests
            BY <2>1, <3>1, SeqHeadTail
        <3> QED BY <3>1, <3>2 DEF Requests
    <2>3. /\ UNCHANGED <<out_l_, out_, to_client>>
          /\ of' = [of EXCEPT ![h] = tgt[Poll]] /\ handler' = [handler EXCEPT ![h] = "running"]
        BY <1>11, <2>1 DEF Dispatch
    <2>4. \A r \in Reqs : /\ handler'[r] = "replying" <=> handler[r] = "replying"
                          /\ handler[r] = "replying" => of'[r] = of[r]
        BY <2>2, <2>3 DEF TypeOK
    <2>5. \A k \in Conns : out_l_[k] # "free" => out_l_[k] \in Reqs
        BY DEF TypeOK
    <2> QED BY <2>3, <2>4, <2>5 DEF Sized
<1>12. CASE WriteFd
    BY <1>12, WriteFdReplies
<1>13. ASSUME NEW k \in Conns, ClientReceives(k) PROVE Sized'
    BY <1>13, ClientReceivesReplies
<1> QED
    BY <1>1, <1>2, <1>3, <1>4, <1>5, <1>6, <1>7, <1>8, <1>9, <1>10, <1>11, <1>12, <1>13
    DEF Next, LoopThread, Dtor, PollLoop, Close, Handler

\* The replies on their way are replies, to requests the server has read.
LEMMA PipeType ==
    ASSUME IInv
    PROVE  /\ Pipe \in [Conns -> Seq(Reply)]
           /\ \A k \in Conns : \A i \in DOMAIN Pipe[k] : Pipe[k][i].req \in Reqs
<1>1. \A k \in Conns : to_client[k] \in Seq(Reply) /\ out_[k] \in Seq(Reply)
    BY DEF IInv, TypeOK
<1>2. \A k \in Conns : to_client[k] \o out_[k] \in Seq(Reply)
    BY <1>1, ConcatProperties
<1>3. Pipe \in [Conns -> Seq(Reply)]
    BY <1>2 DEF Pipe
<1>4. ASSUME NEW k \in Conns, NEW i \in DOMAIN Pipe[k] PROVE Pipe[k][i].req \in Reqs
    <2>1. PICK q \in Seq(Reply) : q = Pipe[k]
        BY <1>3
    <2>2. q[i] \in Reply
        BY <1>4, <2>1, LenProperties, ElementOfSeq
    <2> QED BY <2>1, <2>2 DEF Reply
<1> QED BY <1>3, <1>4

\* A step that neither writes nor delivers a reply, nor lets a handler write one.
LEMMA RepliesFrame ==
    ASSUME Replies, UNCHANGED <<handlers_, of, got, Pipe>>,
           status_' = "NEW" => status_ = "NEW",
           \A r \in Reqs : handler'[r] = "running" <=> handler[r] = "running"
    PROVE  Replies'
<1>1. Unanswered' = Unanswered
    BY DEF Unanswered
<1>2. Codes' = Codes
    BY DEF Codes, Code
<1> QED BY <1>1, <1>2 DEF Replies

\* Until start() there is neither a request nor a reply.
LEMMA NothingBeforeStart ==
    ASSUME IInv, status_ = "NEW"
    PROVE  /\ \A k \in Conns : DOMAIN Pipe[k] = {}
           /\ \A r \in Reqs : of[r] = Nothing /\ handler[r] = "none" /\ got[r] = <<>>
<1>1. \A r \in Reqs : of[r] = Nothing
    BY DEF IInv, Replies
<1>2. \A r \in Reqs : handler[r] = "none"
    BY <1>1 DEF IInv, Requests
<1>3. \A r \in Reqs : got[r] = <<>>
    BY <1>1 DEF IInv, Replies, Unanswered
<1>4. ASSUME NEW k \in Conns, NEW i \in DOMAIN Pipe[k] PROVE FALSE
    <2>1. of[Pipe[k][i].req] = k
        BY <1>4 DEF IInv, Replies
    <2>2. Pipe[k][i].req \in Reqs
        BY <1>4, PipeType
    <2> QED BY <1>1, <2>1, <2>2
<1> QED BY <1>1, <1>2, <1>3, <1>4

\* The poll thread serves connections only after start().
LEMMA ServingStarted ==
    ASSUME IInv, pc[Poll] \in ServePcs
    PROVE  tgt[Poll] \in Conns /\ status_ # "NEW"
<1>1. tgt[Poll] \in Conns /\ tgt[Poll] \in Polled
    BY DEF IInv, Control, Events, Polled
<1>2. sock_[tgt[Poll]] # "none"
    BY <1>1 DEF IInv, Opened
<1> QED BY <1>1, <1>2 DEF IInv, Listening

\* A handler, or handle_read, writes the one reply to a request.
LEMMA RepliesAppend ==
    ASSUME IInv, NEW k \in Conns, NEW e \in Reply,
           out_' = [out_ EXCEPT ![k] = Append(out_[k], e)],
           UNCHANGED <<to_client, handlers_, got>>,
           e.req \in Unanswered, e.req \notin Unanswered',
           of'[e.req] = k, e.error = Codes[e.req], status_' # "NEW",
           \A r \in Reqs : r # e.req => of'[r] = of[r] /\ handler'[r] = handler[r],
           handler'[e.req] # "running"
    PROVE  Replies'
<1>0. PICK m : m = e.req
    OBVIOUS
<1>1. m \in Reqs /\ m \in Unanswered /\ m \notin Unanswered'
    BY <1>0 DEF Reply
<1>2. PICK p \in Seq(Reply), n \in Nat : p = Pipe[k] /\ n = Len(p) + 1
    BY PipeType, LenProperties
<1>3. Pipe'[k] = Append(p, e)
    <2>1. PICK c \in Seq(Reply), q \in Seq(Reply) : c = to_client[k] /\ q = out_[k]
        BY DEF IInv, TypeOK
    <2>2. out_'[k] = Append(q, e) /\ to_client'[k] = c
        BY <2>1 DEF IInv, TypeOK
    <2>3. Append(q, e) = q \o <<e>> /\ <<e>> \in Seq(Reply)
        BY AppendIsConcat
    <2>4. c \o (q \o <<e>>) = (c \o q) \o <<e>>
        BY <2>3, ConcatAssociative
    <2>5. p = c \o q
        BY <1>2, <2>1 DEF Pipe
    <2>6. p \o <<e>> = Append(p, e)
        BY AppendIsConcat
    <2>7. Pipe'[k] = to_client'[k] \o out_'[k]
        BY DEF Pipe
    <2> QED BY <2>2, <2>3, <2>4, <2>5, <2>6, <2>7
<1>4. \A l \in Conns : l # k => Pipe'[l] = Pipe[l]
    BY DEF Pipe, IInv, TypeOK
<1>5. /\ DOMAIN Append(p, e) = DOMAIN p \cup {n} /\ Append(p, e)[n] = e
      /\ \A i \in DOMAIN p : Append(p, e)[i] = p[i]
    BY <1>2, SeqAppend
<1>6. \A l \in Conns : \A i \in DOMAIN Pipe'[l] :
          \/ l = k /\ i = n /\ Pipe'[l][i] = e
          \/ i \in DOMAIN Pipe[l] /\ Pipe'[l][i] = Pipe[l][i]
    <2> SUFFICES ASSUME NEW l \in Conns, NEW i \in DOMAIN Pipe'[l]
                 PROVE  \/ l = k /\ i = n /\ Pipe'[l][i] = e
                        \/ i \in DOMAIN Pipe[l] /\ Pipe'[l][i] = Pipe[l][i]
        OBVIOUS
    <2>1. CASE l = k
        BY <1>2, <1>3, <1>5, <2>1
    <2>2. CASE l # k
        BY <1>4, <2>2
    <2> QED BY <2>1, <2>2
<1>7. \A l \in Conns : \A i \in DOMAIN Pipe[l] :
          /\ Pipe[l][i].req \in Reqs /\ Pipe[l][i].req # m
          /\ of[Pipe[l][i].req] = l /\ Pipe[l][i].req \notin Unanswered
          /\ got[Pipe[l][i].req] = <<>> /\ Pipe[l][i].error = Codes[Pipe[l][i].req]
    BY <1>1, PipeType DEF IInv, Replies
<1>8. \A r \in Reqs : r # m => (r \in Unanswered' <=> r \in Unanswered)
    BY <1>0 DEF Unanswered
<1>9. Codes' = Codes
    BY DEF Codes, Code
<1>10. \A l \in Conns : \A i \in DOMAIN Pipe'[l] :
           /\ of'[Pipe'[l][i].req] = l /\ Pipe'[l][i].req \notin Unanswered'
           /\ got'[Pipe'[l][i].req] = <<>>
           /\ Pipe'[l][i].error = Codes'[Pipe'[l][i].req]
    <2> SUFFICES ASSUME NEW l \in Conns, NEW i \in DOMAIN Pipe'[l]
                 PROVE  /\ of'[Pipe'[l][i].req] = l /\ Pipe'[l][i].req \notin Unanswered'
                        /\ got'[Pipe'[l][i].req] = <<>>
                        /\ Pipe'[l][i].error = Codes'[Pipe'[l][i].req]
        OBVIOUS
    <2>1. CASE l = k /\ i = n /\ Pipe'[l][i] = e
        <3>1. got[m] = <<>>
            BY <1>1 DEF IInv, Replies
        <3> QED BY <1>0, <1>1, <1>9, <2>1, <3>1
    <2>2. CASE i \in DOMAIN Pipe[l] /\ Pipe'[l][i] = Pipe[l][i]
        <3>1. PICK x : x = Pipe[l][i]
            OBVIOUS
        <3>2. /\ x.req \in Reqs /\ x.req # m /\ of[x.req] = l /\ x.req \notin Unanswered
              /\ got[x.req] = <<>> /\ x.error = Codes[x.req]
            BY <1>7, <2>2, <3>1
        <3>3. x.req \notin Unanswered' /\ of'[x.req] = l
            BY <1>0, <1>8, <3>2
        <3> QED BY <1>9, <2>2, <3>1, <3>2, <3>3
    <2> QED BY <1>6, <2>1, <2>2
<1>11. \A l \in Conns : \A i \in DOMAIN Pipe'[l], j \in DOMAIN Pipe'[l] :
           Pipe'[l][i].req = Pipe'[l][j].req => i = j
    <2> SUFFICES ASSUME NEW l \in Conns, NEW i \in DOMAIN Pipe'[l], NEW j \in DOMAIN Pipe'[l],
                        Pipe'[l][i].req = Pipe'[l][j].req
                 PROVE  i = j
        OBVIOUS
    <2>1. CASE i \in DOMAIN Pipe[l] /\ Pipe'[l][i] = Pipe[l][i]
        <3>1. CASE j \in DOMAIN Pipe[l] /\ Pipe'[l][j] = Pipe[l][j]
            BY <2>1, <3>1 DEF IInv, Replies
        <3>2. CASE l = k /\ j = n /\ Pipe'[l][j] = e
            BY <1>0, <1>7, <2>1, <3>2
        <3> QED BY <1>6, <3>1, <3>2
    <2>2. CASE l = k /\ i = n /\ Pipe'[l][i] = e
        <3>1. CASE j \in DOMAIN Pipe[l] /\ Pipe'[l][j] = Pipe[l][j]
            BY <1>0, <1>7, <2>2, <3>1
        <3>2. CASE l = k /\ j = n /\ Pipe'[l][j] = e
            BY <2>2, <3>2
        <3> QED BY <1>6, <3>1, <3>2
    <2> QED BY <1>6, <2>1, <2>2
<1>12. \A r \in Unanswered' : got'[r] = <<>>
    <2>1. \A r \in Unanswered' : r \in Reqs /\ r # m
        BY <1>1 DEF Unanswered
    <2> QED BY <1>8, <2>1 DEF IInv, Replies
<1>13. \A r \in Reqs : handler'[r] = "running" => Rpc[r] \in handlers_'
    BY DEF IInv, Replies
<1> QED BY <1>10, <1>11, <1>12, <1>13 DEF Replies

\* Sequences that agree on req and error still do after the same prefix.
LEMMA ConcatAlike ==
    ASSUME NEW c \in Seq(Reply), NEW q \in Seq(Reply), NEW q1 \in Seq(Reply),
           Len(q1) = Len(q),
           \A i \in DOMAIN q : q1[i].req = q[i].req /\ q1[i].error = q[i].error
    PROVE  \A i \in DOMAIN (c \o q1) :
               /\ i \in DOMAIN (c \o q)
               /\ (c \o q1)[i].req = (c \o q)[i].req
               /\ (c \o q1)[i].error = (c \o q)[i].error
<1>1. PICK M \in Nat, L \in Nat : M = Len(c) /\ L = Len(q) /\ L = Len(q1) /\ DOMAIN q = 1 .. L
    BY LenProperties
<1>2. PICK p, p1 : p = c \o q /\ p1 = c \o q1
    OBVIOUS
<1>3. DOMAIN p = 1 .. (M + L) /\ DOMAIN p1 = 1 .. (M + L)
    BY <1>1, <1>2, SeqConcat
<1>4. \A i \in 1 .. (M + L) : p[i] = IF i <= M THEN c[i] ELSE q[i - M]
    BY <1>1, <1>2, SeqConcat
<1>5. \A i \in 1 .. (M + L) : p1[i] = IF i <= M THEN c[i] ELSE q1[i - M]
    BY <1>1, <1>2, SeqConcat
<1>6. ASSUME NEW i \in 1 .. (M + L) PROVE p1[i].req = p[i].req /\ p1[i].error = p[i].error
    <2>1. CASE i <= M
        <3>1. p1[i] = c[i] /\ p[i] = c[i]
            BY <1>4, <1>5, <2>1
        <3> QED BY <3>1
    <2>2. CASE ~(i <= M)
        <3>1. i - M \in 1 .. L
            BY <2>2
        <3>2. p1[i] = q1[i - M] /\ p[i] = q[i - M]
            BY <1>4, <1>5, <2>2
        <3> QED BY <1>1, <3>1, <3>2
    <2> QED BY <2>1, <2>2
<1> QED BY <1>2, <1>3, <1>6

\* end_reply changes nothing of a reply but its size.
LEMMA EndReplyReplies ==
    ASSUME IInv, NEW r \in Reqs, end_reply(r)
    PROVE  Replies'
<1>0. PICK k \in Conns : Filled(k, r)
    BY EndReplyOut
<1>1. /\ k = of[r] /\ out_l_[k] = r /\ handler[r] = "replying"
      /\ out_' \in [Conns -> Seq(Reply)]
      /\ \A l \in Conns : l # k => out_'[l] = out_[l]
      /\ out_'[k] # <<>> /\ Len(out_'[k]) = Len(out_[k])
      /\ DOMAIN out_'[k] = DOMAIN out_[k]
      /\ \A i \in DOMAIN out_[k] :
             /\ out_'[k][i].req = out_[k][i].req
             /\ out_'[k][i].error = out_[k][i].error
             /\ out_'[k][i].sized = TRUE
    BY <1>0 DEF Filled
<1>2. /\ handler' = [handler EXCEPT ![r] = "replied"]
      /\ UNCHANGED <<of, to_client, handlers_, got, status_>>
    BY <1>1 DEF end_reply
<1>3. \A p \in Reqs : handler'[p] = "running" <=> handler[p] = "running"
    BY <1>1, <1>2 DEF IInv, TypeOK
<1>4. PICK c \in Seq(Reply), q \in Seq(Reply), q1 \in Seq(Reply) :
          c = to_client[k] /\ q = out_[k] /\ q1 = out_'[k]
    BY <1>1 DEF IInv, TypeOK
<1>5. /\ Len(q1) = Len(q)
      /\ \A i \in DOMAIN q : q1[i].req = q[i].req /\ q1[i].error = q[i].error
    BY <1>1, <1>4
<1>6. PICK p, p1 : p = c \o q /\ p1 = c \o q1
    OBVIOUS
<1>7. \A i \in DOMAIN p1 : i \in DOMAIN p /\ p1[i].req = p[i].req /\ p1[i].error = p[i].error
    BY <1>5, <1>6, ConcatAlike
<1>8. Pipe[k] = p /\ Pipe'[k] = p1 /\ \A l \in Conns : l # k => Pipe'[l] = Pipe[l]
    BY <1>1, <1>2, <1>4, <1>6 DEF Pipe
<1>9. ASSUME NEW l \in Conns, NEW i \in DOMAIN Pipe'[l]
       PROVE  /\ i \in DOMAIN Pipe[l] /\ Pipe'[l][i].req = Pipe[l][i].req
              /\ Pipe'[l][i].error = Pipe[l][i].error
    <2>1. CASE l = k
        BY <1>7, <1>8, <1>9, <2>1
    <2>2. CASE l # k
        BY <1>8, <1>9, <2>2
    <2> QED BY <2>1, <2>2
<1>10. Unanswered' = Unanswered
    BY <1>2, <1>3 DEF Unanswered
<1>11. Codes' = Codes
    BY <1>2 DEF Codes, Code
<1>12. \A l \in Conns : \A i \in DOMAIN Pipe'[l] :
           /\ of'[Pipe'[l][i].req] = l /\ Pipe'[l][i].req \notin Unanswered'
           /\ got'[Pipe'[l][i].req] = <<>>
           /\ Pipe'[l][i].error = Codes'[Pipe'[l][i].req]
    <2> SUFFICES ASSUME NEW l \in Conns, NEW i \in DOMAIN Pipe'[l]
                 PROVE  /\ of'[Pipe'[l][i].req] = l /\ Pipe'[l][i].req \notin Unanswered'
                        /\ got'[Pipe'[l][i].req] = <<>>
                        /\ Pipe'[l][i].error = Codes'[Pipe'[l][i].req]
        OBVIOUS
    <2>1. PICK x, y : x = Pipe[l][i].req /\ y = Pipe[l][i].error
        OBVIOUS
    <2>2. of[x] = l /\ x \notin Unanswered /\ got[x] = <<>> /\ y = Codes[x]
        BY <1>9, <2>1 DEF IInv, Replies
    <2>3. Pipe'[l][i].req = x /\ Pipe'[l][i].error = y
        BY <1>9, <2>1
    <2> QED BY <1>2, <1>10, <1>11, <2>2, <2>3
<1>13. \A l \in Conns : \A i \in DOMAIN Pipe'[l], j \in DOMAIN Pipe'[l] :
           Pipe'[l][i].req = Pipe'[l][j].req => i = j
    BY <1>9 DEF IInv, Replies
<1> QED BY <1>2, <1>3, <1>10, <1>12, <1>13 DEF IInv, Replies

\* The client receives one reply, the first to its request.
LEMMA ClientReceivesOne ==
    ASSUME IInv, NEW k \in Conns, ClientReceives(k)
    PROVE  Replies' /\ RepliesCorrect' /\ got' \in [Reqs -> Seq(Reply)]
<1>0. PICK e : e = Head(to_client[k])
    OBVIOUS
<1>1. PICK p \in Seq(Reply) : p = Pipe[k] /\ e = Head(to_client[k])
    BY <1>0, PipeType
<1>2. p # <<>> /\ e = p[1] /\ e.sized /\ Pipe' = [Pipe EXCEPT ![k] = Tail(p)]
    BY <1>1, ClientReceivesReplies
<1>3. 1 \in DOMAIN p /\ e \in Reply
    BY <1>1, <1>2, SeqHeadTail
<1>4. /\ \A i \in DOMAIN Tail(p) : /\ i \in Nat /\ i + 1 \in DOMAIN p /\ i + 1 # 1
                                   /\ Tail(p)[i] = p[i + 1]
    BY <1>2, SeqHeadTail
<1>5. /\ got' = [got EXCEPT ![e.req] = Append(got[e.req], e)]
      /\ UNCHANGED <<handlers_, of, handler, status_>>
    BY <1>1 DEF ClientReceives
<1>6. PICK m : m = e.req
    OBVIOUS
<1>7. /\ m \in Reqs /\ of[m] = k /\ m \notin Unanswered /\ got[m] = <<>>
      /\ e.error = Codes[m]
    BY <1>1, <1>2, <1>3, <1>6 DEF IInv, Replies, Reply
<1>8. /\ got'[m] = <<e>> /\ \A r \in Reqs : r # m => got'[r] = got[r]
      /\ got' \in [Reqs -> Seq(Reply)]
    <2>1. Append(<<>>, e) = <<e>> /\ <<e>> \in Seq(Reply)
        BY <1>3
    <2>2. got' = [got EXCEPT ![m] = <<e>>]
        BY <1>5, <1>6, <1>7, <2>1
    <2> QED BY <1>7, <2>1, <2>2 DEF IInv, TypeOK
<1>9. Pipe'[k] = Tail(p) /\ \A l \in Conns : l # k => Pipe'[l] = Pipe[l]
    BY <1>2, PipeType
<1>10. Unanswered' = Unanswered /\ Codes' = Codes
    BY <1>5 DEF Unanswered, Codes, Code
<1>11. ASSUME NEW l \in Conns, NEW i \in DOMAIN Pipe'[l]
       PROVE  \E j \in DOMAIN Pipe[l] : /\ Pipe'[l][i] = Pipe[l][j] /\ Pipe[l][j].req # m
                                        /\ Pipe[l][j].req \in Reqs
    <2>1. CASE l = k
        <3>1. /\ i + 1 \in DOMAIN p /\ i + 1 # 1 /\ Pipe'[l][i] = p[i + 1]
            BY <1>4, <1>9, <1>11, <2>1
        <3>2. p[i + 1].req # p[1].req
            BY <1>1, <1>3, <3>1 DEF IInv, Replies
        <3> QED BY <1>1, <1>2, <1>6, <2>1, <3>1, <3>2, PipeType
    <2>2. CASE l # k
        <3>1. i \in DOMAIN Pipe[l] /\ Pipe'[l][i] = Pipe[l][i]
            BY <1>9, <1>11, <2>2
        <3>2. of[Pipe[l][i].req] = l
            BY <3>1 DEF IInv, Replies
        <3> QED BY <1>7, <2>2, <3>1, <3>2, PipeType
    <2> QED BY <2>1, <2>2
<1>12. \A l \in Conns : \A i \in DOMAIN Pipe'[l] :
           /\ of'[Pipe'[l][i].req] = l /\ Pipe'[l][i].req \notin Unanswered'
           /\ got'[Pipe'[l][i].req] = <<>>
           /\ Pipe'[l][i].error = Codes'[Pipe'[l][i].req]
    <2> SUFFICES ASSUME NEW l \in Conns, NEW i \in DOMAIN Pipe'[l]
                 PROVE  /\ of'[Pipe'[l][i].req] = l /\ Pipe'[l][i].req \notin Unanswered'
                        /\ got'[Pipe'[l][i].req] = <<>>
                        /\ Pipe'[l][i].error = Codes'[Pipe'[l][i].req]
        OBVIOUS
    <2>1. PICK j \in DOMAIN Pipe[l] : /\ Pipe'[l][i] = Pipe[l][j] /\ Pipe[l][j].req # m
                                      /\ Pipe[l][j].req \in Reqs
        BY <1>11
    <2>2. PICK x, y : x = Pipe[l][j].req /\ y = Pipe[l][j].error
        OBVIOUS
    <2>3. of[x] = l /\ x \notin Unanswered /\ got[x] = <<>> /\ y = Codes[x]
        BY <2>1, <2>2 DEF IInv, Replies
    <2>4. Pipe'[l][i].req = x /\ Pipe'[l][i].error = y /\ x # m /\ x \in Reqs
        BY <2>1, <2>2
    <2> QED BY <1>5, <1>8, <1>10, <2>3, <2>4
<1>13. \A l \in Conns : \A i \in DOMAIN Pipe'[l], j \in DOMAIN Pipe'[l] :
           Pipe'[l][i].req = Pipe'[l][j].req => i = j
    <2> SUFFICES ASSUME NEW l \in Conns, NEW i \in DOMAIN Pipe'[l], NEW j \in DOMAIN Pipe'[l],
                        Pipe'[l][i].req = Pipe'[l][j].req
                 PROVE  i = j
        OBVIOUS
    <2>1. CASE l = k
        <3>1. /\ i \in Nat /\ i + 1 \in DOMAIN p /\ Pipe'[l][i] = p[i + 1]
              /\ j \in Nat /\ j + 1 \in DOMAIN p /\ Pipe'[l][j] = p[j + 1]
            BY <1>4, <1>9, <2>1
        <3>2. p[i + 1].req = p[j + 1].req
            BY <3>1
        <3>3. i + 1 = j + 1
            BY <1>1, <3>1, <3>2 DEF IInv, Replies
        <3> QED BY <3>1, <3>3
    <2>2. CASE l # k
        <3>1. Pipe'[l] = Pipe[l]
            BY <1>9, <2>2
        <3> QED BY <3>1 DEF IInv, Replies
    <2> QED BY <2>1, <2>2
<1>14. Replies'
    <2>1. \A r \in Unanswered' : got'[r] = <<>>
        <3>1. \A r \in Unanswered : r \in Reqs /\ r # m
            BY <1>7 DEF Unanswered
        <3> QED BY <1>8, <1>10, <3>1 DEF IInv, Replies
    <2> QED BY <1>5, <1>12, <1>13, <2>1 DEF IInv, Replies
<1>15. RepliesCorrect'
    <2> SUFFICES ASSUME NEW r \in Reqs
                 PROVE  /\ Len(got'[r]) <= 1
                        /\ \A n \in DOMAIN got'[r] :
                              got'[r][n].sized /\ got'[r][n].error = Codes[r]
        BY <1>10 DEF RepliesCorrect, Codes, Code
    <2>2. CASE r = m
        <3>1. Len(<<e>>) = 1 /\ DOMAIN <<e>> = {1} /\ <<e>>[1] = e
            OBVIOUS
        <3>2. got'[r] = <<e>> /\ e.error = Codes[r]
            BY <1>7, <1>8, <2>2
        <3>3. PICK g : g = <<e>>
            OBVIOUS
        <3>4. Len(g) = 1 /\ \A n \in DOMAIN g : g[n] = e
            BY <3>1, <3>3
        <3> QED BY <1>2, <3>2, <3>3, <3>4
    <2>3. CASE r # m
        <3>1. got'[r] = got[r]
            BY <1>8, <2>3
        <3>2. /\ Len(got[r]) <= 1
              /\ \A n \in DOMAIN got[r] : got[r][n].sized /\ got[r][n].error = Codes[r]
            BY DEF IInv, RepliesCorrect, Codes, Code
        <3> QED BY <3>1, <3>2
    <2> QED BY <2>2, <2>3
<1> QED BY <1>8, <1>14, <1>15

\* Every step keeps one right reply per request on its way.
LEMMA NextReplies == IInv /\ [Next]_vars => Replies'
<1> SUFFICES ASSUME IInv, [Next]_vars PROVE Replies'
    OBVIOUS
<1> USE DEF IInv
<1>1. CASE UNCHANGED <<handler, handlers_, status_, of, out_, to_client, got>>
    <2>1. Pipe' = Pipe
        BY <1>1 DEF Pipe
    <2> QED BY <1>1, <2>1, RepliesFrame
<1>2. CASE Select \/ Accept \/ AcceptLate \/ JoinLoop \/ CopySconns \/ CloseNext \/
          AllClosed \/ EpollWait \/ NextEvent \/ HandleRead \/ ReadFd \/
          FastReturned \/ AllDispatched \/ HandleWrite \/ HandleError \/ Drain \/
          Terminated
    BY <1>1, <1>2, DrainEffect DEF Select, Accept, AcceptLate, JoinLoop, CopySconns,
       CloseNext, AllClosed,
       EpollWait, NextEvent, HandleRead, ReadFd, FastReturned, AllDispatched,
       HandleWrite, HandleError, Terminated
<1>3. ASSUME NEW t \in Closers,
             CloseTest(t) \/ CloseErase(t) \/ SetClosed(t) \/ CloseFd(t) \/
          CloseRelease(t) PROVE Replies'
    BY <1>1, <1>3 DEF CloseTest, CloseErase, SetClosed, CloseFd, CloseRelease
<1>4. ASSUME NEW k \in Conns,
             ClientConnects(k) \/ ClientCloses(k) PROVE Replies'
    BY <1>1, <1>4 DEF ClientConnects, ClientCloses
<1>5. ASSUME NEW k \in Conns, NEW r \in Reqs,
             ClientSends(k, r) PROVE Replies'
    BY <1>1, <1>5 DEF ClientSends
<1>6. ASSUME NEW i \in Ids, reg(i) PROVE Replies'
    <2>1. UNCHANGED <<handler, of, got, out_, to_client, status_>> /\ status_ = "NEW"
        BY <1>6 DEF reg
    <2>2. Pipe' = Pipe
        BY <2>1 DEF Pipe
    <2> QED BY <2>1, <2>2, NothingBeforeStart DEF IInv, Replies, Unanswered
<1>7. ASSUME NEW i \in Ids, unreg(i) PROVE Replies'
    <2>1. UNCHANGED <<handler, of, got, out_, to_client, status_>> /\ status_ = "NEW"
        BY <1>7 DEF unreg
    <2>2. Pipe' = Pipe
        BY <2>1 DEF Pipe
    <2> QED BY <2>1, <2>2, NothingBeforeStart DEF IInv, Replies, Unanswered
<1>8. CASE start
    <2>1. /\ UNCHANGED <<handlers_, of, got, out_, to_client>>
          /\ status_' = "NEW" => status_ = "NEW"
          /\ \A q \in Reqs : handler'[q] = "running" <=> handler[q] = "running"
        BY <1>8 DEF start, TypeOK
    <2>2. Pipe' = Pipe
        BY <2>1 DEF Pipe
    <2> QED BY <2>1, <2>2, RepliesFrame
<1>9. CASE LoopExits
    <2>1. /\ UNCHANGED <<handlers_, of, got, out_, to_client>>
          /\ status_' = "NEW" => status_ = "NEW"
          /\ \A q \in Reqs : handler'[q] = "running" <=> handler[q] = "running"
        BY <1>9 DEF LoopExits, TypeOK
    <2>2. Pipe' = Pipe
        BY <2>1 DEF Pipe
    <2> QED BY <2>1, <2>2, RepliesFrame
<1>10. CASE Destroy
    <2>1. /\ UNCHANGED <<handlers_, of, got, out_, to_client>>
          /\ status_' = "NEW" => status_ = "NEW"
          /\ \A q \in Reqs : handler'[q] = "running" <=> handler[q] = "running"
        BY <1>10 DEF Destroy, TypeOK
    <2>2. Pipe' = Pipe
        BY <2>1 DEF Pipe
    <2> QED BY <2>1, <2>2, RepliesFrame
<1>11. ASSUME NEW r \in Reqs, begin_reply(r) PROVE Replies'
    <2>0. PICK k, e : k = of[r] /\ e = [req |-> r, error |-> "0", sized |-> FALSE]
        OBVIOUS
    <2>1. /\ handler[r] = "running" /\ handler' = [handler EXCEPT ![r] = "replying"]
          /\ out_' = [out_ EXCEPT ![k] = Append(out_[k], e)]
          /\ UNCHANGED <<to_client, handlers_, got, of, status_>>
        BY <1>11, <2>0 DEF begin_reply
    <2>2. k \in Conns /\ e \in Reply /\ e.req = r /\ e.error = "0"
        BY <2>0, <2>1 DEF Requests, Reply
    <2>3. Codes[r] = "0"
        <3>1. Rpc[r] \in handlers_ /\ handlers_ \subseteq Ids
            BY <2>1 DEF Replies, TypeOK
        <3> QED BY <3>1 DEF Codes, Code, Ids
    <2>4. handler'[r] = "replying" /\ \A q \in Reqs : q # r => handler'[q] = handler[q]
        BY <2>1 DEF TypeOK
    <2>5. r \in Unanswered /\ r \notin Unanswered'
        BY <2>0, <2>1, <2>2, <2>4 DEF Unanswered
    <2>6. status_ # "NEW"
        BY <2>0, <2>2, NothingBeforeStart
    <2> HIDE DEF IInv
    <2> QED BY <2>0, <2>1, <2>2, <2>3, <2>4, <2>5, <2>6, RepliesAppend
<1>12. ASSUME NEW r \in Reqs, end_reply(r) PROVE Replies'
    BY <1>12, EndReplyReplies
<1>13. ASSUME NEW r \in Reqs, HandlerReturns(r) PROVE Replies'
    <2>1. /\ UNCHANGED <<handlers_, of, got, out_, to_client>>
          /\ status_' = "NEW" => status_ = "NEW"
          /\ \A q \in Reqs : handler'[q] = "running" <=> handler[q] = "running"
        BY <1>13 DEF HandlerReturns, TypeOK
    <2>2. Pipe' = Pipe
        BY <2>1 DEF Pipe
    <2> QED BY <2>1, <2>2, RepliesFrame
<1>14. CASE DispatchInvalid \/ DispatchMissing
    <2>0. PICK k, h : k = tgt[Poll] /\ h = Head(complete_requests)
        OBVIOUS
    <2>1. /\ pc[Poll] = "dispatch" /\ complete_requests # <<>>
          /\ of' = [of EXCEPT ![h] = k]
          /\ UNCHANGED <<handler, to_client, handlers_, got, status_>>
        BY <1>14, <2>0, ErrorRepliesEffect
    <2>2. k \in Conns /\ status_ # "NEW"
        BY <2>0, <2>1, ServingStarted
    <2>3. h \in Reqs /\ of[h] = Nothing /\ handler[h] = "none"
        <3>1. complete_requests \in Seq(Reqs)
            BY DEF TypeOK
        <3>2. h = complete_requests[1] /\ h \in Reqs /\ 1 \in DOMAIN complete_requests
            BY <2>0, <2>1, <3>1, SeqHeadTail
        <3>3. of[h] = Nothing
            BY <2>1, <3>2 DEF Requests
        <3> QED BY <3>2, <3>3 DEF Requests
    <2>4. PICK e \in Reply : /\ e.req = h /\ e.error = Codes[h]
                             /\ out_' = [out_ EXCEPT ![k] = Append(out_[k], e)]
        <3>1. [req |-> h, error |-> Code(h), sized |-> TRUE] \in Reply
            BY <2>3 DEF Reply, Code
        <3>2. out_' = [out_ EXCEPT ![k] =
                          Append(out_[k], [req |-> h, error |-> Code(h), sized |-> TRUE])]
            BY <1>14, <2>0, ErrorRepliesEffect
        <3>3. Codes[h] = Code(h)
            BY <2>3 DEF Codes
        <3> QED BY <3>1, <3>2, <3>3
    <2>5. of'[h] = k /\ \A q \in Reqs : q # h => of'[q] = of[q]
        BY <2>1, <2>3 DEF TypeOK
    <2>6. h \in Unanswered /\ h \notin Unanswered'
        BY <2>1, <2>2, <2>3, <2>5 DEF Unanswered
    <2> HIDE DEF IInv
    <2> QED BY <2>1, <2>2, <2>3, <2>4, <2>5, <2>6, RepliesAppend
<1>15. CASE Dispatch
    <2>0. PICK k, h : k = tgt[Poll] /\ h = Head(complete_requests)
        OBVIOUS
    <2>1. /\ pc[Poll] = "dispatch" /\ complete_requests # <<>> /\ Rpc[h] \in handlers_
          /\ of' = [of EXCEPT ![h] = k] /\ handler' = [handler EXCEPT ![h] = "running"]
          /\ UNCHANGED <<out_, to_client, handlers_, got, status_>>
        BY <1>15, <2>0 DEF Dispatch
    <2>2. k \in Conns /\ status_ # "NEW"
        BY <2>0, <2>1, ServingStarted
    <2>3. h \in Reqs /\ of[h] = Nothing
        <3>1. complete_requests \in Seq(Reqs)
            BY DEF TypeOK
        <3>2. h = complete_requests[1] /\ h \in Reqs /\ 1 \in DOMAIN complete_requests
            BY <2>0, <2>1, <3>1, SeqHeadTail
        <3> QED BY <2>1, <3>2 DEF Requests
    <2>4. /\ handler'[h] = "running"
          /\ \A q \in Reqs : q # h => of'[q] = of[q] /\ handler'[q] = handler[q]
        BY <2>1, <2>3 DEF TypeOK
    <2>5. Unanswered' = Unanswered /\ h \in Unanswered
        BY <2>3, <2>4 DEF Unanswered
    <2>6. Pipe' = Pipe /\ Codes' = Codes
        BY <2>1 DEF Pipe, Codes, Code
    <2>7. \A l \in Conns : \A i \in DOMAIN Pipe[l] :
              Pipe[l][i].req \in Reqs /\ Pipe[l][i].req # h
        BY <2>5, PipeType DEF Replies
    <2>8. \A q \in Reqs : handler'[q] = "running" => Rpc[q] \in handlers_'
        BY <2>1, <2>4 DEF Replies
    <2>9. \A l \in Conns : \A i \in DOMAIN Pipe[l] : of'[Pipe[l][i].req] = l
        BY <2>4, <2>7 DEF Replies
    <2> QED BY <2>1, <2>2, <2>5, <2>6, <2>8, <2>9 DEF Replies
<1>16. CASE WriteFd
    <2>1. UNCHANGED <<handlers_, of, got, status_, handler>>
        BY <1>16, WriteFdEffect
    <2> QED BY <1>16, <2>1, WriteFdReplies, RepliesFrame
<1>17. ASSUME NEW k \in Conns, ClientReceives(k) PROVE Replies'
    BY <1>17, ClientReceivesOne
<1> QED
    BY <1>1, <1>2, <1>3, <1>4, <1>5, <1>6, <1>7, <1>8, <1>9, <1>10, <1>11, <1>12, <1>13,
       <1>14, <1>15, <1>16, <1>17
    DEF Next, LoopThread, Dtor, PollLoop, Close, Handler

\* Every step keeps what the clients have received right.
LEMMA NextRepliesCorrect == IInv /\ [Next]_vars => RepliesCorrect'
<1> SUFFICES ASSUME IInv, [Next]_vars PROVE RepliesCorrect'
    OBVIOUS
<1> USE DEF IInv
<1>1. CASE UNCHANGED <<got, handlers_>>
    BY <1>1 DEF RepliesCorrect
<1>2. CASE start \/ Select \/ Accept \/ AcceptLate \/ LoopExits \/ Destroy \/
          JoinLoop \/ CopySconns \/ CloseNext \/ AllClosed \/ EpollWait \/
          NextEvent \/ HandleRead \/ ReadFd \/ DispatchInvalid \/ DispatchMissing \/
          Dispatch \/ FastReturned \/ AllDispatched \/ HandleWrite \/ WriteFd \/
          HandleError \/ Drain \/ Terminated
    BY <1>1, <1>2, ErrorRepliesEffect, WriteFdEffect, DrainEffect DEF start, Select,
       Accept, AcceptLate, LoopExits, Destroy, JoinLoop, CopySconns,
       CloseNext, AllClosed, EpollWait, NextEvent, HandleRead, ReadFd, Dispatch,
       FastReturned, AllDispatched, HandleWrite, HandleError, Terminated
<1>3. ASSUME NEW t \in Closers,
             CloseTest(t) \/ CloseErase(t) \/ SetClosed(t) \/ CloseFd(t) \/
          CloseRelease(t) PROVE RepliesCorrect'
    BY <1>1, <1>3 DEF CloseTest, CloseErase, SetClosed, CloseFd, CloseRelease
<1>4. ASSUME NEW r \in Reqs,
             begin_reply(r) \/ end_reply(r) \/ HandlerReturns(r) PROVE RepliesCorrect'
    BY <1>1, <1>4 DEF begin_reply, end_reply, HandlerReturns
<1>5. ASSUME NEW k \in Conns,
             ClientConnects(k) \/ ClientCloses(k) PROVE RepliesCorrect'
    BY <1>1, <1>5 DEF ClientConnects, ClientCloses
<1>6. ASSUME NEW k \in Conns, NEW r \in Reqs,
             ClientSends(k, r) PROVE RepliesCorrect'
    BY <1>1, <1>6 DEF ClientSends
<1>7. ASSUME NEW i \in Ids, reg(i) PROVE RepliesCorrect'
    <2>1. UNCHANGED got /\ status_ = "NEW"
        BY <1>7 DEF reg
    <2>2. \A r \in Reqs : got'[r] = <<>>
        BY <2>1, NothingBeforeStart
    <2> QED BY <2>2 DEF RepliesCorrect
<1>8. ASSUME NEW i \in Ids, unreg(i) PROVE RepliesCorrect'
    <2>1. UNCHANGED got /\ status_ = "NEW"
        BY <1>8 DEF unreg
    <2>2. \A r \in Reqs : got'[r] = <<>>
        BY <2>1, NothingBeforeStart
    <2> QED BY <2>2 DEF RepliesCorrect
<1>9. ASSUME NEW k \in Conns, ClientReceives(k) PROVE RepliesCorrect'
    BY <1>9, ClientReceivesOne
<1> QED
    BY <1>1, <1>2, <1>3, <1>4, <1>5, <1>6, <1>7, <1>8, <1>9
    DEF Next, LoopThread, Dtor, PollLoop, Close, Handler

-----------------------------------------------------------------------------
(* Types, and the invariant                                                *)

\* sconns_ctr_ never goes below 0.
LEMMA CounterType ==
    ASSUME IInv, [Next]_vars PROVE sconns_ctr_' \in Nat
<1>1. sconns_ctr_' = Cardinality(Alive')
    BY NextCounted DEF Counted
<1>2. Alive' \subseteq Conns
    BY DEF Alive
<1> QED BY <1>1, <1>2, FS_Subset, FS_CardinalityType

\* Every step keeps the types.
LEMMA NextType == IInv /\ [Next]_vars => TypeOK'
<1> SUFFICES ASSUME IInv, [Next]_vars PROVE TypeOK'
    OBVIOUS
<1> USE DEF IInv
<1>1. CASE UNCHANGED <<handlers_, server_sock_, status_, sconns_, sconns_ctr_, status,
                    sock_, ref, out_l_, out_, registered, pending_remove_, mode_,
                    to_server, to_client, rdy, peer, loop, pc, tgt, should_release,
                    ev, complete_requests, remove_poll, todo, handler, of, closes,
                    freed_access, got>>
    BY <1>1 DEF TypeOK
<1>2. CASE Terminated
    BY <1>1, <1>2 DEF Terminated
<1>3. ASSUME NEW i \in Ids, reg(i) PROVE TypeOK'
    <2>1. UNCHANGED <<server_sock_, status_, sconns_, sconns_ctr_, status, sock_, ref,
                      out_l_, out_, registered, pending_remove_, mode_, to_server,
                      to_client, rdy, peer, loop, pc, tgt, should_release, ev,
                      complete_requests, remove_poll, todo, handler, of, closes,
                      freed_access, got>>
        BY <1>3 DEF reg
    <2>2. handlers_' \subseteq Ids
        BY <1>3 DEF reg, TypeOK
    <2> QED BY <2>1, <2>2 DEF TypeOK
<1>4. ASSUME NEW i \in Ids, unreg(i) PROVE TypeOK'
    <2>1. UNCHANGED <<server_sock_, status_, sconns_, sconns_ctr_, status, sock_, ref,
                      out_l_, out_, registered, pending_remove_, mode_, to_server,
                      to_client, rdy, peer, loop, pc, tgt, should_release, ev,
                      complete_requests, remove_poll, todo, handler, of, closes,
                      freed_access, got>>
        BY <1>4 DEF unreg
    <2>2. handlers_' \subseteq Ids
        BY <1>4 DEF unreg, TypeOK
    <2> QED BY <2>1, <2>2 DEF TypeOK
<1>5. CASE start
    <2>1. UNCHANGED <<handlers_, sconns_, sconns_ctr_, status, sock_, ref, out_l_,
                      out_, registered, pending_remove_, mode_, to_server, to_client,
                      rdy, peer, pc, tgt, should_release, ev, complete_requests,
                      remove_poll, todo, handler, of, closes, freed_access, got>>
        BY <1>5 DEF start
    <2>2. server_sock_' \in {"-1", "listening"}
        BY <1>5 DEF start, TypeOK
    <2>3. status_' \in {"NEW", "RUNNING", "STOPPING", "STOPPED"}
        BY <1>5 DEF start, TypeOK
    <2>4. loop' \in {"none", "select", "accept", "exit", "done"}
        BY <1>5 DEF start, TypeOK
    <2> QED BY <2>1, <2>2, <2>3, <2>4 DEF TypeOK
<1>6. CASE Select
    <2>1. UNCHANGED <<handlers_, server_sock_, status_, sconns_, sconns_ctr_, status,
                      sock_, ref, out_l_, out_, registered, pending_remove_, mode_,
                      to_server, to_client, rdy, peer, pc, tgt, should_release, ev,
                      complete_requests, remove_poll, todo, handler, of, closes,
                      freed_access, got>>
        BY <1>6 DEF Select
    <2>2. loop' \in {"none", "select", "accept", "exit", "done"}
        BY <1>6 DEF Select, TypeOK
    <2> QED BY <2>1, <2>2 DEF TypeOK
<1>7. CASE Accept
    <2>1. UNCHANGED <<handlers_, server_sock_, status_, out_l_, out_, pending_remove_,
                      mode_, to_server, to_client, peer, pc, tgt, should_release, ev,
                      complete_requests, remove_poll, todo, handler, of, closes,
                      freed_access, got>>
        BY <1>7 DEF Accept
    <2>2. sconns_' \subseteq Conns
        BY <1>7 DEF Accept, Backlog, TypeOK
    <2>3. sconns_ctr_' \in Nat
        BY CounterType
    <2>4. status' \in [Conns -> {"none", "CONNECTED", "CLOSED"}]
        BY <1>7 DEF Accept, Backlog, Control, TypeOK
    <2>5. sock_' \in [Conns -> {"none", "open", "closed", "leaked"}]
        BY <1>7 DEF Accept, Backlog, Control, TypeOK
    <2>6. ref' \in [Conns -> Nat]
        BY <1>7, AcceptRefs
    <2>7. registered' \subseteq Conns
        BY <1>7 DEF Accept, Backlog, TypeOK
    <2>8. rdy' \subseteq Conns
        <3>1. \E k \in Backlog : rdy' \subseteq rdy \cup {k}
            BY <1>7 DEF Accept
        <3> QED BY <3>1 DEF TypeOK, Backlog
    <2>9. loop' \in {"none", "select", "accept", "exit", "done"}
        BY <1>7 DEF Accept, TypeOK
    <2> QED BY <2>1, <2>2, <2>3, <2>4, <2>5, <2>6, <2>7, <2>8, <2>9 DEF TypeOK
<1>8. CASE AcceptLate
    <2>1. UNCHANGED <<handlers_, server_sock_, status_, sconns_, sconns_ctr_, status,
                      ref, out_l_, out_, registered, pending_remove_, mode_,
                      to_server, to_client, rdy, peer, pc, tgt, should_release, ev,
                      complete_requests, remove_poll, todo, handler, of, closes,
                      freed_access, got>>
        BY <1>8 DEF AcceptLate
    <2>2. sock_' \in [Conns -> {"none", "open", "closed", "leaked"}]
        <3>1. UNCHANGED sock_ \/ \E k \in Backlog : sock_' = [sock_ EXCEPT ![k] = "leaked"]
            BY <1>8 DEF AcceptLate
        <3> QED BY <3>1 DEF TypeOK
    <2>3. loop' \in {"none", "select", "accept", "exit", "done"}
        BY <1>8 DEF AcceptLate, TypeOK
    <2> QED BY <2>1, <2>2, <2>3 DEF TypeOK
<1>9. CASE LoopExits
    <2>1. UNCHANGED <<handlers_, sconns_, sconns_ctr_, status, sock_, ref, out_l_,
                      out_, registered, pending_remove_, mode_, to_server, to_client,
                      rdy, peer, pc, tgt, should_release, ev, complete_requests,
                      remove_poll, todo, handler, of, closes, freed_access, got>>
        BY <1>9 DEF LoopExits
    <2>2. server_sock_' \in {"-1", "listening"}
        BY <1>9 DEF LoopExits, TypeOK
    <2>3. status_' \in {"NEW", "RUNNING", "STOPPING", "STOPPED"}
        BY <1>9 DEF LoopExits, TypeOK
    <2>4. loop' \in {"none", "select", "accept", "exit", "done"}
        BY <1>9 DEF LoopExits, TypeOK
    <2> QED BY <2>1, <2>2, <2>3, <2>4 DEF TypeOK
<1>10. ASSUME NEW t \in Closers, CloseTest(t) PROVE TypeOK'
    <2>1. UNCHANGED <<handlers_, server_sock_, status_, sconns_, sconns_ctr_, status,
                      sock_, ref, out_l_, out_, registered, pending_remove_, mode_,
                      to_server, to_client, rdy, peer, loop, ev, complete_requests,
                      remove_poll, todo, handler, of, closes, got>>
        BY <1>10 DEF CloseTest
    <2>2. pc' \in [Closers -> Labels]
        BY <1>10 DEF CloseTest, Labels, Returned, TypeOK
    <2>3. tgt' \in [Closers -> Conns \cup {Nothing}]
        BY <1>10 DEF CloseTest, Returned, Control, TypeOK
    <2>4. should_release' \subseteq Closers
        BY <1>10 DEF CloseTest, Returned, TypeOK
    <2>5. freed_access' \subseteq Closers \cup Reqs
        BY <1>10 DEF CloseTest, Touch, Control, TypeOK
    <2> QED BY <2>1, <2>2, <2>3, <2>4, <2>5 DEF TypeOK
<1>11. ASSUME NEW t \in Closers, CloseErase(t) PROVE TypeOK'
    <2>1. UNCHANGED <<handlers_, server_sock_, status_, sconns_ctr_, status, sock_,
                      ref, out_l_, out_, mode_, to_server, to_client, rdy, peer, loop,
                      ev, complete_requests, remove_poll, todo, handler, of, closes,
                      got>>
        BY <1>11 DEF CloseErase
    <2>2. sconns_' \subseteq Conns
        BY <1>11 DEF CloseErase, TypeOK
    <2>3. registered' \subseteq Conns
        BY <1>11 DEF CloseErase, TypeOK
    <2>4. pending_remove_' \subseteq Conns
        BY <1>11 DEF CloseErase, TypeOK
    <2>5. pc' \in [Closers -> Labels]
        BY <1>11 DEF CloseErase, Labels, Returned, TypeOK
    <2>6. tgt' \in [Closers -> Conns \cup {Nothing}]
        BY <1>11 DEF CloseErase, Returned, Control, TypeOK
    <2>7. should_release' \subseteq Closers
        BY <1>11 DEF CloseErase, Returned, TypeOK
    <2>8. freed_access' \subseteq Closers \cup Reqs
        BY <1>11 DEF CloseErase, Touch, Control, TypeOK
    <2> QED BY <2>1, <2>2, <2>3, <2>4, <2>5, <2>6, <2>7, <2>8 DEF TypeOK
<1>12. ASSUME NEW t \in Closers, SetClosed(t) PROVE TypeOK'
    <2>1. UNCHANGED <<handlers_, server_sock_, status_, sconns_, sconns_ctr_, sock_,
                      ref, out_l_, out_, registered, pending_remove_, mode_,
                      to_server, to_client, rdy, peer, loop, tgt, should_release, ev,
                      complete_requests, remove_poll, todo, handler, of, closes, got>>
        BY <1>12 DEF SetClosed
    <2>2. status' \in [Conns -> {"none", "CONNECTED", "CLOSED"}]
        BY <1>12 DEF SetClosed, Control, TypeOK
    <2>3. pc' \in [Closers -> Labels]
        BY <1>12 DEF SetClosed, Labels, TypeOK
    <2>4. freed_access' \subseteq Closers \cup Reqs
        BY <1>12 DEF SetClosed, Touch, Control, TypeOK
    <2> QED BY <2>1, <2>2, <2>3, <2>4 DEF TypeOK
<1>13. ASSUME NEW t \in Closers, CloseFd(t) PROVE TypeOK'
    <2>1. UNCHANGED <<handlers_, server_sock_, status_, sconns_, sconns_ctr_, status,
                      ref, out_l_, out_, registered, pending_remove_, mode_,
                      to_server, to_client, peer, loop, tgt, should_release, ev,
                      complete_requests, remove_poll, todo, handler, of, got>>
        BY <1>13 DEF CloseFd
    <2>2. sock_' \in [Conns -> {"none", "open", "closed", "leaked"}]
        BY <1>13 DEF CloseFd, Control, TypeOK
    <2>3. rdy' \subseteq Conns
        BY <1>13 DEF CloseFd, TypeOK
    <2>4. pc' \in [Closers -> Labels]
        BY <1>13 DEF CloseFd, Labels, TypeOK
    <2>5. closes' \in [Conns -> Nat]
        BY <1>13 DEF CloseFd, Control, TypeOK
    <2>6. freed_access' \subseteq Closers \cup Reqs
        BY <1>13 DEF CloseFd, Touch, Control, TypeOK
    <2> QED BY <2>1, <2>2, <2>3, <2>4, <2>5, <2>6 DEF TypeOK
<1>14. ASSUME NEW t \in Closers, CloseRelease(t) PROVE TypeOK'
    <2>1. UNCHANGED <<handlers_, server_sock_, status_, sconns_, status, sock_,
                      out_l_, out_, registered, pending_remove_, mode_, to_server,
                      to_client, rdy, peer, loop, ev, complete_requests, remove_poll,
                      todo, handler, of, closes, got>>
        BY <1>14 DEF CloseRelease
    <2>2. sconns_ctr_' \in Nat
        BY CounterType
    <2>3. ref' \in [Conns -> Nat]
        BY <1>14, CloseReleaseRefs
    <2>4. pc' \in [Closers -> Labels]
        BY <1>14 DEF CloseRelease, Labels, Returned, TypeOK
    <2>5. tgt' \in [Closers -> Conns \cup {Nothing}]
        BY <1>14 DEF CloseRelease, Returned, Control, TypeOK
    <2>6. should_release' \subseteq Closers
        BY <1>14 DEF CloseRelease, Returned, TypeOK
    <2>7. freed_access' \subseteq Closers \cup Reqs
        BY <1>14, CloseReleaseRefs DEF TypeOK
    <2> QED BY <2>1, <2>2, <2>3, <2>4, <2>5, <2>6, <2>7 DEF TypeOK
<1>15. CASE Destroy
    <2>1. UNCHANGED <<handlers_, server_sock_, sconns_, sconns_ctr_, status, sock_,
                      ref, out_l_, out_, registered, pending_remove_, mode_,
                      to_server, to_client, rdy, peer, loop, tgt, should_release, ev,
                      complete_requests, remove_poll, todo, handler, of, closes,
                      freed_access, got>>
        BY <1>15 DEF Destroy
    <2>2. status_' \in {"NEW", "RUNNING", "STOPPING", "STOPPED"}
        BY <1>15 DEF Destroy, TypeOK
    <2>3. pc' \in [Closers -> Labels]
        BY <1>15 DEF Destroy, Labels, TypeOK
    <2> QED BY <2>1, <2>2, <2>3 DEF TypeOK
<1>16. CASE JoinLoop
    <2>1. UNCHANGED <<handlers_, server_sock_, status_, sconns_, sconns_ctr_, status,
                      sock_, ref, out_l_, out_, registered, pending_remove_, mode_,
                      to_server, to_client, rdy, peer, loop, tgt, should_release, ev,
                      complete_requests, remove_poll, todo, handler, of, closes,
                      freed_access, got>>
        BY <1>16 DEF JoinLoop
    <2>2. pc' \in [Closers -> Labels]
        BY <1>16 DEF JoinLoop, Labels, TypeOK
    <2> QED BY <2>1, <2>2 DEF TypeOK
<1>17. CASE CopySconns
    <2>1. UNCHANGED <<handlers_, server_sock_, status_, sconns_, sconns_ctr_, status,
                      sock_, ref, out_l_, out_, registered, pending_remove_, mode_,
                      to_server, to_client, rdy, peer, loop, tgt, should_release, ev,
                      complete_requests, remove_poll, handler, of, closes,
                      freed_access, got>>
        BY <1>17 DEF CopySconns
    <2>2. pc' \in [Closers -> Labels]
        BY <1>17 DEF CopySconns, Labels, TypeOK
    <2>3. todo' \subseteq Conns
        BY <1>17 DEF CopySconns, TypeOK
    <2> QED BY <2>1, <2>2, <2>3 DEF TypeOK
<1>18. CASE CloseNext
    <2>1. UNCHANGED <<handlers_, server_sock_, status_, sconns_, sconns_ctr_, status,
                      sock_, ref, out_l_, out_, registered, pending_remove_, mode_,
                      to_server, to_client, rdy, peer, loop, should_release, ev,
                      complete_requests, remove_poll, handler, of, closes,
                      freed_access, got>>
        BY <1>18 DEF CloseNext
    <2>2. pc' \in [Closers -> Labels]
        <3>1. PICK l \in {"waiting", "close"} : pc' = [pc EXCEPT ![Owner] = l]
            BY <1>18 DEF CloseNext
        <3> QED BY <3>1 DEF TypeOK, Labels
    <2>3. tgt' \in [Closers -> Conns \cup {Nothing}]
        <3>1. UNCHANGED tgt \/ \E k \in todo : tgt' = [tgt EXCEPT ![Owner] = k]
            BY <1>18 DEF CloseNext
        <3>2. ASSUME NEW k \in todo, tgt' = [tgt EXCEPT ![Owner] = k]
              PROVE  tgt' \in [Closers -> Conns \cup {Nothing}]
            <4>1. k \in Conns \cup {Nothing}
                BY DEF TypeOK
            <4> QED BY <3>2, <4>1 DEF TypeOK
        <3> QED BY <3>1, <3>2 DEF TypeOK
    <2>4. todo' \subseteq Conns
        BY <1>18 DEF CloseNext, TypeOK
    <2> QED BY <2>1, <2>2, <2>3, <2>4 DEF TypeOK
<1>19. CASE AllClosed
    <2>1. UNCHANGED <<handlers_, server_sock_, status_, sconns_, sconns_ctr_, status,
                      sock_, ref, out_l_, out_, registered, pending_remove_, mode_,
                      to_server, to_client, rdy, peer, loop, tgt, should_release, ev,
                      complete_requests, remove_poll, todo, handler, of, closes,
                      freed_access, got>>
        BY <1>19 DEF AllClosed
    <2>2. pc' \in [Closers -> Labels]
        BY <1>19 DEF AllClosed, Labels, TypeOK
    <2> QED BY <2>1, <2>2 DEF TypeOK
<1>20. ASSUME NEW r \in Reqs, begin_reply(r) PROVE TypeOK'
    <2>1. UNCHANGED <<handlers_, server_sock_, status_, sconns_, sconns_ctr_, status,
                      sock_, ref, registered, pending_remove_, mode_, to_server,
                      to_client, rdy, peer, loop, pc, tgt, should_release, ev,
                      complete_requests, remove_poll, todo, of, closes, got>>
        BY <1>20 DEF begin_reply
    <2>2. out_l_' \in [Conns -> Reqs \cup {"free"}]
        BY <1>20 DEF begin_reply, TypeOK
    <2>3. out_' \in [Conns -> Seq(Reply)]
        BY <1>20, BeginReplySized
    <2>4. handler' \in [Reqs -> {"none", "running", "replying", "replied", "done"}]
        BY <1>20 DEF begin_reply, TypeOK
    <2>5. freed_access' \subseteq Closers \cup Reqs
        BY <1>20 DEF begin_reply, Touch, Control, TypeOK
    <2> QED BY <2>1, <2>2, <2>3, <2>4, <2>5 DEF TypeOK
<1>21. ASSUME NEW r \in Reqs, end_reply(r) PROVE TypeOK'
    <2>1. UNCHANGED <<handlers_, server_sock_, status_, sconns_, sconns_ctr_, status,
                      sock_, ref, registered, pending_remove_, to_server, to_client,
                      peer, loop, pc, tgt, should_release, ev, complete_requests,
                      remove_poll, todo, of, closes, got>>
        BY <1>21 DEF end_reply
    <2>2. out_l_' \in [Conns -> Reqs \cup {"free"}]
        BY <1>21 DEF end_reply, TypeOK
    <2>3. out_' \in [Conns -> Seq(Reply)]
        BY <1>21, EndReplyOut DEF Filled
    <2>4. mode_' \in [Conns -> {"R", "RW"}]
        BY <1>21, UpdateMode DEF end_reply, EnableWrite, TypeOK
    <2>5. rdy' \subseteq Conns
        BY <1>21, UpdateMode DEF end_reply, EnableWrite, TypeOK
    <2>6. handler' \in [Reqs -> {"none", "running", "replying", "replied", "done"}]
        BY <1>21 DEF end_reply, TypeOK
    <2>7. freed_access' \subseteq Closers \cup Reqs
        BY <1>21 DEF end_reply, Touch, Control, TypeOK
    <2> QED BY <2>1, <2>2, <2>3, <2>4, <2>5, <2>6, <2>7 DEF TypeOK
<1>22. ASSUME NEW r \in Reqs, HandlerReturns(r) PROVE TypeOK'
    <2>1. UNCHANGED <<handlers_, server_sock_, status_, sconns_, status, sock_,
                      out_l_, out_, registered, pending_remove_, mode_, to_server,
                      to_client, rdy, peer, loop, pc, tgt, should_release, ev,
                      complete_requests, remove_poll, todo, of, closes, got>>
        BY <1>22 DEF HandlerReturns
    <2>2. sconns_ctr_' \in Nat
        BY CounterType
    <2>3. ref' \in [Conns -> Nat]
        BY <1>22, HandlerReturnsRefs
    <2>4. handler' \in [Reqs -> {"none", "running", "replying", "replied", "done"}]
        BY <1>22 DEF HandlerReturns, TypeOK
    <2>5. freed_access' \subseteq Closers \cup Reqs
        BY <1>22, HandlerReturnsRefs DEF TypeOK
    <2> QED BY <2>1, <2>2, <2>3, <2>4, <2>5 DEF TypeOK
<1>23. CASE EpollWait
    <2>1. UNCHANGED <<handlers_, server_sock_, status_, sconns_, sconns_ctr_, status,
                      sock_, ref, out_l_, out_, registered, pending_remove_, mode_,
                      to_server, to_client, peer, loop, tgt, should_release,
                      complete_requests, remove_poll, todo, handler, of, closes,
                      freed_access, got>>
        BY <1>23 DEF EpollWait
    <2>2. rdy' \subseteq Conns
        BY <1>23 DEF EpollWait, TypeOK
    <2>3. pc' \in [Closers -> Labels]
        BY <1>23 DEF EpollWait, Labels, TypeOK
    <2>4. ev' \in [Conns -> SUBSET {"IN", "OUT", "HUP"}]
        BY <1>23 DEF EpollWait, Reported, Readable, Writable, TypeOK
    <2> QED BY <2>1, <2>2, <2>3, <2>4 DEF TypeOK
<1>24. CASE NextEvent
    <2>1. UNCHANGED <<handlers_, server_sock_, status_, sconns_, sconns_ctr_, status,
                      sock_, ref, out_l_, out_, registered, mode_, to_server,
                      to_client, rdy, peer, loop, should_release, ev,
                      complete_requests, todo, handler, of, closes, freed_access, got>>
        BY <1>24 DEF NextEvent
    <2>2. pending_remove_' \subseteq Conns
        BY <1>24 DEF NextEvent, TypeOK
    <2>3. pc' \in [Closers -> Labels]
        BY <1>24 DEF NextEvent, Labels, TypeOK
    <2>4. tgt' \in [Closers -> Conns \cup {Nothing}]
        <3>1. UNCHANGED tgt \/ \E k \in Conns : tgt' = [tgt EXCEPT ![Poll] = k]
            BY <1>24 DEF NextEvent
        <3>2. ASSUME NEW k \in Conns, tgt' = [tgt EXCEPT ![Poll] = k]
              PROVE  tgt' \in [Closers -> Conns \cup {Nothing}]
            <4>1. k \in Conns \cup {Nothing}
                BY DEF TypeOK
            <4> QED BY <3>2, <4>1 DEF TypeOK
        <3> QED BY <3>1, <3>2 DEF TypeOK
    <2>5. remove_poll' \subseteq Conns
        BY <1>24 DEF NextEvent, TypeOK
    <2> QED BY <2>1, <2>2, <2>3, <2>4, <2>5 DEF TypeOK
<1>25. CASE HandleRead
    <2>1. UNCHANGED <<handlers_, server_sock_, status_, sconns_, sconns_ctr_, status,
                      sock_, ref, out_l_, out_, registered, pending_remove_, mode_,
                      to_server, to_client, rdy, peer, loop, tgt, should_release, ev,
                      complete_requests, remove_poll, todo, handler, of, closes, got>>
        BY <1>25 DEF HandleRead
    <2>2. pc' \in [Closers -> Labels]
        BY <1>25 DEF HandleRead, Labels, TypeOK
    <2>3. freed_access' \subseteq Closers \cup Reqs
        BY <1>25 DEF HandleRead, Touch, Control, TypeOK
    <2> QED BY <2>1, <2>2, <2>3 DEF TypeOK
<1>26. CASE ReadFd
    <2>1. UNCHANGED <<handlers_, server_sock_, status_, sconns_, sconns_ctr_, status,
                      sock_, ref, out_l_, out_, registered, pending_remove_, mode_,
                      to_client, rdy, peer, loop, tgt, should_release, ev,
                      remove_poll, todo, handler, of, closes, freed_access, got>>
        BY <1>26 DEF ReadFd
    <2>2. to_server' \in [Conns -> Seq(Reqs)]
        <3>1. \/ UNCHANGED to_server
              \/ to_server' = [to_server EXCEPT ![tgt[Poll]] = <<>>]
            BY <1>26 DEF ReadFd
        <3>2. <<>> \in Seq(Reqs)
            OBVIOUS
        <3>3. CASE to_server' = [to_server EXCEPT ![tgt[Poll]] = <<>>]
            BY <3>2, <3>3 DEF TypeOK
        <3> QED BY <3>1, <3>3 DEF TypeOK
    <2>3. pc' \in [Closers -> Labels]
        BY <1>26 DEF ReadFd, Labels, TypeOK
    <2>4. complete_requests' \in Seq(Reqs)
        BY <1>26 DEF ReadFd, Control, TypeOK
    <2> QED BY <2>1, <2>2, <2>3, <2>4 DEF TypeOK
<1>27. CASE DispatchInvalid \/ DispatchMissing
    <2>1. UNCHANGED <<handlers_, server_sock_, status_, sconns_, sconns_ctr_, status,
                      sock_, ref, out_l_, registered, pending_remove_, to_server,
                      to_client, peer, loop, pc, tgt, should_release, ev, remove_poll,
                      todo, handler, closes, freed_access, got>>
        BY <1>27, ErrorRepliesEffect
    <2>2. out_' \in [Conns -> Seq(Reply)]
        BY <1>27, ErrorRepliesSized
    <2>3. mode_' \in [Conns -> {"R", "RW"}]
        BY <1>27, ErrorRepliesEffect DEF TypeOK
    <2>4. rdy' \subseteq Conns
        BY <1>27, ErrorRepliesEffect DEF TypeOK
    <2>5. complete_requests' \in Seq(Reqs)
        <3>1. complete_requests \in Seq(Reqs) /\ complete_requests # <<>>
            BY <1>27, ErrorRepliesEffect DEF TypeOK
        <3>2. complete_requests' = Tail(complete_requests)
            BY <1>27, ErrorRepliesEffect
        <3> QED BY <3>1, <3>2, SeqHeadTail
    <2>6. of' \in [Reqs -> Conns \cup {Nothing}]
        <3>1. PICK h : h = Head(complete_requests)
            OBVIOUS
        <3>2. of' = [of EXCEPT ![h] = tgt[Poll]]
            BY <1>27, <3>1, ErrorRepliesEffect
        <3>3. tgt[Poll] \in Conns \cup {Nothing}
            BY DEF TypeOK
        <3> QED BY <3>2, <3>3 DEF TypeOK
    <2> QED BY <2>1, <2>2, <2>3, <2>4, <2>5, <2>6 DEF TypeOK
<1>28. CASE Dispatch
    <2>1. UNCHANGED <<handlers_, server_sock_, status_, sconns_, sconns_ctr_, status,
                      sock_, out_l_, out_, registered, pending_remove_, mode_,
                      to_server, to_client, rdy, peer, loop, tgt, should_release, ev,
                      remove_poll, todo, closes, freed_access, got>>
        BY <1>28 DEF Dispatch
    <2>2. ref' \in [Conns -> Nat]
        BY <1>28, DispatchRefs
    <2>3. pc' \in [Closers -> Labels]
        BY <1>28 DEF Dispatch, Labels, TypeOK
    <2>4. complete_requests' \in Seq(Reqs)
        <3>1. complete_requests \in Seq(Reqs) /\ complete_requests # <<>>
            BY <1>28 DEF Dispatch, TypeOK
        <3>2. Tail(complete_requests) \in Seq(Reqs)
            BY <3>1, SeqHeadTail
        <3>3. complete_requests' \in {complete_requests, Tail(complete_requests)}
            BY <1>28 DEF Dispatch
        <3> QED BY <3>1, <3>2, <3>3
    <2>5. handler' \in [Reqs -> {"none", "running", "replying", "replied", "done"}]
        <3>1. PICK h : h = Head(complete_requests)
            OBVIOUS
        <3>2. handler' = [handler EXCEPT ![h] = "running"]
            BY <1>28, <3>1 DEF Dispatch
        <3> QED BY <3>2 DEF TypeOK
    <2>6. of' \in [Reqs -> Conns \cup {Nothing}]
        <3>1. PICK h : h = Head(complete_requests)
            OBVIOUS
        <3>2. of' = [of EXCEPT ![h] = tgt[Poll]] /\ tgt[Poll] \in Conns
            BY <1>28, <3>1 DEF Dispatch, Control
        <3> QED BY <3>2 DEF TypeOK
    <2> QED BY <2>1, <2>2, <2>3, <2>4, <2>5, <2>6 DEF TypeOK
<1>29. CASE FastReturned
    <2>1. UNCHANGED <<handlers_, server_sock_, status_, sconns_, sconns_ctr_, status,
                      sock_, ref, out_l_, out_, registered, pending_remove_, mode_,
                      to_server, to_client, rdy, peer, loop, tgt, should_release, ev,
                      remove_poll, todo, handler, of, closes, freed_access, got>>
        BY <1>29 DEF FastReturned
    <2>2. pc' \in [Closers -> Labels]
        BY <1>29 DEF FastReturned, Labels, TypeOK
    <2>3. complete_requests' \in Seq(Reqs)
        BY <1>29, SeqHeadTail DEF FastReturned, Control, TypeOK
    <2> QED BY <2>1, <2>2, <2>3 DEF TypeOK
<1>30. CASE AllDispatched
    <2>1. UNCHANGED <<handlers_, server_sock_, status_, sconns_, sconns_ctr_, status,
                      sock_, ref, out_l_, out_, registered, pending_remove_, mode_,
                      to_server, to_client, rdy, peer, loop, tgt, should_release, ev,
                      complete_requests, remove_poll, todo, handler, of, closes,
                      freed_access, got>>
        BY <1>30 DEF AllDispatched
    <2>2. pc' \in [Closers -> Labels]
        BY <1>30 DEF AllDispatched, Labels, TypeOK
    <2> QED BY <2>1, <2>2 DEF TypeOK
<1>31. CASE HandleWrite
    <2>1. UNCHANGED <<handlers_, server_sock_, status_, sconns_, sconns_ctr_, status,
                      sock_, ref, out_l_, out_, registered, pending_remove_, mode_,
                      to_server, to_client, rdy, peer, loop, tgt, should_release, ev,
                      complete_requests, remove_poll, todo, handler, of, closes, got>>
        BY <1>31 DEF HandleWrite
    <2>2. pc' \in [Closers -> Labels]
        BY <1>31 DEF HandleWrite, Labels, TypeOK
    <2>3. freed_access' \subseteq Closers \cup Reqs
        BY <1>31 DEF HandleWrite, Touch, Control, TypeOK
    <2> QED BY <2>1, <2>2, <2>3 DEF TypeOK
<1>32. CASE WriteFd
    <2>1. UNCHANGED <<handlers_, server_sock_, status_, sconns_, sconns_ctr_, status,
                      sock_, ref, out_l_, registered, pending_remove_, to_server,
                      peer, loop, tgt, should_release, ev, complete_requests,
                      remove_poll, todo, handler, of, closes, freed_access, got>>
        BY <1>32, WriteFdEffect
    <2>2. out_' \in [Conns -> Seq(Reply)]
        BY <1>32, WriteFdReplies
    <2>3. mode_' \in [Conns -> {"R", "RW"}]
        BY <1>32, WriteFdEffect DEF TypeOK
    <2>4. to_client' \in [Conns -> Seq(Reply)]
        BY <1>32, WriteFdReplies
    <2>5. rdy' \subseteq Conns
        BY <1>32, WriteFdEffect DEF TypeOK
    <2>6. pc' \in [Closers -> Labels]
        BY <1>32, WriteFdEffect DEF TypeOK, Labels
    <2> QED BY <2>1, <2>2, <2>3, <2>4, <2>5, <2>6 DEF TypeOK
<1>33. CASE HandleError
    <2>1. UNCHANGED <<handlers_, server_sock_, status_, sconns_, sconns_ctr_, status,
                      sock_, ref, out_l_, out_, registered, pending_remove_, mode_,
                      to_server, to_client, rdy, peer, loop, should_release,
                      complete_requests, remove_poll, todo, handler, of, closes,
                      freed_access, got>>
        BY <1>33 DEF HandleError
    <2>2. pc' \in [Closers -> Labels]
        BY <1>33 DEF HandleError, Labels, TypeOK
    <2>3. tgt' \in [Closers -> Conns \cup {Nothing}]
        BY <1>33 DEF HandleError, Control, TypeOK
    <2>4. ev' \in [Conns -> SUBSET {"IN", "OUT", "HUP"}]
        BY <1>33 DEF HandleError, TypeOK
    <2> QED BY <2>1, <2>2, <2>3, <2>4 DEF TypeOK
<1>34. CASE Drain
    <2>1. UNCHANGED <<handlers_, server_sock_, status_, sconns_, status, sock_,
                      out_l_, out_, registered, pending_remove_, mode_, to_server,
                      to_client, peer, loop, tgt, should_release, ev,
                      complete_requests, todo, handler, of, closes, freed_access, got>>
        BY <1>34, DrainEffect
    <2>2. sconns_ctr_' \in Nat
        BY CounterType
    <2>3. ref' \in [Conns -> Nat]
        <3>1. CASE remove_poll = {}
            BY <1>34, <3>1, DrainEffect DEF TypeOK
        <3>2. ASSUME NEW k \in remove_poll, Release(k), remove_poll' = remove_poll \ {k}
              PROVE  ref' \in [Conns -> Nat]
            BY <1>34, <3>2, DrainRefs
        <3> QED BY <1>34, <3>1, <3>2, DrainEffect
    <2>4. rdy' \subseteq Conns
        BY <1>34, DrainEffect DEF TypeOK
    <2>5. pc' \in [Closers -> Labels]
        BY <1>34, DrainEffect DEF TypeOK, Labels
    <2>6. remove_poll' \subseteq Conns
        BY <1>34, DrainEffect DEF TypeOK
    <2> QED BY <2>1, <2>2, <2>3, <2>4, <2>5, <2>6 DEF TypeOK
<1>35. ASSUME NEW k \in Conns, ClientConnects(k) PROVE TypeOK'
    <2>1. UNCHANGED <<handlers_, server_sock_, status_, sconns_, sconns_ctr_, status,
                      sock_, ref, out_l_, out_, registered, pending_remove_, mode_,
                      to_server, to_client, rdy, loop, pc, tgt, should_release, ev,
                      complete_requests, remove_poll, todo, handler, of, closes,
                      freed_access, got>>
        BY <1>35 DEF ClientConnects
    <2>2. peer' \in [Conns -> {"none", "up", "down"}]
        BY <1>35 DEF ClientConnects, TypeOK
    <2> QED BY <2>1, <2>2 DEF TypeOK
<1>36. ASSUME NEW k \in Conns, NEW r \in Reqs, ClientSends(k, r) PROVE TypeOK'
    <2>1. UNCHANGED <<handlers_, server_sock_, status_, sconns_, sconns_ctr_, status,
                      sock_, ref, out_l_, out_, registered, pending_remove_, mode_,
                      to_client, peer, loop, pc, tgt, should_release, ev,
                      complete_requests, remove_poll, todo, handler, of, closes,
                      freed_access, got>>
        BY <1>36 DEF ClientSends
    <2>2. to_server' \in [Conns -> Seq(Reqs)]
        BY <1>36, AppendProperties DEF ClientSends, TypeOK
    <2>3. rdy' \subseteq Conns
        BY <1>36 DEF ClientSends, Arrived, TypeOK
    <2> QED BY <2>1, <2>2, <2>3 DEF TypeOK
<1>37. ASSUME NEW k \in Conns, ClientReceives(k) PROVE TypeOK'
    <2>1. UNCHANGED <<handlers_, server_sock_, status_, sconns_, sconns_ctr_, status,
                      sock_, ref, out_l_, out_, registered, pending_remove_, mode_,
                      to_server, peer, loop, pc, tgt, should_release, ev,
                      complete_requests, remove_poll, todo, handler, of, closes,
                      freed_access>>
        BY <1>37 DEF ClientReceives
    <2>2. to_client' \in [Conns -> Seq(Reply)]
        BY <1>37, ClientReceivesReplies
    <2>3. rdy' \subseteq Conns
        BY <1>37 DEF ClientReceives, Arrived, TypeOK
    <2>4. got' \in [Reqs -> Seq(Reply)]
        BY <1>37, ClientReceivesOne
    <2> QED BY <2>1, <2>2, <2>3, <2>4 DEF TypeOK
<1>38. ASSUME NEW k \in Conns, ClientCloses(k) PROVE TypeOK'
    <2>1. UNCHANGED <<handlers_, server_sock_, status_, sconns_, sconns_ctr_, status,
                      sock_, ref, out_l_, out_, registered, pending_remove_, mode_,
                      to_server, to_client, loop, pc, tgt, should_release, ev,
                      complete_requests, remove_poll, todo, handler, of, closes,
                      freed_access, got>>
        BY <1>38 DEF ClientCloses
    <2>2. rdy' \subseteq Conns
        BY <1>38 DEF ClientCloses, Arrived, TypeOK
    <2>3. peer' \in [Conns -> {"none", "up", "down"}]
        BY <1>38 DEF ClientCloses, TypeOK
    <2> QED BY <2>1, <2>2, <2>3 DEF TypeOK
<1> QED
    BY <1>1, <1>2, <1>3, <1>4, <1>5, <1>6, <1>7, <1>8, <1>9, <1>10, <1>11, <1>12, <1>13,
       <1>14, <1>15, <1>16, <1>17, <1>18, <1>19, <1>20, <1>21, <1>22, <1>23, <1>24,
       <1>25, <1>26, <1>27, <1>28, <1>29, <1>30, <1>31, <1>32, <1>33, <1>34, <1>35,
       <1>36, <1>37, <1>38
    DEF Next, LoopThread, Dtor, PollLoop, Close, Handler

\* Every step of the server, its threads and its clients keeps the invariant.
LEMMA NextIInv == IInv /\ [Next]_vars => IInv'
<1> SUFFICES ASSUME IInv, [Next]_vars PROVE IInv'
    OBVIOUS
<1>1. TypeOK' /\ Control' /\ Listening'
    BY NextType, NextControl, NextListening
<1>2. Lists' /\ Opened' /\ OneCloser' /\ Events' /\ Requests'
    BY NextLists, NextOpened, NextOneCloser, NextEvents, NextRequests
<1>3. Refs' /\ Counted' /\ FreedOnlyByDtor'
    BY NextRefs, NextCounted, NextFreed
<1>4. Sized' /\ Replies' /\ RepliesCorrect'
    BY NextSized, NextReplies, NextRepliesCorrect
<1> QED BY <1>1, <1>2, <1>3, <1>4 DEF IInv

\* The invariant holds in every state of the server, its connections and their
\* clients.
THEOREM Invariance == Spec => []IInv
<1>1. Init => IInv
    BY InitIInv
<1>2. IInv /\ [Next]_vars => IInv'
    BY NextIInv
<1> QED BY <1>1, <1>2, PTL DEF Spec

-----------------------------------------------------------------------------
(* What follows from it                                                    *)

\* The thread that erased a connection is the one that holds its reference.
LEMMA IInvRefsAccounted == IInv => RefsAccounted
<1> SUFFICES ASSUME IInv PROVE RefsAccounted
    OBVIOUS
<1>1. ASSUME NEW k \in Conns
      PROVE  Cardinality({t \in should_release : tgt[t] = k})
                 = IF k \in Closing THEN 1 ELSE 0
    <2>1. CASE k \in Closing
        <3>1. PICK t \in should_release : tgt[t] = k
            BY <2>1 DEF Closing
        <3>2. {u \in should_release : tgt[u] = k} = {t}
            BY <3>1 DEF IInv, OneCloser
        <3> QED BY <2>1, <3>2, FS_Singleton
    <2>2. CASE k \notin Closing
        <3>1. {u \in should_release : tgt[u] = k} = {}
            BY <2>2 DEF Closing
        <3> QED BY <2>2, <3>1, FS_EmptySet
    <2> QED BY <2>1, <2>2
<1>2. \A k \in Conns : Serving[k] = {r \in Reqs : of[r] = k /\ Working(r)}
    BY DEF Serving
<1>3. Alive = {k \in Conns : ref[k] > 0}
    BY DEF Alive
<1>4. Polled = registered \cup pending_remove_ \cup remove_poll
    BY DEF Polled
<1>5. sconns_ctr_ = Cardinality({k \in Conns : ref[k] > 0})
    BY <1>3 DEF IInv, Counted
<1>6. ASSUME NEW k \in Conns
      PROVE  ref[k] = Cardinality({t \in should_release : tgt[t] = k})
                      + (IF k \in sconns_ THEN 1 ELSE 0)
                      + (IF k \in registered \cup pending_remove_ \cup remove_poll THEN 1 ELSE 0)
                      + Cardinality({r \in Reqs : of[r] = k /\ Working(r)})
    <2>1. ref[k] = (IF k \in Closing THEN 1 ELSE 0) + (IF k \in sconns_ THEN 1 ELSE 0)
                   + (IF k \in Polled THEN 1 ELSE 0) + Cardinality(Serving[k])
        BY DEF IInv, Refs
    <2>2. PICK n : n = Cardinality({t \in should_release : tgt[t] = k})
        OBVIOUS
    <2>3. n = IF k \in Closing THEN 1 ELSE 0
        BY <1>1, <2>2
    <2> QED BY <1>2, <1>4, <2>1, <2>2, <2>3
<1> QED BY <1>5, <1>6 DEF RefsAccounted

\* A connection that anybody uses keeps sconns_ctr_ above 0, and ~Server waiting.
LEMMA IInvServerOutlives == IInv => ServerOutlivesConns
<1> SUFFICES ASSUME IInv, pc[Owner] = "gone"
             PROVE  /\ sconns_ = {} /\ \A k \in Conns : ref[k] = 0
                    /\ \A r \in Reqs : ~Working(r)
                    /\ pc[Poll] \in {"wait", "next", "drain"}
    BY DEF ServerOutlivesConns
<1>1. Alive = {}
    BY DEF IInv, Counted
<1>2. \A k \in Conns : ref[k] \in Nat /\ ~(ref[k] > 0)
    BY <1>1 DEF IInv, TypeOK, Alive
<1>3. \A k \in Conns : ref[k] = 0
    BY <1>2
<1>4. sconns_ = {}
    <2> SUFFICES ASSUME NEW k \in sconns_ PROVE FALSE
        OBVIOUS
    <2>1. k \in Conns
        BY DEF IInv, TypeOK
    <2> QED BY <1>2, <2>1, UsedIsAlive DEF IInv
<1>5. \A r \in Reqs : ~Working(r)
    BY <1>2, HandlerTargetAlive
<1>6. pc[Poll] \notin ClosePcs \cup ServePcs
    <2> SUFFICES ASSUME pc[Poll] \in ClosePcs \cup ServePcs PROVE FALSE
        OBVIOUS
    <2>1. tgt[Poll] \in Conns
        BY DEF IInv, Control
    <2> QED BY <1>2, <2>1, PollTargetAlive
<1>7. pc[Poll] \in {"wait", "next", "drain"}
    BY <1>6 DEF IInv, Control
<1> QED BY <1>3, <1>4, <1>5, <1>7

\* However ~Server, hang-ups, the poll thread and handlers on other threads
\* interleave: a connection's references are those of its users, sconns_ctr_
\* counts the connections that have any, nobody but ~Server uses a deleted
\* connection, and nothing uses the server once its destructor has returned.
THEOREM LifetimesCorrect == Spec => []Lifetimes
<1>1. IInv => Lifetimes
    BY IInvRefsAccounted, IInvServerOutlives DEF IInv, Lifetimes
<1> QED BY <1>1, Invariance, PTL

\* Of ~Server and handle_error, one closes a connection's descriptor, once, and only
\* when PollMgr no longer has the connection registered: update_mode's verify holds.
THEOREM ClosesCleanly == Spec => []ClosedCleanly
<1>1. IInv => ClosedOnce
    <2> SUFFICES ASSUME IInv, NEW k \in Conns PROVE closes[k] <= 1
        BY DEF ClosedOnce
    <2>1. closes[k] = IF sock_[k] = "closed" THEN 1 ELSE 0
        BY DEF IInv, Opened
    <2> QED BY <2>1
<1>2. IInv => ModAlwaysValid
    BY DEF IInv, Opened, Lists, ModAlwaysValid
<1>3. IInv => ClosedCleanly
    BY <1>1, <1>2 DEF ClosedCleanly
<1> QED BY <1>3, Invariance, PTL

\* Handlers of several threads and handle_read write replies to one connection
\* while handle_write sends them; a client still gets at most one reply to a
\* request, whole and with the code its rpc_id calls for.
THEOREM RepliesAreCorrect == Spec => []RepliesCorrect
<1>1. IInv => RepliesCorrect
    BY DEF IInv
<1> QED BY <1>1, Invariance, PTL

=============================================================================
