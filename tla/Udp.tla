-------------------------------- MODULE Udp ---------------------------------
(***************************************************************************)
(* Requests over UDP: begin_udp_request and end_udp_request of the clients *)
(* of a ClientPool, datagrams that are lost and overtake each other, and   *)
(* the server's ServerUdpConnection from server_loop to ~Server.           *)
(*                                                                         *)
(* A request is its size; a datagram the sequence of requests in it.  The  *)
(* server's socket is blocking, and registered with EPOLLET: one event per *)
(* edge.  The Server has a PollMgr and a ThreadPool of its own.            *)
(***************************************************************************)
EXTENDS ClientPool

CONSTANTS
    Reqs,       \* requests, one call each
    Size,       \* Size[r]: bytes of r with its header
    MaxUdp,     \* UdpBuffer::max_udp_packet_size_s
    Nobody

ASSUME UdpAssumption == Size \in [Reqs -> Nat] /\ MaxUdp \in Nat /\ Nobody \notin Reqs

VARIABLES
    call,       \* call[r]: "none", "begun", "sent", "E2BIG"
    udp_l_,     \* udp_l_[c]: the request between begin and end, or Nobody
    udp_,       \* udp_[c]: requests in the client's UdpBuffer
    net,        \* datagrams under way
    queue,      \* datagrams in the server's socket
    edge,       \* epoll has an event to report
    poll,       \* the poll thread: "idle", "read", "handle" or "undefined"
    datagram,   \* what it has read
    jobs,       \* handlers in the thread pool
    refs,       \* references to the ServerUdpConnection
    removal,    \* remove() has queued it for the poll thread
    loop,       \* server_loop: "start", "serving" or "closed"
    dtor        \* ~Server: "none", "join", "remove", "release", "pool", "pollmgr" or "gone"

send == <<call, udp_l_, udp_>>
recv == <<poll, datagram, jobs>>
life == <<removal, loop, dtor>>
vars == <<poolvars, send, net, queue, edge, recv, refs, life>>

Init == /\ PoolInit
        /\ call = [r \in Reqs |-> "none"]
        /\ udp_l_ = [c \in Clients |-> Nobody] /\ udp_ = [c \in Clients |-> <<>>]
        /\ net = {} /\ queue = <<>> /\ edge = FALSE
        /\ poll = "idle" /\ datagram = <<>> /\ jobs = {}
        /\ refs = 0 /\ removal = FALSE /\ loop = "start" /\ dtor = "none"

-----------------------------------------------------------------------------
(* The client                                                              *)

\* begin_udp_request locks udp_l_, for end_udp_request to unlock.
begin_udp_request(r, c) ==
    /\ call[r] = "none" /\ c \in got /\ udp_l_[c] = Nobody
    /\ call' = [call EXCEPT ![r] = "begun"]
    /\ udp_l_' = [udp_l_ EXCEPT ![c] = r]
    /\ udp_' = [udp_ EXCEPT ![c] = Append(@, r)]
    /\ UNCHANGED <<poolvars, net, queue, edge, recv, refs, life>>

Bytes(s) == LET sum[n \in 0 .. Len(s)] == IF n = 0 THEN 0 ELSE sum[n - 1] + Size[s[n]]
            IN  sum[Len(s)]

\* Mutant: only the request at hand is measured.
OverflowOfLast(s) == Size[s[Len(s)]] > MaxUdp

\* UdpBuffer::get_buf: all that the buffer holds
Overflow(s) == Bytes(s) > MaxUdp

\* On overflow nothing is read from the buffer: the request stays in it.
end_udp_request(c) ==
    LET r == udp_l_[c] IN
    /\ r # Nobody
    /\ udp_l_' = [udp_l_ EXCEPT ![c] = Nobody]
    /\ IF Overflow(udp_[c])
       THEN /\ call' = [call EXCEPT ![r] = "E2BIG"]
            /\ UNCHANGED <<udp_, net>>
       ELSE /\ call' = [call EXCEPT ![r] = "sent"]
            /\ net' = net \cup {udp_[c]}
            /\ udp_' = [udp_ EXCEPT ![c] = <<>>]
    /\ UNCHANGED <<poolvars, queue, edge, recv, refs, life>>

Pool == /\ PoolNext
        /\ \A c \in Clients : udp_l_[c] # Nobody => status_'[c] # "released"
        /\ UNCHANGED <<send, net, queue, edge, recv, refs, life>>

-----------------------------------------------------------------------------
(* The network and the server's socket                                     *)

Lose(d) == /\ d \in net /\ net' = net \ {d}
           /\ UNCHANGED <<poolvars, send, queue, edge, recv, refs, life>>

Arrive(d) ==
    /\ d \in net /\ net' = net \ {d}
    /\ loop = "serving"
    /\ queue' = Append(queue, d) /\ edge' = TRUE
    /\ UNCHANGED <<poolvars, send, recv, refs, life>>

-----------------------------------------------------------------------------
(* The poll thread                                                         *)

\* epoll_wait reports the edge; closing the socket takes it back.
PollWait ==
    /\ poll = "idle" /\ edge
    /\ edge' = FALSE /\ poll' = "read"
    /\ UNCHANGED <<poolvars, send, net, queue, datagram, jobs, refs, life>>

\* Mutant: handle_read receives until the socket is empty.
RestAfterAll == <<>>

\* One datagram per event.
RestAfterRead == Tail(queue)

\* recvfrom; on a socket that server_loop has closed in the meantime it returns
\* -1, which Marshal::write takes for a size: nothing is said of what follows.
Recvfrom ==
    /\ poll = "read"
    /\ IF loop = "closed" THEN poll' = "undefined" /\ UNCHANGED <<queue, datagram>>
       ELSE /\ queue # <<>>
            /\ datagram' = Head(queue) /\ queue' = RestAfterRead
            /\ poll' = "handle"
    /\ UNCHANGED <<poolvars, send, net, edge, jobs, refs, life>>

\* The requests R of the datagram that have an rpc_id with a handler go to it with a
\* reference each, and the handler to the thread pool; the others are discarded ...
Dispatch ==
    /\ poll = "handle"
    /\ \E R \in SUBSET {datagram[i] : i \in 1 .. Len(datagram)} :
          /\ dtor = "pollmgr" => R = {}
          /\ jobs' = jobs \cup R /\ refs' = refs + Cardinality(R)
    /\ poll' = "idle" /\ datagram' = <<>>
    /\ UNCHANGED <<poolvars, send, net, queue, edge, life>>

\* ... but ~Server may have deleted the pool.
DispatchToFreedPool ==
    /\ poll = "handle" /\ dtor = "pollmgr" /\ poll' = "undefined"
    /\ UNCHANGED <<poolvars, send, net, queue, edge, datagram, jobs, refs, life>>

RunJob(r) ==
    /\ r \in jobs /\ jobs' = jobs \ {r} /\ refs' = refs - 1
    /\ UNCHANGED <<poolvars, send, net, queue, edge, poll, datagram, life>>

\* The deferred removal at the end of a turn of poll_loop.
Drain ==
    /\ poll = "idle" /\ removal
    /\ removal' = FALSE /\ refs' = refs - 1
    /\ UNCHANGED <<poolvars, send, net, queue, edge, recv, loop, dtor>>

-----------------------------------------------------------------------------
(* server_loop and ~Server                                                 *)

LoopStart ==
    /\ loop = "start" /\ loop' = "serving" /\ refs' = 2
    /\ UNCHANGED <<poolvars, send, net, queue, edge, recv, removal, dtor>>

Stop ==
    /\ dtor = "none" /\ dtor' = "join"
    /\ UNCHANGED <<poolvars, send, net, queue, edge, recv, refs, removal, loop>>

\* The loop sees STOPPING and closes udp_sock_, which is still registered.
LoopExit ==
    /\ loop = "serving" /\ dtor = "join"
    /\ loop' = "closed" /\ queue' = <<>> /\ edge' = FALSE
    /\ UNCHANGED <<poolvars, send, net, recv, refs, removal, dtor>>

Joined ==
    /\ dtor = "join" /\ loop = "closed" /\ dtor' = "remove"
    /\ UNCHANGED <<poolvars, send, net, queue, edge, recv, refs, removal, loop>>

\* Mutant: the PollMgr's reference is dropped at once.
RemoveNow ==
    /\ dtor = "remove" /\ dtor' = "release" /\ refs' = refs - 1
    /\ UNCHANGED <<poolvars, send, net, queue, edge, recv, removal, loop>>

Remove ==
    /\ dtor = "remove" /\ dtor' = "release" /\ removal' = TRUE
    /\ UNCHANGED <<poolvars, send, net, queue, edge, recv, refs, loop>>

Release ==
    /\ dtor = "release" /\ dtor' = "pool" /\ refs' = refs - 1
    /\ UNCHANGED <<poolvars, send, net, queue, edge, recv, removal, loop>>

\* threadpool_->release() runs what is queued, ...
PoolGone ==
    /\ dtor = "pool" /\ jobs = {} /\ dtor' = "pollmgr"
    /\ UNCHANGED <<poolvars, send, net, queue, edge, recv, refs, removal, loop>>

\* ... and only then pollmgr_->release() joins the poll thread and releases what it
\* has not drained.
PollMgrGone ==
    /\ dtor = "pollmgr" /\ poll = "idle" /\ dtor' = "gone"
    /\ removal' = FALSE /\ refs' = IF removal THEN refs - 1 ELSE refs
    /\ UNCHANGED <<poolvars, send, net, queue, edge, recv, loop>>

-----------------------------------------------------------------------------

Poll == PollWait \/ Recvfrom \/ Dispatch \/ DispatchToFreedPool \/ Drain
Dtor == LoopExit \/ Joined \/ Remove \/ Release \/ PoolGone \/ PollMgrGone

Next == \/ Pool
        \/ \E r \in Reqs, c \in Clients : begin_udp_request(r, c)
        \/ \E c \in Clients : end_udp_request(c)
        \/ \E d \in net : Lose(d) \/ Arrive(d)
        \/ LoopStart \/ Poll
        \/ \E r \in jobs : RunJob(r)
        \/ Stop \/ Dtor

Spec == Init /\ [][Next]_vars

-----------------------------------------------------------------------------
(* Properties                                                              *)

\* A datagram holds one whole request, with two threads on one client too.  After
\* an oversized request the buffer keeps it, so that the client never sends a
\* datagram again: what lies in an idle buffer is too big.
DatagramsWhole ==
    /\ \A d \in net : Len(d) = 1
    /\ \A c \in Clients : (udp_l_[c] = Nobody /\ udp_[c] # <<>>) => Bytes(udp_[c]) > MaxUdp

\* The poll thread never blocks in recvfrom, on which all its connections would
\* wait: every event it still has to serve has a datagram of its own in the socket.
PollThreadNeverBlocks ==
    loop = "serving" =>
        (IF edge THEN 1 ELSE 0) + (IF poll = "read" THEN 1 ELSE 0) <= Len(queue)

\* The connection object lives while the poll thread is in its handle_read, or a
\* handler of it is queued; the references are those and the two of its
\* registration, and none is left at the end.
ConnectionAlive ==
    /\ poll \in {"read", "handle"} => refs > Cardinality(jobs)
    /\ dtor = "gone" => refs = Cardinality(jobs)
=============================================================================
