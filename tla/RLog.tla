-------------------------------- MODULE RLog --------------------------------
(***************************************************************************)
(* Remote logging (rlog/): the client RLog numbers its records and sends   *)
(* them without waiting; the log server hands every request to its thread  *)
(* pool, so that records are handled in any order, and RLogServiceImpl     *)
(* puts them back in order by msg_id, per source.                          *)
(*                                                                         *)
(* Every operation of RLog runs under mutex_s and the whole of             *)
(* RLogServiceImpl::log under l_: each is one step.  A connection is known *)
(* by the number of the init() that made it and keeps the order of the     *)
(* requests (Client, Marshal); what a close or a broken connection loses   *)
(* is a suffix of them.  Jobs of the pool run once, in any order           *)
(* (Executor).  A record is <<connection, msg_id>>.                        *)
(***************************************************************************)
EXTENDS Integers, SequencesExt

CONSTANTS
    Idents,       \* the sources a client may call itself (my_ident)
    MaxInit,      \* bound on successful calls of init
    MaxMsg,       \* bound on the records of one connection
    MaxRestart    \* bound on restarts of the log server

ASSUME RLogAssumption == Idents # {} /\ MaxInit \in Nat /\ MaxMsg \in Nat /\ MaxRestart \in Nat

Conns == 1 .. MaxInit
Local == 0        \* rp_s is null: RLog works in local mode

VARIABLES
    rp_s,             \* the connection in use, or Local
    msg_counter_s,
    inits,            \* successful calls of init so far
    ident,            \* ident[c]: the source of connection c
    home,             \* home[c]: the run of the log server c goes to
    status,           \* status[c]: "up", "broken" unnoticed by the client, "closed"
    wire,             \* wire[c]: msg_ids not yet read by the server
    pool,             \* records in the server's thread pool
    buffer_, done_,   \* RLogServiceImpl's tables
    printed,          \* what the server has printed, in order
    run               \* which run of the log server this is

client == <<rp_s, msg_counter_s, inits, ident, home>>
server == <<pool, buffer_, done_, printed, run>>
vars == <<client, status, wire, server>>

Init == /\ rp_s = Local /\ msg_counter_s = 0 /\ inits = 0 /\ run = 0
        /\ ident = [c \in Conns |-> CHOOSE s \in Idents : TRUE]
        /\ home = [c \in Conns |-> 0]
        /\ status = [c \in Conns |-> "closed"] /\ wire = [c \in Conns |-> <<>>]
        /\ pool = {} /\ printed = <<>>
        /\ buffer_ = [s \in Idents |-> {}] /\ done_ = [s \in Idents |-> 0]

-----------------------------------------------------------------------------
(* RLog                                                                    *)

\* init() that finds cl_s null and connects.  One that cannot connect, or that
\* comes while connected, changes nothing.
init(s) ==
    /\ rp_s = Local /\ inits < MaxInit
    /\ inits' = inits + 1 /\ rp_s' = inits + 1
    /\ msg_counter_s' = 0
    /\ ident' = [ident EXCEPT ![inits + 1] = s]
    /\ home' = [home EXCEPT ![inits + 1] = run]
    /\ status' = [status EXCEPT ![inits + 1] = "up"]
    /\ UNCHANGED <<wire, server>>

\* What the socket has not taken, or the network not delivered, is lost.
LoseSuffix(c) == \E n \in 0 .. Len(wire[c]) : wire' = [wire EXCEPT ![c] = SubSeq(@, 1, n)]

do_finalize ==
    /\ rp_s' = Local
    /\ status' = [status EXCEPT ![rp_s] = "closed"]
    /\ LoseSuffix(rp_s)

finalize ==
    /\ rp_s # Local /\ do_finalize
    /\ UNCHANGED <<msg_counter_s, inits, ident, home, server>>

\* log_v() in remote mode: async_log() queues the request.
log_v ==
    /\ rp_s # Local /\ status[rp_s] # "closed" /\ msg_counter_s < MaxMsg
    /\ msg_counter_s' = msg_counter_s + 1
    /\ wire' = IF status[rp_s] = "up" THEN [wire EXCEPT ![rp_s] = Append(@, msg_counter_s)]
                                      ELSE wire
    /\ UNCHANGED <<rp_s, inits, ident, home, status, server>>

\* log_v() or aggregate_qps() on a connection that the poll thread has closed:
\* begin_request() returns null, "fall back to local mode".
FallBack ==
    /\ rp_s # Local /\ status[rp_s] = "closed" /\ do_finalize
    /\ UNCHANGED <<msg_counter_s, inits, ident, home, server>>

-----------------------------------------------------------------------------
(* The connection                                                          *)

Break(c) ==
    /\ status[c] = "up"
    /\ status' = [status EXCEPT ![c] = "broken"]
    /\ LoseSuffix(c)
    /\ UNCHANGED <<client, server>>

\* The client's poll thread: handle_error() closes.
Notice(c) ==
    /\ status[c] = "broken"
    /\ status' = [status EXCEPT ![c] = "closed"]
    /\ UNCHANGED <<client, wire, server>>

-----------------------------------------------------------------------------
(* The log server                                                          *)

\* __log__wrapper__: the poll thread passes the request to run_async().
__log__wrapper__(c) ==
    /\ wire[c] # <<>>
    /\ pool' = pool \cup {<<c, Head(wire[c])>>}
    /\ wire' = [wire EXCEPT ![c] = Tail(@)]
    /\ UNCHANGED <<client, status, buffer_, done_, printed, run>>

\* Mutant: ids up to done_ are taken for duplicates.
InsertNew(s, r) == IF r[2] <= done_[s] THEN buffer_[s] ELSE buffer_[s] \cup {r}

\* std::set with operator< on msg_id: a second record with the same id is dropped.
Insert(s, r) == IF \E b \in buffer_[s] : b[2] = r[2] THEN buffer_[s] ELSE buffer_[s] \cup {r}

\* Mutant: whatever arrives is printed.
PrintableAtOnce(s, B) == B

\* Mutant: a record waits until all ids up to its own have been printed.
PrintableLate(s, B) == {b \in B : b[2] < done_[s] + 1}

\* "while (buffer.begin()->msg_id <= done + 1)": the ids up to done_, and the run
\* of ids that follows it without a gap.
Printable(s, B) ==
    {b \in B : \A i \in (done_[s] + 1) .. (b[2] - 1) : \E a \in B : a[2] = i}

\* The records of P from the smallest id on, as buffer.begin() delivers them.
InIdOrder(P) == CHOOSE q \in Surjection(1 .. Cardinality(P), P) :
                    \A j, k \in 1 .. Cardinality(P) : j < k => q[j][2] <= q[k][2]

\* RLogServiceImpl::log on a thread of the pool.
log(r) ==
    LET s == ident[r[1]]
        B == Insert(s, r)
        P == Printable(s, B)
    IN  /\ r \in pool /\ pool' = pool \ {r}
        /\ printed' = printed \o InIdOrder(P)
        /\ done_' = [done_ EXCEPT ![s] = Max({@} \cup {b[2] : b \in P})]
        /\ buffer_' = [buffer_ EXCEPT ![s] = B \ P]
        /\ UNCHANGED <<client, status, wire, run>>

\* The log server is stopped or dies, and is started again with empty tables.
Restart ==
    /\ run < MaxRestart /\ run' = run + 1
    /\ status' = [c \in Conns |-> IF status[c] = "up" THEN "broken" ELSE status[c]]
    /\ wire' = [c \in Conns |-> <<>>]
    /\ pool' = {} /\ buffer_' = [s \in Idents |-> {}] /\ done_' = [s \in Idents |-> 0]
    /\ UNCHANGED <<client, printed>>

-----------------------------------------------------------------------------

Next == \/ \E s \in Idents : init(s)
        \/ finalize \/ log_v \/ FallBack \/ Restart
        \/ \E c \in Conns : Break(c) \/ Notice(c) \/ __log__wrapper__(c)
        \/ \E r \in pool : log(r)

\* The server reads what arrives and its pool runs the jobs.
Fairness == /\ \A c \in Conns : WF_vars(__log__wrapper__(c))
            /\ WF_vars(\E r \in pool : log(r))

Spec == Init /\ [][Next]_vars
FairSpec == Spec /\ Fairness

-----------------------------------------------------------------------------
(* Properties                                                              *)

\* No other connection with the same ident has used the same run of the server,
\* whose tables are kept per ident and never forget it.
Alone(c) == \A d \in 1 .. inits : (ident[d] = ident[c] /\ home[d] = home[c]) => d = c

\* The records of c are printed once, in the order of their ids, without a gap.
InOrder(c) ==
    \A k \in DOMAIN printed : printed[k][1] = c =>
        /\ \A j \in DOMAIN printed : printed[j] = printed[k] => j = k
        /\ printed[k][2] > 1 => \E j \in 1 .. (k - 1) : printed[j] = <<c, printed[k][2] - 1>>

\* So are those of a connection that has its ident to itself, however the pool's
\* threads overtake each other and whatever is lost -- but for the first: done_
\* starts at 0, the id of the first record, which may be printed after others.
PrintedInOrder == \A c \in Conns : Alone(c) => InOrder(c)

\* Nothing such a connection sent is kept in buffer_ once the pool is done with
\* what has arrived: neither a broken connection nor a close leaves a gap that
\* holds back records which arrived.
NothingHeldBack ==
    \A c \in Conns : (Alone(c) /\ home[c] = run /\ \A r \in pool : r[1] # c) =>
        \A b \in buffer_[ident[c]] : b[1] # c

\* A record sent on a connection that stays up is printed, if the connection has
\* its ident to itself.
RecordsPrinted ==
    \A c \in Conns, i \in 0 .. (MaxMsg - 1) :
        (rp_s = c /\ i < msg_counter_s /\ status[c] = "up")
            ~> (Contains(printed, <<c, i>>) \/ status[c] # "up" \/ ~Alone(c))
=============================================================================
