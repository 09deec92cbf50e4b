# Verification of simple-rpc

TLA+ models of the concurrent core of simple-rpc (`base/`, `rpc/`), of its remote logging
(`rlog/`) and of its Python bindings (`pylib/simplerpc`), the TLC runs that check them on small
instances, and TLAPS proofs of the results that hold for every instance.  `PROJECT.json` is the index: components, runs, mutants, the map from
definitions to source lines, hazards, theorems.

## 1. The system

| Part | State | Operations | Hard because |
|---|---|---|---|
| `Queue`, `ThreadPool` (`base/threading.*`) | one queue per worker, `should_stop_`, `round_robin_` | `run_async`, worker loop with stealing, destructor with death pills | workers steal from each other while pills are queued; jobs submit jobs while the pool is being destroyed |
| `RunLater` (`base/threading.*`) | priority queue of timed jobs, `latest_`, `should_stop_` | `run_later`, timer loop, destructor | deadline arithmetic, jobs run with the lock held, the destructor's pill is ordered by time like any job |
| `SparseInt` (`base/basetypes.*`) | none | `dump`, `load_*`, sizes | sign extension and length boundaries |
| `Future` (`rpc/client.*`) | `ready_`, `timed_out_`, `error_code_`, callback | `wait`, `timed_wait`, `notify_ready` | a timeout races a late answer; deadline arithmetic that depends on the moment of the call |
| `Client` (`rpc/client.*`) | `status_`, `sock_`, `pending_fu_`, `out_`, `in_` | `connect`, `begin_request`/`end_request`, `handle_read`/`write`/`error`, `close`, `close_and_release` | `close` on any thread races with requests, replies and itself; `status_` has no lock |
| `ClientPool` (`rpc/client.*`) | cache of clients by address | `get_client`, destructor | one of several connects fails, or one of a client's two sockets; a cached client may be closed |
| `PollMgr`, `PollThread` (`rpc/polling.*`) | `poll_set_`, `mode_`, `pending_remove_`, the epoll set | `add`, `remove`, `update_mode`, poll loop, destructor | removal is deferred while the kernel reuses descriptor numbers |
| `Server`, `ServerTcpConnection`, `DeferredReply` (`rpc/server.*`) | `handlers_`, `sconns_`, `sconns_ctr_`, `status_`; per connection `status_`, `out_` and references | `reg`, `start`, accepting loop, `handle_*`, `begin_reply`/`end_reply`, `close`, destructor | replies from other threads outlive connections; the destructor races with hang-ups |
| `Marshal`, `chunk` (`rpc/marshal.*`, `rpc/buffer.*`) | list of reference-counted chunks | `read`, `write`, `read_from_marshal`, fd transfer, bookmarks | chunks shared by two Marshals |
| UDP transport (`rpc/client.*`, `rpc/server.*`, `UdpBuffer`) | the client's buffer and socket; the server's blocking socket and `ServerUdpConnection` | `begin_udp_request`/`end_udp_request`, `handle_read`, `~Server` | datagrams are lost and overtake each other; a blocking `recvfrom` on the poll thread; the connection is released while its handlers are queued |
| `rlog` (`rlog/*`) | the client's message counter and mode; per source `done_` and `buffer_` on the server | `init`, `finalize`, `log`; the server's `log` | handler threads overtake each other; connections break and servers restart between records |
| Python bindings (`pylib/simplerpc`) | the GIL, reference counts of handler functions, `wait_ok` | calls, futures, `reg`/`unreg`, `Server.__del__` | every wait needs the GIL to be given up; C++ objects are released by Python's garbage collector |
| code generator, utilities | | | see section 7 |

Interaction: a `Client` or `ServerTcpConnection` is a `Pollable`; `PollMgr` holds a
reference to it from `add` until the iteration of its poll thread after `remove`, and calls
its `handle_read`, `handle_write`, `handle_error`.  Application threads call `Client`;
server handlers run on the poll thread or, through `run_async`, on the `ThreadPool`, and
reply through the connection.  `update_mode` is called back from both sides.

What makes the parts correct: an accepted job runs exactly once and destructors return
(ThreadPool); a caller gets the answer or a timeout, and its callback (Future); no request is
orphaned by a close, references balance, only whole packets are sent (Client); every request
that was read gets one well-formed reply and nothing outlives the server (Server); events
reach the right object and no object is used after its release, although descriptor numbers
are reused (PollThread); bytes come out as they went in (Marshal, SparseInt); the timer
thread never oversleeps and no job is forgotten (RunLater); every client is cached or released
(ClientPool); a datagram is one request and the poll thread never blocks (UDP); records come
out in order and none is held back (rlog); the GIL deadlocks nobody and functions and futures
are released once (Python).  The hazards behind these properties are in `PROJECT.json`, each at its source line.

## 2. The modules

| Module | Models | State and actions |
|---|---|---|
| `ThreadPool` | `Queue`, `ThreadPool` | `q_`, `round_robin_`, `should_stop_` are the code's; `stage[w]` is the stage of `run_thread`.  A queue method is one critical section of its mutex, so one action.  `RunAsync` is the unlocked test of `should_stop_`, `Enqueue` the push that comes later. |
| `Executor` | what `ThreadPool` promises of a job | abstract: a job is accepted, rejected, started, finished |
| `Future` | one future, its waiters and the delivering thread | each critical section of `ready_m_` and each unlocked access around it is an action; a clock that shows the fraction of the second, the time left of each deadline, wake-ups without a signal |
| `Client` | a client on one TCP connection, its callers, the poll thread, the peer | one action per critical section or unlocked access of shared state; `pc[t]` names the next one |
| `RpcCall` | what `Client` promises of a call | abstract: a call is begun, then refused, replied or failed, once |
| `Server` | the accepting thread, connections, handlers, `~Server` | as `Client`; handlers run on the poll thread (`Fast`) or elsewhere (`run_async`, `DeferredReply`) |
| `PollThread` | `PollMgr::PollThread`, epoll branch | registration under `l_`, the `epoll_ctl` calls after it, the poll loop, the destructor; connections follow the order of `close()` |
| `Marshal` | `raw_bytes`, `chunk`, `Marshal` and packet framing | operations are functions on a memory (`raw_bytes` and chunk lists); sender, network and receiver are the actions |
| `SparseInt` | `dump`, `load_*`, `val_size`, `buf_size` | an integer is its bytes; `DumpHeader` and `LoadHeader` write and read the header of a reply |
| `RunLater` | `RunLater` | the clock is a variable; the thread's loop, its timed wait, a running job (which may call `run_later`), the callers and the destructor are the actions; each critical section of `m_` is a step |
| `ClientPool` | `ClientPool` | `cache_`, and for each client its two sockets; `get_client` connects them one by one and may fail at each |
| `Udp` | `UdpBuffer`, UDP requests, `ServerUdpConnection` | extends `ClientPool`: its clients send; the network, the edges of epoll, `handle_read`, the pool's handlers, `server_loop` and `~Server` |
| `RLog` | `rlog/` | the client under `mutex_s`, connections as queues, the server's pool as a set (what `Executor` promises), `RLogServiceImpl::log` under `l_` |
| `PyRpc` | `_pyrpc.cc`, `server.py`, `client.py`, `future.py` | callers, the poll thread with its handlers, `__reg_func__`, `unreg` and `Server.__del__`, with the GIL taken and given up where the bindings do; the functions' reference counts |

`MC*` modules and `.cfg` files hold the instances.  Operators whose comment says "Mutant"
are plausible bugs; `PROJECT.json` says which definition each replaces and which property
then fails.  They are used nowhere else.

**Conventions.**  Variables keep the code's names.  A `verify` or `assert` of the code is a
property (`ModAlwaysValid`, `AddFindsFdFree`, `AssertsHold`) or a state the model stops in
("aborted" in `RunLater` and `Future`), never a guard.  A lock held
from one action to another is a variable (`out_l_`); one that is released within the action
is not.  `Client` and `Server` treat packets as indivisible, which `Marshal` justifies: it
shows that any partition of the bytes gives the receiver exactly the packets sent.  They
contain what they use of `PollMgr` (registration, mode, deferred release, edge-triggered
readiness); `PollThread` has it in detail.  `RLog` and `PyRpc` rest in the same way on what
`Executor`, `RpcCall` and `Marshal` state.  The kernel (epoll, sockets) and the peer are
external, modelled by what the code relies on.

**Use after free** is undefined behaviour.  `Client` and `Server` record in `freed_access`
which step or thread did it and go on with the memory intact, which is the usual outcome, so
that the other properties are also checked in those behaviours; the `Lifetimes` invariants say
that it happens in no other place than the ones of section 6.  The destructor of `PollThread` erases from the set it
iterates over; there the model lets the sweep end at any point after the first element.  In
`Udp` the poll thread is "undefined" and stops after it has read from the closed socket or
dispatched to the released thread pool.

## 3. The runs

All runs pass; an invariant with parts is a conjunction of named definitions.

| Run | Properties | Shows |
|---|---|---|
| `threadpool` | `OwnPillOnly` `AnswersKept` `AcceptedRuns` `DtorReturns` `ImplementsExecutor` | a death pill is in a queue exactly from its push until its worker exits; accepted jobs run once, rejected ones never; `~ThreadPool` returns; the pool implements `Executor` |
| `future` | `AnswerOrTimeout` `CallbackRan` `TimedWaitReturns` | a call that returned leaves the answer or, after a timeout, ETIMEDOUT; the callback is never lost in the race of deadline and answer, and runs once if there is no timeout; `timed_wait` returns, although wake-ups make it compute its deadline again, unless a deadline at a whole second aborts the process (section 6) |
| `client` | `Lifetimes` `NothingPendingAfterClose` `EpollConsistent` `OnlyWholeRequests` `ImplementsRpcCall` | references balance, freed memory is used in one place only and the client outlives its calls; nothing is pending after a close; `EPOLL_CTL_MOD` cannot fail and write events are on while requests wait; the peer gets whole requests; each call is completed once, by its reply or by the close |
| `client_live` | `CloseWakesWaiters` `RequestsSent` | waiters are woken after a close; queued requests are sent |
| `pollthread` | `RegistrationRight` `NoDanglingPollable` `RemovedIsReleased` | registered connections are the ones epoll reports to, also when a descriptor number is reused, and `add` never finds traces of the previous owner; no dangling pointer; removed objects are released |
| `server` | `Lifetimes` `ClosedCleanly` `RepliesCorrect` | references balance, `sconns_ctr_` counts, freed memory is used by the destructor only and nothing outlives `~Server`; one close per connection, and `EPOLL_CTL_MOD` cannot fail; replies are right |
| `server_live` | `DtorReturns` `RequestsAnswered` | `~Server` returns; requests that were read are answered |
| `marshal` | `MemorySafe` `PacketsIntact` `HeaderReadBack` `AllDelivered` | the assertions of `Marshal` hold and bookmarks point to live memory; packets arrive whole; reply headers are read back as written, but for the low byte of 8 byte integers, and the size computations agree; all packets arrive |
| `runlater` | `NothingForgotten` `NeverOversleeps` `JobsRunAndDtorReturns` | `latest_` covers all queued jobs, and the thread is lost in the two ways of section 6 only; the thread never sleeps past the time of a queued job, whatever is pushed meanwhile; all accepted jobs run and the destructor returns |
| `rlog` | `PrintedInOrder` `NothingHeldBack` `RecordsPrinted` | records are printed once, in order, without a gap; nothing that arrived is held back by what was lost; records of a lasting connection are printed |
| `udp` | `ClientsAccounted` `DatagramsWhole` `PollThreadNeverBlocks` `ConnectionAlive` | no client is forgotten when a connect fails half-way; a datagram is one whole request; `recvfrom` always has a datagram; the connection object outlives its uses |
| `pyrpc` | `FreedFuncOnlyInFlight` `FutureReleasedOnce` `NoGILDeadlock` | a handler that waits for the GIL has a live Python function, unless this was unregistered while it waited (section 6), and no function leaks; a future is released once; calls and `Server.__del__` return although handlers need the GIL |

**Bounds, and why they are enough.**
- `threadpool`: three workers, so that a thief has a choice of victims and a third worker is
  asleep; three jobs: one that submits another (the only way to submit during destruction), one
  on an explicit channel (4, which wraps).  The safety results are proved for all values.
- `future`: one `wait` and two `timed_wait` callers, enough for a signal to go to the "wrong"
  sleeper and for two timeouts to race the answer; `Second = 3` ticks with arguments of 2 and 3
  ticks, so that one deadline has a fraction that may or may not carry, or hit the carry, and the
  other has none; `MaxSpurious = 2`, so that a deadline is computed again and once more.
- `client`: two callers and the poll thread are the three kinds of closers (a second caller is
  the one that inserts while the first closes); `MaxXid = 2` so that replies can be out of order;
  `SockBuf = 1` so that the second request meets a full socket.  Callers are symmetric; the run
  with liveness has one caller and no symmetry.
- `pollthread`: three connections on two descriptors, so that a number is reused while another is
  in use.
- `server`: two connections, one request for a fast and one for an asynchronous handler,
  registered or not; `SockBuf = 1`.  Connections are symmetric.  The liveness run has one
  connection, an asynchronous request and one without `rpc_id`.
- `marshal`: `raw_bytes` of three bytes, a size field of two.  After the first packet (3 bytes)
  the tail has room for one byte, so the bookmark of the second is split between chunks; a field
  of four bytes is larger than a `raw_bytes`.  `MaxRaw` is never reached (TLC would report an
  empty choice).  The headers hold values with any byte around a power of two at any position,
  above sign bytes and below a run of equal bytes: both ends of every band and their neighbours,
  0, -1, the extremes; `StackBytes` are what an uninitialized byte may hold.
- `runlater`: two jobs, so that one can be earlier, later or equal, and one of them submits a
  job itself; `Second = 3` ticks with delays 0, 2 and 4, below and above a second, so that
  deadlines carry, hit the carry exactly, and lose whole seconds; `MaxTime = 8` lets every delay
  pass after any start that matters.
- `rlog`: two idents and two `init`s (the second may reuse the first ident), three records per
  connection so that one can be missing between two others, one restart of the server.
- `udp`: one address with two connections (the first may succeed and the second fail), a third
  client for another attempt; two requests that would fit into one datagram together
  (`MaxUdp = 4`, 2 bytes each) and one that fits into none.
- `pyrpc`: two callers, each with a call, so that one can wait for the other's future, and the
  owner of the server; one function, which is registered, freed and registered again in the same
  memory (registrations are not bounded).

**Deadlock** is checked except where the system may stop: in `future` the process may
abort (section 6); in `marshal` a connection with nothing to send
stops; in `runlater` the clock reaches its bound and the thread may be lost; in `rlog` and `udp`
all records and requests may be sent; in `pyrpc` all calls may have returned.

## 4. Fairness

Weak fairness of each thread's own steps: the operating system runs every runnable thread, and
an unlocked action waits for nothing but a lock its owner releases.  Beyond that:
- `ThreadPool`: jobs return.  Nobody must submit a job or destroy the pool.
- `Future`: the clock advances and a deadline that has passed ends the wait; the answer may never
  come.  Wake-ups without a signal are not forced, and finitely many (`MaxSpurious`): endless ones
  would put off the deadline forever, because the code computes it again each time.
- `Client`: the peer reads from its socket (otherwise a full socket blocks everything); it need
  not reply.  Nobody has to start a request or to close.
- `Server`: handlers reply, as the comment at `reg` asks of them, and clients read.
- `PollThread`: an owner that has begun to close goes on.
- `Marshal`: a packet begun is finished, the network delivers.
- `RunLater`: time passes and jobs return.  Nobody must call `run_later` or the destructor.
- `RLog`: the server reads what arrives and its pool runs the jobs (`AcceptedRuns`).
- `PyRpc`: strong fairness of each thread, because the GIL and the spin lock `out_l_` are taken
  and released by others again and again: the interpreter hands the GIL round, and a thread
  that wants it gets it in the end.  Handlers return.
- `Udp`: none; its properties are safety properties.

## 5. What is proved

**ThreadPool** (`ThreadPool_proofs`), from `PoolAssumption` only: any number of workers (also 0),
any jobs, submission tree and channels.
- `TypeCorrect`, and the run's invariants as `AnswersKeptCorrect` and `OwnPillCorrect`.
- `Refinement`: `Spec => Promise!Spec`, the pool implements `Executor`.

The invariants are not inductive.  `IInv` adds: a job is in at most one queue position, and there
exactly if it was accepted and not started (`Placed`); a job being executed was started once and
is executed by one thread, and a worker is in stage "run" exactly then (`Running`); a
`run_async` call about to push was begun before the destructor or by a job on a worker
(`Submitting`, needed because the test of `should_stop_` is unlocked: it is what makes the queues
final when the last worker has been joined); how far the destructor is says which workers have exited and
which queues are empty (`Stopping`); one pill per queue from push to exit (`Pills`).  The proof
has a lemma for each effect on a queue (append, pop), one per kind of action, and `NextIInv`
combines them.  The refinement then shows that each action moves the status of at most one job.

**Future** (`Udp_proofs`, first part), for any sets of callers: `FutureTypeCorrect`,
`AnswerStored` (`AnswerOrTimeout`) and `CallbackNotLost` (`CallbackRan`), also for any length of a
second, any arguments of `timed_wait` and number of wake-ups (`FutureAssumption`).  `FutureInv` says why
a caller may have left its loop, that the answer is stored before `ready_` is set, that
whoever sets `timed_out_` is on its way to the callback, and that without a timeout only
`notify_ready` runs it.

**SparseInt** (`Client_proofs`, first part), from `SparseAssumption`: any set of headers, so all 2^96 of them, and
any bytes on the stack.  `HeaderRoundTrip` (`HeaderReadBack`), of `HeaderSpec`, the header's part of
the `marshal` run.  The argument goes from bits to bytes: a value is in
band n if its bits from 7n - 1 on are equal, hence (`BandFits`) the bytes above the first one written
are all 0 or all 255 and the top bits of that one agree with them; so the tag takes the place of copies of the
sign only, `Extend` restores them (`TopByteBack`, `ShortBack`), and the tag gives `buf_size` the band that
`val_size` chose (`BufSize`).  `RoundTrip32` and `RoundTrip64` say this of any buffer that begins with
the encoding, whatever follows: the uninitialised rest of the stack buffer.  In the 8 byte band the
low byte is lost, but the value read back is still in that band, which is why the payload length
that `handle_read` computes from `val_size` is right all the same.

**PollThread** (`PollThread_proofs`), from `PollAssumption`: any Pollables, and any finite or
infinite set of descriptors.  `RegistrationCorrect` (`RegistrationRight`) and `NothingDangles`
(`NoDanglingPollable`).  The difficulty is the deferred removal: a connection that has closed its
descriptor keeps the number, and the kernel may hand that number out again before the poll thread
has come round to the removal.  `IInv` says which connection owns a descriptor (`FdsRight`), that
`poll_set_` and `mode_` describe the connections between `add` and `remove` (`TablesAgree`), that
epoll's entry for a descriptor belongs to its present owner or to a removal under way
(`WatchedRight`), what may be on `pending_remove_`, on the list being worked off and among the events
being handled (`ListsRight`), how far the destructor and the loop are (`StopRight`), and whose
references a connection has (`RefsRight`).

**Client** (`Client_proofs`, the rest of it), from `ClientAssumption`: any callers, any number of requests, any
socket buffer.
- The four invariants of the run: `LifetimesCorrect`, `NothingOrphaned`
  (`NothingPendingAfterClose`), `EpollCorrect` (`EpollConsistent`), `WholeRequests`
  (`OnlyWholeRequests`).
- `Refinement`: `Spec => Promise!Spec`, the client implements `RpcCall`.

`status_` is tested and set without a lock, so that none of these follows from the program's
locks alone.  `IInv` is built in layers: where each thread is and who holds `out_l_` (`Control`); `status_`
against the descriptor, by the order in which `close` unregisters, closes and sets it (`Connected`);
the request being written is the last one of `out_`, and a cut one is never sent (`Packets`); what
is pending after `CLOSED` is about to be taken by a close under way or by the second test of
`begin_request` (`Orphans`, the heart of `NothingPendingAfterClose`); one thread takes a
future out of `pending_fu_`, one caller uses it, and its references are theirs (`Futures`);
the client's references (`RefCount`); and what the refinement needs to know of the futures
(`Outcomes`).  The refinement shows, action by action, that at most one call changes its
outcome, and only in the way `RpcCall` allows.

**Server** (`Server_proofs`), from `ServerAssumption`: any finite sets of connections and requests,
any `rpc_id`s and choice of fast handlers, any socket buffer.  `LifetimesCorrect` (`Lifetimes`),
`ClosesCleanly` (`ClosedCleanly`), `RepliesAreCorrect` (`RepliesCorrect`).  The parts of `IInv`:
- `Control`, `Listening`: where the threads are; the accepting thread works only from `start` until
  `~Server` has joined it, so that `sconns_` grows no more once it is copied.
- `Lists`, `Opened`, `OneCloser`: `sconns_` and PollMgr's registrations are the same set, its members are open, and
  of `~Server` and `handle_error` only the thread that erased a connection from `sconns_` gets to
  `::close`.  This gives `ClosedCleanly`.
- `Events`, `Refs`, `Counted`: the poll thread works on connections PollMgr refers to, each
  connection has a reference per user, and `sconns_ctr_` counts the ones alive; hence
  nobody but `~Server` meets a deleted connection, and nothing is left when `sconns_ctr_` is 0.
- `Requests`: a request is in one place (a socket, `complete_requests`, or a handler), so that it
  is dispatched once.
- `Sized`: only the last reply of `out_` may lack its size, and then its handler holds `out_l_`;
  so `handle_write`, which needs the lock, sends complete replies whatever the socket takes.
- `Replies`: out of `to_client` and `out_` together, which `handle_write` leaves as one sequence, each
  client is going to receive at most one reply per request, with the right code, and none that it
  already has.

**RunLater** (`RunLater_proofs`), from `RunLaterAssumption`: any jobs, delays, ticks to a second and
end of time.  `NothingForgottenCorrect` (`NothingForgotten`) and `NeverOversleepsCorrect`
(`NeverOversleeps`).  Together they are inductive.  The lemma
`WholeSecond` (two remainders add up to the divisor only if it divides the sum) is why only a
job at a whole second can make the verify abort; `RemainderBelow` is why a deadline without its
whole seconds is early and never late; and a push finds the thread awake or wakes it.

**ClientPool and Udp** (`Udp_proofs`, the rest of it), from `PoolAssumption` and `UdpAssumption`: any addresses, numbers of clients,
requests, sizes and limit.  `PoolAccountsCorrect` (`ClientsAccounted`), `DatagramsCorrect`
(`DatagramsWhole`), `NeverBlocksCorrect` (`PollThreadNeverBlocks`), `ConnectionAliveCorrect`
(`ConnectionAlive`).  The parts of `IInv`:
- `PoolIInv`: a client that was made and not released is in the array of the call under way or in
  the cache; that array belongs to an address without clients, so that `Insert` overwrites nothing.
- `Sending`: between begin and end a buffer holds the one request, or has overflowed.  It rests on
  `BytesOfAppend` (a request adds its size), an induction over the recursive function in `Bytes`.
- `Places`: a request sent is in one place (network, socket, poll thread or thread pool), so
  that `Dispatch` counts each handler once; `Life` and `Counted`: whose references there are in each phase of
  `server_loop` and `~Server`.

**PyRpc** (`PyRpc_proofs`), from `PyAssumption`: any callers and functions.  `FuncsCorrect`
(`FreedFuncOnlyInFlight`) and `ReleasedOnceCorrect` (`FutureReleasedOnce`).  `IInv` says
that the function in `func_ids` and no other has references, that it is the one in `handlers_` but for
the second half of `unreg`, and that a waiting handler is that of `handlers_` or caught (`FuncHeld`);
that a future without a Python object is waited for by its own `sync_call` only (`OwnWait`, with `FreshCalls`), that a
future not shared has one waiter, and none once `wait_ok` is set (`OneWaiter`), and that its reference is
there until a wait that is through has released it (`OneReference`).

**RLog** (`RLog_proofs`), from `RLogAssumption`: any idents, numbers of connections, records and
restarts.  `RecordsInOrder` (`PrintedInOrder`) and `BufferDrains` (`NothingHeldBack`).  The
difficulty is that `done_` and `buffer_` say nothing of what the pool has not handled yet, and that
tables are kept per ident and lost in a restart.  The parts of `IInv`: what is on its way or in the
tables belongs to this run of the server, and no id is in a buffer twice (`Tables`);
`PrintedInOrder` itself, also for the connections of earlier runs; and, for each connection to this run
that has its ident to itself, a number n of records that the server has read.  The wire carries the
ids from n on without a gap (`Sent`); of those below n, each one above `done_` is in the pool or in the
buffer, none in the buffer is `done_ + 1` or less (`Held`), and those up to `done_` have been printed, the
first excepted (`Logged`).  A gap in the buffer is therefore always a record in the pool.  The
sorting of the records is an operator of its own, `InIdOrder`; `ListExists` shows that such a listing
exists, by the least counterexample, and `LogDoes` what a step of `log` does with it.

Reading the proofs: a lemma `NextX` shows that every step keeps the part `X`; its first step
disposes of the actions that leave the part's variables alone, the others follow one by
one.  The long actions have a lemma of their own that says what they do (`...Effect`).

Induction over data: the library's induction rules take an operator as a parameter, which the
provers cannot instantiate.  Where the proofs need induction they use its other form, a set of naturals
has a least member (`SmallestNat`, from the well-foundedness of `<`), and look at the least counterexample.

**Only model-checked:**
- Liveness (`NoGILDeadlock` is a liveness property, too): fairness and ENABLED are beyond the prover.
- `MemorySafe` and `PacketsIntact` of `Marshal`.  Their inductive strengthening says which bytes each
  chunk list stands for, a concatenation of slices of shared `raw_bytes` over a list of any length,
  and that cutting, copying and transferring chunks keeps it: for each operation an induction over data whose
  step concatenates sequences, and the size field (digits to a base) needs another.  The bound `MaxRaw`
  is also not a guard: a `raw_bytes` beyond it does not exist in the model, so that the
  statement is meant for a `MaxRaw` that is not reached, which TLC checks and a theorem would have to assume.

## 6. Known behaviours

What the code does, met while modelling, that a caller may not expect.  They are in the models
unless marked (read), and the properties are stated so that they hold with them; where a property says that something
happens in one place only, this list names the place.

- `Future`: `notify_ready` signals one of several waiters; a reply later than the timeout
  overwrites ETIMEDOUT (`rpc/client.cc:55`, `:179`).  A `wait()` that another thread's timeout lets
  go may return before ETIMEDOUT is stored (`AnswerOrTimeout`).  Two timeouts, or a timeout and
  the answer, run the callback twice.  The carry of `timed_wait`'s deadline is tested with `>`
  (`:29`): when the microseconds of the clock and the fraction in `sec` add up to exactly a
  second, `pthread_cond_timedwait` returns EINVAL and `verify(ret == 0)` (`:38`) aborts the process
  (`TimedWaitReturns`).  Each wake-up computes the deadline again, so that it moves away.
- `Client`: `begin_request` goes on using a future that `close()` on the poll thread may have
  failed and released (`rpc/client.cc:239`; `FreedOnlyInBegin`).  Two closers both call
  `::close(sock_)`.  A reply without a future leaves its payload in `in_`.  (read) `sock_` keeps its number
  after the close: in a process with other connections the second `::close`, or a `handle_read` or
  `handle_write` that tested `status_` before, may hit another one's descriptor, and the second
  `remove` may meet the `mode_` of the new owner, which its assert excludes (`rpc/polling.cc:268`).
  `Client` has one connection and `PollThread` one closer for each.  The abort of `timed_wait` is in
  `Future` only: the behaviours of `Client` are those without it.
- `Server`: `~Server` copies `sconns_` without references and calls `close()` on connections that
  a hang-up may have deleted (`rpc/server.cc:464`; `FreedOnlyByDtor`).  A socket accepted after
  `STOPPING` is leaked.
- `SparseInt`: i64 values of 50 to 56 bits lose their low byte (`base/basetypes.cc:158`;
  `RoundTripExceptBand8`).
- `PollThread`: the destructor erases from the set it iterates over.
- `ThreadPool(0)` traps in `run_async`.
- `RunLater` (`LostOnlyBy`): the carry of the deadline is tested with `>`, so that a deadline of
  exactly a second's worth of nanoseconds aborts (`base/threading.cc:236`); a job that calls
  `run_later` on its own object waits for the lock its thread holds (`:225`).  The deadline drops
  whole seconds, which costs early wake-ups and nothing else.
- `ClientPool`: `get_client` returns a cached client also when it is closed.  The UDP socket of
  a connected client is never closed (`ClientsAccounted`).
- UDP: a request that is too big stays in the client's buffer, so that all later ones are
  refused too (`DatagramsWhole`).  One `recvfrom` per edge leaves datagrams behind that arrived
  together, until the next edge.  `~Server` releases the thread pool before its poll thread, and
  `server_loop` closes the UDP socket before it removes the connection.  (read) `~Server` of a server
  with UDP enabled that was never started uses `udp_conn_`, which is still null (`rpc/server.cc:475`).
- `rlog`: `done_` starts at the id of the first record, so that this one may be printed after
  others (`PrintedInOrder`); the server keeps `done_` per ident, so that a source that starts
  again under its old ident on one server is not printed in order.
- Python: a handler already dispatched that waits for the GIL when its function is unregistered
  finds the lambda erased and the function freed (`pylib/simplerpc/server.py:71`; `caught` in
  `FreedFuncOnlyInFlight`); two
  threads that wait for one `Future` at once release it twice.  (read) `close()` releases the
  `rpc::Client` each time it is called, and a call after it uses the released client: neither looks
  at `self.closed` (`pylib/simplerpc/client.py:26`), so the model's program does neither.  `handlers_` has no
  lock: `unreg` may erase while the poll thread searches.  A handler that calls its
  own server waits forever; the reply's Marshal is leaked when the call failed.

## 7. What is not modelled

- `FutureGroup`: a vector of futures, waited for one after the other.
- `RLogServiceImpl::aggregate_qps`: statistics over floating-point wall-clock times, only logged.
- The conversions between Python values and `Marshal` in the bindings.
- The operators of `marshal.h` for containers: they write and read element by element.
- The kqueue branch of `PollThread` (not built on Linux) and `hash_fd` (it only selects a
  thread; equal descriptors go to the same one).
- `UnboundedBuffer`: a copy of `Marshal` that nothing uses.
- Lock and condition variable wrappers, `Counter`, `RefCounted`: primitives of the models.
- Logging, string helpers, unit test framework, socket helpers: sequential I/O.
- `simplerpcgen`: text to text.  What it generates is modelled where it runs (`__log__wrapper__`).

## 8. Plan

Done, in the order of importance: ThreadPool with Executor, Future, Client with RpcCall, PollThread,
SparseInt, Server, Marshal, RunLater, RLog, ClientPool with Udp, PyRpc; proofs for ThreadPool,
Future, PollThread, Client, Server, RunLater, ClientPool with Udp, PyRpc, RLog and SparseInt, the two refinements included.

Left: `MemorySafe` and `PacketsIntact` of `Marshal` for every length (section 5), the Python conversions
and the container operators of `marshal.h`, should they ever do more than walk over elements.
