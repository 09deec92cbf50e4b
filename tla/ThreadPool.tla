----------------------------- MODULE ThreadPool -----------------------------
(***************************************************************************)
(* base::ThreadPool (base/threading.{h,cc}): n_ worker threads, one        *)
(* blocking Queue per worker, work stealing, and a destructor that stops   *)
(* the workers with one death pill (a null job) per queue.                 *)
(*                                                                         *)
(* A job may submit further jobs while it runs; Submitter says which.  Top *)
(* level submissions come from threads that hold a reference to the pool,  *)
(* so they are over when the destructor starts.                            *)
(***************************************************************************)
EXTENDS Integers, Sequences

CONSTANTS
    n_,         \* number of workers (and queues)
    Jobs,       \* the jobs that may be submitted, each by one run_async call
    Nil,        \* a null job pointer: the death pill; also "no job"
    Owner,      \* the thread that runs ~ThreadPool
    Submitter,  \* Submitter[j]: the job that submits j while it runs, or Nil
    Channel     \* Channel[j]: the queuing_channel argument, -1 for the default

\* What the constructor's verify(n_ >= 0) admits, and distinct names.
ASSUME PoolAssumption ==
    /\ n_ \in Nat
    /\ Nil \notin Jobs
    /\ Owner \notin Nat
    /\ Submitter \in [Jobs -> Jobs \cup {Nil}]
    /\ Channel \in [Jobs -> Nat \cup {-1}]

Workers == 0 .. (n_ - 1)
Threads == Workers \cup {Owner}

VARIABLES
    q_,           \* q_[w]: the queue of worker w
    round_robin_, \* next queue for jobs submitted without a channel
    should_stop_, \* set by the destructor, read without a lock by run_async
    stage,        \* stage[w]: where worker w is in run_thread
    victims,      \* victims[w]: queues worker w has still to try in stage 3
    job,          \* job[t]: the job thread t is executing, or Nil
    call,         \* call[j]: progress of the run_async call that submits j
    runs,         \* runs[j]: how often j was started (history)
    dtor,         \* phase of ~ThreadPool
    i             \* the destructor's loop index

vars == <<q_, round_robin_, should_stop_, stage, victims, job, call, runs, dtor, i>>

\* stage of run_thread; asleep = inside pthread_cond_wait of Queue::pop.
Stages == {"0", "1", "2", "3", "4", "asleep", "run", "exit"}
Calls  == {"none", "checked", "ok", "EPERM", "SIGFPE"}
Phases == {"alive", "pills", "join", "drain", "gone"}

Init == /\ q_ = [w \in Workers |-> <<>>]
        /\ round_robin_ = 0
        /\ should_stop_ = FALSE
        /\ stage = [w \in Workers |-> "0"]
        /\ victims = [w \in Workers |-> {}]
        /\ job = [t \in Threads |-> Nil]
        /\ call = [j \in Jobs |-> "none"]
        /\ runs = [j \in Jobs |-> 0]
        /\ dtor = "alive"
        /\ i = 0

-----------------------------------------------------------------------------
(* Queue<T>: each method is one critical section of the queue's mutex.     *)

\* push: append and signal not_empty_; only the owner of a queue blocks on it.
Push(w, e) == /\ q_' = [q_ EXCEPT ![w] = Append(@, e)]
              /\ stage' = [stage EXCEPT ![w] = IF @ = "asleep" THEN "4" ELSE @]

\* Mutant: stage 3 with try_pop, which takes death pills too.
StealablePills(v) == q_[v] # <<>>

\* What try_pop_but_ignore(&job, nullptr) takes from.
Stealable(v) == q_[v] # <<>> /\ Head(q_[v]) # Nil

\* Pop the front of v's queue into worker w, which leaves its loop on a null
\* job and otherwise starts the job.
Take(w, v) ==
    LET e == Head(q_[v]) IN
    /\ q_' = [q_ EXCEPT ![v] = Tail(@)]
    /\ IF e = Nil
       THEN /\ stage' = [stage EXCEPT ![w] = "exit"]
            /\ UNCHANGED <<job, runs>>
       ELSE /\ stage' = [stage EXCEPT ![w] = "run"]
            /\ job' = [job EXCEPT ![w] = e]
            /\ runs' = [runs EXCEPT ![e] = @ + 1]

-----------------------------------------------------------------------------
(* run_async                                                               *)

InProgress(j) == call[j] = "checked"

\* A thread inside (*job)() calls run_async for one of the jobs it submits.
MaySubmit(j) ==
    /\ call[j] = "none"
    /\ IF Submitter[j] = Nil
       THEN dtor = "alive"
       ELSE /\ \E t \in Threads : job[t] = Submitter[j]
            /\ \A k \in Jobs : Submitter[k] = Submitter[j] => ~InProgress(k)

\* Mutant: a pool with a backlog refuses jobs.
RunAsyncBusy(j) ==
    /\ MaySubmit(j)
    /\ call' = [call EXCEPT ![j] = IF should_stop_ \/ \E w \in Workers : q_[w] # <<>>
                                   THEN "EPERM" ELSE "checked"]
    /\ UNCHANGED <<q_, round_robin_, should_stop_, stage, victims, job, runs, dtor, i>>

\* The unlocked test of should_stop_.
RunAsync(j) ==
    /\ MaySubmit(j)
    /\ call' = [call EXCEPT ![j] = IF should_stop_ THEN "EPERM" ELSE "checked"]
    /\ UNCHANGED <<q_, round_robin_, should_stop_, stage, victims, job, runs, dtor, i>>

QueueId(j) == (IF Channel[j] >= 0 THEN Channel[j] ELSE round_robin_) % n_

\* Mutant: the push does not signal not_empty_.
EnqueueSilently(j) ==
    /\ InProgress(j)
    /\ round_robin_' = IF Channel[j] >= 0 THEN round_robin_ ELSE round_robin_ + 1
    /\ call' = [call EXCEPT ![j] = "ok"]
    /\ q_' = [q_ EXCEPT ![QueueId(j)] = Append(@, j)]
    /\ UNCHANGED <<stage, should_stop_, victims, job, runs, dtor, i>>

\* Choosing the queue and pushing; with n_ = 0 the remainder traps.
Enqueue(j) ==
    /\ InProgress(j)
    /\ round_robin_' = IF Channel[j] >= 0 THEN round_robin_ ELSE round_robin_ + 1
    /\ IF n_ = 0
       THEN /\ call' = [call EXCEPT ![j] = "SIGFPE"]
            /\ UNCHANGED <<q_, stage>>
       ELSE /\ call' = [call EXCEPT ![j] = "ok"]
            /\ Push(QueueId(j), j)
    /\ UNCHANGED <<should_stop_, victims, job, runs, dtor, i>>

-----------------------------------------------------------------------------
(* run_thread, one action per stage                                        *)

\* The queues a worker steals from.
Others(w) == Workers \ {w}

\* Stages 0 and 2: try_pop on the worker's own queue.
TryPop(w) ==
    /\ stage[w] \in {"0", "2"}
    /\ IF q_[w] # <<>>
       THEN Take(w, w) /\ UNCHANGED victims
       ELSE /\ stage' = [stage EXCEPT ![w] = IF @ = "0" THEN "1" ELSE "3"]
            /\ victims' = [victims EXCEPT ![w] =
                             IF stage[w] = "2" THEN Others(w) ELSE {}]
            /\ UNCHANGED <<q_, job, runs>>
    /\ UNCHANGED <<round_robin_, should_stop_, call, dtor, i>>

\* Stage 1: nanosleep.
Sleep(w) ==
    /\ stage[w] = "1"
    /\ stage' = [stage EXCEPT ![w] = "2"]
    /\ UNCHANGED <<q_, round_robin_, should_stop_, victims, job, call, runs, dtor, i>>

\* Stage 3, one iteration of the steal loop: the order is a random permutation.
Steal(w) ==
    /\ stage[w] = "3"
    /\ \E v \in victims[w] :
         IF Stealable(v)
         THEN Take(w, v) /\ victims' = [victims EXCEPT ![w] = {}]
         ELSE /\ victims' = [victims EXCEPT ![w] = @ \ {v}]
              /\ UNCHANGED <<q_, stage, job, runs>>
    /\ UNCHANGED <<round_robin_, should_stop_, call, dtor, i>>

\* Stage 3, loop exhausted without a job.
GiveUpStealing(w) ==
    /\ stage[w] = "3"
    /\ victims[w] = {}
    /\ stage' = [stage EXCEPT ![w] = "4"]
    /\ UNCHANGED <<q_, round_robin_, should_stop_, victims, job, call, runs, dtor, i>>

\* Mutant: the blocking pop also ignores null jobs.
PopIgnoringPills(w) ==
    /\ stage[w] = "4"
    /\ IF Stealable(w)
       THEN Take(w, w)
       ELSE /\ stage' = [stage EXCEPT ![w] = IF q_[w] = <<>> THEN "asleep" ELSE "4"]
            /\ UNCHANGED <<q_, job, runs>>
    /\ UNCHANGED <<round_robin_, should_stop_, victims, call, dtor, i>>

\* Stage 4: the blocking pop, which sleeps on an empty queue and tests again
\* when a push has signalled.
Pop(w) ==
    /\ stage[w] = "4"
    /\ IF q_[w] # <<>>
       THEN Take(w, w)
       ELSE /\ stage' = [stage EXCEPT ![w] = "asleep"]
            /\ UNCHANGED <<q_, job, runs>>
    /\ UNCHANGED <<round_robin_, should_stop_, victims, call, dtor, i>>

\* (*job)() returns, its own run_async calls having returned before.
JobReturns(t) ==
    /\ job[t] # Nil
    /\ \A j \in Jobs : Submitter[j] = job[t] => ~InProgress(j)
    /\ job' = [job EXCEPT ![t] = Nil]
    /\ stage' = [w \in Workers |-> IF w = t THEN "0" ELSE stage[w]]
    /\ UNCHANGED <<q_, round_robin_, should_stop_, victims, call, runs, dtor, i>>

-----------------------------------------------------------------------------
(* ~ThreadPool                                                             *)

\* The last reference is released: every top-level run_async has returned.
Destroy ==
    /\ dtor = "alive"
    /\ \A j \in Jobs : Submitter[j] = Nil => ~InProgress(j)
    /\ dtor' = "pills"
    /\ should_stop_' = TRUE
    /\ UNCHANGED <<q_, round_robin_, stage, victims, job, call, runs, i>>

NextPhase(from, to) == /\ dtor = from
                       /\ i = n_
                       /\ dtor' = to
                       /\ i' = 0
                       /\ UNCHANGED <<q_, round_robin_, should_stop_, stage,
                                      victims, job, call, runs>>

PushPill ==
    /\ dtor = "pills"
    /\ i < n_
    /\ Push(i, Nil)
    /\ i' = i + 1
    /\ UNCHANGED <<round_robin_, should_stop_, victims, job, call, runs, dtor>>

Join ==
    /\ dtor = "join"
    /\ i < n_
    /\ stage[i] = "exit"
    /\ i' = i + 1
    /\ UNCHANGED <<q_, round_robin_, should_stop_, stage, victims, job, call, runs, dtor>>

\* Mutant: the destructor deletes left-over jobs without executing them.
DrainDropping ==
    /\ dtor = "drain"
    /\ i < n_
    /\ q_' = [q_ EXCEPT ![i] = <<>>]
    /\ i' = i + 1
    /\ UNCHANGED <<round_robin_, should_stop_, stage, victims, job, call, runs, dtor>>

\* The left-over loop: try_pop until the queue is empty, executing each job.
Drain ==
    /\ dtor = "drain"
    /\ i < n_
    /\ job[Owner] = Nil
    /\ IF q_[i] = <<>>
       THEN /\ i' = i + 1
            /\ UNCHANGED <<q_, job, runs>>
       ELSE LET e == Head(q_[i]) IN
            /\ q_' = [q_ EXCEPT ![i] = Tail(@)]
            /\ IF e = Nil
               THEN UNCHANGED <<job, runs>>
               ELSE /\ job' = [job EXCEPT ![Owner] = e]
                    /\ runs' = [runs EXCEPT ![e] = @ + 1]
            /\ UNCHANGED i
    /\ UNCHANGED <<round_robin_, should_stop_, stage, victims, call, dtor>>

\* The pool is gone; nothing happens any more.
Terminated == dtor = "gone" /\ UNCHANGED vars

Dtor == \/ PushPill \/ Join \/ Drain
        \/ NextPhase("pills", "join")
        \/ NextPhase("join", "drain")
        \/ NextPhase("drain", "gone")

Worker(w) == \/ TryPop(w) \/ Sleep(w) \/ Steal(w) \/ GiveUpStealing(w) \/ Pop(w)

Next == \/ \E j \in Jobs : RunAsync(j) \/ Enqueue(j)
        \/ \E w \in Workers : Worker(w)
        \/ \E t \in Threads : JobReturns(t)
        \/ Destroy
        \/ Dtor
        \/ Terminated

\* Every thread that can take a step eventually takes one, and jobs return;
\* nobody has to submit a job or to destroy the pool.
Fairness == /\ \A j \in Jobs : WF_vars(Enqueue(j))
            /\ \A w \in Workers : WF_vars(Worker(w))
            /\ \A t \in Threads : WF_vars(JobReturns(t))
            /\ WF_vars(Dtor)

Spec == Init /\ [][Next]_vars
FairSpec == Spec /\ Fairness

-----------------------------------------------------------------------------
(* Properties                                                              *)

\* The types of the pool's fields and of every thread's local state.
TypeOK ==
    /\ q_ \in [Workers -> Seq(Jobs \cup {Nil})]
    /\ round_robin_ \in Nat
    /\ should_stop_ \in BOOLEAN
    /\ stage \in [Workers -> Stages]
    /\ victims \in [Workers -> SUBSET Workers]
    /\ job \in [Threads -> Jobs \cup {Nil}]
    /\ call \in [Jobs -> Calls]
    /\ runs \in [Jobs -> Nat]
    /\ dtor \in Phases
    /\ i \in 0 .. n_

PillsIn(w) == {k \in DOMAIN q_[w] : q_[w][k] = Nil}

\* The death pill pushed to a queue stays there until that queue's own worker
\* takes it: no thief takes it ("otherwise they won't die", run_thread stage
\* 3) and no worker dies of anything else, so a pill is in the queue exactly
\* from its push until its worker leaves run_thread.
OwnPillOnly ==
    \A w \in Workers :
        LET pushed == dtor \in {"join", "drain", "gone"} \/ (dtor = "pills" /\ w < i)
        IN  /\ PillsIn(w) # {} <=> (pushed /\ stage[w] # "exit")
            /\ stage[w] = "exit" => pushed

\* run_async's answer is kept: when the destructor has returned, the jobs that
\* were started are those whose run_async returned 0, each started once and
\* completed, although some were queued behind a death pill; and no run_async
\* call is still about to push to the deleted queues.
AnswersKept ==
    /\ \A j \in Jobs : runs[j] <= (IF call[j] = "ok" THEN 1 ELSE 0)
    /\ dtor = "gone" => \A j \in Jobs : /\ call[j] = "ok" => runs[j] = 1
                                        /\ ~InProgress(j)
                                        /\ \A t \in Threads : job[t] # j

\* A job accepted by run_async is started even if the pool is never destroyed
\* and every other worker stays blocked in pop on its own queue.
AcceptedRuns == \A j \in Jobs : call[j] = "ok" ~> runs[j] = 1

\* ~ThreadPool returns: each worker gets its pill and is joined.
DtorReturns == dtor = "pills" ~> dtor = "gone"

\* The refinement mapping to the promise of Executor.
JobStatus(j) ==
    CASE call[j] \in {"none", "checked", "SIGFPE"} -> "none"
      [] call[j] = "EPERM" -> "rejected"
      [] OTHER -> IF runs[j] = 0 THEN "accepted"
                  ELSE IF \E t \in Threads : job[t] = j THEN "started" ELSE "finished"

PoolStatus == IF dtor = "alive" THEN "open"
              ELSE IF dtor = "gone" THEN "gone" ELSE "stopping"

Promise == INSTANCE Executor WITH status <- [j \in Jobs |-> JobStatus(j)],
                                  pool <- PoolStatus

\* The pool with its queues, stealing and pills implements Executor.
ImplementsExecutor == Promise!Spec
=============================================================================
