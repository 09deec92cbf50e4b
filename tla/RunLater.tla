------------------------------ MODULE RunLater ------------------------------
(***************************************************************************)
(* base::RunLater (base/threading.cc): one thread that runs jobs when      *)
(* their time has come, and drains them on destruction.                    *)
(*                                                                         *)
(* Time is counted in ticks, Second of them to a second; a tick stands for *)
(* tv_usec and tv_nsec alike.  m_ is held across steps only while a job    *)
(* runs; every other critical section is one step.  Callers own a          *)
(* reference, so that the destructor meets no call in progress but that of *)
(* a job.                                                                  *)
(***************************************************************************)
EXTENDS Integers, Sequences

CONSTANTS
    Jobs,          \* the functions passed to run_later, once each
    Reschedules,   \* the jobs that call run_later themselves
    Pill,          \* the null function of the destructor's entry
    Second,        \* ticks in a second
    Delays,        \* the values of run_later's first argument
    MaxTime        \* bound: the clock stops here

ASSUME RunLaterAssumption ==
    /\ Reschedules \subseteq Jobs /\ Pill \notin Jobs
    /\ Second \in Nat \ {0} /\ MaxTime \in Nat /\ Delays \subseteq Nat

VARIABLES
    now,
    should_stop_,
    latest_,
    jobs_,         \* the priority queue: pairs <<time, function>>
    call,          \* call[j]: how far run_later(j) has got
    later,         \* later[j]: the local of that name
    loop,          \* where the thread is
    until,         \* the deadline of its condition wait
    ran,           \* the jobs that have run, in order
    dtor           \* phase of ~RunLater

caller == <<latest_, call, later>>
thread == <<loop, until, ran>>
owner  == <<should_stop_, dtor>>
vars   == <<now, jobs_, caller, thread, owner>>

Forever == MaxTime + 1     \* pthread_cond_wait has no deadline

Init == /\ now = 0 /\ jobs_ = {}
        /\ latest_ = 0 /\ call = [j \in Jobs |-> "none"] /\ later = [j \in Jobs |-> 0]
        /\ loop = "top" /\ until = Forever /\ ran = <<>>
        /\ should_stop_ = FALSE /\ dtor = "alive"

Tick == /\ now < MaxTime
        /\ now' = now + 1
        /\ UNCHANGED <<jobs_, caller, thread, owner>>

\* Whoever wants m_ waits while a job runs, forever if the job itself wants it;
\* and nobody does anything in a process that has aborted.
mFree == loop \notin {"run", "stuck", "aborted"}

\* Mutant: only the first job of an empty queue is announced.
SignalFirst == loop' = IF loop = "wait" /\ jobs_ = {} THEN "top" ELSE loop

\* pthread_cond_signal, with m_ held: a waiting thread goes on.
Signal == loop' = IF loop = "wait" THEN "top" ELSE loop

-----------------------------------------------------------------------------
(* run_later, called by a thread other than RunLater's                     *)

\* should_stop_ is not set: the caller holds a reference.
Begin(j, sec) ==
    /\ dtor = "alive" /\ loop # "aborted"
    /\ call[j] = "none" /\ now + sec < MaxTime
    /\ later' = [later EXCEPT ![j] = now + sec]
    /\ call' = [call EXCEPT ![j] = "latest"]
    /\ UNCHANGED <<now, latest_, jobs_, thread, owner>>

\* Mutant: the last call wins.
LastLatest(l) == l

\* "if (later > latest_) latest_ = later", under latest_l_
NewLatest(l) == IF l > latest_ THEN l ELSE latest_

SetLatest(j) ==
    /\ call[j] = "latest" /\ loop # "aborted"
    /\ latest_' = NewLatest(later[j])
    /\ call' = [call EXCEPT ![j] = "push"]
    /\ UNCHANGED <<now, jobs_, later, thread, owner>>

Push(j) ==
    /\ call[j] = "push" /\ mFree
    /\ jobs_' = jobs_ \cup {<<later[j], j>>}
    /\ Signal
    /\ call' = [call EXCEPT ![j] = "returned"]
    /\ UNCHANGED <<now, latest_, later, until, ran, owner>>

-----------------------------------------------------------------------------
(* run_later_loop and try_one_job                                          *)

Due(e) == e[1] < now

\* jobs_.top(): equal times are ordered by the functions' addresses.
Top(e) == e \in jobs_ /\ \A f \in jobs_ : e[1] <= f[1]

\* "while (!should_stop_)", and afterwards the test for an empty queue that ends
\* the draining; should_stop_ is never cleared, so the loop does not come back.
Continue ==
    /\ loop = "top" /\ (should_stop_ => jobs_ # {}) /\ loop' = "try"
    /\ UNCHANGED <<now, jobs_, caller, until, ran, owner>>

\* Mutant: the thread leaves at once when told to stop.
ExitUndrained ==
    /\ loop = "top" /\ should_stop_ /\ loop' = "exited"
    /\ UNCHANGED <<now, jobs_, caller, until, ran, owner>>

Exit ==
    /\ loop = "top" /\ should_stop_ /\ jobs_ = {} /\ loop' = "exited"
    /\ UNCHANGED <<now, jobs_, caller, until, ran, owner>>

WaitForJob ==
    /\ loop = "try" /\ jobs_ = {}
    /\ loop' = "wait" /\ until' = Forever
    /\ UNCHANGED <<now, jobs_, caller, ran, owner>>

TakePill ==
    /\ loop = "try"
    /\ \E e \in jobs_ : /\ Top(e) /\ Due(e) /\ e[2] = Pill
                        /\ jobs_' = jobs_ \ {e}
    /\ loop' = "top"
    /\ UNCHANGED <<now, caller, until, ran, owner>>

\* The job starts, and m_ stays locked until it has returned.
StartJob ==
    /\ loop = "try"
    /\ \E e \in jobs_ : /\ Top(e) /\ Due(e) /\ e[2] # Pill
                        /\ ran' = Append(ran, e[2])
    /\ loop' = "run"
    /\ UNCHANGED <<now, jobs_, caller, until, owner>>

Running == ran[Len(ran)]

\* It returns, and is popped; a run_later that it calls returns EPERM while the
\* destructor is at work.
EndJob ==
    /\ loop = "run" /\ (Running \in Reschedules => should_stop_)
    /\ jobs_' = {e \in jobs_ : e[2] # Running}
    /\ loop' = "top"
    /\ UNCHANGED <<now, caller, until, ran, owner>>

\* Otherwise that run_later locks m_ a second time.
CallsRunLater ==
    /\ loop = "run" /\ Running \in Reschedules /\ ~should_stop_
    /\ \E sec \in Delays : latest_' = NewLatest(now + sec)
    /\ loop' = "stuck"
    /\ UNCHANGED <<now, jobs_, call, later, until, ran, owner>>

\* tv_nsec of abstime before the carry: the whole seconds of the wait are left out.
Nanos(wait) == (now % Second) + (wait % Second)

\* Mutant: nanoseconds are never carried over to the seconds.
InvalidUncarried(wait) == Nanos(wait) >= Second

\* The carry is tested with ">": exactly 10^9 nanoseconds are left, which
\* pthread_cond_timedwait refuses with EINVAL, and the verify aborts.
Invalid(wait) == Nanos(wait) = Second

WaitForTime ==
    /\ loop = "try"
    /\ \E e \in jobs_ :
        /\ Top(e) /\ ~Due(e)
        /\ loop' = IF Invalid(e[1] - now) THEN "aborted" ELSE "wait"
        /\ until' = now - (now % Second) + Nanos(e[1] - now)
    /\ UNCHANGED <<now, jobs_, caller, ran, owner>>

TimedOut ==
    /\ loop = "wait" /\ now >= until /\ loop' = "top"
    /\ UNCHANGED <<now, jobs_, caller, until, ran, owner>>

-----------------------------------------------------------------------------
(* ~RunLater                                                               *)

Stop ==
    /\ dtor = "alive" /\ loop # "aborted"
    /\ \A j \in Jobs : call[j] \in {"none", "returned"}
    /\ should_stop_' = TRUE /\ dtor' = "stopping"
    /\ UNCHANGED <<now, jobs_, caller, thread>>

\* The death pill's time is long past.
PushPill ==
    /\ dtor = "stopping" /\ mFree
    /\ jobs_' = jobs_ \cup {<<-1, Pill>>}
    /\ Signal /\ dtor' = "joining"
    /\ UNCHANGED <<now, should_stop_, caller, until, ran>>

Joined ==
    /\ dtor = "joining" /\ loop = "exited" /\ dtor' = "gone"
    /\ UNCHANGED <<now, should_stop_, jobs_, caller, thread>>

-----------------------------------------------------------------------------

Thread == \/ Continue \/ Exit \/ WaitForJob \/ TakePill \/ StartJob \/ EndJob
          \/ CallsRunLater \/ WaitForTime \/ TimedOut
Caller(j) == SetLatest(j) \/ Push(j)
Dtor == PushPill \/ Joined

Next == \/ Tick \/ Thread
        \/ \E j \in Jobs : Caller(j) \/ \E sec \in Delays : Begin(j, sec)
        \/ Stop \/ Dtor

\* Time passes, and the operating system runs every thread; nobody has to call
\* run_later or to destroy the object, and jobs return.
Fairness == /\ WF_vars(Tick) /\ WF_vars(Thread) /\ WF_vars(Dtor)
            /\ \A j \in Jobs : WF_vars(Caller(j))

Spec == Init /\ [][Next]_vars
FairSpec == Spec /\ Fairness

-----------------------------------------------------------------------------
(* Properties                                                              *)

\* The types of the object's fields and of the threads' state.
TypeOK ==
    /\ now \in 0 .. MaxTime /\ should_stop_ \in BOOLEAN
    /\ latest_ \in Nat
    /\ jobs_ \subseteq (Int \X (Jobs \cup {Pill}))
    /\ call \in [Jobs -> {"none", "latest", "push", "returned"}]
    /\ later \in [Jobs -> Nat]
    /\ loop \in {"top", "try", "wait", "run", "stuck", "aborted", "exited"}
    /\ until \in Int
    /\ ran \in Seq(Jobs)
    /\ dtor \in {"alive", "stopping", "joining", "gone"}

\* The thread never sleeps past the time of a queued job: the whole seconds that
\* the deadline drops only wake it early, and every job pushed while it sleeps,
\* which may be earlier than the one it sleeps for, wakes it, as does the pill.
NeverOversleeps == loop = "wait" => \A e \in jobs_ : until <= e[1]

\* max_wait() is enough: no job waits in the queue, or is about to be pushed,
\* for a time after latest_.
LatestCoversJobs ==
    /\ \A e \in jobs_ : e[1] <= latest_
    /\ \A j \in Jobs : call[j] = "push" => later[j] <= latest_

\* The thread is lost in two ways only: the verify of pthread_cond_timedwait fails
\* when the time of a queued job is a whole second, and a job that calls
\* run_later on the object that runs it locks m_ twice.
LostOnlyBy ==
    /\ loop = "aborted" => \E e \in jobs_ : e[1] % Second = 0
    /\ loop = "stuck" => Running \in Reschedules

\* The three together: no job is forgotten, or the thread lost, in a way not named here.
NothingForgotten == TypeOK /\ LatestCoversJobs /\ LostOnlyBy

Lost == loop \in {"aborted", "stuck"}

\* Unless the thread is lost so, a job whose run_later has returned 0 runs, the
\* destructor's draining included, and the destructor returns.
JobsRunAndDtorReturns ==
    /\ \A j \in Jobs : call[j] = "returned" ~> ((\E k \in DOMAIN ran : ran[k] = j) \/ Lost)
    /\ dtor = "stopping" ~> (dtor = "gone" \/ Lost)
=============================================================================
