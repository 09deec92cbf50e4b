------------------------------- MODULE Future -------------------------------
(***************************************************************************)
(* One rpc::Future (rpc/client.{h,cc}): threads blocked in wait() or       *)
(* timed_wait() on its condition variable, and the one thread that removed *)
(* it from pending_fu_ and delivers the answer (handle_read, or            *)
(* invalidate_pending_futures with ENOTCONN).  Each action is one critical *)
(* section of ready_m_ or one of the unlocked accesses around it.          *)
(*                                                                         *)
(* Time is counted in ticks.  The clock shows only the fraction of the     *)
(* second (gettimeofday's tv_usec), because that is what the arithmetic of *)
(* timed_wait's deadline depends on; remaining[t] counts down to it.       *)
(***************************************************************************)
EXTENDS Naturals

CONSTANTS
    Waiters,       \* threads that call wait()
    TimedWaiters,  \* threads that call timed_wait()
    Answer,        \* the error code delivered: the server's, or ENOTCONN
    Second,        \* ticks in a second
    Sec,           \* Sec[t]: the argument of t's timed_wait, in ticks
    MaxSpurious    \* bound: wake-ups without a signal

ASSUME FutureAssumption ==
    /\ Waiters \cap TimedWaiters = {}
    /\ Answer # "ETIMEDOUT"
    /\ Second \in Nat \ {0}
    /\ Sec \in [TimedWaiters -> Nat]
    /\ MaxSpurious \in Nat

Callers == Waiters \cup TimedWaiters

VARIABLES
    ready_,
    timed_out_,
    error_code_,
    pc,          \* pc[t]: where caller t is in wait() or timed_wait()
    deliverer,   \* where the delivering thread is
    callbacks,   \* how often attr_.callback was invoked (history)
    now,         \* the clock's fraction of a second
    remaining,   \* remaining[t]: ticks until the deadline that t sleeps for
    spurious     \* wake-ups without a signal so far

state == <<ready_, timed_out_, error_code_, deliverer, callbacks>>
time == <<now, remaining, spurious>>
futurevars == <<state, pc, time>>

\* asleep: in pthread_cond_[timed]wait; signalled: woken, mutex not yet taken;
\* expired: the deadline passed, mutex not yet taken; left: out of the loop;
\* aborted: verify(ret == 0) failed, the end of the process.
WaitPlaces == {"call", "asleep", "signalled", "expired", "left", "late", "done", "aborted"}

FutureInit ==
    /\ ready_ = FALSE
    /\ timed_out_ = FALSE
    /\ error_code_ = "0"
    /\ pc = [t \in Callers |-> "call"]
    /\ deliverer = "start"
    /\ callbacks = 0
    /\ now \in 0 .. Second - 1
    /\ remaining = Sec
    /\ spurious = 0

Goto(t, place) == pc' = [pc EXCEPT ![t] = place]

Alive == \A t \in Callers : pc[t] # "aborted"

\* The loop test, on entry and after a wake-up, with ready_m_ held ...
ExitLoop(t) ==
    /\ pc[t] \in {"call", "signalled"}
    /\ ready_ \/ timed_out_
    /\ Goto(t, "left")
    /\ UNCHANGED <<state, time>>

Repeat(t) == pc[t] \in {"call", "signalled"} /\ ~ready_ /\ ~timed_out_

\* ... and the loop's body in wait() ...
CondWait(t) ==
    /\ t \in Waiters
    /\ Repeat(t)
    /\ Goto(t, "asleep")
    /\ UNCHANGED <<state, time>>

\* The deadline is a whole second that the carry, which tests for >, leaves in
\* tv_nsec: 10^9 is no valid number of nanoseconds.
Uncarried(t) == now + (Sec[t] % Second) = Second

\* ... and in timed_wait(), which computes a new deadline in every turn.  For an
\* invalid one pthread_cond_timedwait returns EINVAL and verify(ret == 0) fails.
CondTimedwait(t) ==
    /\ t \in TimedWaiters
    /\ Repeat(t)
    /\ IF Uncarried(t)
       THEN Goto(t, "aborted") /\ UNCHANGED remaining
       ELSE Goto(t, "asleep") /\ remaining' = [remaining EXCEPT ![t] = Sec[t]]
    /\ UNCHANGED <<state, now, spurious>>

\* pthread_cond_timedwait reaches its deadline and queues for the mutex.
Expire(t) ==
    /\ Alive
    /\ t \in TimedWaiters
    /\ pc[t] = "asleep"
    /\ remaining[t] = 0
    /\ Goto(t, "expired")
    /\ UNCHANGED <<state, time>>

\* A condition wait may return without a signal.
WakeUp(t) ==
    /\ Alive
    /\ pc[t] = "asleep"
    /\ spurious < MaxSpurious
    /\ spurious' = spurious + 1
    /\ Goto(t, "signalled")
    /\ UNCHANGED <<state, now, remaining>>

Tick ==
    /\ Alive
    /\ now' = (now + 1) % Second
    /\ remaining' = [t \in TimedWaiters |->
                       IF remaining[t] > 0 THEN remaining[t] - 1 ELSE 0]
    /\ UNCHANGED <<state, pc, spurious>>

\* Mutant: the return code of pthread_cond_timedwait is ignored.
SetTimedOutIgnored(t) ==
    /\ pc[t] = "expired"
    /\ Goto(t, "signalled")
    /\ UNCHANGED <<state, time>>

\* ... and returns ETIMEDOUT, whatever happened to ready_ in between.
SetTimedOut(t) ==
    /\ pc[t] = "expired"
    /\ timed_out_' = TRUE
    /\ Goto(t, "left")
    /\ UNCHANGED <<ready_, error_code_, deliverer, callbacks, time>>

\* After the unlock: wait() returns, timed_wait() tests timed_out_ unlocked.
Leave(t) ==
    /\ pc[t] = "left"
    /\ IF t \in TimedWaiters /\ timed_out_
       THEN error_code_' = "ETIMEDOUT" /\ Goto(t, "late")
       ELSE UNCHANGED error_code_ /\ Goto(t, "done")
    /\ UNCHANGED <<ready_, timed_out_, deliverer, callbacks, time>>

\* Mutant: only notify_ready invokes the callback.
NoLateCallback(t) ==
    /\ pc[t] = "late"
    /\ Goto(t, "done")
    /\ UNCHANGED <<state, time>>

\* The callback after a timeout, also without the mutex.
LateCallback(t) ==
    /\ pc[t] = "late"
    /\ callbacks' = callbacks + 1
    /\ Goto(t, "done")
    /\ UNCHANGED <<ready_, timed_out_, error_code_, deliverer, time>>

\* Mutant: the error code is not stored.
DeliverNothing ==
    /\ deliverer = "start"
    /\ deliverer' = "delivered"
    /\ UNCHANGED <<ready_, timed_out_, error_code_, pc, callbacks, time>>

\* error_code_ (and reply_) are written before notify_ready, without a lock.
Deliver ==
    /\ deliverer = "start"
    /\ error_code_' = Answer
    /\ deliverer' = "delivered"
    /\ UNCHANGED <<ready_, timed_out_, pc, callbacks, time>>

\* pthread_cond_signal wakes one of the sleeping threads, if there is one.
Signal == IF \E t \in Callers : pc[t] = "asleep"
          THEN \E t \in Callers : pc[t] = "asleep" /\ Goto(t, "signalled")
          ELSE UNCHANGED pc

notify_ready ==
    /\ deliverer = "delivered"
    /\ ready_' = (ready_ \/ ~timed_out_)
    /\ Signal
    /\ deliverer' = "notified"
    /\ UNCHANGED <<timed_out_, error_code_, callbacks, time>>

ReadyCallback ==
    /\ deliverer = "notified"
    /\ callbacks' = IF ready_ THEN callbacks + 1 ELSE callbacks
    /\ deliverer' = "done"
    /\ UNCHANGED <<ready_, timed_out_, error_code_, pc, time>>

\* An aborted process does nothing more.
Caller(t) == Alive /\ \/ ExitLoop(t) \/ CondWait(t) \/ CondTimedwait(t)
                      \/ SetTimedOut(t) \/ Leave(t) \/ LateCallback(t)
Notifier == Alive /\ (notify_ready \/ ReadyCallback)

FutureNext == \/ \E t \in Callers : Caller(t) \/ Expire(t) \/ WakeUp(t)
              \/ Alive /\ Deliver
              \/ Notifier
              \/ Tick

\* Threads run, the clock advances; the answer itself may never come.
Fairness == /\ \A t \in Callers : WF_futurevars(Caller(t)) /\ WF_futurevars(Expire(t))
            /\ WF_futurevars(Notifier)
            /\ WF_futurevars(Tick)

FutureSpec == FutureInit /\ [][FutureNext]_futurevars
FairSpec == FutureSpec /\ Fairness

-----------------------------------------------------------------------------
(* Properties                                                              *)

\* The types of the future's fields and of its callers' program counters.
TypeOK == /\ ready_ \in BOOLEAN
          /\ timed_out_ \in BOOLEAN
          /\ error_code_ \in {"0", "ETIMEDOUT", Answer}
          /\ pc \in [Callers -> WaitPlaces]
          /\ deliverer \in {"start", "delivered", "notified", "done"}
          /\ callbacks \in Nat
          /\ now \in 0 .. Second - 1
          /\ remaining \in [TimedWaiters -> Nat]
          /\ spurious \in 0 .. MaxSpurious

\* A call that came back leaves either the delivered code or, if some timed_wait
\* gave up, ETIMEDOUT; never the initial code.  The exception is a wait() that
\* leaves because of another thread's timeout: error_code_ is written only after
\* the mutex is given back, and wait() may be faster.
AnswerOrTimeout ==
    \A t \in Callers : pc[t] \in {"late", "done"} =>
        \/ deliverer # "start" /\ error_code_ = Answer
        \/ timed_out_ /\ (error_code_ = "ETIMEDOUT" \/ t \in Waiters)

\* Every call has returned and the future has been delivered.
Quiet == deliverer = "done" /\ \A t \in Callers : pc[t] = "done"

\* The user's callback is never lost, whoever wins the race between the answer
\* and the deadline: with everybody back and the answer delivered it has run,
\* and only a timeout can make it run more than once.
CallbackRan == Quiet => callbacks > 0 /\ (~timed_out_ => callbacks = 1)

\* timed_wait returns even if no answer ever comes and wake-ups make it compute
\* its deadline again.  Only one thing prevents it: a fraction of a second in the
\* argument of some timed_wait that brings its deadline to a whole second, which
\* ends the process.
TimedWaitReturns ==
    \A t \in TimedWaiters :
        <>(\/ pc[t] = "done"
           \/ \E u \in TimedWaiters : /\ pc[u] = "aborted"
                                      /\ Sec[u] % Second # 0
                                      /\ (now + Sec[u]) % Second = 0)
=============================================================================
