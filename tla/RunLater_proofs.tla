--------------------------- MODULE RunLater_proofs --------------------------
(***************************************************************************)
(* Proofs about RunLater, for any jobs, delays and length of a second: the *)
(* thread is lost in the known ways only, latest_ covers the queue, and    *)
(* the thread never sleeps past the time of a queued job.                  *)
(***************************************************************************)
EXTENDS RunLater, TLAPS

\* The inductive invariant.
IInv == NothingForgotten /\ NeverOversleeps

USE RunLaterAssumption DEF caller, thread, owner

\* The remainders of two numbers add up to the divisor only if it divides their sum.
LEMMA WholeSecond ==
    ASSUME NEW t \in Int, NEW n \in Nat, (n % Second) + ((t - n) % Second) = Second
    PROVE  t % Second = 0
<1> DEFINE q == (n \div Second) + ((t - n) \div Second) + 1
<1>1. Second \in Int /\ Second > 0
    OBVIOUS
<1>2. n = (Second * (n \div Second)) + (n % Second)
    BY <1>1
<1>3. t - n = (Second * ((t - n) \div Second)) + ((t - n) % Second)
    BY <1>1
<1>4. t = Second * q
    BY <1>1, <1>2, <1>3
<1>5. q \in Int
    BY <1>1
<1> HIDE DEF q
<1> DEFINE r == t % Second
           d == q - (t \div Second)
<1>6. r \in 0 .. Second - 1 /\ d \in Int
    BY <1>1, <1>5
<1>7. r = Second * d
    <2>1. t = (Second * (t \div Second)) + r
        BY <1>1
    <2> QED BY <1>1, <1>4, <1>5, <2>1
<1> HIDE DEF r, d
<1>8. d >= 1 => Second * d >= Second
    BY <1>1, <1>6
<1>9. d <= -1 => Second * d < 0
    BY <1>1, <1>6
<1>10. d = 0
    BY <1>1, <1>6, <1>7, <1>8, <1>9
<1>11. r = 0
    BY <1>1, <1>7, <1>10
<1> QED BY <1>11 DEF r

\* A remainder is not above its number.
LEMMA RemainderBelow ==
    ASSUME NEW w \in Nat
    PROVE  w % Second <= w
<1>1. Second \in Int /\ Second > 0
    OBVIOUS
<1>2. w = (Second * (w \div Second)) + (w % Second) /\ w % Second \in 0 .. Second - 1
    BY <1>1
<1>3. w \div Second \in Int /\ w \div Second >= 0
    BY <1>1
<1>4. Second * (w \div Second) >= 0
    BY <1>1, <1>3
<1> QED BY <1>2, <1>3, <1>4

\* The initial state satisfies the inductive invariant.
LEMMA InitIInv == Init => IInv
<1> SUFFICES ASSUME Init PROVE IInv
    OBVIOUS
<1>1. TypeOK
    <2>1. /\ call \in [Jobs -> {"none", "latest", "push", "returned"}]
          /\ later \in [Jobs -> Nat]
          /\ ran \in Seq(Jobs)
        BY DEF Init
    <2>2. now \in 0 .. MaxTime /\ latest_ \in Nat /\ until \in Int
        BY DEF Init, Forever
    <2>3. should_stop_ \in BOOLEAN /\ jobs_ \subseteq (Int \X (Jobs \cup {Pill}))
        BY Zenon DEF Init
    <2> QED BY <2>1, <2>2, <2>3 DEF Init, TypeOK
<1>2. LatestCoversJobs /\ LostOnlyBy /\ NeverOversleeps
    BY DEF Init, LatestCoversJobs, LostOnlyBy, NeverOversleeps
<1> QED BY <1>1, <1>2 DEF IInv, NothingForgotten

\* Every step preserves it.
LEMMA NextIInv == IInv /\ [Next]_vars => IInv'
<1> SUFFICES ASSUME IInv, [Next]_vars PROVE IInv'
    OBVIOUS
<1> USE DEF IInv, NothingForgotten
<1>1. CASE Tick
    <2>1. TypeOK'
        BY <1>1 DEF Tick, TypeOK
    <2>2. LatestCoversJobs'
        BY <1>1 DEF Tick, TypeOK, LatestCoversJobs
    <2>3. LostOnlyBy'
        BY <1>1 DEF Tick, TypeOK, LostOnlyBy, Running
    <2>4. NeverOversleeps'
        BY <1>1 DEF Tick, TypeOK, NeverOversleeps
    <2> QED BY <2>1, <2>2, <2>3, <2>4
<1>2. CASE Continue
    <2>1. TypeOK'
        BY <1>2 DEF Continue, TypeOK
    <2>2. LatestCoversJobs'
        BY <1>2 DEF Continue, TypeOK, LatestCoversJobs
    <2>3. LostOnlyBy'
        BY <1>2 DEF Continue, TypeOK, LostOnlyBy, Running
    <2>4. NeverOversleeps'
        BY <1>2 DEF Continue, TypeOK, NeverOversleeps
    <2> QED BY <2>1, <2>2, <2>3, <2>4
<1>3. CASE Exit
    <2>1. TypeOK'
        BY <1>3 DEF Exit, TypeOK
    <2>2. LatestCoversJobs'
        BY <1>3 DEF Exit, TypeOK, LatestCoversJobs
    <2>3. LostOnlyBy'
        BY <1>3 DEF Exit, TypeOK, LostOnlyBy, Running
    <2>4. NeverOversleeps'
        BY <1>3 DEF Exit, TypeOK, NeverOversleeps
    <2> QED BY <2>1, <2>2, <2>3, <2>4
<1>4. CASE WaitForJob
    <2>1. TypeOK'
        BY <1>4 DEF WaitForJob, Forever, TypeOK
    <2>2. LatestCoversJobs'
        BY <1>4 DEF WaitForJob, Forever, TypeOK, LatestCoversJobs
    <2>3. LostOnlyBy'
        BY <1>4 DEF WaitForJob, Forever, TypeOK, LostOnlyBy, Running
    <2>4. NeverOversleeps'
        BY <1>4 DEF WaitForJob, Forever, TypeOK, NeverOversleeps
    <2> QED BY <2>1, <2>2, <2>3, <2>4
<1>5. CASE TakePill
    <2>1. TypeOK'
        BY <1>5 DEF TakePill, TypeOK
    <2>2. LatestCoversJobs'
        BY <1>5 DEF TakePill, TypeOK, LatestCoversJobs
    <2>3. LostOnlyBy'
        BY <1>5 DEF TakePill, TypeOK, LostOnlyBy, Running
    <2>4. NeverOversleeps'
        BY <1>5 DEF TakePill, TypeOK, NeverOversleeps
    <2> QED BY <2>1, <2>2, <2>3, <2>4
<1>6. CASE StartJob
    <2>1. TypeOK'
        BY <1>6 DEF StartJob, TypeOK
    <2>2. LatestCoversJobs'
        BY <1>6 DEF StartJob, TypeOK, LatestCoversJobs
    <2>3. LostOnlyBy'
        BY <1>6 DEF StartJob, TypeOK, LostOnlyBy, Running
    <2>4. NeverOversleeps'
        BY <1>6 DEF StartJob, TypeOK, NeverOversleeps
    <2> QED BY <2>1, <2>2, <2>3, <2>4
<1>7. CASE EndJob
    <2>1. TypeOK'
        BY <1>7 DEF EndJob, TypeOK
    <2>2. LatestCoversJobs'
        BY <1>7 DEF EndJob, TypeOK, LatestCoversJobs
    <2>3. LostOnlyBy'
        BY <1>7 DEF EndJob, TypeOK, LostOnlyBy, Running
    <2>4. NeverOversleeps'
        BY <1>7 DEF EndJob, TypeOK, NeverOversleeps
    <2> QED BY <2>1, <2>2, <2>3, <2>4
<1>8. CASE CallsRunLater
    <2>1. TypeOK'
        BY <1>8 DEF CallsRunLater, NewLatest, TypeOK
    <2>2. LatestCoversJobs'
        BY <1>8 DEF CallsRunLater, NewLatest, TypeOK, LatestCoversJobs
    <2>3. LostOnlyBy'
        BY <1>8 DEF CallsRunLater, NewLatest, TypeOK, LostOnlyBy, Running
    <2>4. NeverOversleeps'
        BY <1>8 DEF CallsRunLater, NewLatest, TypeOK, NeverOversleeps
    <2> QED BY <2>1, <2>2, <2>3, <2>4
<1>9. CASE WaitForTime
    <2>1. TypeOK'
        BY <1>9 DEF WaitForTime, Nanos, TypeOK
    <2>2. LatestCoversJobs'
        BY <1>9 DEF WaitForTime, TypeOK, LatestCoversJobs
    <2>3. LostOnlyBy'
        <3>1. PICK e \in jobs_ : /\ ~Due(e)
                                 /\ loop' = IF Invalid(e[1] - now) THEN "aborted" ELSE "wait"
            BY <1>9 DEF WaitForTime
        <3>2. CASE Invalid(e[1] - now)
            <4>1. e[1] % Second = 0
                <5>1. e[1] \in Int /\ now \in Nat
                    BY DEF TypeOK
                <5>2. (now % Second) + ((e[1] - now) % Second) = Second
                    BY <3>2 DEF Invalid, Nanos
                <5> QED BY <5>1, <5>2, WholeSecond
            <4> QED BY <3>1, <3>2, <4>1, <1>9 DEF WaitForTime, LostOnlyBy
        <3>3. CASE ~Invalid(e[1] - now)
            BY <3>1, <3>3 DEF LostOnlyBy
        <3> QED BY <3>2, <3>3
    <2>4. NeverOversleeps'
        <3> SUFFICES ASSUME loop' = "wait", NEW f \in jobs_ PROVE until' <= f[1]
            BY <1>9 DEF WaitForTime, NeverOversleeps
        <3>1. PICK e \in jobs_ : /\ Top(e) /\ ~Due(e)
                                 /\ until' = now - (now % Second) + Nanos(e[1] - now)
            BY <1>9 DEF WaitForTime
        <3>2. /\ e[1] \in Int /\ f[1] \in Int /\ now \in Nat
              /\ e[1] - now \in Nat /\ e[1] <= f[1]
            <4>1. e[1] \in Int /\ f[1] \in Int /\ now \in Nat
                BY DEF TypeOK
            <4>2. e[1] <= f[1] /\ ~(e[1] < now)
                BY <3>1, Zenon DEF Top, Due
            <4> QED BY <4>1, <4>2
        <3>3. (e[1] - now) % Second <= e[1] - now
            BY <3>2, RemainderBelow
        <3>4. now % Second \in Int /\ (e[1] - now) % Second \in Int
            BY <3>2
        <3>5. until' = now + ((e[1] - now) % Second)
            BY <3>1, <3>2, <3>4 DEF Nanos
        <3> QED BY <3>2, <3>3, <3>4, <3>5
    <2> QED BY <2>1, <2>2, <2>3, <2>4
<1>10. CASE TimedOut
    <2>1. TypeOK'
        BY <1>10 DEF TimedOut, TypeOK
    <2>2. LatestCoversJobs'
        BY <1>10 DEF TimedOut, TypeOK, LatestCoversJobs
    <2>3. LostOnlyBy'
        BY <1>10 DEF TimedOut, TypeOK, LostOnlyBy, Running
    <2>4. NeverOversleeps'
        BY <1>10 DEF TimedOut, TypeOK, NeverOversleeps
    <2> QED BY <2>1, <2>2, <2>3, <2>4
<1>11. ASSUME NEW j \in Jobs, SetLatest(j) PROVE IInv'
    <2>1. TypeOK'
        BY <1>11 DEF SetLatest, NewLatest, TypeOK
    <2>2. LatestCoversJobs'
        BY <1>11 DEF SetLatest, NewLatest, TypeOK, LatestCoversJobs
    <2>3. LostOnlyBy'
        BY <1>11 DEF SetLatest, NewLatest, TypeOK, LostOnlyBy, Running
    <2>4. NeverOversleeps'
        BY <1>11 DEF SetLatest, NewLatest, TypeOK, NeverOversleeps
    <2> QED BY <2>1, <2>2, <2>3, <2>4
<1>12. ASSUME NEW j \in Jobs, Push(j) PROVE IInv'
    <2>1. TypeOK'
        BY <1>12 DEF Push, mFree, Signal, TypeOK
    <2>2. LatestCoversJobs'
        BY <1>12 DEF Push, mFree, Signal, TypeOK, LatestCoversJobs
    <2>3. LostOnlyBy'
        BY <1>12 DEF Push, mFree, Signal, TypeOK, LostOnlyBy, Running
    <2>4. NeverOversleeps'
        BY <1>12 DEF Push, mFree, Signal, TypeOK, NeverOversleeps
    <2> QED BY <2>1, <2>2, <2>3, <2>4
<1>13. ASSUME NEW j \in Jobs, NEW sec \in Delays, Begin(j, sec) PROVE IInv'
    <2>1. TypeOK'
        BY <1>13 DEF Begin, TypeOK
    <2>2. LatestCoversJobs'
        BY <1>13 DEF Begin, TypeOK, LatestCoversJobs
    <2>3. LostOnlyBy'
        BY <1>13 DEF Begin, TypeOK, LostOnlyBy, Running
    <2>4. NeverOversleeps'
        BY <1>13 DEF Begin, TypeOK, NeverOversleeps
    <2> QED BY <2>1, <2>2, <2>3, <2>4
<1>14. CASE Stop
    <2>1. TypeOK'
        BY <1>14 DEF Stop, TypeOK
    <2>2. LatestCoversJobs'
        BY <1>14 DEF Stop, TypeOK, LatestCoversJobs
    <2>3. LostOnlyBy'
        BY <1>14 DEF Stop, TypeOK, LostOnlyBy, Running
    <2>4. NeverOversleeps'
        BY <1>14 DEF Stop, TypeOK, NeverOversleeps
    <2> QED BY <2>1, <2>2, <2>3, <2>4
<1>15. CASE PushPill
    <2>1. TypeOK'
        BY <1>15 DEF PushPill, mFree, Signal, TypeOK
    <2>2. LatestCoversJobs'
        BY <1>15 DEF PushPill, mFree, Signal, TypeOK, LatestCoversJobs
    <2>3. LostOnlyBy'
        BY <1>15 DEF PushPill, mFree, Signal, TypeOK, LostOnlyBy, Running
    <2>4. NeverOversleeps'
        BY <1>15 DEF PushPill, mFree, Signal, TypeOK, NeverOversleeps
    <2> QED BY <2>1, <2>2, <2>3, <2>4
<1>16. CASE Joined
    <2>1. TypeOK'
        BY <1>16 DEF Joined, TypeOK
    <2>2. LatestCoversJobs'
        BY <1>16 DEF Joined, TypeOK, LatestCoversJobs
    <2>3. LostOnlyBy'
        BY <1>16 DEF Joined, TypeOK, LostOnlyBy, Running
    <2>4. NeverOversleeps'
        BY <1>16 DEF Joined, TypeOK, NeverOversleeps
    <2> QED BY <2>1, <2>2, <2>3, <2>4
<1>17. CASE UNCHANGED vars
    <2>1. TypeOK'
        BY <1>17 DEF vars, TypeOK
    <2>2. LatestCoversJobs'
        BY <1>17 DEF vars, TypeOK, LatestCoversJobs
    <2>3. LostOnlyBy'
        BY <1>17 DEF vars, TypeOK, LostOnlyBy, Running
    <2>4. NeverOversleeps'
        BY <1>17 DEF vars, TypeOK, NeverOversleeps
    <2> QED BY <2>1, <2>2, <2>3, <2>4
<1> QED BY <1>1, <1>2, <1>3, <1>4, <1>5, <1>6, <1>7, <1>8, <1>9, <1>10,
       <1>11, <1>12, <1>13, <1>14, <1>15, <1>16, <1>17
       DEF Next, Thread, Caller, Dtor

\* The inductive invariant is one.
LEMMA Invariant == Spec => []IInv
    BY InitIInv, NextIInv, PTL DEF Spec

\* run_later, try_one_job and the destructor: latest_ covers every queued job, and the thread
\* is lost only by the whole-second deadline and by a job that calls run_later.
THEOREM NothingForgottenCorrect == Spec => []NothingForgotten
    BY Invariant, PTL DEF IInv

\* try_one_job, run_later and ~RunLater: the deadline of the thread's wait is never
\* after the time of a queued job, although it drops whole seconds and jobs are pushed
\* while the thread sleeps.
THEOREM NeverOversleepsCorrect == Spec => []NeverOversleeps
    BY Invariant, PTL DEF IInv
=============================================================================
