------------------------- MODULE ThreadPool_proofs --------------------------
(***************************************************************************)
(* Proofs about ThreadPool, for every number of workers (0 included),      *)
(* every set of jobs, and any submission tree and channels.                *)
(***************************************************************************)
EXTENDS ThreadPool, TLAPS

-----------------------------------------------------------------------------
(* Sequences                                                               *)

\* Append: the old elements keep their place and the new one comes last.
LEMMA AppendFacts ==
    ASSUME NEW S, NEW s \in Seq(S), NEW e \in S
    PROVE  /\ Append(s, e) \in Seq(S)
           /\ Len(Append(s, e)) = Len(s) + 1
           /\ DOMAIN Append(s, e) = 1 .. (Len(s) + 1)
           /\ \A k \in DOMAIN s : Append(s, e)[k] = s[k]
           /\ Append(s, e)[Len(s) + 1] = e
           /\ \A k \in DOMAIN Append(s, e) : k \in DOMAIN s \/ k = Len(s) + 1
OBVIOUS

\* Tail: every element moves one place to the front.
LEMMA TailFacts ==
    ASSUME NEW S, NEW s \in Seq(S), s # <<>>
    PROVE  /\ Head(s) \in S
           /\ 1 \in DOMAIN s
           /\ Head(s) = s[1]
           /\ Tail(s) \in Seq(S)
           /\ \A k \in DOMAIN Tail(s) : k + 1 \in DOMAIN s /\ Tail(s)[k] = s[k + 1]
           /\ \A k \in DOMAIN s : k # 1 => k - 1 \in DOMAIN Tail(s) /\ Tail(s)[k - 1] = s[k]
OBVIOUS

-----------------------------------------------------------------------------
(* Type correctness                                                        *)

\* The workers are numbered, and the owner is none of them.
LEMMA WorkersFacts == Workers \subseteq Nat /\ Owner \notin Workers
BY PoolAssumption DEF Workers

\* The queue chosen by run_async is one of the n_ queues.
LEMMA QueueIdType ==
    ASSUME TypeOK, n_ # 0, NEW j \in Jobs
    PROVE  QueueId(j) \in Workers
<1>1. Channel[j] \in Nat \cup {-1} /\ n_ \in Nat \ {0}
    BY PoolAssumption
<1>2. (IF Channel[j] >= 0 THEN Channel[j] ELSE round_robin_) \in Nat
    BY <1>1 DEF TypeOK
<1> QED BY <1>1, <1>2 DEF QueueId, Workers

\* The initial state has the types.
LEMMA InitType == Init => TypeOK
<1> SUFFICES ASSUME Init PROVE TypeOK
    OBVIOUS
<1>1. q_ \in [Workers -> Seq(Jobs \cup {Nil})]
    BY DEF Init
<1>2. stage \in [Workers -> Stages] /\ victims \in [Workers -> SUBSET Workers]
    BY DEF Init, Stages
<1>3. job \in [Threads -> Jobs \cup {Nil}] /\ call \in [Jobs -> Calls] /\ runs \in [Jobs -> Nat]
    BY DEF Init, Calls
<1>4. dtor \in Phases /\ should_stop_ \in BOOLEAN
    BY DEF Init, Phases
<1>5. i \in 0 .. n_ /\ round_robin_ \in Nat
    BY PoolAssumption DEF Init
<1> QED BY <1>1, <1>2, <1>3, <1>4, <1>5 DEF TypeOK

\* A push to a worker's queue.
LEMMA PushType ==
    ASSUME TypeOK, NEW w \in Workers, NEW e \in Jobs \cup {Nil}, Push(w, e)
    PROVE  /\ q_' \in [Workers -> Seq(Jobs \cup {Nil})]
           /\ stage' \in [Workers -> Stages]
BY AppendFacts DEF TypeOK, Push, Stages

\* A pop from a queue that is not empty.
LEMMA TakeType ==
    ASSUME TypeOK, NEW w \in Workers, NEW v \in Workers, q_[v] # <<>>, Take(w, v)
    PROVE  /\ q_' \in [Workers -> Seq(Jobs \cup {Nil})]
           /\ stage' \in [Workers -> Stages]
           /\ job' \in [Threads -> Jobs \cup {Nil}]
           /\ runs' \in [Jobs -> Nat]
<1> DEFINE e == Head(q_[v])
<1>1. e \in Jobs \cup {Nil} /\ Tail(q_[v]) \in Seq(Jobs \cup {Nil})
    BY TailFacts DEF TypeOK
<1>2. q_' \in [Workers -> Seq(Jobs \cup {Nil})]
    BY <1>1 DEF TypeOK, Take
<1>3. CASE e = Nil
    BY <1>2, <1>3 DEF TypeOK, Take, Stages
<1>4. CASE e # Nil
    <2>1. e \in Jobs
        BY <1>1, <1>4
    <2> HIDE DEF e
    <2>2. /\ stage' = [stage EXCEPT ![w] = "run"]
          /\ job' = [job EXCEPT ![w] = e]
          /\ runs' = [runs EXCEPT ![e] = @ + 1]
        BY <1>4 DEF Take, e
    <2>3. stage' \in [Workers -> Stages]
        BY <2>2 DEF TypeOK, Stages
    <2>4. job' \in [Threads -> Jobs \cup {Nil}]
        BY <2>1, <2>2 DEF TypeOK
    <2>5. runs' \in [Jobs -> Nat]
        BY <2>1, <2>2 DEF TypeOK
    <2> QED BY <1>2, <2>3, <2>4, <2>5
<1> QED BY <1>3, <1>4

\* Every step keeps the types.
LEMMA NextType == TypeOK /\ [Next]_vars => TypeOK'
<1> SUFFICES ASSUME TypeOK, [Next]_vars PROVE TypeOK'
    OBVIOUS
<1> USE PoolAssumption, WorkersFacts
<1>1. ASSUME NEW j \in Jobs, RunAsync(j) PROVE TypeOK'
    BY <1>1 DEF RunAsync, TypeOK, Calls
<1>2. ASSUME NEW j \in Jobs, Enqueue(j) PROVE TypeOK'
    <2>1. round_robin_' \in Nat
        BY <1>2 DEF Enqueue, TypeOK
    <2>4. call' \in [Jobs -> Calls]
        BY <1>2 DEF Enqueue, TypeOK, Calls
    <2>2. CASE n_ = 0
        BY <1>2, <2>1, <2>2, <2>4 DEF Enqueue, TypeOK
    <2>3. CASE n_ # 0
        BY <1>2, <2>1, <2>3, <2>4, QueueIdType, PushType DEF Enqueue, TypeOK
    <2> QED BY <2>2, <2>3
<1>3. ASSUME NEW w \in Workers, TryPop(w) PROVE TypeOK'
    <2>1. CASE q_[w] # <<>>
        BY <1>3, <2>1, TakeType DEF TryPop, TypeOK
    <2>2. CASE q_[w] = <<>>
        <3>1. stage' \in [Workers -> Stages]
            BY <1>3, <2>2 DEF TryPop, TypeOK, Stages
        <3>2. victims' \in [Workers -> SUBSET Workers]
            BY <1>3, <2>2 DEF TryPop, TypeOK, Others
        <3> QED BY <1>3, <2>2, <3>1, <3>2 DEF TryPop, TypeOK
    <2> QED BY <2>1, <2>2
<1>4. ASSUME NEW w \in Workers, Sleep(w) PROVE TypeOK'
    BY <1>4 DEF Sleep, TypeOK, Stages
<1>5. ASSUME NEW w \in Workers, Steal(w) PROVE TypeOK'
    <2> PICK v \in victims[w] :
            IF Stealable(v)
            THEN Take(w, v) /\ victims' = [victims EXCEPT ![w] = {}]
            ELSE /\ victims' = [victims EXCEPT ![w] = @ \ {v}]
                 /\ UNCHANGED <<q_, stage, job, runs>>
        BY <1>5 DEF Steal
    <2>1. v \in Workers
        BY DEF TypeOK
    <2>2. CASE Stealable(v)
        BY <1>5, <2>1, <2>2, TakeType DEF Steal, Stealable, TypeOK
    <2>3. CASE ~Stealable(v)
        BY <1>5, <2>3 DEF Steal, TypeOK
    <2> QED BY <2>2, <2>3
<1>6. ASSUME NEW w \in Workers, GiveUpStealing(w) PROVE TypeOK'
    BY <1>6 DEF GiveUpStealing, TypeOK, Stages
<1>7. ASSUME NEW w \in Workers, Pop(w) PROVE TypeOK'
    <2>1. CASE q_[w] # <<>>
        BY <1>7, <2>1, TakeType DEF Pop, TypeOK
    <2>2. CASE q_[w] = <<>>
        BY <1>7, <2>2 DEF Pop, TypeOK, Stages
    <2> QED BY <2>1, <2>2
<1>8. ASSUME NEW t \in Threads, JobReturns(t) PROVE TypeOK'
    BY <1>8 DEF JobReturns, TypeOK, Stages
<1>9. CASE Destroy
    BY <1>9 DEF Destroy, TypeOK, Phases
<1>10. CASE PushPill
    <2>1. i \in Workers /\ i' \in 0 .. n_
        BY <1>10 DEF PushPill, TypeOK, Workers
    <2> QED BY <1>10, <2>1, PushType DEF PushPill, TypeOK
<1>11. CASE Join
    BY <1>11 DEF Join, TypeOK
<1>12. CASE Drain
    <2>1. i \in Workers
        BY <1>12 DEF Drain, TypeOK, Workers
    <2>2. CASE q_[i] = <<>>
        BY <1>12, <2>2 DEF Drain, TypeOK
    <2>3. CASE q_[i] # <<>>
        <3>1. PICK e : e = Head(q_[i])
            OBVIOUS
        <3>2. e \in Jobs \cup {Nil} /\ Tail(q_[i]) \in Seq(Jobs \cup {Nil})
            BY <2>1, <2>3, <3>1, TailFacts DEF TypeOK
        <3>3. /\ q_' = [q_ EXCEPT ![i] = Tail(@)]
              /\ UNCHANGED <<round_robin_, should_stop_, stage, victims, call, dtor, i>>
            BY <1>12, <2>3 DEF Drain
        <3>4. q_' \in [Workers -> Seq(Jobs \cup {Nil})]
            BY <2>1, <3>2, <3>3 DEF TypeOK
        <3>5. CASE e = Nil
            <4>1. UNCHANGED <<job, runs>>
                BY <1>12, <2>3, <3>1, <3>5 DEF Drain
            <4> QED BY <3>3, <3>4, <4>1 DEF TypeOK
        <3>6. CASE e # Nil
            <4>1. e \in Jobs
                BY <3>2, <3>6
            <4>2. /\ job' = [job EXCEPT ![Owner] = e]
                  /\ runs' = [runs EXCEPT ![e] = @ + 1]
                BY <1>12, <2>3, <3>1, <3>6 DEF Drain
            <4>3. job' \in [Threads -> Jobs \cup {Nil}]
                BY <4>1, <4>2 DEF TypeOK
            <4>4. runs' \in [Jobs -> Nat]
                BY <4>1, <4>2 DEF TypeOK
            <4> QED BY <3>3, <3>4, <4>3, <4>4 DEF TypeOK
        <3> QED BY <3>5, <3>6
    <2> QED BY <2>2, <2>3
<1>13. ASSUME NEW from \in Phases, NEW to \in Phases, NextPhase(from, to) PROVE TypeOK'
    BY <1>13 DEF NextPhase, TypeOK
<1>14. CASE Terminated \/ UNCHANGED vars
    BY <1>14 DEF Terminated, vars, TypeOK
<1> QED
    BY <1>1, <1>2, <1>3, <1>4, <1>5, <1>6, <1>7, <1>8, <1>9, <1>10, <1>11, <1>12,
       <1>13, <1>14
    DEF Next, Worker, Dtor, Phases

\* The pool's fields and the threads' state keep their types.
THEOREM TypeCorrect == Spec => []TypeOK
BY InitType, NextType, PTL DEF Spec

-----------------------------------------------------------------------------
(* The inductive invariant                                                 *)

\* An accepted job is in exactly one place of one queue until it is started;
\* only accepted jobs are queued or started, and none is started twice.
Placed ==
    /\ \A w1, w2 \in Workers : \A k1 \in DOMAIN q_[w1], k2 \in DOMAIN q_[w2] :
          (q_[w1][k1] = q_[w2][k2] /\ q_[w1][k1] # Nil) => (w1 = w2 /\ k1 = k2)
    /\ \A w \in Workers : \A k \in DOMAIN q_[w] :
          q_[w][k] # Nil => call[q_[w][k]] = "ok" /\ runs[q_[w][k]] = 0
    /\ \A j \in Jobs : runs[j] = 0 \/ (runs[j] = 1 /\ call[j] = "ok")
    /\ \A j \in Jobs : (call[j] = "ok" /\ runs[j] = 0) =>
          \E w \in Workers : \E k \in DOMAIN q_[w] : q_[w][k] = j

\* A running job was started, and runs on one thread.
Running ==
    /\ \A t \in Threads : job[t] # Nil => runs[job[t]] = 1
    /\ \A t1, t2 \in Threads : (job[t1] = job[t2] /\ job[t1] # Nil) => t1 = t2
    /\ \A w \in Workers : stage[w] = "run" <=> job[w] # Nil

\* A run_async call about to push was begun before the destructor, or by a job
\* on a worker: jobs the destructor runs itself are refused further ones.
Submitting ==
    \A j \in Jobs : InProgress(j) =>
        \/ Submitter[j] = Nil /\ dtor = "alive"
        \/ \E w \in Workers : job[w] = Submitter[j] /\ job[w] # Nil

\* How far the destructor has got, and what that says of workers and queues.
Stopping ==
    /\ should_stop_ <=> dtor # "alive"
    /\ dtor = "alive" => i = 0
    /\ job[Owner] # Nil => dtor = "drain" /\ i < n_
    /\ dtor = "join" => \A w \in Workers : w < i => stage[w] = "exit"
    /\ dtor \in {"drain", "gone"} => \A w \in Workers : stage[w] = "exit"
    /\ dtor = "drain" => \A w \in Workers : w < i => q_[w] = <<>>
    /\ dtor = "gone" => \A w \in Workers : q_[w] = <<>>

Pushed(w) == dtor \in {"join", "drain", "gone"} \/ (dtor = "pills" /\ w < i)

\* One pill per queue, from its push until its worker exits.
Pills ==
    \A w \in Workers :
        /\ \A k1, k2 \in DOMAIN q_[w] : (q_[w][k1] = Nil /\ q_[w][k2] = Nil) => k1 = k2
        /\ (\E k \in DOMAIN q_[w] : q_[w][k] = Nil) <=> (Pushed(w) /\ stage[w] # "exit")
        /\ stage[w] = "exit" => Pushed(w)

IInv == TypeOK /\ Placed /\ Running /\ Submitting /\ Stopping /\ Pills

-----------------------------------------------------------------------------
(* Queue operations                                                        *)

\* What appending e to w's queue does, position by position.
Grows(w, e) ==
    /\ \A v \in Workers : v # w => q_'[v] = q_[v]
    /\ \A k \in DOMAIN q_[w] : k \in DOMAIN q_'[w] /\ q_'[w][k] = q_[w][k]
    /\ \E last \in DOMAIN q_'[w] :
          q_'[w][last] = e /\ \A k \in DOMAIN q_'[w] : k \in DOMAIN q_[w] <=> k # last

\* What Queue::push does to one queue.
LEMMA PushEffect ==
    ASSUME TypeOK, NEW w \in Workers, NEW e \in Jobs \cup {Nil},
           q_' = [q_ EXCEPT ![w] = Append(@, e)]
    PROVE  Grows(w, e)
<1>1. q_[w] \in Seq(Jobs \cup {Nil}) /\ q_'[w] = Append(q_[w], e)
    BY DEF TypeOK
<1>2. \A v \in Workers : v # w => q_'[v] = q_[v]
    BY DEF TypeOK
<1>3. PICK s \in Seq(Jobs \cup {Nil}) : s = q_[w] /\ q_'[w] = Append(s, e)
    BY <1>1
<1>4. /\ \A k \in DOMAIN s : k \in DOMAIN Append(s, e) /\ Append(s, e)[k] = s[k]
      /\ Len(s) + 1 \in DOMAIN Append(s, e) /\ Append(s, e)[Len(s) + 1] = e
      /\ \A k \in DOMAIN Append(s, e) : k \in DOMAIN s <=> k # Len(s) + 1
    BY AppendFacts
<1> QED BY <1>2, <1>3, <1>4 DEF Grows

\* What taking the front element of v's queue does, position by position.
Shifts(v) ==
    /\ \A w \in Workers : w # v => q_'[w] = q_[w]
    /\ DOMAIN q_[v] \subseteq Nat /\ DOMAIN q_'[v] \subseteq Nat
    /\ Head(q_[v]) \in Jobs \cup {Nil}
    /\ 1 \in DOMAIN q_[v] /\ Head(q_[v]) = q_[v][1]
    /\ \A k \in DOMAIN q_'[v] :
          k + 1 # 1 /\ k + 1 \in DOMAIN q_[v] /\ q_'[v][k] = q_[v][k + 1]
    /\ \A k \in DOMAIN q_[v] :
          k # 1 => k - 1 \in DOMAIN q_'[v] /\ q_'[v][k - 1] = q_[v][k]

\* What taking a job from a queue does to it.
LEMMA PopEffect ==
    ASSUME TypeOK, NEW v \in Workers, q_[v] # <<>>, q_' = [q_ EXCEPT ![v] = Tail(@)]
    PROVE  Shifts(v)
<1>1. q_[v] \in Seq(Jobs \cup {Nil}) /\ q_'[v] = Tail(q_[v])
    BY DEF TypeOK
<1>2. \A w \in Workers : w # v => q_'[w] = q_[w]
    BY DEF TypeOK
<1>3. DOMAIN q_[v] \subseteq Nat /\ DOMAIN q_'[v] \subseteq Nat \ {0}
    BY <1>1
<1>4. \A k \in DOMAIN q_'[v] : k + 1 # 1
    BY <1>3
<1>5. /\ Head(q_[v]) \in Jobs \cup {Nil}
      /\ 1 \in DOMAIN q_[v] /\ Head(q_[v]) = q_[v][1]
    BY <1>1, TailFacts
<1>6. PICK s \in Seq(Jobs \cup {Nil}) : s = q_[v] /\ s # <<>> /\ q_'[v] = Tail(s)
    BY <1>1
<1>7. /\ \A k \in DOMAIN Tail(s) : k + 1 \in DOMAIN s /\ Tail(s)[k] = s[k + 1]
      /\ \A k \in DOMAIN s : k # 1 => k - 1 \in DOMAIN Tail(s) /\ Tail(s)[k - 1] = s[k]
    BY <1>6, TailFacts
<1> QED BY <1>2, <1>3, <1>4, <1>5, <1>6, <1>7 DEF Shifts

\* Starting the job at the front of a queue, or dropping a pill there, leaves
\* every accepted job in its one place.
LEMMA PopPlaced ==
    ASSUME TypeOK, TypeOK', Placed, NEW v \in Workers, Shifts(v), UNCHANGED call,
           NEW e \in Jobs \cup {Nil}, e = Head(q_[v]),
           \A j \in Jobs : runs'[j] = IF j = e THEN runs[j] + 1 ELSE runs[j]
    PROVE  Placed' /\ (e # Nil => e \in Jobs /\ runs[e] = 0 /\ runs'[e] = 1)
<1> USE DEF Shifts
<1>1. \A k \in DOMAIN q_'[v] : q_'[v][k] = e => e = Nil
    BY DEF Placed
<1>2. e # Nil => e \in Jobs /\ runs[e] = 0 /\ runs'[e] = 1 /\ call[e] = "ok"
    BY DEF Placed, TypeOK
<1>3. \A j \in Jobs : j # e => runs'[j] = runs[j]
    BY DEF TypeOK
<1>4. \A w \in Workers : \A k \in DOMAIN q_'[w] :
         \E l \in DOMAIN q_[w] : /\ q_'[w][k] = q_[w][l]
                                 /\ l = (IF w = v THEN k + 1 ELSE k)
                                 /\ w = v => l # 1
    OBVIOUS
<1>5. \A w1, w2 \in Workers : \A k1 \in DOMAIN q_'[w1], k2 \in DOMAIN q_'[w2] :
         (q_'[w1][k1] = q_'[w2][k2] /\ q_'[w1][k1] # Nil) => (w1 = w2 /\ k1 = k2)
    BY <1>4 DEF Placed
<1>6. \A w \in Workers : \A k \in DOMAIN q_'[w] :
         q_'[w][k] # Nil => q_'[w][k] # e /\ q_'[w][k] \in Jobs
    BY <1>4 DEF Placed, TypeOK
<1>7. \A w \in Workers : \A k \in DOMAIN q_'[w] :
         q_'[w][k] # Nil => call[q_'[w][k]] = "ok" /\ runs'[q_'[w][k]] = 0
    BY <1>3, <1>4, <1>6 DEF Placed
<1>8. \A j \in Jobs : runs'[j] = 0 \/ (runs'[j] = 1 /\ call[j] = "ok")
    BY <1>2, <1>3, PoolAssumption DEF Placed
<1>9. \A j \in Jobs : (call[j] = "ok" /\ runs'[j] = 0) =>
         \E w \in Workers : \E k \in DOMAIN q_'[w] : q_'[w][k] = j
    <2> SUFFICES ASSUME NEW j \in Jobs, call[j] = "ok", runs'[j] = 0
                 PROVE  \E w \in Workers : \E k \in DOMAIN q_'[w] : q_'[w][k] = j
        OBVIOUS
    <2>1. j # e /\ runs[j] = 0
        BY <1>2, <1>3, PoolAssumption
    <2>2. PICK w \in Workers : \E k \in DOMAIN q_[w] : q_[w][k] = j
        BY <2>1 DEF Placed
    <2>3. PICK k \in DOMAIN q_[w] : q_[w][k] = j
        BY <2>2
    <2>4. CASE w # v
        BY <2>3, <2>4
    <2>5. CASE w = v
        <3>1. k # 1
            BY <2>1, <2>3, <2>5
        <3>2. k - 1 \in DOMAIN q_'[v] /\ q_'[v][k - 1] = j
            BY <2>3, <2>5, <3>1
        <3> QED BY <3>2
    <2> QED BY <2>4, <2>5
<1> QED BY <1>2, <1>5, <1>7, <1>8, <1>9 DEF Placed

\* The pills when the front element of v's queue is taken by a thread that
\* exits exactly if the element is a pill, which must then be its own.
LEMMA PopPills ==
    ASSUME TypeOK, TypeOK', Pills, NEW v \in Workers, Shifts(v), UNCHANGED <<dtor, i>>,
           \A w \in Workers : stage'[w] = "exit" <=>
                                (stage[w] = "exit" \/ (Head(q_[v]) = Nil /\ w = v))
    PROVE  Pills'
<1> USE DEF Shifts
<1> SUFFICES ASSUME NEW w \in Workers
             PROVE  /\ \A k1, k2 \in DOMAIN q_'[w] :
                          (q_'[w][k1] = Nil /\ q_'[w][k2] = Nil) => k1 = k2
                    /\ (\E k \in DOMAIN q_'[w] : q_'[w][k] = Nil)
                          <=> (Pushed(w) /\ stage'[w] # "exit")
                    /\ stage'[w] = "exit" => Pushed(w)
    BY DEF Pills, Pushed
<1>1. CASE w # v
    BY <1>1 DEF Pills
<1>2. CASE w = v
    <2>1. \A k1, k2 \in DOMAIN q_'[w] : (q_'[w][k1] = Nil /\ q_'[w][k2] = Nil) => k1 = k2
        BY <1>2 DEF Pills
    <2>2. CASE Head(q_[v]) = Nil
        <3>1. \A k \in DOMAIN q_'[w] : q_'[w][k] # Nil
            BY <1>2, <2>2 DEF Pills
        <3>2. stage'[w] = "exit" /\ Pushed(w)
            BY <1>2, <2>2 DEF Pills
        <3> QED BY <2>1, <3>1, <3>2
    <2>3. CASE Head(q_[v]) # Nil
        <3>1. (\E k \in DOMAIN q_'[w] : q_'[w][k] = Nil)
                <=> (\E k \in DOMAIN q_[w] : q_[w][k] = Nil)
            <4>1. ASSUME NEW k \in DOMAIN q_'[w], q_'[w][k] = Nil
                  PROVE  k + 1 \in DOMAIN q_[w] /\ q_[w][k + 1] = Nil
                BY <1>2, <4>1
            <4>2. ASSUME NEW k \in DOMAIN q_[w], q_[w][k] = Nil
                  PROVE  k - 1 \in DOMAIN q_'[w] /\ q_'[w][k - 1] = Nil
                BY <1>2, <2>3, <4>2
            <4> QED BY <4>1, <4>2
        <3>2. stage'[w] = "exit" <=> stage[w] = "exit"
            BY <1>2, <2>3
        <3> QED BY <2>1, <3>1, <3>2 DEF Pills
    <2> QED BY <2>2, <2>3
<1> QED BY <1>1, <1>2

-----------------------------------------------------------------------------
(* IInv is inductive                                                       *)

\* A pool that was just made satisfies the invariant.
LEMMA InitIInv == Init => IInv
<1> SUFFICES ASSUME Init PROVE IInv
    OBVIOUS
<1> USE PoolAssumption, WorkersFacts
<1>1. \A w \in Workers : q_[w] = <<>> /\ DOMAIN q_[w] = {} /\ stage[w] = "0"
    BY DEF Init
<1>2. Placed
    BY <1>1 DEF Init, Placed
<1>3. Running
    BY <1>1 DEF Init, Running, Threads
<1>4. Submitting
    BY DEF Init, Submitting, InProgress
<1>5. Stopping
    BY DEF Init, Stopping, Threads
<1>6. Pills
    BY <1>1 DEF Init, Pills, Pushed
<1> QED BY <1>2, <1>3, <1>4, <1>5, <1>6, InitType DEF IInv

\* A worker that is neither executing a job nor done takes the front of a
\* queue, a pill only if the queue is its own.
LEMMA TakeIInv ==
    ASSUME IInv, TypeOK', NEW w \in Workers, NEW v \in Workers, q_[v] # <<>>,
           Head(q_[v]) = Nil => v = w, stage[w] \notin {"run", "exit"},
           Take(w, v), UNCHANGED <<should_stop_, call, dtor, i>>
    PROVE  IInv'
<1> USE PoolAssumption, WorkersFacts
<1>1. PICK e : e = Head(q_[v])
    OBVIOUS
<1>2. q_' = [q_ EXCEPT ![v] = Tail(@)]
    BY DEF Take
<1>3. e = Nil => UNCHANGED <<job, runs>> /\ stage' = [stage EXCEPT ![w] = "exit"]
    BY <1>1 DEF Take
<1>4. e # Nil => /\ stage' = [stage EXCEPT ![w] = "run"]
                 /\ job' = [job EXCEPT ![w] = e]
                 /\ runs' = [runs EXCEPT ![e] = @ + 1]
    BY <1>1 DEF Take
<1>5. Placed' /\ (e # Nil => e \in Jobs /\ runs[e] = 0 /\ runs'[e] = 1)
    <2>1. Shifts(v) /\ TypeOK /\ Placed /\ UNCHANGED call
        BY <1>2, PopEffect DEF IInv
    <2>2. e \in Jobs \cup {Nil}
        BY <1>1, <2>1 DEF Shifts
    <2>3. \A j \in Jobs : runs'[j] = IF j = e THEN runs[j] + 1 ELSE runs[j]
        BY <1>3, <1>4 DEF IInv, TypeOK
    <2> QED BY <1>1, <2>1, <2>2, <2>3, PopPlaced
<1>6. w \in Threads /\ job[w] = Nil
    BY DEF IInv, Running, Threads
<1>7. /\ \A u \in Workers : u # w => stage'[u] = stage[u]
      /\ stage'[w] = IF e = Nil THEN "exit" ELSE "run"
    BY <1>3, <1>4 DEF IInv, TypeOK
<1>8. /\ \A t \in Threads : t # w => job'[t] = job[t]
      /\ job'[w] = e
      /\ \A j \in Jobs : j # e => runs'[j] = runs[j]
    BY <1>3, <1>4, <1>6 DEF IInv, TypeOK
<1>9. Running'
    <2>1. \A t \in Threads : job[t] # Nil => job[t] # e
        BY <1>5 DEF IInv, Running
    <2>2. \A t \in Threads : job'[t] # Nil => runs'[job'[t]] = 1
        <3> SUFFICES ASSUME NEW t \in Threads, job'[t] # Nil PROVE runs'[job'[t]] = 1
            OBVIOUS
        <3>1. CASE t = w
            BY <1>5, <1>8, <3>1
        <3>2. CASE t # w
            <4>1. job'[t] = job[t] /\ job[t] \in Jobs /\ job[t] # e /\ runs[job[t]] = 1
                BY <1>8, <2>1, <3>2 DEF IInv, Running, TypeOK
            <4> QED BY <1>8, <4>1
        <3> QED BY <3>1, <3>2
    <2>3. \A t1, t2 \in Threads : (job'[t1] = job'[t2] /\ job'[t1] # Nil) => t1 = t2
        <3> SUFFICES ASSUME NEW t1 \in Threads, NEW t2 \in Threads,
                            job'[t1] = job'[t2], job'[t1] # Nil
                     PROVE  t1 = t2
            OBVIOUS
        <3>1. CASE t1 = w \/ t2 = w
            BY ONLY <1>8, <2>1, <3>1, t1 \in Threads, t2 \in Threads,
                    job'[t1] = job'[t2], job'[t1] # Nil
        <3>2. CASE t1 # w /\ t2 # w
            <4>1. job[t1] = job[t2] /\ job[t1] # Nil
                BY ONLY <1>8, <3>2, t1 \in Threads, t2 \in Threads,
                        job'[t1] = job'[t2], job'[t1] # Nil
            <4> QED BY <4>1 DEF IInv, Running
        <3> QED BY <3>1, <3>2
    <2>4. \A u \in Workers : stage'[u] = "run" <=> job'[u] # Nil
        BY <1>7, <1>8 DEF IInv, Running, Threads
    <2> QED BY <2>2, <2>3, <2>4 DEF Running
<1>10. Submitting'
    <2> SUFFICES ASSUME NEW j \in Jobs, InProgress(j)
                 PROVE  \/ Submitter[j] = Nil /\ dtor = "alive"
                        \/ \E u \in Workers : job'[u] = Submitter[j] /\ job'[u] # Nil
        BY DEF Submitting, InProgress
    <2>1. ASSUME NEW u \in Workers, job[u] = Submitter[j], job[u] # Nil
          PROVE  job'[u] = Submitter[j] /\ job'[u] # Nil
        BY <1>6, <1>8, <2>1 DEF Threads
    <2> QED BY <2>1 DEF IInv, Submitting
<1>11. dtor \notin {"drain", "gone"} /\ (dtor = "join" => ~(w < i))
    BY DEF IInv, Stopping
<1>12. Stopping'
    <2>1. job'[Owner] = job[Owner]
        BY <1>8 DEF Threads
    <2> QED BY <1>7, <1>11, <2>1 DEF IInv, Stopping
<1>13. Pills'
    <2>1. \A u \in Workers : stage'[u] = "exit" <=>
             (stage[u] = "exit" \/ (Head(q_[v]) = Nil /\ u = v))
        BY <1>1, <1>7
    <2> QED BY <1>2, <2>1, PopEffect, PopPills DEF IInv
<1> QED BY <1>5, <1>9, <1>10, <1>12, <1>13 DEF IInv

\* A worker moves between the stages in which it looks for a job.
LEMMA MoveIInv ==
    ASSUME IInv, TypeOK', NEW w \in Workers,
           \A u \in Workers : u # w => stage'[u] = stage[u],
           stage[w] \notin {"run", "exit"}, stage'[w] \notin {"run", "exit"},
           UNCHANGED <<q_, should_stop_, job, call, runs, dtor, i>>
    PROVE  IInv'
<1>1. Placed' /\ Submitting'
    BY DEF IInv, Placed, Submitting, InProgress
<1>2. \A u \in Workers : /\ stage'[u] = "exit" <=> stage[u] = "exit"
                         /\ stage'[u] = "run" <=> stage[u] = "run"
    OBVIOUS
<1>3. Running'
    BY <1>2 DEF IInv, Running
<1>4. Stopping'
    BY <1>2 DEF IInv, Stopping
<1>5. Pills'
    BY <1>2 DEF IInv, Pills, Pushed
<1> QED BY <1>1, <1>3, <1>4, <1>5 DEF IInv

\* run_async appends the accepted job, which is in no queue and was not started.
LEMMA EnqueueIInv ==
    ASSUME IInv, TypeOK', NEW j \in Jobs, Enqueue(j)
    PROVE  IInv'
<1> USE PoolAssumption, WorkersFacts
<1>1. CASE n_ = 0
    <2>1. Workers = {} /\ call' = [call EXCEPT ![j] = "SIGFPE"] /\ call[j] = "checked"
          /\ UNCHANGED <<q_, stage, should_stop_, job, runs, dtor, i>>
        BY <1>1 DEF Enqueue, Workers, InProgress
    <2>2. \A k \in Jobs : k # j => call'[k] = call[k]
        BY <2>1 DEF IInv, TypeOK
    <2>3. call'[j] = "SIGFPE"
        BY <2>1 DEF IInv, TypeOK
    <2>4. Placed'
        BY <2>1, <2>2, <2>3 DEF IInv, Placed
    <2>5. Running' /\ Stopping' /\ Pills'
        BY <2>1 DEF IInv, Running, Stopping, Pills
    <2>6. Submitting'
        BY <2>1, <2>2, <2>3 DEF IInv, Submitting, InProgress
    <2> QED BY <2>4, <2>5, <2>6 DEF IInv
<1>2. CASE n_ # 0
    <2>1. PICK w \in Workers : w = QueueId(j)
        BY <1>2, QueueIdType DEF IInv
    <2>2. /\ call[j] = "checked"
          /\ call' = [call EXCEPT ![j] = "ok"]
          /\ q_' = [q_ EXCEPT ![w] = Append(@, j)]
          /\ stage' = [stage EXCEPT ![w] = IF @ = "asleep" THEN "4" ELSE @]
          /\ UNCHANGED <<should_stop_, job, runs, dtor, i>>
        BY <1>2, <2>1 DEF Enqueue, Push, InProgress
    <2>3. Grows(w, j)
        BY <2>2, PushEffect DEF IInv
    <2>4. PICK last \in DOMAIN q_'[w] :
             q_'[w][last] = j /\ \A k \in DOMAIN q_'[w] : k \in DOMAIN q_[w] <=> k # last
        BY <2>3 DEF Grows
    <2>5. /\ \A k \in Jobs : k # j => call'[k] = call[k]
          /\ call'[j] = "ok"
        BY <2>2 DEF IInv, TypeOK
    <2>6. /\ runs[j] = 0
          /\ \A v \in Workers : \A k \in DOMAIN q_[v] : q_[v][k] # j
        BY <2>2 DEF IInv, Placed
    <2>7. \A u \in Workers : /\ stage'[u] = "exit" <=> stage[u] = "exit"
                             /\ stage'[u] = "run" <=> stage[u] = "run"
        BY <2>2 DEF IInv, TypeOK
    <2>8. Placed'
        <3>1. \A w1, w2 \in Workers : \A k1 \in DOMAIN q_'[w1], k2 \in DOMAIN q_'[w2] :
                 (q_'[w1][k1] = q_'[w2][k2] /\ q_'[w1][k1] # Nil) => (w1 = w2 /\ k1 = k2)
            BY <2>3, <2>4, <2>6 DEF IInv, Placed, Grows
        <3>2. \A v \in Workers : \A k \in DOMAIN q_'[v] :
                 q_'[v][k] # Nil => call'[q_'[v][k]] = "ok" /\ runs[q_'[v][k]] = 0
            <4> SUFFICES ASSUME NEW v \in Workers, NEW k \in DOMAIN q_'[v], q_'[v][k] # Nil
                         PROVE  call'[q_'[v][k]] = "ok" /\ runs[q_'[v][k]] = 0
                OBVIOUS
            <4>1. CASE q_'[v][k] = j
                BY <2>5, <2>6, <4>1
            <4>2. CASE q_'[v][k] # j
                <5>1. k \in DOMAIN q_[v] /\ q_'[v][k] = q_[v][k]
                    BY <2>3, <2>4, <4>2 DEF Grows
                <5>2. q_[v] \in Seq(Jobs \cup {Nil})
                    BY DEF IInv, TypeOK
                <5>3. q_[v][k] \in Jobs
                    BY <5>1, <5>2
                <5> QED BY <2>5, <4>2, <5>1, <5>3 DEF IInv, Placed
            <4> QED BY <4>1, <4>2
        <3>3. \A k \in Jobs : runs[k] = 0 \/ (runs[k] = 1 /\ call'[k] = "ok")
            BY <2>5 DEF IInv, Placed
        <3>4. \A k \in Jobs : (call'[k] = "ok" /\ runs[k] = 0) =>
                 \E v \in Workers : \E l \in DOMAIN q_'[v] : q_'[v][l] = k
            <4>1. ASSUME NEW k \in Jobs, k # j, call'[k] = "ok", runs[k] = 0
                  PROVE  \E v \in Workers : \E l \in DOMAIN q_'[v] : q_'[v][l] = k
                <5>1. PICK v \in Workers : \E l \in DOMAIN q_[v] : q_[v][l] = k
                    BY <2>5, <4>1 DEF IInv, Placed
                <5>2. PICK l \in DOMAIN q_[v] : q_[v][l] = k
                    BY <5>1
                <5>3. l \in DOMAIN q_'[v] /\ q_'[v][l] = k
                    BY <2>3, <2>4, <5>2 DEF Grows
                <5> QED BY <5>3
            <4> QED BY <2>4, <4>1
        <3> QED BY <2>2, <3>1, <3>2, <3>3, <3>4 DEF Placed
    <2>9. Running'
        BY <2>2, <2>7 DEF IInv, Running
    <2>10. Submitting'
        BY <2>2, <2>5 DEF IInv, Submitting, InProgress
    <2>11. dtor \notin {"drain", "gone"}
        BY <2>2 DEF IInv, Submitting, InProgress, Running, Stopping
    <2>12. Stopping'
        BY <2>2, <2>7, <2>11 DEF IInv, Stopping
    <2>13. Pills'
        <3>1. \A v \in Workers : (\E k \in DOMAIN q_'[v] : q_'[v][k] = Nil)
                                   <=> (\E k \in DOMAIN q_[v] : q_[v][k] = Nil)
            BY <2>3, <2>4 DEF Grows
        <3>2. \A v \in Workers : \A k1, k2 \in DOMAIN q_'[v] :
                 (q_'[v][k1] = Nil /\ q_'[v][k2] = Nil) => k1 = k2
            BY <2>3, <2>4 DEF IInv, Pills, Grows
        <3> QED BY <2>2, <2>7, <3>1, <3>2 DEF IInv, Pills, Pushed
    <2> QED BY <2>8, <2>9, <2>10, <2>12, <2>13 DEF IInv
<1> QED BY <1>1, <1>2

\* The destructor's push of the pill of queue i.
LEMMA PushPillIInv ==
    ASSUME IInv, TypeOK', PushPill
    PROVE  IInv'
<1> USE PoolAssumption, WorkersFacts
<1>1. PICK p \in Workers : p = i
    BY DEF PushPill, IInv, TypeOK, Workers
<1>2. /\ dtor = "pills" /\ i' = p + 1
      /\ q_' = [q_ EXCEPT ![p] = Append(@, Nil)]
      /\ stage' = [stage EXCEPT ![p] = IF @ = "asleep" THEN "4" ELSE @]
      /\ UNCHANGED <<should_stop_, job, call, runs, dtor>>
    BY <1>1 DEF PushPill, Push
<1>3. Grows(p, Nil)
    BY <1>2, PushEffect DEF IInv
<1>4. PICK last \in DOMAIN q_'[p] :
         q_'[p][last] = Nil /\ \A k \in DOMAIN q_'[p] : k \in DOMAIN q_[p] <=> k # last
    BY <1>3 DEF Grows
<1>5. \A u \in Workers : /\ stage'[u] = "exit" <=> stage[u] = "exit"
                         /\ stage'[u] = "run" <=> stage[u] = "run"
    BY <1>2 DEF IInv, TypeOK
<1>6. Placed'
    <2>0. Placed
        BY DEF IInv
    <2>1. \A v \in Workers : \A k \in DOMAIN q_'[v] :
             q_'[v][k] # Nil => k \in DOMAIN q_[v] /\ q_'[v][k] = q_[v][k]
        BY <1>3, <1>4 DEF Grows
    <2>2. \A w1, w2 \in Workers : \A k1 \in DOMAIN q_'[w1], k2 \in DOMAIN q_'[w2] :
             (q_'[w1][k1] = q_'[w2][k2] /\ q_'[w1][k1] # Nil) => (w1 = w2 /\ k1 = k2)
        <3> SUFFICES ASSUME NEW w1 \in Workers, NEW w2 \in Workers,
                            NEW k1 \in DOMAIN q_'[w1], NEW k2 \in DOMAIN q_'[w2],
                            q_'[w1][k1] = q_'[w2][k2], q_'[w1][k1] # Nil
                     PROVE  w1 = w2 /\ k1 = k2
            OBVIOUS
        <3>1. /\ k1 \in DOMAIN q_[w1] /\ q_'[w1][k1] = q_[w1][k1]
              /\ k2 \in DOMAIN q_[w2] /\ q_'[w2][k2] = q_[w2][k2]
            BY <2>1
        <3>2. \A v1, v2 \in Workers : \A l1 \in DOMAIN q_[v1], l2 \in DOMAIN q_[v2] :
                 (q_[v1][l1] = q_[v2][l2] /\ q_[v1][l1] # Nil) => (v1 = v2 /\ l1 = l2)
            BY <2>0 DEF Placed
        <3>3. (q_[w1][k1] = q_[w2][k2] /\ q_[w1][k1] # Nil) => (w1 = w2 /\ k1 = k2)
            BY ONLY <3>1, <3>2, w1 \in Workers, w2 \in Workers
        <3>4. q_[w1][k1] = q_[w2][k2] /\ q_[w1][k1] # Nil
            BY <3>1
        <3> QED BY <3>3, <3>4
    <2>3. \A v \in Workers : \A k \in DOMAIN q_'[v] :
             q_'[v][k] # Nil => call[q_'[v][k]] = "ok" /\ runs[q_'[v][k]] = 0
        <3> SUFFICES ASSUME NEW v \in Workers, NEW k \in DOMAIN q_'[v], q_'[v][k] # Nil
                     PROVE  call[q_'[v][k]] = "ok" /\ runs[q_'[v][k]] = 0
            OBVIOUS
        <3>1. k \in DOMAIN q_[v] /\ q_'[v][k] = q_[v][k]
            BY ONLY <2>1, v \in Workers, k \in DOMAIN q_'[v], q_'[v][k] # Nil
        <3>2. \A v1 \in Workers : \A k1 \in DOMAIN q_[v1] :
                 q_[v1][k1] # Nil => call[q_[v1][k1]] = "ok" /\ runs[q_[v1][k1]] = 0
            BY ONLY <2>0 DEF Placed
        <3>3. q_[v][k] # Nil => call[q_[v][k]] = "ok" /\ runs[q_[v][k]] = 0
            BY ONLY <3>1, <3>2, v \in Workers
        <3> QED BY ONLY <3>1, <3>3, q_'[v][k] # Nil
    <2>4. \A j \in Jobs : (call[j] = "ok" /\ runs[j] = 0) =>
             \E v \in Workers : \E k \in DOMAIN q_'[v] : q_'[v][k] = j
        <3> SUFFICES ASSUME NEW j \in Jobs, call[j] = "ok", runs[j] = 0
                     PROVE  \E v \in Workers : \E k \in DOMAIN q_'[v] : q_'[v][k] = j
            OBVIOUS
        <3>1. PICK v \in Workers : \E k \in DOMAIN q_[v] : q_[v][k] = j
            BY DEF IInv, Placed
        <3>2. PICK k \in DOMAIN q_[v] : q_[v][k] = j
            BY <3>1
        <3>3. k \in DOMAIN q_'[v] /\ q_'[v][k] = j
            BY <1>3, <3>2 DEF Grows
        <3> QED BY <3>3
    <2> QED BY <1>2, <2>2, <2>3, <2>4 DEF IInv, Placed
<1>7. Running' /\ Submitting'
    BY <1>2, <1>5 DEF IInv, Running, Submitting, InProgress
<1>8. Stopping'
    BY <1>2 DEF IInv, Stopping
<1>9. Pills'
    <2>1. ~Pushed(p) /\ \A v \in Workers : Pushed(v)' <=> (Pushed(v) \/ v = p)
        BY <1>1, <1>2 DEF Pushed, IInv, TypeOK
    <2>2. SUFFICES ASSUME NEW v \in Workers
                   PROVE  /\ \A k1, k2 \in DOMAIN q_'[v] :
                                (q_'[v][k1] = Nil /\ q_'[v][k2] = Nil) => k1 = k2
                          /\ (\E k \in DOMAIN q_'[v] : q_'[v][k] = Nil)
                                <=> ((Pushed(v) \/ v = p) /\ stage[v] # "exit")
                          /\ stage[v] = "exit" => Pushed(v)
        BY <1>5, <2>1 DEF Pills
    <2>3. CASE v # p
        BY <1>3, <2>3 DEF IInv, Pills, Grows
    <2>4. CASE v = p
        <3>1. \A k \in DOMAIN q_[p] : q_[p][k] # Nil
            BY <2>1 DEF IInv, Pills
        <3>2. stage[p] # "exit"
            BY <2>1 DEF IInv, Pills
        <3>3. \A k \in DOMAIN q_'[p] : q_'[p][k] = Nil => k = last
            BY <1>3, <1>4, <3>1 DEF Grows
        <3> QED BY <1>4, <2>4, <3>2, <3>3
    <2> QED BY <2>3, <2>4
<1> QED BY <1>6, <1>7, <1>8, <1>9 DEF IInv

\* The destructor takes the front of a queue after the join; no pill is left.
LEMMA DrainIInv ==
    ASSUME IInv, TypeOK', Drain
    PROVE  IInv'
<1> USE PoolAssumption, WorkersFacts
<1>1. PICK p \in Workers : p = i
    BY DEF Drain, IInv, TypeOK, Workers
<1>2. /\ dtor = "drain" /\ i < n_ /\ job[Owner] = Nil /\ Owner \in Threads
      /\ \A w \in Workers : stage[w] = "exit" /\ job[w] = Nil
    BY DEF Drain, IInv, Stopping, Running, Threads
<1>3. /\ UNCHANGED <<should_stop_, stage, call, dtor>>
      /\ \A j \in Jobs : ~InProgress(j)
    BY <1>2 DEF Drain, IInv, Submitting
<1>4. CASE q_[p] = <<>>
    <2>1. i' = p + 1 /\ UNCHANGED <<q_, job, runs>>
        BY <1>1, <1>4 DEF Drain
    <2>2. Placed' /\ Running' /\ Submitting'
        BY <1>3, <2>1 DEF IInv, Placed, Running, Submitting, InProgress
    <2>3. \A w \in Workers : w < i' => w < p \/ w = p
        BY <2>1
    <2>4. Stopping'
        BY <1>1, <1>2, <1>3, <1>4, <2>1, <2>3 DEF IInv, Stopping
    <2>5. Pills'
        BY <1>2, <1>3, <2>1 DEF IInv, Pills, Pushed
    <2> QED BY <2>2, <2>4, <2>5 DEF IInv
<1>5. CASE q_[p] # <<>>
    <2>1. PICK e : e = Head(q_[p])
        OBVIOUS
    <2>2. q_' = [q_ EXCEPT ![p] = Tail(@)] /\ UNCHANGED i
        BY <1>1, <1>5 DEF Drain
    <2>3. Shifts(p)
        BY <1>5, <2>2, PopEffect DEF IInv
    <2>4. e \in Jobs \cup {Nil} /\ 1 \in DOMAIN q_[p] /\ e = q_[p][1]
        BY <2>1, <2>3 DEF Shifts
    <2>5. e # Nil
        BY <1>2, <2>4 DEF IInv, Pills
    <2>6. job' = [job EXCEPT ![Owner] = e] /\ runs' = [runs EXCEPT ![e] = @ + 1]
        BY <1>1, <1>5, <2>1, <2>5 DEF Drain
    <2>7. /\ \A t \in Threads : job'[t] = IF t = Owner THEN e ELSE job[t]
          /\ \A j \in Jobs : runs'[j] = IF j = e THEN runs[j] + 1 ELSE runs[j]
        BY <2>6 DEF IInv, TypeOK
    <2>8. Placed' /\ (e # Nil => e \in Jobs /\ runs[e] = 0 /\ runs'[e] = 1)
        BY <1>3, <2>1, <2>3, <2>4, <2>7, PopPlaced DEF IInv
    <2>9. \A t \in Threads : job'[t] = IF t = Owner THEN e ELSE Nil
        BY <1>2, <2>7 DEF Threads
    <2>10. Running'
        BY <1>2, <1>3, <2>5, <2>8, <2>9 DEF Running, Threads
    <2>11. Submitting'
        BY <1>3 DEF Submitting, InProgress
    <2>12. Stopping'
        BY <1>1, <1>2, <1>3, <2>2, <2>3 DEF IInv, Stopping, Shifts
    <2>13. Pills'
        <3>1. \A u \in Workers : stage'[u] = "exit" <=>
                 (stage[u] = "exit" \/ (Head(q_[p]) = Nil /\ u = p))
            BY <1>2, <1>3
        <3>2. UNCHANGED <<dtor, i>>
            BY <1>3, <2>2
        <3> QED BY <2>3, <3>1, <3>2, PopPills DEF IInv
    <2> QED BY <2>8, <2>10, <2>11, <2>12, <2>13 DEF IInv
<1> QED BY <1>4, <1>5

\* Every step keeps the invariant.
LEMMA NextIInv == IInv /\ [Next]_vars => IInv'
<1> SUFFICES ASSUME IInv, [Next]_vars PROVE IInv'
    OBVIOUS
<1>0. TypeOK'
    BY NextType DEF IInv
<1> USE <1>0, PoolAssumption, WorkersFacts
<1>1. ASSUME NEW j \in Jobs, RunAsync(j) PROVE IInv'
    <2>1. /\ call[j] = "none"
          /\ call' = [call EXCEPT ![j] = IF should_stop_ THEN "EPERM" ELSE "checked"]
          /\ UNCHANGED <<q_, should_stop_, stage, job, runs, dtor, i>>
        BY <1>1 DEF RunAsync, MaySubmit
    <2>2. /\ \A k \in Jobs : k # j => call'[k] = call[k]
          /\ call'[j] = IF should_stop_ THEN "EPERM" ELSE "checked"
        BY <2>1 DEF IInv, TypeOK
    <2>3. \A k \in Jobs : call'[k] = "ok" <=> call[k] = "ok"
        BY <2>1, <2>2
    <2>4. Placed'
        BY <2>1, <2>3 DEF IInv, Placed, TypeOK
    <2>5. Running' /\ Stopping' /\ Pills'
        BY <2>1 DEF IInv, Running, Stopping, Pills, Pushed
    <2>6. call'[j] = "checked" => dtor = "alive" /\ job[Owner] = Nil
        BY <2>2 DEF IInv, Stopping
    <2>7. call'[j] = "checked" /\ Submitter[j] # Nil =>
             \E w \in Workers : job[w] = Submitter[j] /\ job[w] # Nil
        BY <1>1, <2>6 DEF RunAsync, MaySubmit, Threads
    <2>8. Submitting'
        BY <2>1, <2>2, <2>6, <2>7 DEF IInv, Submitting, InProgress
    <2> QED BY <2>4, <2>5, <2>8 DEF IInv
<1>2. ASSUME NEW j \in Jobs, Enqueue(j) PROVE IInv'
    BY <1>2, EnqueueIInv
<1>3. ASSUME NEW w \in Workers, TryPop(w) PROVE IInv'
    <2>1. stage[w] \notin {"run", "exit"} /\ UNCHANGED <<should_stop_, call, dtor, i>>
        BY <1>3 DEF TryPop
    <2>2. CASE q_[w] # <<>>
        <3>1. Take(w, w)
            BY <1>3, <2>2 DEF TryPop
        <3> QED BY <2>1, <2>2, <3>1, TakeIInv
    <2>3. CASE q_[w] = <<>>
        <3>1. /\ stage' = [stage EXCEPT ![w] = IF @ = "0" THEN "1" ELSE "3"]
              /\ UNCHANGED <<q_, job, runs>>
            BY <1>3, <2>3 DEF TryPop
        <3>2. /\ \A u \in Workers : u # w => stage'[u] = stage[u]
              /\ stage'[w] \notin {"run", "exit"}
            BY <3>1 DEF IInv, TypeOK
        <3> QED BY <2>1, <3>1, <3>2, MoveIInv
    <2> QED BY <2>2, <2>3
<1>4. ASSUME NEW w \in Workers, Sleep(w) PROVE IInv'
    <2>1. /\ \A u \in Workers : u # w => stage'[u] = stage[u]
          /\ stage[w] \notin {"run", "exit"} /\ stage'[w] \notin {"run", "exit"}
          /\ UNCHANGED <<q_, should_stop_, job, call, runs, dtor, i>>
        BY <1>4 DEF Sleep, IInv, TypeOK
    <2> QED BY <2>1, MoveIInv
<1>5. ASSUME NEW w \in Workers, Steal(w) PROVE IInv'
    <2>1. stage[w] = "3" /\ UNCHANGED <<should_stop_, call, dtor, i>>
        BY <1>5 DEF Steal
    <2>2. PICK v \in victims[w] :
             IF Stealable(v)
             THEN Take(w, v) /\ victims' = [victims EXCEPT ![w] = {}]
             ELSE /\ victims' = [victims EXCEPT ![w] = @ \ {v}]
                  /\ UNCHANGED <<q_, stage, job, runs>>
        BY <1>5 DEF Steal
    <2>3. v \in Workers
        BY DEF IInv, TypeOK
    <2>4. CASE Stealable(v)
        <3>1. Take(w, v) /\ q_[v] # <<>> /\ Head(q_[v]) # Nil
            BY <2>2, <2>4 DEF Stealable
        <3> QED BY <2>1, <2>3, <3>1, TakeIInv
    <2>5. CASE ~Stealable(v)
        <3>1. UNCHANGED <<q_, should_stop_, stage, job, call, runs, dtor, i>>
            BY <2>1, <2>2, <2>5
        <3> QED BY <2>1, <3>1, MoveIInv
    <2> QED BY <2>4, <2>5
<1>6. ASSUME NEW w \in Workers, GiveUpStealing(w) PROVE IInv'
    <2>1. /\ \A u \in Workers : u # w => stage'[u] = stage[u]
          /\ stage[w] \notin {"run", "exit"} /\ stage'[w] \notin {"run", "exit"}
          /\ UNCHANGED <<q_, should_stop_, job, call, runs, dtor, i>>
        BY <1>6 DEF GiveUpStealing, IInv, TypeOK
    <2> QED BY <2>1, MoveIInv
<1>7. ASSUME NEW w \in Workers, Pop(w) PROVE IInv'
    <2>1. stage[w] \notin {"run", "exit"} /\ UNCHANGED <<should_stop_, call, dtor, i>>
        BY <1>7 DEF Pop
    <2>2. CASE q_[w] # <<>>
        <3>1. Take(w, w)
            BY <1>7, <2>2 DEF Pop
        <3> QED BY <2>1, <2>2, <3>1, TakeIInv
    <2>3. CASE q_[w] = <<>>
        <3>1. stage' = [stage EXCEPT ![w] = "asleep"] /\ UNCHANGED <<q_, job, runs>>
            BY <1>7, <2>3 DEF Pop
        <3>2. /\ \A u \in Workers : u # w => stage'[u] = stage[u]
              /\ stage'[w] \notin {"run", "exit"}
            BY <3>1 DEF IInv, TypeOK
        <3> QED BY <2>1, <3>1, <3>2, MoveIInv
    <2> QED BY <2>2, <2>3
<1>8. ASSUME NEW t \in Threads, JobReturns(t) PROVE IInv'
    <2>1. /\ job[t] # Nil
          /\ \A j \in Jobs : Submitter[j] = job[t] => ~InProgress(j)
          /\ job' = [job EXCEPT ![t] = Nil]
          /\ stage' = [w \in Workers |-> IF w = t THEN "0" ELSE stage[w]]
          /\ UNCHANGED <<q_, should_stop_, call, runs, dtor, i>>
        BY <1>8 DEF JobReturns
    <2>2. \A u \in Threads : job'[u] = IF u = t THEN Nil ELSE job[u]
        BY <2>1 DEF IInv, TypeOK
    <2>3. \A w \in Workers : /\ stage'[w] = "exit" <=> stage[w] = "exit"
                             /\ stage'[w] = "run" <=> (stage[w] = "run" /\ w # t)
        BY <2>1 DEF IInv, Running
    <2>4. Placed'
        BY <2>1 DEF IInv, Placed
    <2>5. Running'
        <3>1. \A u \in Threads : job'[u] # Nil => runs[job'[u]] = 1
            BY <2>2 DEF IInv, Running
        <3>2. \A t1, t2 \in Threads : (job'[t1] = job'[t2] /\ job'[t1] # Nil) => t1 = t2
            BY <2>2 DEF IInv, Running
        <3>3. \A w \in Workers : stage'[w] = "run" <=> job'[w] # Nil
            BY <2>2, <2>3 DEF IInv, Running, Threads
        <3> QED BY <2>1, <3>1, <3>2, <3>3 DEF Running
    <2>6. Submitting'
        BY <2>1, <2>2 DEF IInv, Submitting, InProgress, Threads
    <2>7. Stopping'
        BY <2>1, <2>2, <2>3 DEF IInv, Stopping, Threads
    <2>8. Pills'
        BY <2>1, <2>3 DEF IInv, Pills, Pushed
    <2> QED BY <2>4, <2>5, <2>6, <2>7, <2>8 DEF IInv
<1>9. CASE Destroy
    <2>1. Placed' /\ Running'
        BY <1>9 DEF Destroy, IInv, Placed, Running
    <2>2. Submitting'
        BY <1>9 DEF Destroy, IInv, Submitting, InProgress
    <2>3. Stopping'
        BY <1>9 DEF Destroy, IInv, Stopping
    <2>4. \A w \in Workers : ~Pushed(w) /\ ~Pushed(w)'
        BY <1>9 DEF Destroy, Pushed, IInv, Stopping
    <2>5. Pills'
        BY <1>9, <2>4 DEF Destroy, IInv, Pills
    <2> QED BY <2>1, <2>2, <2>3, <2>5 DEF IInv
<1>10. CASE PushPill
    BY <1>10, PushPillIInv
<1>11. CASE Join
    <2>1. Placed' /\ Running' /\ Submitting'
        BY <1>11 DEF Join, IInv, Placed, Running, Submitting, InProgress
    <2>2. \A w \in Workers : w < i' => w < i \/ w = i
        BY <1>11 DEF Join, IInv, TypeOK
    <2>3. Stopping'
        BY <1>11, <2>2 DEF Join, IInv, Stopping
    <2>4. Pills'
        BY <1>11 DEF Join, IInv, Pills, Pushed
    <2> QED BY <2>1, <2>3, <2>4 DEF IInv
<1>12. CASE Drain
    BY <1>12, DrainIInv
<1>13. ASSUME NEW from, NEW to,
              <<from, to>> \in {<<"pills", "join">>, <<"join", "drain">>, <<"drain", "gone">>},
              NextPhase(from, to)
       PROVE  IInv'
    <2>1. /\ dtor = from /\ dtor' = to /\ i = n_ /\ i' = 0
          /\ UNCHANGED <<q_, should_stop_, stage, job, call, runs>>
        BY <1>13 DEF NextPhase
    <2>2. \A w \in Workers : w < i /\ ~(w < i')
        BY <2>1 DEF Workers
    <2>3. Placed' /\ Running'
        <3>1. Placed'
            BY <2>1 DEF IInv, Placed
        <3>2. Running'
            BY <2>1 DEF IInv, Running
        <3> QED BY <3>1, <3>2
    <2>4. Submitting'
        BY <1>13, <2>1 DEF IInv, Submitting, InProgress
    <2>5. Stopping'
        <3>0. Stopping /\ i' = 0 /\ n_ \in Nat
            BY <2>1 DEF IInv
        <3>1. CASE from = "pills" /\ to = "join"
            BY <2>1, <2>2, <3>0, <3>1 DEF Stopping
        <3>2. CASE from = "join" /\ to = "drain"
            BY <2>1, <2>2, <3>0, <3>2 DEF Stopping
        <3>3. CASE from = "drain" /\ to = "gone"
            BY <2>1, <2>2, <3>0, <3>3 DEF Stopping
        <3> QED BY <1>13, <3>1, <3>2, <3>3
    <2>6. \A w \in Workers : Pushed(w) /\ Pushed(w)'
        BY <1>13, <2>1, <2>2 DEF Pushed
    <2>7. Pills'
        BY <2>1, <2>6 DEF IInv, Pills
    <2> QED BY <2>3, <2>4, <2>5, <2>7 DEF IInv
<1>14. CASE Terminated \/ UNCHANGED vars
    <2>1. UNCHANGED <<q_, should_stop_, stage, job, call, runs, dtor, i>>
        BY <1>14 DEF Terminated, vars
    <2>2. Placed' /\ Running' /\ Submitting'
        BY <2>1 DEF IInv, Placed, Running, Submitting, InProgress
    <2>3. Stopping' /\ Pills'
        BY <2>1 DEF IInv, Stopping, Pills, Pushed
    <2> QED BY <2>2, <2>3 DEF IInv
<1> QED
    BY <1>1, <1>2, <1>3, <1>4, <1>5, <1>6, <1>7, <1>8, <1>9, <1>10, <1>11, <1>12,
       <1>13, <1>14
    DEF Next, Worker, Dtor

\* Nothing is submitted, started or completed once the destructor is over.
LEMMA GoneIsQuiet ==
    ASSUME IInv, dtor = "gone"
    PROVE  /\ \A t \in Threads : job[t] = Nil
           /\ \A w \in Workers : stage[w] = "exit"
           /\ \A j \in Jobs : ~InProgress(j)
<1> USE PoolAssumption, WorkersFacts
<1>1. \A w \in Workers : stage[w] = "exit" /\ job[w] = Nil
    BY DEF IInv, Stopping, Running
<1>2. job[Owner] = Nil
    BY DEF IInv, Stopping
<1>3. \A j \in Jobs : ~InProgress(j)
    BY <1>1 DEF IInv, Submitting
<1> QED BY <1>1, <1>2, <1>3 DEF Threads

\* run_async's answer is kept, stealing, pills and destruction included, for
\* any number of workers and jobs.
THEOREM AnswersKeptCorrect == Spec => []AnswersKept
<1>1. IInv => AnswersKept
    <2> SUFFICES ASSUME IInv PROVE AnswersKept
        OBVIOUS
    <2> USE PoolAssumption, WorkersFacts
    <2>1. \A j \in Jobs : runs[j] <= (IF call[j] = "ok" THEN 1 ELSE 0)
        BY DEF IInv, Placed
    <2>2. ASSUME dtor = "gone", NEW j \in Jobs
          PROVE  /\ call[j] = "ok" => runs[j] = 1
                 /\ ~InProgress(j)
                 /\ \A t \in Threads : job[t] # j
        <3>1. \A w \in Workers : q_[w] = <<>> /\ DOMAIN q_[w] = {}
            BY <2>2 DEF IInv, Stopping
        <3>2. call[j] = "ok" => runs[j] = 1
            BY <3>1 DEF IInv, Placed
        <3> QED BY <2>2, <3>2, GoneIsQuiet
    <2> QED BY <2>1, <2>2 DEF AnswersKept
<1> QED BY <1>1, InitIInv, NextIInv, PTL DEF Spec

\* A death pill is taken by the worker it was pushed for and by nobody else.
THEOREM OwnPillCorrect == Spec => []OwnPillOnly
<1>1. IInv => OwnPillOnly
    BY DEF IInv, Pills, Pushed, OwnPillOnly, PillsIn
<1> QED BY <1>1, InitIInv, NextIInv, PTL DEF Spec

-----------------------------------------------------------------------------
(* The pool implements Executor                                            *)

\* A job's status in Executor, case by case.
StatusIs(j, st) ==
    \/ st = "none" /\ call[j] \in {"none", "checked", "SIGFPE"}
    \/ st = "rejected" /\ call[j] = "EPERM"
    \/ st = "accepted" /\ call[j] = "ok" /\ runs[j] = 0
    \/ st = "started" /\ call[j] = "ok" /\ runs[j] # 0 /\ \E t \in Threads : job[t] = j
    \/ st = "finished" /\ call[j] = "ok" /\ runs[j] # 0 /\ \A t \in Threads : job[t] # j

\* What the mapping makes of a job, by where the job is.
LEMMA StatusCases ==
    ASSUME TypeOK, NEW j \in Jobs, NEW st, StatusIs(j, st)
    PROVE  JobStatus(j) = st
BY DEF StatusIs, JobStatus, TypeOK, Calls

\* The same after a step.
LEMMA StatusCasesNext ==
    ASSUME TypeOK', NEW j \in Jobs, NEW st, StatusIs(j, st)'
    PROVE  JobStatus(j)' = st
BY DEF StatusIs, JobStatus, TypeOK, Calls

\* A step that changes the status of one job only.
LEMMA StatusMove ==
    ASSUME TypeOK, TypeOK', NEW j \in Jobs, NEW from, NEW to,
           StatusIs(j, from), StatusIs(j, to)', UNCHANGED dtor,
           \A k \in Jobs : k # j => JobStatus(k)' = JobStatus(k)
    PROVE  Promise!Move(j, from, to)
<1>1. JobStatus(j) = from /\ JobStatus(j)' = to
    BY StatusCases, StatusCasesNext
<1>2. PoolStatus' = PoolStatus
    BY DEF PoolStatus
<1> QED BY <1>1, <1>2 DEF Promise!Move

\* A step that moves no job leaves the mapped status alone.
LEMMA StatusStutter ==
    ASSUME \A k \in Jobs : JobStatus(k)' = JobStatus(k), UNCHANGED dtor
    PROVE  UNCHANGED Promise!vars
BY DEF Promise!vars, PoolStatus

\* Starting the job at the front of a queue on thread t.
LEMMA StartRefines ==
    ASSUME IInv, IInv', NEW t \in Threads, NEW v \in Workers, q_[v] # <<>>,
           job[t] = Nil, dtor # "gone", UNCHANGED <<call, dtor>>,
           NEW e, e = Head(q_[v]), e # Nil,
           job' = [job EXCEPT ![t] = e],
           runs' = [runs EXCEPT ![e] = @ + 1]
    PROVE  Promise!Next
<1> USE PoolAssumption, WorkersFacts
<1>1. q_[v] \in Seq(Jobs \cup {Nil})
    BY DEF IInv, TypeOK
<1>2. e \in Jobs /\ 1 \in DOMAIN q_[v] /\ q_[v][1] = e
    BY <1>1, TailFacts
<1>3. call[e] = "ok" /\ runs[e] = 0
    BY <1>2 DEF IInv, Placed
<1>4. runs'[e] = 1 /\ \A k \in Jobs : k # e => runs'[k] = runs[k]
    BY <1>2, <1>3 DEF IInv, TypeOK
<1>5. \A u \in Threads : job'[u] = IF u = t THEN e ELSE job[u]
    BY DEF IInv, TypeOK
<1>6. StatusIs(e, "accepted") /\ StatusIs(e, "started")'
    BY <1>2, <1>3, <1>4, <1>5 DEF StatusIs
<1>7. ASSUME NEW k \in Jobs, k # e PROVE JobStatus(k)' = JobStatus(k)
    <2>1. (\E u \in Threads : job'[u] = k) <=> (\E u \in Threads : job[u] = k)
        BY <1>5, <1>7
    <2> QED BY <1>4, <1>7, <2>1 DEF JobStatus
<1>8. Promise!Move(e, "accepted", "started")
    BY <1>2, <1>6, <1>7, StatusMove DEF IInv
<1>9. PoolStatus # "gone"
    BY DEF PoolStatus
<1> QED BY <1>2, <1>8, <1>9 DEF Promise!Next, Promise!Start

\* Take by a worker: a start, or no change when the front is a pill.
LEMMA TakeRefines ==
    ASSUME IInv, IInv', NEW w \in Workers, NEW v \in Workers, q_[v] # <<>>,
           stage[w] \notin {"run", "exit"}, Take(w, v), UNCHANGED <<call, dtor>>
    PROVE  [Promise!Next]_(Promise!vars)
<1>1. w \in Threads /\ job[w] = Nil /\ dtor # "gone"
    BY DEF IInv, Running, Stopping, Threads
<1>2. CASE Head(q_[v]) = Nil
    <2>1. UNCHANGED <<job, runs, call, dtor>>
        BY <1>2 DEF Take
    <2> QED BY <2>1, StatusStutter DEF JobStatus
<1>3. CASE Head(q_[v]) # Nil
    <2>1. PICK e : e = Head(q_[v])
        OBVIOUS
    <2>2. job' = [job EXCEPT ![w] = e] /\ runs' = [runs EXCEPT ![e] = @ + 1]
        BY <1>3, <2>1 DEF Take
    <2> QED BY <1>1, <1>3, <2>1, <2>2, StartRefines
<1> QED BY <1>2, <1>3

\* Every step of the pool is a step of Executor or changes nothing there.
LEMMA NextRefines ==
    IInv /\ IInv' /\ [Next]_vars => [Promise!Next]_(Promise!vars)
<1> SUFFICES ASSUME IInv, IInv', [Next]_vars PROVE [Promise!Next]_(Promise!vars)
    OBVIOUS
<1> USE PoolAssumption, WorkersFacts
<1>0. ASSUME UNCHANGED <<call, runs, job, dtor>> PROVE UNCHANGED Promise!vars
    BY <1>0, StatusStutter DEF JobStatus
<1>1. ASSUME NEW j \in Jobs, RunAsync(j) PROVE [Promise!Next]_(Promise!vars)
    <2>1. /\ call[j] = "none"
          /\ call' = [call EXCEPT ![j] = IF should_stop_ THEN "EPERM" ELSE "checked"]
          /\ UNCHANGED <<runs, job, dtor>>
        BY <1>1 DEF RunAsync, MaySubmit
    <2>2. /\ \A k \in Jobs : k # j => call'[k] = call[k]
          /\ call'[j] = IF should_stop_ THEN "EPERM" ELSE "checked"
        BY <2>1 DEF IInv, TypeOK
    <2>3. \A k \in Jobs : k # j => JobStatus(k)' = JobStatus(k)
        BY <2>1, <2>2 DEF JobStatus
    <2>4. CASE should_stop_
        <3>1. StatusIs(j, "none") /\ StatusIs(j, "rejected")'
            BY <2>1, <2>2, <2>4 DEF StatusIs
        <3>2. Promise!Move(j, "none", "rejected")
            BY <2>1, <2>3, <3>1, StatusMove DEF IInv
        <3>3. dtor \notin {"alive", "gone"}
            <4>1. dtor # "alive"
                BY <2>4 DEF IInv, Stopping
            <4>2. \E t \in Threads : job[t] # Nil
                BY <1>1, <4>1 DEF RunAsync, MaySubmit
            <4> QED BY <4>1, <4>2, GoneIsQuiet
        <3> QED BY <3>2, <3>3 DEF Promise!Next, Promise!Reject, PoolStatus
    <2>5. CASE ~should_stop_
        <3>1. JobStatus(j)' = JobStatus(j)
            BY <2>1, <2>2, <2>5 DEF JobStatus
        <3> QED BY <2>1, <2>3, <3>1, StatusStutter
    <2> QED BY <2>4, <2>5
<1>2. ASSUME NEW j \in Jobs, Enqueue(j) PROVE [Promise!Next]_(Promise!vars)
    <2>1. /\ call[j] = "checked" /\ UNCHANGED <<runs, job, dtor>>
          /\ call' = [call EXCEPT ![j] = IF n_ = 0 THEN "SIGFPE" ELSE "ok"]
        BY <1>2 DEF Enqueue, InProgress
    <2>2. /\ \A k \in Jobs : k # j => call'[k] = call[k]
          /\ call'[j] = IF n_ = 0 THEN "SIGFPE" ELSE "ok"
        BY <2>1 DEF IInv, TypeOK
    <2>3. \A k \in Jobs : k # j => JobStatus(k)' = JobStatus(k)
        BY <2>1, <2>2 DEF JobStatus
    <2>4. CASE n_ = 0
        <3>1. JobStatus(j)' = JobStatus(j)
            BY <2>1, <2>2, <2>4 DEF JobStatus
        <3> QED BY <2>1, <2>3, <3>1, StatusStutter
    <2>5. CASE n_ # 0
        <3>1. runs[j] = 0
            BY <2>1 DEF IInv, Placed
        <3>2. StatusIs(j, "none") /\ StatusIs(j, "accepted")'
            BY <2>1, <2>2, <2>5, <3>1 DEF StatusIs
        <3>3. Promise!Move(j, "none", "accepted")
            BY <2>1, <2>3, <3>2, StatusMove DEF IInv
        <3>4. PoolStatus # "gone"
            BY <2>1, GoneIsQuiet DEF PoolStatus, InProgress
        <3> QED BY <3>3, <3>4 DEF Promise!Next, Promise!Accept
    <2> QED BY <2>4, <2>5
<1>3. ASSUME NEW w \in Workers, Worker(w) PROVE [Promise!Next]_(Promise!vars)
    <2>1. UNCHANGED <<call, dtor>>
        BY <1>3 DEF Worker, TryPop, Sleep, Steal, GiveUpStealing, Pop
    <2>2. stage[w] \notin {"run", "exit"}
        BY <1>3 DEF Worker, TryPop, Sleep, Steal, GiveUpStealing, Pop
    <2>3. \/ UNCHANGED <<job, runs>>
          \/ \E v \in Workers : q_[v] # <<>> /\ Take(w, v)
        <3>1. CASE TryPop(w)
            BY <3>1 DEF TryPop
        <3>2. CASE Sleep(w) \/ GiveUpStealing(w)
            BY <3>2 DEF Sleep, GiveUpStealing
        <3>3. CASE Steal(w)
            <4>1. victims[w] \subseteq Workers
                BY DEF IInv, TypeOK
            <4> QED BY <3>3, <4>1 DEF Steal, Stealable
        <3>4. CASE Pop(w)
            BY <3>4 DEF Pop
        <3> QED BY <1>3, <3>1, <3>2, <3>3, <3>4 DEF Worker
    <2> QED BY <1>0, <2>1, <2>2, <2>3, TakeRefines
<1>4. ASSUME NEW t \in Threads, JobReturns(t) PROVE [Promise!Next]_(Promise!vars)
    <2>1. /\ job[t] # Nil /\ job' = [job EXCEPT ![t] = Nil]
          /\ UNCHANGED <<call, runs, dtor>>
        BY <1>4 DEF JobReturns
    <2>2. PICK j \in Jobs : j = job[t]
        BY <2>1 DEF IInv, TypeOK
    <2>3. \A u \in Threads : job'[u] = IF u = t THEN Nil ELSE job[u]
        BY <2>1 DEF IInv, TypeOK
    <2>4. runs[j] = 1 /\ call[j] = "ok"
        BY <2>1, <2>2 DEF IInv, Running, Placed
    <2>5. \A u \in Threads : job'[u] # j
        BY <2>2, <2>3 DEF IInv, Running
    <2>6. StatusIs(j, "started") /\ StatusIs(j, "finished")'
        BY <2>1, <2>2, <2>4, <2>5 DEF StatusIs
    <2>7. ASSUME NEW k \in Jobs, k # j PROVE JobStatus(k)' = JobStatus(k)
        <3>1. (\E u \in Threads : job'[u] = k) <=> (\E u \in Threads : job[u] = k)
            BY <2>2, <2>3, <2>7
        <3> QED BY <2>1, <3>1 DEF JobStatus
    <2>8. Promise!Move(j, "started", "finished")
        BY <2>1, <2>6, <2>7, StatusMove DEF IInv
    <2>9. PoolStatus # "gone"
        BY <2>1, GoneIsQuiet DEF PoolStatus
    <2> QED BY <2>8, <2>9 DEF Promise!Next, Promise!Finish
<1>5. CASE Destroy
    <2>1. \A k \in Jobs : JobStatus(k)' = JobStatus(k)
        BY <1>5 DEF Destroy, JobStatus
    <2>2. PoolStatus = "open" /\ PoolStatus' = "stopping"
        BY <1>5 DEF Destroy, PoolStatus
    <2> QED BY <2>1, <2>2 DEF Promise!Next, Promise!Stop
<1>6. CASE PushPill \/ Join \/ NextPhase("pills", "join") \/ NextPhase("join", "drain")
    <2>1. /\ \A k \in Jobs : JobStatus(k)' = JobStatus(k)
          /\ PoolStatus' = PoolStatus
        BY <1>6 DEF PushPill, Join, NextPhase, JobStatus, PoolStatus
    <2> QED BY <2>1 DEF Promise!vars
<1>7. CASE Drain
    <2>1. PICK p \in Workers : p = i
        BY <1>7 DEF Drain, IInv, TypeOK, Workers
    <2>2. UNCHANGED <<call, dtor>> /\ job[Owner] = Nil /\ Owner \in Threads /\ dtor # "gone"
        BY <1>7 DEF Drain, Threads
    <2>3. \/ UNCHANGED <<job, runs>>
          \/ /\ q_[p] # <<>> /\ Head(q_[p]) # Nil
             /\ job' = [job EXCEPT ![Owner] = Head(q_[p])]
             /\ runs' = [runs EXCEPT ![Head(q_[p])] = @ + 1]
        BY <1>7, <2>1 DEF Drain
    <2>4. PICK e : e = Head(q_[p])
        OBVIOUS
    <2> QED BY <1>0, <2>2, <2>3, <2>4, StartRefines
<1>8. CASE NextPhase("drain", "gone")
    <2>1. \A k \in Jobs : JobStatus(k)' = JobStatus(k)
        BY <1>8 DEF NextPhase, JobStatus
    <2>2. PoolStatus = "stopping" /\ PoolStatus' = "gone"
        BY <1>8 DEF NextPhase, PoolStatus
    <2>3. ASSUME NEW j \in Jobs PROVE JobStatus(j) \in {"none", "rejected", "finished"}
        <3>1. dtor = "drain" /\ \A w \in Workers : w < i
            BY <1>8 DEF NextPhase, Workers
        <3>2. /\ \A w \in Workers : stage[w] = "exit" /\ q_[w] = <<>> /\ DOMAIN q_[w] = {}
              /\ job[Owner] = Nil
            BY <1>8, <3>1 DEF IInv, Stopping, NextPhase
        <3>3. \A t \in Threads : job[t] = Nil
            BY <3>2 DEF IInv, Running, Threads
        <3>4. call[j] = "ok" => runs[j] # 0
            BY <3>2 DEF IInv, Placed
        <3>5. call[j] \in Calls
            BY DEF IInv, TypeOK
        <3> QED BY <3>3, <3>4, <3>5 DEF JobStatus, Calls
    <2> QED BY <2>1, <2>2, <2>3 DEF Promise!Next, Promise!Leave
<1>9. CASE Terminated \/ UNCHANGED vars
    BY <1>0, <1>9 DEF Terminated, vars
<1> QED BY <1>1, <1>2, <1>3, <1>4, <1>5, <1>6, <1>7, <1>8, <1>9 DEF Next, Dtor

\* The pool implements Executor for every number of workers and jobs.
THEOREM Refinement == Spec => ImplementsExecutor
<1>1. Init => Promise!Init
    BY DEF Init, Promise!Init, JobStatus, PoolStatus
<1> QED BY <1>1, InitIInv, NextIInv, NextRefines, PTL
        DEF Spec, ImplementsExecutor, Promise!Spec
=============================================================================
