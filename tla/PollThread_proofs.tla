-------------------------- MODULE PollThread_proofs -------------------------
(***************************************************************************)
(* Proofs about PollThread, for any Pollables and descriptors: the tables  *)
(* agree although descriptors are reused, and no event or removal names a  *)
(* deleted Pollable.                                                       *)
(***************************************************************************)
EXTENDS PollThread, TLAPS

\* An open descriptor belongs to one Pollable, and a Pollable keeps the number
\* after it has closed it.
FdsRight ==
    /\ \A p \in Pollables : life[p] # "new" => fd[p] \in Fds
    /\ \A p, o \in Pollables : HasFd(p) /\ HasFd(o) /\ p # o => fd[p] # fd[o]

\* poll_set_ holds the Pollables between add() and remove(), and mode_ has an
\* entry exactly for their descriptors.
TablesAgree ==
    /\ \A p \in poll_set_ : life[p] \in {"adding", "added"}
    /\ dtor \in {"alive", "join"} =>
           \A p \in Pollables : life[p] \in {"adding", "added"} => p \in poll_set_
    /\ \A p \in poll_set_ : mode_[fd[p]] # "none"
    /\ \A f \in Fds : mode_[f] # "none" => \E p \in poll_set_ : fd[p] = f

\* epoll reports to the owner of the descriptor, from EPOLL_CTL_ADD on and until
\* the descriptor is closed or, once removed, deleted by the loop.
WatchedRight ==
    /\ \A f \in Fds : epoll[f] # Nobody =>
           /\ fd[epoll[f]] = f
           /\ \/ life[epoll[f]] \in {"added", "removing"}
              \/ life[epoll[f]] = "removed" /\ epoll[f] \in pending_remove_ \cup remove_poll
    /\ dtor = "alive" =>
           \A p \in Pollables : life[p] = "added" => epoll[fd[p]] = p

\* The two lists of the deferred removal, and the events being handled.
ListsRight ==
    /\ pending_remove_ \cap remove_poll = {}
    /\ \A p \in pending_remove_ \cup remove_poll :
           \/ life[p] \in {"removed", "closed", "done"}
           \/ dtor \notin {"alive", "join"} /\ life[p] = "added" /\ p \notin poll_set_
    /\ remove_poll # {} => loop = "remove"
    /\ evlist # {} => loop = "handle"
    /\ \A p \in evlist : life[p] \in {"added", "removing"} \/ p \in pending_remove_

\* How far ~PollThread and the loop are.
StopRight ==
    /\ stop_flag_ <=> dtor # "alive"
    /\ dtor \notin {"alive", "join"} => loop = "exit"
    /\ loop = "exit" => stop_flag_ /\ \A f \in Fds : epoll[f] = Nobody
    /\ dtor # "alive" => \A p \in Pollables : life[p] \notin {"opened", "adding", "removing"}

\* The references: the owner's, from the creation until its release(), and the
\* poll thread's, from add() until the removal was carried out.
OwnerRef(p) == IF life[p] \in {"new", "done"} THEN 0 ELSE 1
ThreadRef(p) ==
    IF \/ life[p] \in {"adding", "added", "removing"}
       \/ p \in pending_remove_ \cup remove_poll
    THEN 1 ELSE 0

RefsRight ==
    \A p \in Pollables : /\ ref[p] >= OwnerRef(p)
                         /\ dtor # "gone" => ref[p] = OwnerRef(p) + ThreadRef(p)

\* The inductive invariant.
IInv == /\ TypeOK /\ FdsRight /\ TablesAgree /\ WatchedRight /\ ListsRight
        /\ StopRight /\ RefsRight

USE PollAssumption DEF Modes, Step, HasFd

\* The initial state satisfies the inductive invariant.
LEMMA InitIInv == Init => IInv
<1> SUFFICES ASSUME Init PROVE IInv
    OBVIOUS
<1>1. TypeOK
    BY DEF Init, TypeOK
<1>2. FdsRight /\ TablesAgree /\ WatchedRight
    BY DEF Init, FdsRight, TablesAgree, WatchedRight
<1>3. ListsRight /\ StopRight /\ RefsRight
    BY DEF Init, ListsRight, StopRight, RefsRight, OwnerRef, ThreadRef
<1> QED BY <1>1, <1>2, <1>3 DEF IInv

\* Every step preserves it.
LEMMA NextIInv == IInv /\ [Next]_vars => IInv'
<1> SUFFICES ASSUME IInv, [Next]_vars PROVE IInv'
    OBVIOUS
<1> USE DEF IInv
<1>1. ASSUME NEW p \in Pollables, Open(p) PROVE IInv'
    <2>1. TypeOK' /\ FdsRight' /\ StopRight'
        BY <1>1 DEF Open, TypeOK, FdsRight, StopRight
    <2>2. TablesAgree'
        BY <1>1 DEF Open, TypeOK, FdsRight, TablesAgree, StopRight
    <2>3. WatchedRight' /\ ListsRight'
        BY <1>1 DEF Open, TypeOK, FdsRight, TablesAgree, WatchedRight, ListsRight,
           StopRight
    <2>4. RefsRight'
        BY <1>1 DEF Open, TypeOK, ListsRight, StopRight, RefsRight, OwnerRef, ThreadRef
    <2> QED BY <2>1, <2>2, <2>3, <2>4
<1>2. ASSUME NEW p \in Pollables, AddRegister(p) PROVE IInv'
    <2>1. TypeOK' /\ FdsRight' /\ StopRight'
        BY <1>2 DEF AddRegister, TypeOK, FdsRight, StopRight
    <2>2. TablesAgree'
        BY <1>2 DEF AddRegister, TypeOK, FdsRight, TablesAgree, StopRight
    <2>3. WatchedRight' /\ ListsRight'
        BY <1>2 DEF AddRegister, TypeOK, FdsRight, TablesAgree, WatchedRight, ListsRight,
           StopRight
    <2>4. RefsRight'
        BY <1>2 DEF AddRegister, TypeOK, ListsRight, StopRight, RefsRight, OwnerRef,
           ThreadRef
    <2> QED BY <2>1, <2>2, <2>3, <2>4
<1>3. ASSUME NEW p \in Pollables, AddEpoll(p) PROVE IInv'
    <2>1. TypeOK' /\ FdsRight' /\ StopRight'
        BY <1>3 DEF AddEpoll, TypeOK, FdsRight, StopRight
    <2>2. TablesAgree'
        BY <1>3 DEF AddEpoll, TypeOK, FdsRight, TablesAgree, StopRight
    <2>3. WatchedRight' /\ ListsRight'
        BY <1>3 DEF AddEpoll, TypeOK, FdsRight, TablesAgree, WatchedRight, ListsRight,
           StopRight
    <2>4. RefsRight'
        BY <1>3 DEF AddEpoll, TypeOK, ListsRight, StopRight, RefsRight, OwnerRef,
           ThreadRef
    <2> QED BY <2>1, <2>2, <2>3, <2>4
<1>4. ASSUME NEW p \in Pollables, NEW m \in {"R", "RW"}, UpdateMode(p, m) PROVE IInv'
    <2>1. TypeOK' /\ FdsRight' /\ StopRight'
        BY <1>4 DEF UpdateMode, TypeOK, FdsRight, StopRight
    <2>2. TablesAgree'
        BY <1>4 DEF UpdateMode, TypeOK, FdsRight, TablesAgree, StopRight
    <2>3. WatchedRight' /\ ListsRight'
        BY <1>4 DEF UpdateMode, TypeOK, FdsRight, TablesAgree, WatchedRight, ListsRight,
           StopRight
    <2>4. RefsRight'
        BY <1>4 DEF UpdateMode, TypeOK, ListsRight, StopRight, RefsRight, OwnerRef,
           ThreadRef
    <2> QED BY <2>1, <2>2, <2>3, <2>4
<1>5. ASSUME NEW p \in Pollables, RemoveUnregister(p) PROVE IInv'
    <2>1. TypeOK' /\ FdsRight' /\ StopRight'
        BY <1>5 DEF RemoveUnregister, TypeOK, FdsRight, StopRight
    <2>2. TablesAgree'
        BY <1>5 DEF RemoveUnregister, TypeOK, FdsRight, TablesAgree, StopRight
    <2>3. WatchedRight' /\ ListsRight'
        BY <1>5 DEF RemoveUnregister, TypeOK, FdsRight, TablesAgree, WatchedRight,
           ListsRight,
           StopRight
    <2>4. RefsRight'
        BY <1>5 DEF RemoveUnregister, TypeOK, ListsRight, StopRight, RefsRight,
           OwnerRef, ThreadRef
    <2> QED BY <2>1, <2>2, <2>3, <2>4
<1>6. ASSUME NEW p \in Pollables, RemoveQueue(p) PROVE IInv'
    <2>1. TypeOK' /\ FdsRight' /\ StopRight'
        BY <1>6 DEF RemoveQueue, TypeOK, FdsRight, StopRight
    <2>2. TablesAgree'
        BY <1>6 DEF RemoveQueue, TypeOK, FdsRight, TablesAgree, StopRight
    <2>3. WatchedRight' /\ ListsRight'
        BY <1>6 DEF RemoveQueue, TypeOK, FdsRight, TablesAgree, WatchedRight, ListsRight,
           StopRight
    <2>4. RefsRight'
        BY <1>6 DEF RemoveQueue, TypeOK, ListsRight, StopRight, RefsRight, OwnerRef,
           ThreadRef
    <2> QED BY <2>1, <2>2, <2>3, <2>4
<1>7. ASSUME NEW p \in Pollables, CloseFd(p) PROVE IInv'
    <2>1. TypeOK' /\ FdsRight' /\ StopRight'
        BY <1>7 DEF CloseFd, TypeOK, FdsRight, StopRight
    <2>2. TablesAgree'
        BY <1>7 DEF CloseFd, TypeOK, FdsRight, TablesAgree, StopRight
    <2>3. WatchedRight' /\ ListsRight'
        BY <1>7 DEF CloseFd, TypeOK, FdsRight, TablesAgree, WatchedRight, ListsRight,
           StopRight
    <2>4. RefsRight'
        BY <1>7 DEF CloseFd, TypeOK, ListsRight, StopRight, RefsRight, OwnerRef, ThreadRef
    <2> QED BY <2>1, <2>2, <2>3, <2>4
<1>8. ASSUME NEW p \in Pollables, Release(p) PROVE IInv'
    <2>1. TypeOK' /\ FdsRight' /\ StopRight'
        BY <1>8 DEF Release, TypeOK, FdsRight, StopRight, RefsRight, OwnerRef, ThreadRef
    <2>2. TablesAgree'
        BY <1>8 DEF Release, TypeOK, FdsRight, TablesAgree, StopRight
    <2>3. WatchedRight' /\ ListsRight'
        BY <1>8 DEF Release, TypeOK, FdsRight, TablesAgree, WatchedRight, ListsRight,
           StopRight
    <2>4. RefsRight'
        BY <1>8 DEF Release, TypeOK, ListsRight, StopRight, RefsRight, OwnerRef, ThreadRef
    <2> QED BY <2>1, <2>2, <2>3, <2>4
<1>9. CASE EpollWait
    <2>1. TypeOK' /\ FdsRight' /\ StopRight'
        BY <1>9 DEF EpollWait, TypeOK, FdsRight, StopRight
    <2>2. TablesAgree'
        BY <1>9 DEF EpollWait, TypeOK, FdsRight, TablesAgree, StopRight
    <2>3. WatchedRight' /\ ListsRight'
        BY <1>9 DEF EpollWait, TypeOK, FdsRight, TablesAgree, WatchedRight, ListsRight,
           StopRight
    <2>4. RefsRight'
        BY <1>9 DEF EpollWait, TypeOK, ListsRight, StopRight, RefsRight, OwnerRef,
           ThreadRef
    <2> QED BY <2>1, <2>2, <2>3, <2>4
<1>10. CASE HandleEvent
    <2>1. TypeOK' /\ FdsRight' /\ StopRight'
        BY <1>10 DEF HandleEvent, TypeOK, FdsRight, StopRight
    <2>2. TablesAgree'
        BY <1>10 DEF HandleEvent, TypeOK, FdsRight, TablesAgree, StopRight
    <2>3. WatchedRight' /\ ListsRight'
        BY <1>10 DEF HandleEvent, TypeOK, FdsRight, TablesAgree, WatchedRight, ListsRight,
           StopRight
    <2>4. RefsRight'
        BY <1>10 DEF HandleEvent, TypeOK, ListsRight, StopRight, RefsRight, OwnerRef,
           ThreadRef
    <2> QED BY <2>1, <2>2, <2>3, <2>4
<1>11. CASE TakeRemoved
    <2>1. TypeOK' /\ FdsRight' /\ StopRight'
        BY <1>11 DEF TakeRemoved, TypeOK, FdsRight, StopRight
    <2>2. TablesAgree'
        BY <1>11 DEF TakeRemoved, TypeOK, FdsRight, TablesAgree, StopRight
    <2>3. WatchedRight' /\ ListsRight'
        BY <1>11 DEF TakeRemoved, TypeOK, FdsRight, TablesAgree, WatchedRight, ListsRight,
           StopRight
    <2>4. RefsRight'
        BY <1>11 DEF TakeRemoved, TypeOK, ListsRight, StopRight, RefsRight, OwnerRef,
           ThreadRef
    <2> QED BY <2>1, <2>2, <2>3, <2>4
<1>12. CASE RemoveOne
    <2>0. PICK p \in remove_poll : DropDeferred(p)
        BY <1>12 DEF RemoveOne
    <2>1. TypeOK' /\ FdsRight' /\ StopRight'
        <3>1. ref[p] >= 1 /\ p \in Pollables
            BY <1>12 DEF RemoveOne, TypeOK, StopRight, RefsRight, OwnerRef, ThreadRef
        <3>2. ref' \in [Pollables -> Nat]
            BY <2>0, <3>1 DEF DropDeferred, TypeOK
        <3>3. epoll' \in [Fds -> Pollables \cup {Nobody}]
            BY <2>0 DEF DropDeferred, TypeOK
        <3> QED BY <1>12, <3>2, <3>3 DEF RemoveOne, TypeOK, FdsRight, StopRight
    <2>2. TablesAgree'
        BY <1>12 DEF RemoveOne, DropDeferred, TypeOK, FdsRight, TablesAgree, StopRight
    <2>3. WatchedRight' /\ ListsRight'
        BY <1>12 DEF RemoveOne, DropDeferred, TypeOK, FdsRight, TablesAgree,
           WatchedRight, ListsRight,
           StopRight
    <2>4. RefsRight'
        BY <1>12 DEF RemoveOne, DropDeferred, TypeOK, ListsRight, StopRight, RefsRight,
           OwnerRef, ThreadRef
    <2> QED BY <2>1, <2>2, <2>3, <2>4
<1>13. CASE NextIteration
    <2>1. TypeOK' /\ FdsRight' /\ StopRight'
        BY <1>13 DEF NextIteration, TypeOK, FdsRight, StopRight
    <2>2. TablesAgree'
        BY <1>13 DEF NextIteration, TypeOK, FdsRight, TablesAgree, StopRight
    <2>3. WatchedRight' /\ ListsRight'
        BY <1>13 DEF NextIteration, TypeOK, FdsRight, TablesAgree, WatchedRight,
           ListsRight,
           StopRight
    <2>4. RefsRight'
        BY <1>13 DEF NextIteration, TypeOK, ListsRight, StopRight, RefsRight, OwnerRef,
           ThreadRef
    <2> QED BY <2>1, <2>2, <2>3, <2>4
<1>14. CASE LoopExits
    <2>1. TypeOK' /\ FdsRight' /\ StopRight'
        BY <1>14 DEF LoopExits, TypeOK, FdsRight, StopRight
    <2>2. TablesAgree'
        BY <1>14 DEF LoopExits, TypeOK, FdsRight, TablesAgree, StopRight
    <2>3. WatchedRight' /\ ListsRight'
        BY <1>14 DEF LoopExits, TypeOK, FdsRight, TablesAgree, WatchedRight, ListsRight,
           StopRight
    <2>4. RefsRight'
        BY <1>14 DEF LoopExits, TypeOK, ListsRight, StopRight, RefsRight, OwnerRef,
           ThreadRef
    <2> QED BY <2>1, <2>2, <2>3, <2>4
<1>15. CASE Stop
    <2>1. TypeOK' /\ FdsRight' /\ StopRight'
        BY <1>15 DEF Stop, TypeOK, FdsRight, StopRight
    <2>2. TablesAgree'
        BY <1>15 DEF Stop, TypeOK, FdsRight, TablesAgree, StopRight
    <2>3. WatchedRight' /\ ListsRight'
        BY <1>15 DEF Stop, TypeOK, FdsRight, TablesAgree, WatchedRight, ListsRight,
           StopRight
    <2>4. RefsRight'
        BY <1>15 DEF Stop, TypeOK, ListsRight, StopRight, RefsRight, OwnerRef, ThreadRef
    <2> QED BY <2>1, <2>2, <2>3, <2>4
<1>16. CASE Joined
    <2>1. TypeOK' /\ FdsRight' /\ StopRight'
        BY <1>16 DEF Joined, TypeOK, FdsRight, StopRight
    <2>2. TablesAgree'
        BY <1>16 DEF Joined, TypeOK, FdsRight, TablesAgree, StopRight
    <2>3. WatchedRight' /\ ListsRight'
        BY <1>16 DEF Joined, TypeOK, FdsRight, TablesAgree, WatchedRight, ListsRight,
           StopRight
    <2>4. RefsRight'
        BY <1>16 DEF Joined, TypeOK, ListsRight, StopRight, RefsRight, OwnerRef, ThreadRef
    <2> QED BY <2>1, <2>2, <2>3, <2>4
<1>17. CASE SweepOne
    <2>1. TypeOK' /\ FdsRight' /\ StopRight'
        BY <1>17 DEF SweepOne, TypeOK, FdsRight, StopRight, TablesAgree
    <2>2. TablesAgree'
        BY <1>17 DEF SweepOne, TypeOK, FdsRight, TablesAgree, StopRight
    <2>3. WatchedRight' /\ ListsRight'
        BY <1>17 DEF SweepOne, TypeOK, FdsRight, TablesAgree, WatchedRight, ListsRight,
           StopRight
    <2>4. RefsRight'
        BY <1>17 DEF SweepOne, TypeOK, ListsRight, StopRight, RefsRight, OwnerRef,
           ThreadRef, TablesAgree
    <2> QED BY <2>1, <2>2, <2>3, <2>4
<1>18. CASE SweepEnds
    <2>1. TypeOK' /\ FdsRight' /\ StopRight'
        BY <1>18 DEF SweepEnds, TypeOK, FdsRight, StopRight
    <2>2. TablesAgree'
        BY <1>18 DEF SweepEnds, TypeOK, FdsRight, TablesAgree, StopRight
    <2>3. WatchedRight' /\ ListsRight'
        BY <1>18 DEF SweepEnds, TypeOK, FdsRight, TablesAgree, WatchedRight, ListsRight,
           StopRight
    <2>4. RefsRight'
        BY <1>18 DEF SweepEnds, TypeOK, ListsRight, StopRight, RefsRight, OwnerRef,
           ThreadRef
    <2> QED BY <2>1, <2>2, <2>3, <2>4
<1>19. CASE ReleasePending
    <2>1. TypeOK' /\ FdsRight' /\ StopRight'
        BY <1>19 DEF ReleasePending, TypeOK, FdsRight, StopRight, RefsRight, OwnerRef,
           ThreadRef
    <2>2. TablesAgree'
        BY <1>19 DEF ReleasePending, TypeOK, FdsRight, TablesAgree, StopRight
    <2>3. WatchedRight' /\ ListsRight'
        BY <1>19 DEF ReleasePending, TypeOK, FdsRight, TablesAgree, WatchedRight,
           ListsRight,
           StopRight
    <2>4. RefsRight'
        BY <1>19 DEF ReleasePending, TypeOK, ListsRight, StopRight, RefsRight, OwnerRef,
           ThreadRef
    <2> QED BY <2>1, <2>2, <2>3, <2>4
<1>20. CASE Terminated \/ UNCHANGED vars
    BY <1>20 DEF Terminated, vars, TypeOK, FdsRight, TablesAgree, WatchedRight,
       ListsRight, StopRight, RefsRight, OwnerRef, ThreadRef
<1> QED
    BY <1>1, <1>2, <1>3, <1>4, <1>5, <1>6, <1>7, <1>8, <1>9, <1>10, <1>11, <1>12, <1>13,
       <1>14, <1>15, <1>16, <1>17, <1>18, <1>19, <1>20
    DEF Next, Owner, Loop, Dtor

\* The tables of PollThread and the kernel's agree for any connections and
\* descriptors: a registered connection is the one epoll reports to, and add()
\* finds no trace of the previous owner of its descriptor.
THEOREM RegistrationCorrect == Spec => []RegistrationRight
<1>1. IInv => RegistrationRight
    <2> SUFFICES ASSUME IInv PROVE RegistrationRight
        OBVIOUS
    <2>1. RegisteredIsWatched
        BY DEF IInv, TypeOK, TablesAgree, WatchedRight, RegisteredIsWatched
    <2>2. ASSUME NEW p \in Pollables, life[p] \in {"opened", "adding"}
          PROVE  epoll[fd[p]] = Nobody
        BY <2>2 DEF IInv, TypeOK, FdsRight, WatchedRight
    <2>3. ASSUME NEW p \in Pollables, life[p] = "opened"
          PROVE  p \notin poll_set_ /\ mode_[fd[p]] = "none"
        BY <2>3 DEF IInv, TypeOK, FdsRight, TablesAgree
    <2> QED BY <2>1, <2>2, <2>3 DEF IInv, RegistrationRight, AddFindsFdFree
<1> QED BY <1>1, InitIInv, NextIInv, PTL DEF Spec

\* Whatever epoll, the event list and the lists of removals name is alive, for
\* any connections and descriptors.
THEOREM NothingDangles == Spec => []NoDanglingPollable
<1>1. IInv => NoDanglingPollable
    BY DEF IInv, TypeOK, WatchedRight, ListsRight, RefsRight, OwnerRef, ThreadRef,
       NoDanglingPollable
<1> QED BY <1>1, InitIInv, NextIInv, PTL DEF Spec
=============================================================================
