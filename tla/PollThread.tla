----------------------------- MODULE PollThread -----------------------------
(***************************************************************************)
(* PollMgr::PollThread (rpc/polling.cc, epoll branch): registration of     *)
(* Pollables, the poll loop with its deferred removal, and the destructor. *)
(* The kernel reuses a descriptor as soon as it is closed, so a Pollable   *)
(* being removed and a new one may have the same fd().  hash_fd sends      *)
(* equal descriptors to the same PollThread: one thread shows everything.  *)
(*                                                                         *)
(* A Pollable is a connection that follows the order of Client::close and  *)
(* ServerConnection::close: add once, remove(), ::close(fd), release().    *)
(* Those steps are taken by its owner or by a handler on the poll thread.  *)
(***************************************************************************)
EXTENDS Integers

CONSTANTS Pollables, Fds, NoFd, Nobody

ASSUME PollAssumption == NoFd \notin Fds /\ Nobody \notin Pollables

VARIABLES
    life,            \* life[p]: how far p's owner has got
    fd,              \* fd[p]: the descriptor p was given
    ref,             \* ref[p]: p's reference count; deleted at 0
    poll_set_, mode_,
    pending_remove_,
    epoll,           \* epoll[f]: the Pollable the kernel reports events of f to
    loop,            \* where the poll thread is
    evlist,          \* Pollables of the events still to be handled
    remove_poll,     \* the loop's copy of pending_remove_, still to be released
    stop_flag_,
    dtor             \* phase of ~PollThread

vars == <<life, fd, ref, poll_set_, mode_, pending_remove_, epoll, loop, evlist,
          remove_poll, stop_flag_, dtor>>

Modes == {"none", "R", "RW"}

Init == /\ life = [p \in Pollables |-> "new"]
        /\ fd = [p \in Pollables |-> NoFd]
        /\ ref = [p \in Pollables |-> 0]
        /\ poll_set_ = {}
        /\ mode_ = [f \in Fds |-> "none"]
        /\ pending_remove_ = {}
        /\ epoll = [f \in Fds |-> Nobody]
        /\ loop = "wait"
        /\ evlist = {}
        /\ remove_poll = {}
        /\ stop_flag_ = FALSE
        /\ dtor = "alive"

-----------------------------------------------------------------------------
(* The life of a Pollable                                                  *)

Step(p, from, to) == /\ life[p] = from
                     /\ life' = [life EXCEPT ![p] = to]

HasFd(p) == life[p] \notin {"new", "closed", "done"}

\* A socket is created and its Pollable with one reference, the owner's.
Open(p) ==
    /\ dtor = "alive"
    /\ Step(p, "new", "opened")
    /\ \E f \in Fds :
        /\ \A o \in Pollables : HasFd(o) => fd[o] # f
        /\ fd' = [fd EXCEPT ![p] = f]
    /\ ref' = [ref EXCEPT ![p] = 1]
    /\ UNCHANGED <<poll_set_, mode_, pending_remove_, epoll, loop, evlist,
                   remove_poll, stop_flag_, dtor>>

\* add(): the reference and, under l_, the registration, ...
AddRegister(p) ==
    /\ Step(p, "opened", "adding")
    /\ ref' = [ref EXCEPT ![p] = @ + 1]
    /\ poll_set_' = poll_set_ \cup {p}
    /\ \E m \in {"R", "RW"} : mode_' = [mode_ EXCEPT ![fd[p]] = m]
    /\ UNCHANGED <<fd, pending_remove_, epoll, loop, evlist, remove_poll, stop_flag_, dtor>>

\* ... then EPOLL_CTL_ADD, without the lock.
AddEpoll(p) ==
    /\ Step(p, "adding", "added")
    /\ epoll' = [epoll EXCEPT ![fd[p]] = p]
    /\ UNCHANGED <<fd, ref, poll_set_, mode_, pending_remove_, loop, evlist,
                   remove_poll, stop_flag_, dtor>>

\* update_mode() by any user of the connection once add() has returned; without
\* effect when p is not registered.  The EPOLL_CTL_MOD that follows a change of
\* mode needs, and keeps, p's entry in epoll.
UpdateMode(p, m) ==
    /\ dtor = "alive"
    /\ life[p] # "adding" /\ p \in poll_set_
    /\ mode_' = [mode_ EXCEPT ![fd[p]] = m]
    /\ UNCHANGED <<life, fd, ref, poll_set_, pending_remove_, epoll, loop, evlist,
                   remove_poll, stop_flag_, dtor>>

\* Mutant: remove() leaves the entry of mode_.
RemoveKeepingMode(p) ==
    /\ dtor = "alive"
    /\ Step(p, "added", "removing")
    /\ poll_set_' = poll_set_ \ {p}
    /\ UNCHANGED <<fd, ref, mode_, pending_remove_, epoll, loop, evlist, remove_poll,
                   stop_flag_, dtor>>

\* remove(): unregister under l_, ...  A connection has one closer here, so that it
\* is found; the branch for a second remove() changes nothing, and is left out with
\* its assert.
RemoveUnregister(p) ==
    /\ dtor = "alive"
    /\ Step(p, "added", "removing")
    /\ poll_set_' = poll_set_ \ {p}
    /\ mode_' = [mode_ EXCEPT ![fd[p]] = "none"]
    /\ UNCHANGED <<fd, ref, pending_remove_, epoll, loop, evlist, remove_poll,
                   stop_flag_, dtor>>

\* Mutant: remove() releases the reference instead of queueing.
RemoveNow(p) ==
    /\ Step(p, "removing", "removed")
    /\ ref' = [ref EXCEPT ![p] = @ - 1]
    /\ UNCHANGED <<fd, poll_set_, mode_, pending_remove_, epoll, loop, evlist, remove_poll,
                   stop_flag_, dtor>>

\* ... then queue for the poll thread under pending_remove_l_.
RemoveQueue(p) ==
    /\ Step(p, "removing", "removed")
    /\ pending_remove_' = pending_remove_ \cup {p}
    /\ UNCHANGED <<fd, ref, poll_set_, mode_, epoll, loop, evlist, remove_poll,
                   stop_flag_, dtor>>

\* ::close(fd): the kernel drops the descriptor from the epoll set.
CloseFd(p) ==
    /\ Step(p, "removed", "closed")
    /\ epoll' = [epoll EXCEPT ![fd[p]] = Nobody]
    /\ UNCHANGED <<fd, ref, poll_set_, mode_, pending_remove_, loop, evlist,
                   remove_poll, stop_flag_, dtor>>

Release(p) ==
    /\ Step(p, "closed", "done")
    /\ ref' = [ref EXCEPT ![p] = @ - 1]
    /\ UNCHANGED <<fd, poll_set_, mode_, pending_remove_, epoll, loop, evlist,
                   remove_poll, stop_flag_, dtor>>

-----------------------------------------------------------------------------
(* poll_loop                                                               *)

\* epoll_wait returns events, or none after 50 ms.
EpollWait ==
    /\ loop = "wait" /\ ~stop_flag_
    /\ evlist' \in SUBSET {epoll[f] : f \in {g \in Fds : epoll[g] # Nobody}}
    /\ loop' = "handle"
    /\ UNCHANGED <<life, fd, ref, poll_set_, mode_, pending_remove_, epoll,
                   remove_poll, stop_flag_, dtor>>

\* handle_read, handle_write, handle_error of one event; what they do to the
\* registration are the actions above.
HandleEvent ==
    /\ loop = "handle"
    /\ \E p \in evlist : evlist' = evlist \ {p}
    /\ UNCHANGED <<life, fd, ref, poll_set_, mode_, pending_remove_, epoll, loop,
                   remove_poll, stop_flag_, dtor>>

TakeRemoved ==
    /\ loop = "handle" /\ evlist = {}
    /\ remove_poll' = pending_remove_
    /\ pending_remove_' = {}
    /\ loop' = "remove"
    /\ UNCHANGED <<life, fd, ref, poll_set_, mode_, epoll, evlist, stop_flag_, dtor>>

\* Mutant: the descriptor is deleted from epoll even if it was added again.
DropAlways(p) ==
    /\ epoll' = [epoll EXCEPT ![fd[p]] = Nobody]
    /\ ref' = [ref EXCEPT ![p] = @ - 1]

\* Mutant: the reference is released only with the descriptor's deletion.
DropOnlyDeleted(p) ==
    IF mode_[fd[p]] = "none"
    THEN /\ epoll' = [epoll EXCEPT ![fd[p]] = Nobody]
         /\ ref' = [ref EXCEPT ![p] = @ - 1]
    ELSE UNCHANGED <<epoll, ref>>

\* "only remove the fd when it is not immediately added again"
DropDeferred(p) ==
    /\ epoll' = IF mode_[fd[p]] = "none" THEN [epoll EXCEPT ![fd[p]] = Nobody] ELSE epoll
    /\ ref' = [ref EXCEPT ![p] = @ - 1]

RemoveOne ==
    /\ loop = "remove"
    /\ \E p \in remove_poll : /\ DropDeferred(p)
                              /\ remove_poll' = remove_poll \ {p}
    /\ UNCHANGED <<life, fd, poll_set_, mode_, pending_remove_, loop, evlist,
                   stop_flag_, dtor>>

NextIteration ==
    /\ loop = "remove" /\ remove_poll = {}
    /\ loop' = "wait"
    /\ UNCHANGED <<life, fd, ref, poll_set_, mode_, pending_remove_, epoll, evlist,
                   remove_poll, stop_flag_, dtor>>

\* The loop ends at its head, or right after epoll_wait, events unhandled.
LoopExits ==
    /\ stop_flag_ /\ loop = "wait"
    /\ loop' = "exit"
    /\ epoll' = [f \in Fds |-> Nobody]     \* close(poll_fd_)
    /\ UNCHANGED <<life, fd, ref, poll_set_, mode_, pending_remove_, evlist,
                   remove_poll, stop_flag_, dtor>>

-----------------------------------------------------------------------------
(* ~PollThread, when no call on the PollMgr is in progress                 *)

Stop ==
    /\ dtor = "alive"
    /\ \A p \in Pollables : life[p] \notin {"opened", "adding", "removing"}
    /\ stop_flag_' = TRUE
    /\ dtor' = "join"
    /\ UNCHANGED <<life, fd, ref, poll_set_, mode_, pending_remove_, epoll, loop,
                   evlist, remove_poll>>

Joined ==
    /\ dtor = "join" /\ loop = "exit"
    /\ dtor' = "sweep"
    /\ UNCHANGED <<life, fd, ref, poll_set_, mode_, pending_remove_, epoll, loop,
                   evlist, remove_poll, stop_flag_>>

\* One turn of "for (it: poll_set_) this->remove(it)".  remove() erases the
\* element the iterator stands on; advancing it is then undefined, and the walk
\* goes on or takes the freed node for the last one.
SweepOne ==
    /\ dtor = "sweep"
    /\ \E p \in poll_set_ :
        /\ poll_set_' = poll_set_ \ {p}
        /\ mode_' = [mode_ EXCEPT ![fd[p]] = "none"]
        /\ pending_remove_' = pending_remove_ \cup {p}
        /\ dtor' \in {"sweep", "release"}
    /\ UNCHANGED <<life, fd, ref, epoll, loop, evlist, remove_poll, stop_flag_>>

SweepEnds ==
    /\ dtor = "sweep" /\ poll_set_ = {}
    /\ dtor' = "release"
    /\ UNCHANGED <<life, fd, ref, poll_set_, mode_, pending_remove_, epoll, loop,
                   evlist, remove_poll, stop_flag_>>

\* The references of the removals the loop did not get to.
ReleasePending ==
    /\ dtor = "release"
    /\ ref' = [p \in Pollables |-> IF p \in pending_remove_ THEN ref[p] - 1 ELSE ref[p]]
    /\ dtor' = "gone"
    /\ UNCHANGED <<life, fd, poll_set_, mode_, pending_remove_, epoll, loop, evlist,
                   remove_poll, stop_flag_>>

Terminated == dtor = "gone" /\ UNCHANGED vars

-----------------------------------------------------------------------------

\* The rest of a call that has begun.
Owner(p) == AddRegister(p) \/ AddEpoll(p) \/ RemoveQueue(p) \/ CloseFd(p) \/ Release(p)
Loop == \/ EpollWait \/ HandleEvent \/ TakeRemoved \/ RemoveOne \/ NextIteration \/ LoopExits
Dtor == Joined \/ SweepOne \/ SweepEnds \/ ReleasePending

Next == \/ \E p \in Pollables : \/ Open(p) \/ RemoveUnregister(p) \/ Owner(p)
                                \/ \E m \in {"R", "RW"} : UpdateMode(p, m)
        \/ Loop
        \/ Stop \/ Dtor
        \/ Terminated

\* The poll thread never stays away from its loop: epoll_wait has a timeout.
Fairness == /\ \A p \in Pollables : WF_vars(Owner(p))
            /\ WF_vars(Loop)
            /\ WF_vars(Dtor)

Spec == Init /\ [][Next]_vars
FairSpec == Spec /\ Fairness

-----------------------------------------------------------------------------
(* Properties                                                              *)

\* The types of the thread's tables and of the Pollables' state.
TypeOK ==
    /\ life \in [Pollables -> {"new", "opened", "adding", "added", "removing",
                               "removed", "closed", "done"}]
    /\ fd \in [Pollables -> Fds \cup {NoFd}]
    /\ ref \in [Pollables -> Nat]
    /\ poll_set_ \subseteq Pollables
    /\ mode_ \in [Fds -> Modes]
    /\ pending_remove_ \subseteq Pollables
    /\ epoll \in [Fds -> Pollables \cup {Nobody}]
    /\ loop \in {"wait", "handle", "remove", "exit"}
    /\ evlist \subseteq Pollables /\ remove_poll \subseteq Pollables
    /\ stop_flag_ \in BOOLEAN
    /\ dtor \in {"alive", "join", "sweep", "release", "gone"}

\* While a connection is registered the kernel reports its events to it: the
\* deferred EPOLL_CTL_DEL of a removed connection does not hit the new one that
\* was given the same descriptor, and update_mode's EPOLL_CTL_MOD succeeds.
RegisteredIsWatched ==
    dtor = "alive" =>
        \A p \in Pollables : life[p] = "added" => epoll[fd[p]] = p /\ p \in poll_set_

\* The verifies of add() hold: when a connection is about to be registered, or
\* put into epoll, its descriptor is free of the previous connection's traces.
AddFindsFdFree ==
    \A p \in Pollables :
        /\ life[p] = "opened" => p \notin poll_set_ /\ mode_[fd[p]] = "none"
        /\ life[p] \in {"opened", "adding"} => epoll[fd[p]] = Nobody

\* poll_set_, mode_ and epoll's table agree, whatever descriptors are reused.
RegistrationRight == TypeOK /\ RegisteredIsWatched /\ AddFindsFdFree

\* The poll thread never handles an event of, or reads fd() of, a deleted
\* Pollable: whatever epoll, evlist and the removal lists name is alive.
NoDanglingPollable ==
    dtor \in {"alive", "join"} =>
        /\ \A f \in Fds : epoll[f] # Nobody => ref[epoll[f]] > 0
        /\ \A p \in evlist \cup pending_remove_ \cup remove_poll : ref[p] > 0

\* A removed connection is released by the poll thread: its object goes away
\* once its owner has let go of it too.
RemovedIsReleased ==
    \A p \in Pollables : (life[p] = "done" /\ dtor = "alive") ~> ref[p] = 0
=============================================================================
