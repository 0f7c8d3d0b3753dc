-------------------------------- MODULE Usb --------------------------------
(***************************************************************************)
(* The USB port HAL of usb/Usb.cpp: setCallback and switchRole, called     *)
(* from the binder threads, and the worker thread that receives kernel     *)
(* uevents, passes port changes on to the callback, wakes a mode switch    *)
(* when the partner is back and restores the port to dual role when the    *)
(* partner has left.                                                       *)
(*                                                                         *)
(* Here a callback is registered or not, and a status is passed on or not: *)
(* what it says, and which callback is told, is the subject of PortStatus. *)
(* There is one Type-C port.  Both directions of a power or data role swap *)
(* are one role, "host" or "device".                                       *)
(***************************************************************************)
EXTENDS Integers, Sequences

CONSTANTS
  Threads,     \* the binder threads
  Setter,      \* the one that registers callbacks: calls do not overlap
  Targets,     \* the modes and roles switchRole is asked for
  MaxUevents,  \* length at which the uevent queue takes no more
  Faults       \* what may fail, a subset of FaultKind

FaultKind == { "create",   \* pthread_create fails
               "socket",   \* the worker cannot open its socket or epoll
               "epoll",    \* epoll_wait fails, other than with EINTR
               "refuse" }  \* port_type cannot be opened or takes no write

ASSUME ConstantsAssumption ==
  /\ Setter \in Threads
  /\ Targets \subseteq {"sink", "source", "host", "device"}
  /\ MaxUevents \in Nat \ {0}
  /\ Faults \subseteq FaultKind
  /\ {"worker", "none"} \cap Threads = {}

VARIABLES
  \* The Type-C port and the kernel's uevents
  partner,   \* port-partner exists
  role,      \* power or data role; "device" stands for none without a partner
  portType,  \* port_type
  uevents,   \* the worker's unread uevents
  \* The fields of Usb, and destroyThread
  mCallback, mLock, mRoleSwitchLock, mPartnerLock, mPartnerUp, destroyThread,
  \* Threads
  pc, want, result,   \* per binder thread: control, requested role, roleSwitch
  worker, listed,     \* the worker: control, and whether its status has a port
  signalled,          \* mPartnerCV has been signalled since the wait began
  sigPending,         \* SIGUSR1 is on its way to the worker
  \* History, read by the properties only
  returned,  \* a partner has been added since the mode switch wrote port_type
  stale,     \* an "add" sent before that write had not been handled yet
  skipped    \* the port was left in one mode: a disconnect went by unhandled,
             \* or port_type did not take the write of dual role

port   == <<partner, role, portType, uevents>>
fields == <<mCallback, mPartnerUp, destroyThread>>
locks  == <<mLock, mRoleSwitchLock, mPartnerLock>>
caller == <<pc, want, result>>
work   == <<worker, listed, signalled, sigPending>>
hist   == <<returned, stale, skipped>>
vars   == <<port, fields, locks, caller, work, hist>>

Modes == {"sink", "source"}
Roles == {"host", "device"}

Control == {"idle", "kill", "join", "lock", "locked", "towait", "wait",
            "readback", "drp", "report"}

WorkerControl == {"none", "start", "check", "enter", "epoll", "signal", "notify",
                  "deliver", "drp", "drpWrite", "exited", "failed"}

\* "failed": the worker has returned because of an error.
Dead      == {"none", "exited", "failed"}
Listening == worker \notin Dead \cup {"start"}

Goto(t, label) == pc' = [pc EXCEPT ![t] = label]

\* A uevent reaches the sockets that are open.
Room == Len(uevents) < MaxUevents
Uevent(e) == uevents' = IF Listening THEN Append(uevents, e) ELSE uevents
Forced == portType # "dual"
Disconnected == skipped' = (skipped \/ (~Listening /\ Forced'))

-----------------------------------------------------------------------------
(***************************************************************************)
(* setCallback                                                             *)
(***************************************************************************)

\* Mutant: destroyThread is not reset for the new worker.
RegisterCallbackNoReset ==
  /\ pc[Setter] = "idle"
  /\ mLock = "none"
  /\ ~mCallback
  /\ \/ /\ mCallback' = TRUE
        /\ worker' = "start"
     \/ /\ "create" \in Faults
        /\ UNCHANGED <<mCallback, worker>>
  /\ UNCHANGED <<port, mPartnerUp, destroyThread, locks, caller, listed, signalled,
                 sigPending, hist>>

\* The first callback starts the worker.
RegisterCallback ==
  /\ pc[Setter] = "idle"
  /\ mLock = "none"
  /\ ~mCallback
  /\ destroyThread' = FALSE
  /\ \/ /\ mCallback' = TRUE
        /\ worker' = "start"
     \/ /\ "create" \in Faults
        /\ UNCHANGED <<mCallback, worker>>
  /\ UNCHANGED <<port, mPartnerUp, locks, caller, listed, signalled, sigPending, hist>>

\* NULL after a callback: the worker is killed, outside mLock.
ClearCallback ==
  /\ pc[Setter] = "idle"
  /\ mLock = "none"
  /\ mCallback
  /\ mCallback' = FALSE
  /\ Goto(Setter, "kill")
  /\ UNCHANGED <<port, mPartnerUp, destroyThread, locks, want, result, work, hist>>

\* pthread_kill fails when the thread has ended, and there is no join then.
KillWorker ==
  /\ pc[Setter] = "kill"
  /\ \/ /\ worker \notin Dead
        /\ sigPending' = TRUE
        /\ Goto(Setter, "join")
     \/ /\ worker \in Dead
        /\ Goto(Setter, "idle")
        /\ UNCHANGED sigPending
  /\ UNCHANGED <<port, fields, locks, want, result, worker, listed,
                 signalled, hist>>

JoinWorker ==
  /\ pc[Setter] = "join"
  /\ worker \in Dead
  /\ Goto(Setter, "idle")
  /\ UNCHANGED <<port, fields, locks, want, result, work, hist>>

(***************************************************************************)
(* switchRole and switchMode                                               *)
(***************************************************************************)
SwitchRole(t) ==
  /\ pc[t] = "idle"
  /\ \E r \in Targets : want' = [want EXCEPT ![t] = r]
  /\ Goto(t, "lock")
  /\ UNCHANGED <<port, fields, locks, result, work, hist>>

LockRoleSwitch(t) ==
  /\ pc[t] = "lock"
  /\ mRoleSwitchLock = "none"
  /\ mRoleSwitchLock' = t
  /\ Goto(t, "locked")
  /\ UNCHANGED <<port, fields, mLock, mPartnerLock, want, result, work, hist>>

\* The kernel's side of a port_type write: a change may drop the partner.
WritePortType(r) ==
  /\ portType' = r
  /\ \/ UNCHANGED <<partner, role, uevents, skipped>>
     \/ /\ Room /\ partner /\ portType # r
        /\ partner' = FALSE
        /\ role' = "device"
        /\ Uevent("remove")
        /\ Disconnected

\* A switch begins to wait for the partner's return.  An "add" from before may
\* still be on its way through the worker.
AwaitReturn ==
  /\ returned' = FALSE
  /\ stale' = (worker = "signal" \/ \E i \in DOMAIN uevents : uevents[i] = "add")

\* Mutant: port_type is written before mPartnerLock is taken.
WriteModeUnlocked(t) ==
  /\ pc[t] = "locked" /\ want[t] \in Modes
  /\ mPartnerUp' = FALSE
  /\ \/ WritePortType(want[t])
     \/ "refuse" \in Faults /\ UNCHANGED <<port, skipped>>
  /\ AwaitReturn
  /\ Goto(t, "towait")
  /\ UNCHANGED <<mCallback, destroyThread, locks, want, result, work>>

\* Mutant: mPartnerUp is left as the last switch found it.
WriteModeNoReset(t) ==
  /\ pc[t] = "locked" /\ want[t] \in Modes
  /\ mPartnerLock = "none"
  /\ mPartnerLock' = t
  /\ \/ WritePortType(want[t])
     \/ "refuse" \in Faults /\ UNCHANGED <<port, skipped>>
  /\ AwaitReturn
  /\ Goto(t, "towait")
  /\ UNCHANGED <<fields, mLock, mRoleSwitchLock, want, result, work>>

\* switchMode takes mPartnerLock before the write and keeps it until the wait.
\* A refused write shows in fclose, which is not checked.
WriteMode(t) ==
  /\ pc[t] = "locked" /\ want[t] \in Modes
  /\ mPartnerLock = "none"
  /\ mPartnerLock' = t
  /\ mPartnerUp' = FALSE
  /\ \/ WritePortType(want[t])
     \/ "refuse" \in Faults /\ UNCHANGED <<port, skipped>>
  /\ AwaitReturn
  /\ Goto(t, "towait")
  /\ UNCHANGED <<mCallback, destroyThread, mLock, mRoleSwitchLock, want, result,
                 work>>

\* port_type cannot be opened, or fputs fails.
WriteModeFails(t) ==
  /\ pc[t] = "locked" /\ want[t] \in Modes
  /\ "refuse" \in Faults
  /\ \/ UNCHANGED mPartnerUp
     \/ mPartnerLock = "none" /\ mPartnerUp' = FALSE
  /\ Goto(t, "drp")
  /\ UNCHANGED <<port, mCallback, destroyThread, locks, want, result, work, hist>>

\* Mutant: mPartnerLock is kept while the thread waits.
BeginWaitLocked(t) ==
  /\ pc[t] = "towait"
  /\ signalled' = FALSE
  /\ Goto(t, "wait")
  /\ UNCHANGED <<port, fields, locks, want, result, worker, listed, sigPending,
                 hist>>

\* pthread_cond_timedwait releases mPartnerLock.
BeginWait(t) ==
  /\ pc[t] = "towait"
  /\ mPartnerLock' = "none"
  /\ signalled' = FALSE
  /\ Goto(t, "wait")
  /\ UNCHANGED <<port, fields, mLock, mRoleSwitchLock, want, result, worker,
                 listed, sigPending, hist>>

\* It returns 0: signalled, or spuriously, and then the thread waits again.
WakeUp(t) ==
  /\ pc[t] = "wait"
  /\ mPartnerLock = "none"
  /\ \/ /\ mPartnerUp
        /\ result' = [result EXCEPT ![t] = TRUE]
        /\ signalled' = FALSE
        /\ Goto(t, "report")
     \/ /\ ~mPartnerUp
        /\ UNCHANGED <<pc, result, signalled>>
  /\ UNCHANGED <<port, fields, locks, want, worker, listed, sigPending, hist>>

\* Mutant: a timeout is reported without restoring dual role.
TimedOutNoDrp(t) ==
  /\ pc[t] = "wait"
  /\ mPartnerLock = "none"
  /\ signalled' = FALSE
  /\ Goto(t, "report")
  /\ UNCHANGED <<port, fields, locks, want, result, worker, listed,
                 sigPending, hist>>

\* Mutant: the wait has no timeout.
TimedOutNever(t) == FALSE /\ pc[t] = "wait" /\ UNCHANGED vars

\* It returns ETIMEDOUT, perhaps just after the signal.
TimedOut(t) ==
  /\ pc[t] = "wait"
  /\ mPartnerLock = "none"
  /\ signalled' = FALSE
  /\ Goto(t, "drp")
  /\ UNCHANGED <<port, fields, locks, want, result, worker, listed,
                 sigPending, hist>>

\* switchToDrp, which only logs that it could not write.
WriteDual ==
  \/ /\ portType' = "dual"
     /\ skipped' = FALSE
  \/ /\ "refuse" \in Faults
     /\ skipped' = Forced
     /\ UNCHANGED portType

SwitchToDrp(t) ==
  /\ pc[t] = "drp"
  /\ WriteDual
  /\ Goto(t, "report")
  /\ UNCHANGED <<partner, role, uevents, fields, locks, want, result, work,
                 returned, stale>>

\* A power or data role is written and read back.
WriteRole(t) ==
  /\ pc[t] = "locked" /\ want[t] \in Roles
  /\ \/ /\ Room /\ partner /\ role # want[t]
        /\ role' = want[t]
        /\ Uevent("change")
     \/ UNCHANGED <<role, uevents>>
  /\ Goto(t, "readback")
  /\ UNCHANGED <<partner, portType, fields, locks, want, result, work, hist>>

ReadBack(t) ==
  /\ pc[t] = "readback"
  /\ result' = [result EXCEPT ![t] = (role = want[t])]
  /\ Goto(t, "report")
  /\ UNCHANGED <<port, fields, locks, want, work, hist>>

\* notifyRoleSwitchStatus under mLock; then both locks are released.
Report(t) ==
  /\ pc[t] = "report"
  /\ mLock = "none"
  /\ mRoleSwitchLock' = "none"
  /\ want' = [want EXCEPT ![t] = "none"]
  /\ result' = [result EXCEPT ![t] = FALSE]
  /\ returned' = FALSE /\ stale' = FALSE
  /\ Goto(t, "idle")
  /\ UNCHANGED <<port, fields, mLock, mPartnerLock, work, skipped>>

Binder(t) ==
  \/ LockRoleSwitch(t) \/ WriteMode(t) \/ WriteModeFails(t)
  \/ BeginWait(t) \/ WakeUp(t) \/ TimedOut(t) \/ SwitchToDrp(t) \/ WriteRole(t)
  \/ ReadBack(t) \/ Report(t)
  \/ t = Setter /\ (KillWorker \/ JoinWorker)

Call(t) ==
  \/ SwitchRole(t)
  \/ t = Setter /\ (RegisterCallback \/ ClearCallback)

-----------------------------------------------------------------------------
(***************************************************************************)
(* The worker: work and uevent_event.                                      *)
(***************************************************************************)
WorkerVars == <<partner, role, mCallback, mRoleSwitchLock, mPartnerLock, caller,
                returned, stale>>

\* A signal on its way to a thread that returns is gone with it.
OpenSocket ==
  /\ worker = "start"
  /\ \/ worker' = "check" /\ UNCHANGED sigPending
     \/ "socket" \in Faults /\ worker' = "failed" /\ sigPending' = FALSE
  /\ UNCHANGED <<WorkerVars, portType, uevents, mPartnerUp, destroyThread, mLock,
                 listed, signalled, skipped>>

\* The loop condition.  SIGUSR1 after this test and before epoll_wait blocks
\* does not interrupt the wait.  Closing the socket drops what is in it.
TestDestroy ==
  /\ worker = "check"
  /\ \/ /\ destroyThread
        /\ worker' = "exited"
        /\ uevents' = <<>>
        /\ skipped' = (skipped \/ (uevents # <<>> /\ Forced))
     \/ /\ ~destroyThread
        /\ worker' = "enter"
        /\ UNCHANGED <<uevents, skipped>>
  /\ UNCHANGED <<WorkerVars, portType, mPartnerUp, destroyThread, mLock, listed,
                 signalled, sigPending>>

EnterEpoll ==
  /\ worker = "enter"
  /\ worker' = "epoll"
  /\ UNCHANGED <<WorkerVars, portType, uevents, mPartnerUp, destroyThread, mLock,
                 listed, signalled, sigPending, skipped>>

\* The loop is left for another error than EINTR; the callback stays registered.
EpollFails ==
  /\ worker = "epoll"
  /\ "epoll" \in Faults
  /\ worker' = "failed"
  /\ sigPending' = FALSE
  /\ uevents' = <<>>
  /\ skipped' = (skipped \/ (uevents # <<>> /\ Forced))
  /\ UNCHANGED <<WorkerVars, portType, mPartnerUp, destroyThread, mLock, listed,
                 signalled>>

\* Mutant: only a partner's "add" is looked at.
ReceiveAddOnly ==
  /\ worker = "epoll"
  /\ uevents # <<>>
  /\ worker' = IF Head(uevents) = "add" THEN "signal" ELSE "check"
  /\ uevents' = Tail(uevents)
  /\ UNCHANGED <<WorkerVars, portType, mPartnerUp, destroyThread, mLock, listed,
                 signalled, sigPending, skipped>>

\* A partner's "add" both signals mPartnerCV and is a typec uevent; "other" is
\* any uevent of another subsystem, which the loop over the message skips.
Receive ==
  /\ worker = "epoll"
  /\ uevents # <<>>
  /\ worker' = CASE Head(uevents) = "add"                  -> "signal"
                 [] Head(uevents) \in {"remove", "change"} -> "notify"
                 [] Head(uevents) = "other"                -> "check"
  /\ uevents' = Tail(uevents)
  /\ UNCHANGED <<WorkerVars, portType, mPartnerUp, destroyThread, mLock, listed,
                 signalled, sigPending, skipped>>

SignalPartner ==
  /\ worker = "signal"
  /\ mPartnerLock = "none"
  /\ mPartnerUp' = TRUE
  /\ signalled' = (\E t \in Threads : pc[t] = "wait")
  /\ worker' = "notify"
  /\ UNCHANGED <<WorkerVars, portType, uevents, destroyThread, mLock, listed,
                 sigPending, skipped>>

\* The status is read and passed on under mLock.
BeginNotify ==
  /\ worker = "notify"
  /\ mLock = "none"
  /\ \/ /\ mCallback
        /\ mLock' = "worker"
        /\ worker' = "deliver"
     \/ /\ ~mCallback
        /\ worker' = "drp"
        /\ UNCHANGED mLock
  /\ UNCHANGED <<WorkerVars, portType, uevents, mPartnerUp, destroyThread, listed,
                 signalled, sigPending, skipped>>

EndNotify ==
  /\ worker = "deliver"
  /\ listed' = TRUE
  /\ mLock' = "none"
  /\ worker' = "drp"
  /\ UNCHANGED <<WorkerVars, portType, uevents, mPartnerUp, destroyThread,
                 signalled, sigPending, skipped>>

\* Mutant: the result of trylock is ignored.
TryRestoreDrpNoLock ==
  /\ worker = "drp"
  /\ listed' = FALSE
  /\ worker' = IF listed /\ ~partner THEN "drpWrite" ELSE "check"
  /\ UNCHANGED <<port, fields, locks, caller, signalled, sigPending, hist>>

\* trylock, then, for a listed port, look for the partner.
TryRestoreDrp ==
  /\ worker = "drp"
  /\ listed' = FALSE
  /\ \/ /\ mRoleSwitchLock = "none" /\ listed /\ ~partner
        /\ mRoleSwitchLock' = "worker"
        /\ worker' = "drpWrite"
        /\ UNCHANGED skipped
     \/ /\ mRoleSwitchLock # "none" \/ ~listed \/ partner
        /\ worker' = "check"
        /\ skipped' = (skipped \/ (~partner /\ Forced))
        /\ UNCHANGED mRoleSwitchLock
  /\ UNCHANGED <<port, fields, mLock, mPartnerLock, caller, signalled, sigPending,
                 returned, stale>>

RestoreDrp ==
  /\ worker = "drpWrite"
  /\ WriteDual
  /\ mRoleSwitchLock' = "none"
  /\ worker' = "check"
  /\ UNCHANGED <<partner, role, uevents, fields, mLock, mPartnerLock, caller,
                 listed, signalled, sigPending, returned, stale>>

\* Mutant: the handler only interrupts the wait.
SigHandlerNoFlag ==
  /\ sigPending
  /\ sigPending' = FALSE
  /\ worker' = IF worker = "epoll" THEN "check" ELSE worker
  /\ UNCHANGED <<WorkerVars, portType, uevents, mPartnerUp, destroyThread, mLock,
                 listed, signalled, skipped>>

\* SIGUSR1 is delivered; a blocked epoll_wait returns EINTR.
SigHandler ==
  /\ sigPending
  /\ sigPending' = FALSE
  /\ destroyThread' = TRUE
  /\ worker' = IF worker = "epoll" THEN "check" ELSE worker
  /\ UNCHANGED <<WorkerVars, portType, uevents, mPartnerUp, mLock, listed,
                 signalled, skipped>>

Worker == \/ OpenSocket \/ TestDestroy \/ EnterEpoll \/ Receive \/ SignalPartner
          \/ BeginNotify \/ EndNotify \/ TryRestoreDrp \/ RestoreDrp \/ SigHandler

-----------------------------------------------------------------------------
(***************************************************************************)
(* The environment: the cable, the partner and other kernel uevents.       *)
(***************************************************************************)
PortVars == <<portType, fields, locks, caller, work, stale>>

Attach ==
  /\ Room /\ ~partner
  /\ partner' = TRUE
  /\ role' \in Roles
  /\ returned' = (returned \/ \E t \in Threads : pc[t] \in {"towait", "wait"})
  /\ Uevent("add")
  /\ UNCHANGED <<PortVars, skipped>>

Detach ==
  /\ Room /\ partner
  /\ partner' = FALSE
  /\ role' = "device"
  /\ UNCHANGED <<PortVars, returned>>
  /\ Uevent("remove") /\ Disconnected

PartnerSwapsRole ==
  /\ Room /\ partner
  /\ role' \in Roles \ {role}
  /\ Uevent("change")
  /\ UNCHANGED <<PortVars, partner, returned, skipped>>

OtherUevent ==
  /\ Room /\ Listening
  /\ Uevent("other")
  /\ UNCHANGED <<PortVars, partner, role, returned, skipped>>

-----------------------------------------------------------------------------
Init ==
  /\ partner \in BOOLEAN
  /\ role = "device"
  /\ portType = "dual"
  /\ uevents = <<>>
  /\ mCallback = FALSE
  /\ mLock = "none" /\ mRoleSwitchLock = "none" /\ mPartnerLock = "none"
  /\ mPartnerUp = FALSE
  /\ destroyThread = FALSE
  /\ pc = [t \in Threads |-> "idle"]
  /\ want = [t \in Threads |-> "none"]
  /\ result = [t \in Threads |-> FALSE]
  /\ worker = "none"
  /\ listed = FALSE
  /\ signalled = FALSE
  /\ sigPending = FALSE
  /\ returned = FALSE /\ stale = FALSE /\ skipped = FALSE

Next == \/ \E t \in Threads : Call(t) \/ Binder(t)
        \/ Worker \/ EpollFails
        \/ Attach \/ Detach \/ PartnerSwapsRole \/ OtherUevent

Spec == Init /\ [][Next]_vars

(***************************************************************************)
(* Threads that can run do run, a mutex that keeps becoming free is        *)
(* granted in the end (strong fairness), and the timed wait ends at its    *)
(* timeout at the latest.  Nothing is assumed of the callers, the partner  *)
(* or further uevents.                                                     *)
(***************************************************************************)
FairSpec == /\ Spec
            /\ \A t \in Threads : SF_vars(Binder(t))
            /\ SF_vars(Worker)
            /\ WF_vars(SigHandler)

-----------------------------------------------------------------------------
(***************************************************************************)
(* Properties                                                              *)
(***************************************************************************)

\* Type correctness of every variable.
TypeOK ==
  /\ partner \in BOOLEAN
  /\ role \in Roles
  /\ portType \in Modes \cup {"dual"}
  /\ uevents \in Seq({"add", "remove", "change", "other"})
  /\ Len(uevents) <= MaxUevents
  /\ mCallback \in BOOLEAN
  /\ {mLock, mRoleSwitchLock} \subseteq Threads \cup {"worker", "none"}
  /\ mPartnerLock \in Threads \cup {"none"}
  /\ mPartnerUp \in BOOLEAN
  /\ destroyThread \in BOOLEAN
  /\ pc \in [Threads -> Control]
  /\ want \in [Threads -> Targets \cup {"none"}]
  /\ result \in [Threads -> BOOLEAN]
  /\ worker \in WorkerControl
  /\ {listed, signalled, sigPending, returned, stale, skipped} \subseteq BOOLEAN

\* "Hold the lock here to prevent loosing connected signals": whenever a mode
\* switch waits and the partner has been reported up since the port type was
\* written, the wait has been signalled.
PartnerSignalNotLost ==
  \A t \in Threads : pc[t] = "wait" /\ mPartnerUp => signalled

\* The worker does not undo a mode switch that is under way, although the
\* disconnect the switch provokes makes it restore dual role: from the write to
\* the end of the wait nothing changes the port type.
SwitchNotUndone ==
  [][\A t \in Threads : pc[t] \in {"towait", "wait"} => portType' = portType]_vars

\* A port without a partner is in dual role again once the worker has handled
\* the disconnect, unless it found mRoleSwitchLock taken, there was nobody to tell
\* or port_type did not take the write: then nothing tries again (skipped).
DisconnectedIsDual ==
  /\ mCallback /\ ~destroyThread /\ worker = "epoll" /\ uevents = <<>>
  /\ mRoleSwitchLock = "none" /\ ~partner /\ ~skipped
  => portType = "dual"

\* "When both the values are not NULL, we would already have a worker thread
\* running": a registered callback has a worker that has not been told to end,
\* unless that worker could not listen, or not any more; without a callback none
\* is left.
WorkerRunning ==
  pc[Setter] \notin {"kill", "join"} =>
    IF mCallback THEN worker \notin {"none", "exited"} ELSE worker \in Dead

\* mPartnerUp is the "variable to signal partner coming back online after type
\* switch": a mode switch succeeds only when a partner has been added since the
\* port type was written, or when the "add" of the partner it replaced had not
\* been handled by then (stale), which is taken for the new one.
SuccessIsReturn ==
  \A t \in Threads :
    pc[t] = "report" /\ want[t] \in Modes /\ result[t] => returned \/ stale

\* The thread that a waits for: the owner of the mutex it needs, or the worker it
\* joins.  Nobody waits for "none".
WaitsFor(a) ==
  IF a = "worker"
  THEN CASE worker = "signal" -> mPartnerLock
         [] worker = "notify" -> mLock
         [] OTHER             -> "none"
  ELSE IF a \notin Threads THEN "none"
  ELSE CASE pc[a] = "lock"                             -> mRoleSwitchLock
         [] pc[a] = "locked" /\ want[a] \in Modes      -> mPartnerLock
         [] pc[a] = "wait"                             -> mPartnerLock
         [] pc[a] = "report"                           -> mLock
         [] pc[a] = "join" /\ worker \notin Dead       -> "worker"
         [] OTHER                                      -> "none"

\* switchRole takes mLock while it holds mRoleSwitchLock, and the worker takes
\* all three mutexes, while setCallback joins it: threads that wait for one
\* another end at one that does not wait, every owner of a mutex is on its way to
\* release it, and a worker that is joined has been told to end.
NoCircularWait ==
  /\ \A a \in Threads \cup {"worker"} : WaitsFor(WaitsFor(WaitsFor(a))) = "none"
  /\ \A t \in Threads : t \in {mLock, mRoleSwitchLock, mPartnerLock} =>
                          pc[t] \notin {"idle", "lock", "kill", "join"}
  /\ "worker" \in {mLock, mRoleSwitchLock} => worker \in {"deliver", "drpWrite"}
  /\ pc[Setter] = "join" /\ worker \notin Dead => sigPending \/ destroyThread

\* A role switch that has the lock is reported and returns: mRoleSwitchLock is
\* released by the last step of a switch.
SwitchReturns == mRoleSwitchLock \in Threads ~> mRoleSwitchLock = "none"

\* A port that was forced into one mode and has no partner is not left there: the
\* wait of the mode switch times out, or the worker handles the disconnect, unless
\* the disconnect was missed or port_type did not take the write (skipped).
ForcedPortRecovers ==
  Forced /\ ~partner ~> ~Forced \/ partner \/ skipped

\* The worker waits for a uevent although it has been told to end: SIGUSR1 came
\* between the test of destroyThread and epoll_wait.
LostWakeup == worker = "epoll" /\ destroyThread /\ uevents = <<>>

\* setCallback(NULL) returns: the worker notices that it is to end, unless the
\* signal is lost like that and no uevent of any kind comes ever after.
ClearCallbackReturns ==
  <>[]LostWakeup \/ (pc[Setter] = "kill" ~> pc[Setter] = "idle")
=============================================================================
