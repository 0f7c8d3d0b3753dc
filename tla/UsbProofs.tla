----------------------------- MODULE UsbProofs -----------------------------
(***************************************************************************)
(* Proofs about Usb for every set of binder threads, every set of targets, *)
(* every length of the uevent queue and every combination of faults: type  *)
(* correctness, the mode switch and its wait, the worker's life, the       *)
(* return to dual role, and that nobody waits in a circle.                 *)
(***************************************************************************)
EXTENDS Usb, TLAPS

-----------------------------------------------------------------------------
(***************************************************************************)
(* What is inductive.                                                      *)
(***************************************************************************)

\* The thread between LockRoleSwitch and Report.
Switching(t) == pc[t] \in {"locked", "towait", "wait", "readback", "drp", "report"}

\* It holds mRoleSwitchLock, as the worker does while it restores dual role.
RoleLockHeld == /\ \A t \in Threads : Switching(t) => mRoleSwitchLock = t
                /\ worker = "drpWrite" => mRoleSwitchLock = "worker"

\* From the write of port_type to the wait a mode switch holds mPartnerLock, and
\* the worker cannot have reported the partner up.
PartnerLockHeld == \A t \in Threads : pc[t] = "towait" => mPartnerLock = t /\ ~mPartnerUp

\* Only a power or data role is read back; a result is one of a finished switch.
ResultOfSwitch == \A t \in Threads : /\ pc[t] = "readback" => want[t] \in Roles
                                     /\ pc[t] # "report" => ~result[t]

\* The worker, from its creation to its end: it is told to end only after its
\* callback is cleared, and a signal does not outlive it.
WorkerLife ==
  /\ pc[Setter] \notin {"kill", "join"} =>
       IF mCallback THEN worker \notin {"none", "exited"} /\ ~destroyThread /\ ~sigPending
                    ELSE worker \in Dead /\ ~sigPending
  /\ pc[Setter] = "kill" =>
       ~mCallback /\ worker \notin {"none", "exited"} /\ ~destroyThread /\ ~sigPending
  /\ pc[Setter] = "join" =>
       ~mCallback /\ ~(sigPending /\ destroyThread) /\ ~(sigPending /\ worker \in Dead)

\* An "add" that the worker has not handled yet.
AddQueued == \E i \in DOMAIN uevents : uevents[i] = "add"

\* While a mode switch waits, every partner reported up or about to be has been
\* added since the write, or is the stale one.
ReportedUpIsReturn ==
  (\E t \in Threads : pc[t] \in {"towait", "wait"})
    /\ (mPartnerUp \/ worker = "signal" \/ AddQueued) => returned \/ stale

\* A port change the worker has not handled yet: it is queued, or the worker is
\* on its way to look at the port.
TypecQueued == \E i \in DOMAIN uevents : uevents[i] # "other"
ToHandle == \/ TypecQueued
            \/ worker \in {"signal", "notify", "deliver", "drp", "drpWrite"}

\* A switch that will restore dual role unless the partner comes up.
WillRestore(t) == pc[t] = "drp" \/ (pc[t] \in {"towait", "wait"} /\ ~mPartnerUp)

\* A port that has lost its partner and is not in dual role has somebody who
\* will look at it.
DualOrPending ==
  ~partner /\ ~skipped /\ portType # "dual" => ToHandle \/ \E t \in Threads : WillRestore(t)

-----------------------------------------------------------------------------
(***************************************************************************)
(* The uevent queue.                                                       *)
(***************************************************************************)
Event == {"add", "remove", "change", "other"}

\* A uevent that is sent is appended when the worker listens, and nothing that
\* was queued is lost.
LEMMA QueueAppend ==
  ASSUME TypeOK, Room, NEW e \in Event, Uevent(e)
  PROVE  /\ uevents' \in Seq(Event) /\ Len(uevents') <= MaxUevents
         /\ TypecQueued => TypecQueued'
         /\ e # "add" /\ AddQueued' => AddQueued
         /\ Listening /\ e # "other" => TypecQueued'
<1>1. uevents \in Seq(Event) /\ Len(uevents) \in Nat /\ MaxUevents \in Nat
  BY ConstantsAssumption DEF TypeOK, Event
<1>2. CASE Listening
  <2>1. uevents' = Append(uevents, e)
    BY <1>2 DEF Uevent
  <2>2. /\ uevents' \in Seq(Event)
        /\ Len(uevents') = Len(uevents) + 1
        /\ DOMAIN uevents = 1..Len(uevents)
        /\ DOMAIN uevents' = 1..(Len(uevents) + 1)
        /\ \A i \in 1..Len(uevents) : uevents'[i] = uevents[i]
        /\ uevents'[Len(uevents) + 1] = e
    BY <1>1, <2>1
  <2>3. Len(uevents') <= MaxUevents
    BY <1>1, <2>2 DEF Room
  <2>4. TypecQueued => TypecQueued'
    BY <1>1, <2>2 DEF TypecQueued
  <2>5. e # "add" /\ AddQueued' => AddQueued
    BY <1>1, <2>2 DEF AddQueued
  <2>6. e # "other" => TypecQueued'
    BY <1>1, <2>2 DEF TypecQueued
  <2> QED
    BY <2>2, <2>3, <2>4, <2>5, <2>6
<1>3. CASE ~Listening
  BY <1>1, <1>3 DEF Uevent, TypeOK, TypecQueued, AddQueued
<1> QED
  BY <1>2, <1>3

\* Receiving takes the first uevent and keeps the others.
LEMMA QueueTail ==
  ASSUME TypeOK, uevents # <<>>, uevents' = Tail(uevents)
  PROVE  /\ Head(uevents) \in Event
         /\ uevents' \in Seq(Event) /\ Len(uevents') <= MaxUevents
         /\ TypecQueued /\ Head(uevents) = "other" => TypecQueued'
         /\ AddQueued' => AddQueued
         /\ Head(uevents) = "add" => AddQueued
<1>1. uevents \in Seq(Event) /\ Len(uevents) \in Nat /\ Len(uevents) <= MaxUevents
  BY DEF TypeOK, Event
<1>2. /\ Head(uevents) \in Event
      /\ Head(uevents) = uevents[1]
      /\ Len(uevents) >= 1
      /\ uevents' \in Seq(Event)
      /\ Len(uevents') = Len(uevents) - 1
      /\ DOMAIN uevents = 1..Len(uevents)
      /\ DOMAIN uevents' = 1..(Len(uevents) - 1)
      /\ \A i \in 1..(Len(uevents) - 1) : uevents'[i] = uevents[i + 1]
  BY <1>1
<1>3. Len(uevents') <= MaxUevents
  BY <1>1, <1>2, ConstantsAssumption
<1>4. ASSUME NEW i \in DOMAIN uevents, i # 1
      PROVE  i - 1 \in DOMAIN uevents' /\ uevents'[i - 1] = uevents[i]
  BY <1>1, <1>2, <1>4
<1>5. TypecQueued /\ Head(uevents) = "other" => TypecQueued'
  BY <1>2, <1>4 DEF TypecQueued
<1>6. ASSUME NEW i \in DOMAIN uevents'
      PROVE  i + 1 \in DOMAIN uevents /\ uevents[i + 1] = uevents'[i]
  BY <1>1, <1>2
<1>7. AddQueued' => AddQueued
  BY <1>6 DEF AddQueued
<1>8. Head(uevents) = "add" => AddQueued
  BY <1>2 DEF AddQueued
<1> QED
  BY <1>2, <1>3, <1>5, <1>7, <1>8

-----------------------------------------------------------------------------
(***************************************************************************)
(* Type correctness                                                        *)
(***************************************************************************)

USE DEF port, fields, locks, caller, work, hist, Goto, Control, WorkerControl, Modes, Roles

\* What a port_type write leaves.
LEMMA WritePortTypeType ==
  ASSUME TypeOK, NEW r \in Modes, WritePortType(r)
  PROVE  /\ partner' \in BOOLEAN /\ role' \in Roles /\ portType' \in Modes
         /\ uevents' \in Seq(Event) /\ Len(uevents') <= MaxUevents
         /\ skipped' \in BOOLEAN
<1>1. CASE UNCHANGED <<partner, role, uevents, skipped>>
  BY <1>1 DEF WritePortType, TypeOK, Event
<1>2. CASE Room /\ Uevent("remove") /\ partner' = FALSE /\ role' = "device" /\ Disconnected
  <2>1. uevents' \in Seq(Event) /\ Len(uevents') <= MaxUevents
    BY <1>2, QueueAppend DEF Event
  <2>2. skipped' \in BOOLEAN
    BY <1>2 DEF Disconnected
  <2> QED
    BY <1>2, <2>1, <2>2 DEF WritePortType
<1> QED
  BY <1>1, <1>2 DEF WritePortType

\* The type invariant in three parts, which an action preserves one by one: the
\* flags, what belongs to a binder thread, and the rest.
FlagTypes == /\ partner \in BOOLEAN /\ mCallback \in BOOLEAN /\ mPartnerUp \in BOOLEAN
             /\ destroyThread \in BOOLEAN /\ listed \in BOOLEAN /\ signalled \in BOOLEAN
             /\ sigPending \in BOOLEAN /\ returned \in BOOLEAN /\ stale \in BOOLEAN
             /\ skipped \in BOOLEAN

ThreadTypes == /\ pc \in [Threads -> Control]
               /\ want \in [Threads -> Targets \cup {"none"}]
               /\ result \in [Threads -> BOOLEAN]

OtherTypes == /\ role \in Roles
              /\ portType \in Modes \cup {"dual"}
              /\ uevents \in Seq(Event) /\ Len(uevents) <= MaxUevents
              /\ mLock \in Threads \cup {"worker", "none"}
              /\ mRoleSwitchLock \in Threads \cup {"worker", "none"}
              /\ mPartnerLock \in Threads \cup {"none"}
              /\ worker \in WorkerControl

\* The three parts are the type invariant.
LEMMA TypeParts ==
  /\ TypeOK <=> FlagTypes /\ ThreadTypes /\ OtherTypes
  /\ TypeOK' <=> FlagTypes' /\ ThreadTypes' /\ OtherTypes'
BY DEF TypeOK, FlagTypes, ThreadTypes, OtherTypes, Event

\* Every step of a binder thread preserves the types.
LEMMA BinderType ==
  ASSUME TypeOK, NEW t \in Threads, Call(t) \/ Binder(t)
  PROVE  TypeOK'
<1> USE ConstantsAssumption
<1>0. FlagTypes /\ ThreadTypes /\ OtherTypes
  BY TypeParts
<1>1. CASE RegisterCallback
  <2>1. FlagTypes'
    BY <1>0, <1>1 DEF RegisterCallback, FlagTypes
  <2>2. ThreadTypes'
    BY <1>0, <1>1 DEF RegisterCallback, ThreadTypes
  <2>3. OtherTypes'
    BY <1>0, <1>1 DEF RegisterCallback, OtherTypes
  <2> QED
    BY <2>1, <2>2, <2>3, TypeParts
<1>2. CASE ClearCallback
  <2>1. FlagTypes'
    BY <1>0, <1>2 DEF ClearCallback, FlagTypes
  <2>2. ThreadTypes'
    BY <1>0, <1>2 DEF ClearCallback, ThreadTypes
  <2>3. OtherTypes'
    BY <1>0, <1>2 DEF ClearCallback, OtherTypes
  <2> QED
    BY <2>1, <2>2, <2>3, TypeParts
<1>3. CASE KillWorker
  <2>1. FlagTypes'
    BY <1>0, <1>3 DEF KillWorker, FlagTypes
  <2>2. ThreadTypes'
    BY <1>0, <1>3 DEF KillWorker, ThreadTypes
  <2>3. OtherTypes'
    BY <1>0, <1>3 DEF KillWorker, OtherTypes
  <2> QED
    BY <2>1, <2>2, <2>3, TypeParts
<1>4. CASE JoinWorker
  <2>1. FlagTypes'
    BY <1>0, <1>4 DEF JoinWorker, FlagTypes
  <2>2. ThreadTypes'
    BY <1>0, <1>4 DEF JoinWorker, ThreadTypes
  <2>3. OtherTypes'
    BY <1>0, <1>4 DEF JoinWorker, OtherTypes
  <2> QED
    BY <2>1, <2>2, <2>3, TypeParts
<1>5. CASE SwitchRole(t)
  <2>1. FlagTypes'
    BY <1>0, <1>5 DEF SwitchRole, FlagTypes
  <2>2. ThreadTypes'
    BY <1>0, <1>5 DEF SwitchRole, ThreadTypes
  <2>3. OtherTypes'
    BY <1>0, <1>5 DEF SwitchRole, OtherTypes
  <2> QED
    BY <2>1, <2>2, <2>3, TypeParts
<1>6. CASE LockRoleSwitch(t)
  <2>1. FlagTypes'
    BY <1>0, <1>6 DEF LockRoleSwitch, FlagTypes
  <2>2. ThreadTypes'
    BY <1>0, <1>6 DEF LockRoleSwitch, ThreadTypes
  <2>3. OtherTypes'
    BY <1>0, <1>6 DEF LockRoleSwitch, OtherTypes
  <2> QED
    BY <2>1, <2>2, <2>3, TypeParts
<1>7. CASE WriteMode(t)
  <2>1. /\ partner' \in BOOLEAN /\ skipped' \in BOOLEAN
        /\ role' \in Roles /\ portType' \in Modes \cup {"dual"}
        /\ uevents' \in Seq(Event) /\ Len(uevents') <= MaxUevents
    <3>1. CASE WritePortType(want[t])
      BY <1>7, <3>1, WritePortTypeType DEF WriteMode
    <3>2. CASE UNCHANGED <<port, skipped>>
      BY <1>0, <3>2 DEF FlagTypes, OtherTypes
    <3> QED
      BY <1>7, <3>1, <3>2 DEF WriteMode
  <2>2. stale' \in BOOLEAN /\ returned' \in BOOLEAN
    BY <1>7 DEF WriteMode, AwaitReturn
  <2>3. FlagTypes'
    BY <1>0, <1>7, <2>1, <2>2 DEF WriteMode, FlagTypes
  <2>4. ThreadTypes'
    BY <1>0, <1>7, <2>1, <2>2 DEF WriteMode, ThreadTypes
  <2>5. OtherTypes'
    BY <1>0, <1>7, <2>1, <2>2 DEF WriteMode, OtherTypes
  <2> QED
    BY <2>3, <2>4, <2>5, TypeParts
<1>8. CASE WriteModeFails(t)
  <2>1. FlagTypes'
    BY <1>0, <1>8 DEF WriteModeFails, FlagTypes
  <2>2. ThreadTypes'
    BY <1>0, <1>8 DEF WriteModeFails, ThreadTypes
  <2>3. OtherTypes'
    BY <1>0, <1>8 DEF WriteModeFails, OtherTypes
  <2> QED
    BY <2>1, <2>2, <2>3, TypeParts
<1>9. CASE BeginWait(t)
  <2>1. FlagTypes'
    BY <1>0, <1>9 DEF BeginWait, FlagTypes
  <2>2. ThreadTypes'
    BY <1>0, <1>9 DEF BeginWait, ThreadTypes
  <2>3. OtherTypes'
    BY <1>0, <1>9 DEF BeginWait, OtherTypes
  <2> QED
    BY <2>1, <2>2, <2>3, TypeParts
<1>10. CASE WakeUp(t)
  <2>1. FlagTypes'
    BY <1>0, <1>10 DEF WakeUp, FlagTypes
  <2>2. ThreadTypes'
    BY <1>0, <1>10 DEF WakeUp, ThreadTypes
  <2>3. OtherTypes'
    BY <1>0, <1>10 DEF WakeUp, OtherTypes
  <2> QED
    BY <2>1, <2>2, <2>3, TypeParts
<1>11. CASE TimedOut(t)
  <2>1. FlagTypes'
    BY <1>0, <1>11 DEF TimedOut, FlagTypes
  <2>2. ThreadTypes'
    BY <1>0, <1>11 DEF TimedOut, ThreadTypes
  <2>3. OtherTypes'
    BY <1>0, <1>11 DEF TimedOut, OtherTypes
  <2> QED
    BY <2>1, <2>2, <2>3, TypeParts
<1>12. CASE SwitchToDrp(t)
  <2>1. skipped' \in BOOLEAN
    BY <1>12 DEF SwitchToDrp, WriteDual, Forced
  <2>2. FlagTypes'
    BY <1>0, <1>12, <2>1 DEF SwitchToDrp, FlagTypes
  <2>3. ThreadTypes'
    BY <1>0, <1>12 DEF SwitchToDrp, ThreadTypes
  <2>4. OtherTypes'
    BY <1>0, <1>12 DEF SwitchToDrp, WriteDual, OtherTypes
  <2> QED
    BY <2>2, <2>3, <2>4, TypeParts
<1>13. CASE WriteRole(t)
  <2>1. uevents' \in Seq(Event) /\ Len(uevents') <= MaxUevents
    BY <1>0, <1>13, QueueAppend DEF WriteRole, OtherTypes, Event
  <2>2. role' \in Roles
    BY <1>0, <1>13 DEF WriteRole, OtherTypes
  <2>3. FlagTypes'
    BY <1>0, <1>13, <2>1, <2>2 DEF WriteRole, FlagTypes
  <2>4. ThreadTypes'
    BY <1>0, <1>13, <2>1, <2>2 DEF WriteRole, ThreadTypes
  <2>5. OtherTypes'
    BY <1>0, <1>13, <2>1, <2>2 DEF WriteRole, OtherTypes
  <2> QED
    BY <2>3, <2>4, <2>5, TypeParts
<1>14. CASE ReadBack(t)
  <2>1. (role = want[t]) \in BOOLEAN
    OBVIOUS
  <2>2. FlagTypes'
    BY <1>0, <1>14, <2>1 DEF ReadBack, FlagTypes
  <2>3. ThreadTypes'
    BY <1>0, <1>14, <2>1 DEF ReadBack, ThreadTypes
  <2>4. OtherTypes'
    BY <1>0, <1>14, <2>1 DEF ReadBack, OtherTypes
  <2> QED
    BY <2>2, <2>3, <2>4, TypeParts
<1>15. CASE Report(t)
  <2>1. FlagTypes'
    BY <1>0, <1>15 DEF Report, FlagTypes
  <2>2. ThreadTypes'
    BY <1>0, <1>15 DEF Report, ThreadTypes
  <2>3. OtherTypes'
    BY <1>0, <1>15 DEF Report, OtherTypes
  <2> QED
    BY <2>1, <2>2, <2>3, TypeParts
<1> QED
  BY <1>1, <1>2, <1>3, <1>4, <1>5, <1>6, <1>7, <1>8, <1>9, <1>10, <1>11, <1>12, <1>13,
     <1>14, <1>15 DEF Call, Binder

\* Every step of the worker preserves the types.
LEMMA WorkerType ==
  ASSUME TypeOK, Worker \/ EpollFails
  PROVE  TypeOK'
<1> USE ConstantsAssumption
<1>0. FlagTypes /\ ThreadTypes /\ OtherTypes
  BY TypeParts
<1> USE DEF WorkerVars
<1>1. CASE OpenSocket
  <2>1. FlagTypes'
    BY <1>0, <1>1 DEF OpenSocket, FlagTypes
  <2>2. ThreadTypes'
    BY <1>0, <1>1 DEF OpenSocket, ThreadTypes
  <2>3. OtherTypes'
    BY <1>0, <1>1 DEF OpenSocket, OtherTypes
  <2> QED
    BY <2>1, <2>2, <2>3, TypeParts
<1>2. CASE TestDestroy
  <2>1. <<>> \in Seq(Event) /\ Len(<<>>) <= MaxUevents
    OBVIOUS
  <2>2. skipped' \in BOOLEAN
    BY <1>0, <1>2 DEF TestDestroy, FlagTypes
  <2>3. FlagTypes'
    BY <1>0, <1>2, <2>1, <2>2 DEF TestDestroy, FlagTypes
  <2>4. ThreadTypes'
    BY <1>0, <1>2, <2>1, <2>2 DEF TestDestroy, ThreadTypes
  <2>5. OtherTypes'
    BY <1>0, <1>2, <2>1, <2>2 DEF TestDestroy, OtherTypes
  <2> QED
    BY <2>3, <2>4, <2>5, TypeParts
<1>3. CASE EnterEpoll
  <2>1. FlagTypes'
    BY <1>0, <1>3 DEF EnterEpoll, FlagTypes
  <2>2. ThreadTypes'
    BY <1>0, <1>3 DEF EnterEpoll, ThreadTypes
  <2>3. OtherTypes'
    BY <1>0, <1>3 DEF EnterEpoll, OtherTypes
  <2> QED
    BY <2>1, <2>2, <2>3, TypeParts
<1>4. CASE SigHandler
  <2>1. FlagTypes'
    BY <1>0, <1>4 DEF SigHandler, FlagTypes
  <2>2. ThreadTypes'
    BY <1>0, <1>4 DEF SigHandler, ThreadTypes
  <2>3. OtherTypes'
    BY <1>0, <1>4 DEF SigHandler, OtherTypes
  <2> QED
    BY <2>1, <2>2, <2>3, TypeParts
<1>5. CASE Receive
  <2>1. /\ Head(uevents) \in Event
        /\ uevents' \in Seq(Event) /\ Len(uevents') <= MaxUevents
    BY <1>5, QueueTail DEF Receive
  <2>2. worker' \in WorkerControl
    BY <1>5, <2>1 DEF Receive, Event
  <2>3. FlagTypes'
    BY <1>0, <1>5, <2>1, <2>2 DEF Receive, FlagTypes
  <2>4. ThreadTypes'
    BY <1>0, <1>5, <2>1, <2>2 DEF Receive, ThreadTypes
  <2>5. OtherTypes'
    BY <1>0, <1>5, <2>1, <2>2 DEF Receive, OtherTypes
  <2> QED
    BY <2>3, <2>4, <2>5, TypeParts
<1>6. CASE SignalPartner
  <2>1. signalled' \in BOOLEAN
    BY <1>0, <1>6 DEF SignalPartner, FlagTypes
  <2>2. FlagTypes'
    BY <1>0, <1>6, <2>1 DEF SignalPartner, FlagTypes
  <2>3. ThreadTypes'
    BY <1>0, <1>6, <2>1 DEF SignalPartner, ThreadTypes
  <2>4. OtherTypes'
    BY <1>0, <1>6, <2>1 DEF SignalPartner, OtherTypes
  <2> QED
    BY <2>2, <2>3, <2>4, TypeParts
<1>7. CASE BeginNotify
  <2>1. FlagTypes'
    BY <1>0, <1>7 DEF BeginNotify, FlagTypes
  <2>2. ThreadTypes'
    BY <1>0, <1>7 DEF BeginNotify, ThreadTypes
  <2>3. OtherTypes'
    BY <1>0, <1>7 DEF BeginNotify, OtherTypes
  <2> QED
    BY <2>1, <2>2, <2>3, TypeParts
<1>8. CASE EndNotify
  <2>1. FlagTypes'
    BY <1>0, <1>8 DEF EndNotify, FlagTypes
  <2>2. ThreadTypes'
    BY <1>0, <1>8 DEF EndNotify, ThreadTypes
  <2>3. OtherTypes'
    BY <1>0, <1>8 DEF EndNotify, OtherTypes
  <2> QED
    BY <2>1, <2>2, <2>3, TypeParts
<1>9. CASE TryRestoreDrp
  <2>1. skipped' \in BOOLEAN
    BY <1>0, <1>9 DEF TryRestoreDrp, FlagTypes
  <2>2. FlagTypes'
    BY <1>0, <1>9, <2>1 DEF TryRestoreDrp, FlagTypes
  <2>3. ThreadTypes'
    BY <1>0, <1>9, <2>1 DEF TryRestoreDrp, ThreadTypes
  <2>4. OtherTypes'
    BY <1>0, <1>9, <2>1 DEF TryRestoreDrp, OtherTypes
  <2> QED
    BY <2>2, <2>3, <2>4, TypeParts
<1>10. CASE RestoreDrp
  <2>1. skipped' \in BOOLEAN
    BY <1>10 DEF RestoreDrp, WriteDual, Forced
  <2>2. FlagTypes'
    BY <1>0, <1>10, <2>1 DEF RestoreDrp, FlagTypes
  <2>3. ThreadTypes'
    BY <1>0, <1>10 DEF RestoreDrp, ThreadTypes
  <2>4. OtherTypes'
    BY <1>0, <1>10 DEF RestoreDrp, WriteDual, OtherTypes
  <2> QED
    BY <2>2, <2>3, <2>4, TypeParts
<1>11. CASE EpollFails
  <2>1. <<>> \in Seq(Event) /\ Len(<<>>) <= MaxUevents
    OBVIOUS
  <2>2. skipped' \in BOOLEAN
    BY <1>0, <1>11 DEF EpollFails, FlagTypes
  <2>3. FlagTypes'
    BY <1>0, <1>11, <2>2 DEF EpollFails, FlagTypes
  <2>4. ThreadTypes'
    BY <1>0, <1>11 DEF EpollFails, ThreadTypes
  <2>5. OtherTypes'
    BY <1>0, <1>11, <2>1 DEF EpollFails, OtherTypes
  <2> QED
    BY <2>3, <2>4, <2>5, TypeParts
<1> QED
  BY <1>1, <1>2, <1>3, <1>4, <1>5, <1>6, <1>7, <1>8, <1>9, <1>10, <1>11 DEF Worker

\* The environment.
Environment == Attach \/ Detach \/ PartnerSwapsRole \/ OtherUevent

\* Every step of the environment preserves the types.
LEMMA EnvironmentType ==
  ASSUME TypeOK, Environment
  PROVE  TypeOK'
<1> USE ConstantsAssumption
<1>0. FlagTypes /\ ThreadTypes /\ OtherTypes
  BY TypeParts
<1> USE DEF PortVars
<1>1. uevents' \in Seq(Event) /\ Len(uevents') <= MaxUevents
  BY QueueAppend DEF Environment, Attach, Detach, PartnerSwapsRole, OtherUevent, Event
<1>2. CASE Attach
  <2>1. returned' \in BOOLEAN
    BY <1>0, <1>2 DEF Attach, FlagTypes
  <2>2. FlagTypes'
    BY <1>0, <1>2, <1>1, <2>1 DEF Attach, FlagTypes
  <2>3. ThreadTypes'
    BY <1>0, <1>2, <1>1, <2>1 DEF Attach, ThreadTypes
  <2>4. OtherTypes'
    BY <1>0, <1>2, <1>1, <2>1 DEF Attach, OtherTypes
  <2> QED
    BY <2>2, <2>3, <2>4, TypeParts
<1>3. CASE Detach
  <2>1. skipped' \in BOOLEAN
    BY <1>0, <1>3 DEF Detach, Disconnected, FlagTypes
  <2>2. FlagTypes'
    BY <1>0, <1>3, <1>1, <2>1 DEF Detach, FlagTypes
  <2>3. ThreadTypes'
    BY <1>0, <1>3, <1>1, <2>1 DEF Detach, ThreadTypes
  <2>4. OtherTypes'
    BY <1>0, <1>3, <1>1, <2>1 DEF Detach, OtherTypes
  <2> QED
    BY <2>2, <2>3, <2>4, TypeParts
<1>4. CASE PartnerSwapsRole
  <2>1. FlagTypes'
    BY <1>0, <1>4, <1>1 DEF PartnerSwapsRole, FlagTypes
  <2>2. ThreadTypes'
    BY <1>0, <1>4, <1>1 DEF PartnerSwapsRole, ThreadTypes
  <2>3. OtherTypes'
    BY <1>0, <1>4, <1>1 DEF PartnerSwapsRole, OtherTypes
  <2> QED
    BY <2>1, <2>2, <2>3, TypeParts
<1>5. CASE OtherUevent
  <2>1. FlagTypes'
    BY <1>0, <1>5, <1>1 DEF OtherUevent, FlagTypes
  <2>2. ThreadTypes'
    BY <1>0, <1>5, <1>1 DEF OtherUevent, ThreadTypes
  <2>3. OtherTypes'
    BY <1>0, <1>5, <1>1 DEF OtherUevent, OtherTypes
  <2> QED
    BY <2>1, <2>2, <2>3, TypeParts
<1> QED
  BY <1>2, <1>3, <1>4, <1>5 DEF Environment

\* Every reachable state is type correct.
THEOREM TypeCorrect == Spec => []TypeOK
<1>1. Init => TypeOK
  <2>1. <<>> \in Seq(Event) /\ Len(<<>>) <= MaxUevents
    BY ConstantsAssumption
  <2>2. Init => FlagTypes
    BY DEF Init, FlagTypes
  <2>3. Init => ThreadTypes
    BY DEF Init, ThreadTypes
  <2>4. Init => OtherTypes
    BY <2>1 DEF Init, OtherTypes
  <2> QED
    BY <2>2, <2>3, <2>4, TypeParts
<1>2. TypeOK /\ [Next]_vars => TypeOK'
  <2>1. ASSUME TypeOK, UNCHANGED vars PROVE TypeOK'
    BY <2>1 DEF TypeOK, vars
  <2> QED
    BY <2>1, BinderType, WorkerType, EnvironmentType DEF Next, Environment
<1> QED
  BY <1>1, <1>2, PTL DEF Spec

-----------------------------------------------------------------------------
(***************************************************************************)
(* The mode switch: its locks, its wait and its result.                    *)
(***************************************************************************)

\* Everything a mode switch relies on.
SwitchInv == /\ RoleLockHeld
             /\ PartnerLockHeld
             /\ PartnerSignalNotLost
             /\ ResultOfSwitch

\* A step that leaves port_type, the switch locks, mPartnerUp and the switching
\* threads alone preserves it.
LEMMA SwitchUntouched ==
  ASSUME TypeOK, SwitchInv,
         UNCHANGED <<portType, mRoleSwitchLock, mPartnerLock, mPartnerUp, want, result>>,
         signalled' = signalled,
         worker' = "drpWrite" => worker = "drpWrite",
         pc' = pc \/ \E t \in Threads, l \in {"idle", "kill", "join", "lock"} :
                        pc[t] # "report" /\ Goto(t, l)
  PROVE  SwitchInv'
<1>1. pc \in [Threads -> Control]
  BY DEF TypeOK
<1> QED
  BY <1>1 DEF SwitchInv, RoleLockHeld, Switching, PartnerLockHeld, PartnerSignalNotLost,
              ResultOfSwitch

\* Every step of a binder thread preserves it: the one switching thread is the
\* one that changes port_type, and the one that waits.
LEMMA BinderSwitch ==
  ASSUME TypeOK, SwitchInv, NEW t \in Threads, Call(t) \/ Binder(t)
  PROVE  SwitchInv'
<1>1. /\ pc \in [Threads -> Control]
      /\ want \in [Threads -> Targets \cup {"none"}]
      /\ result \in [Threads -> BOOLEAN]
      /\ "worker" \notin Threads /\ "none" \notin Threads
      /\ Setter \in Threads
  BY ConstantsAssumption DEF TypeOK
<1>2. CASE RegisterCallback \/ ClearCallback \/ KillWorker \/ JoinWorker
  <2>1. /\ UNCHANGED <<portType, mRoleSwitchLock, mPartnerLock, mPartnerUp, want, result,
                       signalled>>
        /\ worker' = worker \/ worker' = "start"
        /\ pc' = pc \/ \E l \in {"idle", "kill", "join", "lock"} :
                          pc[Setter] # "report" /\ Goto(Setter, l)
    BY <1>2 DEF RegisterCallback, ClearCallback, KillWorker, JoinWorker
  <2> QED
    BY <1>1, <2>1, SwitchUntouched
<1> USE DEF SwitchInv, RoleLockHeld, Switching, PartnerLockHeld, PartnerSignalNotLost,
            ResultOfSwitch
<1>3. CASE SwitchRole(t)
  BY <1>1, <1>3 DEF SwitchRole
<1>4. CASE LockRoleSwitch(t)
  BY <1>1, <1>4 DEF LockRoleSwitch
<1>5. CASE WriteMode(t)
  BY <1>1, <1>5 DEF WriteMode
<1>6. CASE WriteModeFails(t)
  BY <1>1, <1>6 DEF WriteModeFails
<1>7. CASE BeginWait(t)
  BY <1>1, <1>7 DEF BeginWait
<1>8. CASE WakeUp(t)
  BY <1>1, <1>8 DEF WakeUp
<1>9. CASE TimedOut(t)
  BY <1>1, <1>9 DEF TimedOut
<1>10. CASE SwitchToDrp(t)
  BY <1>1, <1>10 DEF SwitchToDrp
<1>11. CASE WriteRole(t)
  BY <1>1, <1>11 DEF WriteRole
<1>12. CASE ReadBack(t)
  BY <1>1, <1>12 DEF ReadBack
<1>13. CASE Report(t)
  BY <1>1, <1>13 DEF Report
<1> QED
  BY <1>2, <1>3, <1>4, <1>5, <1>6, <1>7, <1>8, <1>9, <1>10, <1>11, <1>12, <1>13
     DEF Call, Binder

\* Every step of the worker preserves it: it reports the partner up under
\* mPartnerLock, with a signal, and restores dual role under mRoleSwitchLock.
LEMMA WorkerSwitch ==
  ASSUME TypeOK, SwitchInv, Worker \/ EpollFails
  PROVE  SwitchInv'
<1>1. /\ "worker" \notin Threads /\ "none" \notin Threads
      /\ worker \in WorkerControl
  BY ConstantsAssumption DEF TypeOK
<1>2. CASE Receive
  <2>1. worker' # "drpWrite"
    BY <1>2, QueueTail DEF Receive, Event
  <2> QED
    BY <1>2, <2>1, SwitchUntouched DEF Receive, WorkerVars
<1>3. CASE OpenSocket \/ TestDestroy \/ EnterEpoll \/ EpollFails \/ BeginNotify \/ EndNotify
           \/ SigHandler
  BY <1>3, SwitchUntouched DEF OpenSocket, TestDestroy, EnterEpoll, EpollFails, BeginNotify,
     EndNotify, SigHandler, WorkerVars
<1> USE DEF SwitchInv, RoleLockHeld, Switching, PartnerLockHeld, PartnerSignalNotLost,
            ResultOfSwitch
<1>4. CASE SignalPartner
  BY <1>1, <1>4 DEF SignalPartner, WorkerVars
<1>5. CASE TryRestoreDrp
  BY <1>1, <1>5 DEF TryRestoreDrp
<1>6. CASE RestoreDrp
  BY <1>1, <1>6 DEF RestoreDrp
<1> QED
  BY <1>2, <1>3, <1>4, <1>5, <1>6 DEF Worker

\* The cable does not touch it.
LEMMA EnvironmentSwitch ==
  ASSUME TypeOK, SwitchInv, Environment
  PROVE  SwitchInv'
BY SwitchUntouched DEF Environment, Attach, Detach, PartnerSwapsRole, OtherUevent, PortVars

\* The switch invariant holds in every reachable state.
THEOREM SwitchInvariant == Spec => []SwitchInv
<1>1. Init => SwitchInv
  BY DEF Init, SwitchInv, RoleLockHeld, Switching, PartnerLockHeld, PartnerSignalNotLost,
         ResultOfSwitch
<1>2. TypeOK /\ SwitchInv /\ [Next]_vars => SwitchInv'
  <2>1. ASSUME TypeOK, SwitchInv, UNCHANGED vars PROVE SwitchInv'
    BY <2>1, SwitchUntouched DEF vars
  <2> QED
    BY <2>1, BinderSwitch, WorkerSwitch, EnvironmentSwitch DEF Next, Environment
<1> QED
  BY <1>1, <1>2, TypeCorrect, PTL DEF Spec

\* The wait of a mode switch is signalled whenever the partner was reported up
\* after the port type was written, for every number of threads: the signal
\* cannot fall between the write and the wait.
THEOREM PartnerSignalNotLostHolds == Spec => []PartnerSignalNotLost
<1>1. SwitchInv => PartnerSignalNotLost
  BY DEF SwitchInv
<1> QED
  BY <1>1, SwitchInvariant, PTL

\* From the write of a mode switch to the end of its wait no step of any thread
\* changes the port type: not another switch, not the worker's return to dual
\* role.
THEOREM SwitchNotUndoneHolds == Spec => SwitchNotUndone
<1> DEFINE Kept == \A t \in Threads : pc[t] \in {"towait", "wait"} => portType' = portType
<1>1. TypeOK /\ SwitchInv /\ [Next]_vars => [Kept]_vars
  <2> SUFFICES ASSUME TypeOK, SwitchInv, Next,
                      NEW t \in Threads, pc[t] \in {"towait", "wait"}
               PROVE  portType' = portType
    OBVIOUS
  <2>1. mRoleSwitchLock = t /\ worker # "drpWrite" /\ t # "worker"
    BY ConstantsAssumption DEF SwitchInv, RoleLockHeld, Switching
  <2>2. \A u \in Threads : pc[u] \notin {"locked", "drp"}
    BY <2>1 DEF SwitchInv, RoleLockHeld, Switching
  <2>3. ASSUME NEW u \in Threads, Call(u) \/ Binder(u)
        PROVE  portType' = portType
    BY <2>2, <2>3 DEF Call, SwitchRole, RegisterCallback, ClearCallback, Binder,
       LockRoleSwitch, WriteMode, WriteModeFails, BeginWait, WakeUp, TimedOut, SwitchToDrp,
       WriteRole, ReadBack, Report, KillWorker, JoinWorker
  <2>4. Worker \/ EpollFails => portType' = portType
    BY <2>1 DEF Worker, OpenSocket, TestDestroy, EnterEpoll, EpollFails, Receive,
       SignalPartner, BeginNotify, EndNotify, TryRestoreDrp, RestoreDrp, SigHandler
  <2>5. Environment => portType' = portType
    BY DEF Environment, Attach, Detach, PartnerSwapsRole, OtherUevent, PortVars
  <2> QED
    BY <2>3, <2>4, <2>5 DEF Next, Environment
<1> QED
  BY <1>1, TypeCorrect, SwitchInvariant, PTL DEF Spec, SwitchNotUndone

-----------------------------------------------------------------------------
(***************************************************************************)
(* The worker's life.                                                      *)
(***************************************************************************)

\* Every step of a binder thread preserves WorkerLife: only the setter starts
\* or signals a worker.
LEMMA BinderLife ==
  ASSUME TypeOK, WorkerLife, NEW t \in Threads, Call(t) \/ Binder(t)
  PROVE  WorkerLife'
<1>1. pc \in [Threads -> Control] /\ Setter \in Threads
  BY ConstantsAssumption DEF TypeOK
<1> USE DEF WorkerLife
<1>2. CASE RegisterCallback
  BY <1>1, <1>2 DEF RegisterCallback, Dead
<1>3. CASE ClearCallback
  BY <1>1, <1>3 DEF ClearCallback, Dead
<1>4. CASE KillWorker
  BY <1>1, <1>4 DEF KillWorker, Dead
<1>5. CASE JoinWorker
  BY <1>1, <1>5 DEF JoinWorker, Dead
<1>6. ASSUME UNCHANGED <<mCallback, destroyThread, worker, sigPending>>,
             pc[t] \notin {"kill", "join"},
             pc' = pc \/ \E l \in Control \ {"kill", "join"} : Goto(t, l)
      PROVE  WorkerLife'
  BY <1>1, <1>6
<1>7. CASE SwitchRole(t) \/ LockRoleSwitch(t) \/ WriteMode(t) \/ WriteModeFails(t)
           \/ BeginWait(t)
  BY <1>6, <1>7 DEF SwitchRole, LockRoleSwitch, WriteMode, WriteModeFails, BeginWait
<1>8. CASE WakeUp(t) \/ TimedOut(t) \/ SwitchToDrp(t) \/ WriteRole(t) \/ ReadBack(t)
           \/ Report(t)
  BY <1>6, <1>8 DEF WakeUp, TimedOut, SwitchToDrp, WriteRole, ReadBack, Report
<1> QED
  BY <1>2, <1>3, <1>4, <1>5, <1>7, <1>8 DEF Call, Binder

\* Every step of the worker preserves WorkerLife: it returns only when it was
\* told to, or before it listens.
LEMMA WorkerKeepsLife ==
  ASSUME TypeOK, WorkerLife, Worker \/ EpollFails
  PROVE  WorkerLife'
<1> USE DEF WorkerLife
<1>1. UNCHANGED <<pc, mCallback>>
  BY DEF Worker, OpenSocket, TestDestroy, EnterEpoll, EpollFails, Receive, SignalPartner,
     BeginNotify, EndNotify, TryRestoreDrp, RestoreDrp, SigHandler, WorkerVars
<1>2. CASE OpenSocket
  BY <1>1, <1>2 DEF OpenSocket, Dead
<1>3. CASE TestDestroy
  BY <1>1, <1>3 DEF TestDestroy, Dead
<1>4. CASE SigHandler
  BY <1>1, <1>4 DEF SigHandler, Dead
<1>5. ASSUME worker \notin Dead, worker' \notin Dead, UNCHANGED <<destroyThread, sigPending>>
      PROVE  WorkerLife'
  BY <1>1, <1>5 DEF Dead
<1>6. CASE Receive
  <2>1. worker' \in {"signal", "notify", "check"}
    BY <1>6, QueueTail DEF Receive, Event
  <2> QED
    BY <1>5, <1>6, <2>1 DEF Receive, Dead
<1>7. CASE EnterEpoll \/ SignalPartner \/ BeginNotify \/ EndNotify \/ TryRestoreDrp
           \/ RestoreDrp
  BY <1>5, <1>7 DEF EnterEpoll, SignalPartner, BeginNotify, EndNotify, TryRestoreDrp,
     RestoreDrp, Dead
<1>8. CASE EpollFails
  BY <1>1, <1>8 DEF EpollFails, Dead
<1> QED
  BY <1>2, <1>3, <1>4, <1>6, <1>7, <1>8 DEF Worker

\* WorkerLife holds in every reachable state.
THEOREM WorkerLifeInvariant == Spec => []WorkerLife
<1>1. Init => WorkerLife
  BY ConstantsAssumption DEF Init, WorkerLife, Dead
<1>2. TypeOK /\ WorkerLife /\ [Next]_vars => WorkerLife'
  <2>1. ASSUME WorkerLife, Environment \/ UNCHANGED vars
        PROVE  WorkerLife'
    BY <2>1 DEF Environment, Attach, Detach, PartnerSwapsRole, OtherUevent, PortVars, vars,
       WorkerLife
  <2> QED
    BY <2>1, BinderLife, WorkerKeepsLife DEF Next, Environment
<1> QED
  BY <1>1, <1>2, TypeCorrect, PTL DEF Spec

\* A registered callback has a worker that has not been told to end, unless it
\* could not listen, and without a callback none is left: a SIGUSR1 never hits
\* the worker of the next callback.
THEOREM WorkerRunningHolds == Spec => []WorkerRunning
<1>1. WorkerLife => WorkerRunning
  BY DEF WorkerLife, WorkerRunning
<1> QED
  BY <1>1, WorkerLifeInvariant, PTL

-----------------------------------------------------------------------------
(***************************************************************************)
(* A switch succeeds when the partner has returned.                        *)
(***************************************************************************)

\* The two facts that are inductive together.
ReturnInv == ReportedUpIsReturn /\ SuccessIsReturn

\* A step that brings no partner and no new waiter preserves them.
LEMMA ReturnUntouched ==
  ASSUME TypeOK, ReturnInv,
         UNCHANGED <<returned, stale, want, result, mPartnerUp>>,
         worker' = "signal" => worker = "signal" \/ AddQueued,
         AddQueued' => AddQueued,
         pc' = pc \/ \E t \in Threads, l \in Control \ {"towait", "wait", "report"} :
                        Goto(t, l)
  PROVE  ReturnInv'
<1>1. pc \in [Threads -> Control]
  BY DEF TypeOK
<1>2. \A t \in Threads : pc'[t] \in {"towait", "wait", "report"} => pc'[t] = pc[t]
  BY <1>1
<1>3. (\E t \in Threads : pc'[t] \in {"towait", "wait"}) =>
         \E t \in Threads : pc[t] \in {"towait", "wait"}
  BY <1>2
<1> QED
  BY <1>2, <1>3 DEF ReturnInv, ReportedUpIsReturn, SuccessIsReturn

\* Every step of a binder thread preserves them.
LEMMA BinderReturn ==
  ASSUME TypeOK, SwitchInv, ReturnInv, WorkerLife, NEW t \in Threads, Call(t) \/ Binder(t)
  PROVE  ReturnInv'
<1>1. /\ pc \in [Threads -> Control]
      /\ result \in [Threads -> BOOLEAN]
      /\ want \in [Threads -> Targets \cup {"none"}]
      /\ Setter \in Threads
      /\ "worker" \notin Threads /\ "none" \notin Threads
  BY ConstantsAssumption DEF TypeOK
<1>2. /\ \A u \in Threads : Switching(u) => mRoleSwitchLock = u
      /\ \A u \in Threads : pc[u] # "report" => ~result[u]
      /\ pc[t] = "readback" => want[t] \in Roles
  BY DEF SwitchInv, RoleLockHeld, ResultOfSwitch
<1>3. UNCHANGED uevents => AddQueued' = AddQueued
  BY DEF AddQueued
<1>4. CASE RegisterCallback \/ ClearCallback \/ KillWorker \/ JoinWorker
  BY <1>1, <1>3, <1>4, ReturnUntouched DEF RegisterCallback, ClearCallback, KillWorker,
     JoinWorker
<1>5. CASE LockRoleSwitch(t) \/ TimedOut(t)
  BY <1>3, <1>5, ReturnUntouched DEF LockRoleSwitch, TimedOut
<1> USE DEF ReturnInv, ReportedUpIsReturn, SuccessIsReturn, Switching
<1>14. CASE WriteModeFails(t)
  BY <1>1, <1>2, <1>3, <1>14 DEF WriteModeFails
<1>6. CASE SwitchRole(t)
  BY <1>1, <1>3, <1>6 DEF SwitchRole
<1>7. CASE WriteMode(t)
  <2>1. AddQueued' => AddQueued
    <3>1. CASE UNCHANGED uevents
      BY <1>3, <3>1
    <3>2. CASE Room /\ Uevent("remove")
      BY <1>7, <3>2, QueueAppend DEF WriteMode, Event
    <3> QED
      BY <1>7, <3>1, <3>2 DEF WriteMode, WritePortType
  <2>2. stale' = (worker = "signal" \/ AddQueued)
    BY <1>7 DEF WriteMode, AwaitReturn, AddQueued
  <2>3. /\ pc[t] = "locked" /\ Goto(t, "towait")
        /\ mPartnerUp' = FALSE /\ UNCHANGED <<worker, want, result>>
    BY <1>7 DEF WriteMode
  <2>4. \A u \in Threads : pc'[u] # "report"
    BY <1>1, <1>2, <2>3
  <2> QED
    BY <1>1, <2>1, <2>2, <2>3, <2>4
<1>8. CASE BeginWait(t)
  BY <1>1, <1>3, <1>8 DEF BeginWait
<1>9. CASE WakeUp(t)
  <2>1. \A u \in Threads \ {t} : ~Switching(u)
    BY <1>2, <1>9 DEF WakeUp
  <2> QED
    BY <1>1, <1>2, <1>3, <1>9, <2>1 DEF WakeUp
<1>10. CASE SwitchToDrp(t)
  <2>1. \A u \in Threads : ~result[u]
    BY <1>2, <1>10 DEF SwitchToDrp
  <2> QED
    BY <1>1, <1>2, <1>3, <1>10, <2>1 DEF SwitchToDrp
<1>11. CASE WriteRole(t)
  <2>1. AddQueued' => AddQueued
    <3>1. CASE UNCHANGED uevents
      BY <1>3, <3>1
    <3>2. CASE Room /\ Uevent("change")
      BY <1>11, <3>2, QueueAppend DEF WriteRole, Event
    <3> QED
      BY <1>11, <3>1, <3>2 DEF WriteRole
  <2> QED
    BY <1>11, <2>1, ReturnUntouched DEF WriteRole
<1>12. CASE ReadBack(t)
  BY <1>1, <1>2, <1>3, <1>12 DEF ReadBack
<1>13. CASE Report(t)
  <2>1. \A u \in Threads \ {t} : ~Switching(u)
    BY <1>2, <1>13 DEF Report
  <2> QED
    BY <1>1, <1>2, <1>3, <1>13, <2>1 DEF Report
<1> QED
  BY <1>4, <1>5, <1>6, <1>7, <1>8, <1>9, <1>10, <1>11, <1>12, <1>13, <1>14
     DEF Call, Binder

\* Every step of the worker preserves them: it reports a partner up for an "add".
LEMMA WorkerReturn ==
  ASSUME TypeOK, ReturnInv, Worker \/ EpollFails
  PROVE  ReturnInv'
<1>1. UNCHANGED uevents => AddQueued' = AddQueued
  BY DEF AddQueued
<1>2. CASE Receive
  <2>1. /\ AddQueued' => AddQueued
        /\ worker' = "signal" => AddQueued
    BY <1>2, QueueTail DEF Receive, Event
  <2> QED
    BY <1>2, <2>1, ReturnUntouched DEF Receive, WorkerVars
<1>3. CASE TestDestroy \/ EpollFails
  <2>1. AddQueued' => AddQueued
    BY <1>1, <1>3 DEF TestDestroy, EpollFails, AddQueued
  <2> QED
    BY <1>3, <2>1, ReturnUntouched DEF TestDestroy, EpollFails, WorkerVars
<1>4. CASE SignalPartner
  BY <1>1, <1>4 DEF SignalPartner, WorkerVars, ReturnInv, ReportedUpIsReturn, SuccessIsReturn
<1>5. CASE OpenSocket \/ EnterEpoll \/ BeginNotify \/ EndNotify \/ TryRestoreDrp \/ RestoreDrp
           \/ SigHandler
  BY <1>1, <1>5, ReturnUntouched DEF OpenSocket, EnterEpoll, BeginNotify, EndNotify,
     TryRestoreDrp, RestoreDrp, SigHandler, WorkerVars
<1> QED
  BY <1>2, <1>3, <1>4, <1>5 DEF Worker

\* Every step of the environment preserves them: an "add" during a switch is a
\* return.
LEMMA EnvironmentReturn ==
  ASSUME TypeOK, ReturnInv, Environment
  PROVE  ReturnInv'
<1>1. CASE Attach
  BY <1>1 DEF Attach, PortVars, ReturnInv, ReportedUpIsReturn, SuccessIsReturn
<1>2. CASE Detach \/ PartnerSwapsRole \/ OtherUevent
  <2>1. AddQueued' => AddQueued
    BY <1>2, QueueAppend DEF Detach, PartnerSwapsRole, OtherUevent, Event
  <2> QED
    BY <1>2, <2>1, ReturnUntouched DEF Detach, PartnerSwapsRole, OtherUevent, PortVars
<1> QED
  BY <1>1, <1>2 DEF Environment

\* They hold in every reachable state.
THEOREM ReturnInvariant == Spec => []ReturnInv
<1>1. Init => ReturnInv
  BY DEF Init, ReturnInv, ReportedUpIsReturn, SuccessIsReturn
<1>2. TypeOK /\ SwitchInv /\ WorkerLife /\ ReturnInv /\ [Next]_vars => ReturnInv'
  <2>1. ASSUME TypeOK, ReturnInv, UNCHANGED vars PROVE ReturnInv'
    BY <2>1 DEF vars, ReturnInv, ReportedUpIsReturn, SuccessIsReturn, AddQueued
  <2> QED
    BY <2>1, BinderReturn, WorkerReturn, EnvironmentReturn DEF Next, Environment
<1> QED
  BY <1>1, <1>2, TypeCorrect, SwitchInvariant, WorkerLifeInvariant, PTL DEF Spec

\* A mode switch succeeds only when a partner has been added since the port type
\* was written, or when the "add" of the partner it replaced was still on its
\* way.
THEOREM SuccessIsReturnHolds == Spec => []SuccessIsReturn
<1>1. ReturnInv => SuccessIsReturn
  BY DEF ReturnInv
<1> QED
  BY <1>1, ReturnInvariant, PTL

-----------------------------------------------------------------------------
(***************************************************************************)
(* The return to dual role.  Every uevent of the port makes the worker     *)
(* look at the port once, and what it cannot do then it does not do later: *)
(* so either the port is in dual role, or a uevent or a switch that will   *)
(* look is under way, or the chance was missed (skipped).                  *)
(***************************************************************************)

\* A step after which the partner, port_type and the history are the same, and
\* whoever was going to look at the port still is.
LEMMA DualUntouched ==
  ASSUME TypeOK, DualOrPending,
         UNCHANGED <<partner, portType, skipped, mPartnerUp>>,
         ToHandle => ToHandle',
         pc' = pc \/ \E t \in Threads, l \in Control :
                        ~WillRestore(t) /\ Goto(t, l)
  PROVE  DualOrPending'
<1>1. pc \in [Threads -> Control]
  BY DEF TypeOK
<1>2. \A t \in Threads : WillRestore(t) => pc'[t] = pc[t]
  BY <1>1
<1>3. \A t \in Threads : WillRestore(t) => WillRestore(t)'
  BY <1>2 DEF WillRestore
<1> QED
  BY <1>3 DEF DualOrPending

\* Every step of a binder thread preserves it.
LEMMA BinderDual ==
  ASSUME TypeOK, SwitchInv, WorkerLife, DualOrPending, NEW t \in Threads,
         Call(t) \/ Binder(t)
  PROVE  DualOrPending'
<1>1. /\ pc \in [Threads -> Control]
      /\ Setter \in Threads
  BY ConstantsAssumption DEF TypeOK
<1>2. UNCHANGED <<uevents, worker>> => (ToHandle' <=> ToHandle)
  BY DEF ToHandle, TypecQueued
<1>3. CASE RegisterCallback
  <2>1. worker \in Dead
    BY <1>3 DEF RegisterCallback, WorkerLife
  <2>2. ToHandle => ToHandle'
    BY <1>3, <2>1 DEF RegisterCallback, ToHandle, TypecQueued, Dead
  <2> QED
    BY <1>3, <2>2, DualUntouched DEF RegisterCallback
<1>4. CASE ClearCallback \/ KillWorker \/ JoinWorker
  <2>1. ~WillRestore(Setter)
    BY <1>4 DEF ClearCallback, KillWorker, JoinWorker, WillRestore
  <2> QED
    BY <1>1, <1>2, <1>4, <2>1, DualUntouched DEF ClearCallback, KillWorker, JoinWorker
<1>5. CASE SwitchRole(t) \/ LockRoleSwitch(t) \/ ReadBack(t) \/ Report(t)
  <2>1. ~WillRestore(t)
    BY <1>5 DEF SwitchRole, LockRoleSwitch, ReadBack, Report, WillRestore
  <2> QED
    BY <1>2, <1>5, <2>1, DualUntouched DEF SwitchRole, LockRoleSwitch, ReadBack, Report
<1>6. CASE WriteMode(t)
  <2>1. mPartnerUp' = FALSE /\ pc'[t] = "towait"
    BY <1>1, <1>6 DEF WriteMode
  <2> QED
    BY <2>1 DEF DualOrPending, WillRestore
<1>7. CASE BeginWait(t)
  <2>1. ~mPartnerUp /\ UNCHANGED mPartnerUp /\ pc'[t] = "wait"
    BY <1>1, <1>7 DEF BeginWait, SwitchInv, PartnerLockHeld
  <2> QED
    BY <2>1 DEF DualOrPending, WillRestore
<1>8. CASE WakeUp(t)
  <2>1. CASE mPartnerUp
    <3>1. ~WillRestore(t)
      BY <1>8, <2>1 DEF WakeUp, WillRestore
    <3> QED
      BY <1>2, <1>8, <2>1, <3>1, DualUntouched DEF WakeUp
  <2>2. CASE ~mPartnerUp
    BY <1>2, <1>8, <2>2, DualUntouched DEF WakeUp
  <2> QED
    BY <2>1, <2>2
<1>9. CASE TimedOut(t) \/ WriteModeFails(t)
  <2>1. pc'[t] = "drp"
    BY <1>1, <1>9 DEF TimedOut, WriteModeFails
  <2> QED
    BY <2>1 DEF DualOrPending, WillRestore
<1>10. CASE SwitchToDrp(t)
  BY <1>10 DEF SwitchToDrp, WriteDual, Forced, DualOrPending
<1>11. CASE WriteRole(t)
  <2>1. TypecQueued => TypecQueued'
    <3>1. CASE UNCHANGED uevents
      BY <3>1 DEF TypecQueued
    <3>2. CASE Room /\ Uevent("change")
      BY <1>11, <3>2, QueueAppend DEF WriteRole, Event
    <3> QED
      BY <1>11, <3>1, <3>2 DEF WriteRole
  <2>2. ToHandle => ToHandle'
    BY <1>11, <2>1 DEF WriteRole, ToHandle
  <2>3. ~WillRestore(t)
    BY <1>11 DEF WriteRole, WillRestore
  <2> QED
    BY <1>11, <2>2, <2>3, DualUntouched DEF WriteRole
<1> QED
  BY <1>3, <1>4, <1>5, <1>6, <1>7, <1>8, <1>9, <1>10, <1>11 DEF Call, Binder

\* Every step of the worker preserves it: a received port change is looked at.
LEMMA WorkerDual ==
  ASSUME TypeOK, DualOrPending, Worker \/ EpollFails
  PROVE  DualOrPending'
<1>1. CASE OpenSocket \/ EnterEpoll \/ BeginNotify \/ EndNotify \/ SigHandler
  <2>1. ToHandle => ToHandle'
    BY <1>1 DEF OpenSocket, EnterEpoll, BeginNotify, EndNotify, SigHandler, ToHandle,
       TypecQueued
  <2> QED
    BY <1>1, <2>1, DualUntouched DEF OpenSocket, EnterEpoll, BeginNotify, EndNotify,
       SigHandler, WorkerVars
<1>2. CASE TestDestroy
  <2>1. CASE uevents = <<>>
    <3>1. ~TypecQueued
      BY <2>1 DEF TypecQueued
    <3>2. ~ToHandle
      BY <1>2, <3>1 DEF TestDestroy, ToHandle
    <3>3. UNCHANGED <<skipped>>
      BY <1>2, <2>1 DEF TestDestroy, TypeOK
    <3> QED
      BY <1>2, <3>2, <3>3, DualUntouched DEF TestDestroy, WorkerVars
  <2>2. CASE uevents # <<>> /\ destroyThread
    BY <1>2, <2>2 DEF TestDestroy, WorkerVars, Forced, DualOrPending
  <2>3. CASE ~destroyThread
    <3>1. ToHandle => ToHandle'
      BY <1>2, <2>3 DEF TestDestroy, ToHandle, TypecQueued
    <3> QED
      BY <1>2, <2>3, <3>1, DualUntouched DEF TestDestroy, WorkerVars
  <2> QED
    BY <2>1, <2>2, <2>3
<1>3. CASE Receive
  <2>1. Head(uevents) \in Event /\ (TypecQueued /\ Head(uevents) = "other" => TypecQueued')
    BY <1>3, QueueTail DEF Receive
  <2>2. ToHandle => ToHandle'
    BY <1>3, <2>1 DEF Receive, ToHandle, Event
  <2> QED
    BY <1>3, <2>2, DualUntouched DEF Receive, WorkerVars
<1>4. CASE SignalPartner
  BY <1>4 DEF SignalPartner, DualOrPending, ToHandle
<1>5. CASE TryRestoreDrp
  BY <1>5 DEF TryRestoreDrp, Forced, DualOrPending, ToHandle
<1>6. CASE RestoreDrp
  BY <1>6 DEF RestoreDrp, WriteDual, Forced, DualOrPending
<1>7. CASE EpollFails
  <2>1. CASE uevents = <<>>
    <3>1. ~TypecQueued
      BY <2>1 DEF TypecQueued
    <3>2. ~ToHandle
      BY <1>7, <3>1 DEF EpollFails, ToHandle
    <3>3. UNCHANGED <<skipped>>
      BY <1>7, <2>1 DEF EpollFails, TypeOK
    <3> QED
      BY <1>7, <3>2, <3>3, DualUntouched DEF EpollFails, WorkerVars
  <2>2. CASE uevents # <<>>
    BY <1>7, <2>2 DEF EpollFails, WorkerVars, Forced, DualOrPending
  <2> QED
    BY <2>1, <2>2
<1> QED
  BY <1>1, <1>2, <1>3, <1>4, <1>5, <1>6, <1>7 DEF Worker

\* Every step of the environment preserves it: a disconnect is queued, or nobody
\* listens and it is skipped.
LEMMA EnvironmentDual ==
  ASSUME TypeOK, DualOrPending, Environment
  PROVE  DualOrPending'
<1>1. CASE Attach
  BY <1>1 DEF Attach, DualOrPending
<1>2. CASE Detach
  <2>1. skipped' \/ Listening \/ portType' = "dual"
    BY <1>2 DEF Detach, Disconnected, Forced
  <2>2. Listening => TypecQueued'
    BY <1>2, QueueAppend DEF Detach, Event
  <2> QED
    BY <2>1, <2>2 DEF DualOrPending, ToHandle
<1>3. CASE PartnerSwapsRole \/ OtherUevent
  <2>1. TypecQueued => TypecQueued'
    BY <1>3, QueueAppend DEF PartnerSwapsRole, OtherUevent, Event
  <2>2. ToHandle => ToHandle'
    BY <1>3, <2>1 DEF PartnerSwapsRole, OtherUevent, PortVars, ToHandle
  <2> QED
    BY <1>3, <2>2, DualUntouched DEF PartnerSwapsRole, OtherUevent, PortVars
<1> QED
  BY <1>1, <1>2, <1>3 DEF Environment

\* It holds in every reachable state.
THEOREM DualInvariant == Spec => []DualOrPending
<1>1. Init => DualOrPending
  BY DEF Init, DualOrPending
<1>2. TypeOK /\ SwitchInv /\ WorkerLife /\ DualOrPending /\ [Next]_vars => DualOrPending'
  <2>1. ASSUME DualOrPending, UNCHANGED vars PROVE DualOrPending'
    BY <2>1 DEF vars, DualOrPending, ToHandle, TypecQueued, WillRestore
  <2> QED
    BY <2>1, BinderDual, WorkerDual, EnvironmentDual DEF Next, Environment
<1> QED
  BY <1>1, <1>2, TypeCorrect, SwitchInvariant, WorkerLifeInvariant, PTL DEF Spec

\* When the worker waits with nothing to read and no switch is under way, a port
\* without a partner is in dual role unless the chance was skipped.
THEOREM DisconnectedIsDualHolds == Spec => []DisconnectedIsDual
<1>1. SwitchInv /\ DualOrPending => DisconnectedIsDual
  <2> SUFFICES ASSUME SwitchInv, DualOrPending, worker = "epoll", uevents = <<>>,
                      mRoleSwitchLock = "none", ~partner, ~skipped
               PROVE  portType = "dual"
    BY DEF DisconnectedIsDual
  <2>1. ~ToHandle
    BY DEF ToHandle, TypecQueued
  <2>2. \A t \in Threads : ~WillRestore(t)
    BY ConstantsAssumption DEF SwitchInv, RoleLockHeld, Switching, WillRestore
  <2> QED
    BY <2>1, <2>2 DEF DualOrPending
<1> QED
  BY <1>1, SwitchInvariant, DualInvariant, PTL

-----------------------------------------------------------------------------
(***************************************************************************)
(* Nobody waits for ever: the part of SwitchReturns and                    *)
(* ClearCallbackReturns that is safety.  SwitchInv says which lock a       *)
(* thread has; here is where the owner of a lock can be.  That a new       *)
(* worker does not inherit a lock from the last one takes WorkerLife.      *)
(***************************************************************************)

\* mLock is held over the delivery of a status only, mRoleSwitchLock inside a
\* switch and while dual role is restored, mPartnerLock up to the wait.
MLockOwner       == mLock # "none" => mLock = "worker" /\ worker = "deliver"
RoleLockOwner    == /\ mRoleSwitchLock = "worker" => worker = "drpWrite"
                    /\ \A t \in Threads : mRoleSwitchLock = t => Switching(t)
PartnerLockOwner == \A t \in Threads : mPartnerLock = t => pc[t] = "towait"

\* A worker that is joined has the signal coming, or the flag it sets.
ToldToEnd == pc[Setter] = "join" => worker \in Dead \/ sigPending \/ destroyThread

\* The inductive invariant.
WaitInv == MLockOwner /\ RoleLockOwner /\ PartnerLockOwner /\ ToldToEnd

\* Every step of a binder thread preserves it.
LEMMA BinderWait ==
  ASSUME TypeOK, SwitchInv, WorkerLife, WaitInv, NEW t \in Threads, Call(t) \/ Binder(t)
  PROVE  WaitInv'
<1>1. /\ pc \in [Threads -> Control]
      /\ "worker" \notin Threads /\ "none" \notin Threads
      /\ Setter \in Threads
  BY ConstantsAssumption DEF TypeOK
<1>2. MLockOwner /\ RoleLockOwner /\ PartnerLockOwner /\ ToldToEnd
  BY DEF WaitInv
<1>3. \A u \in Threads : Switching(u) => mRoleSwitchLock = u
  BY DEF SwitchInv, RoleLockHeld
<1> USE DEF WaitInv, MLockOwner, RoleLockOwner, PartnerLockOwner, ToldToEnd, Switching
<1>4. CASE RegisterCallback
  <2>1. /\ pc[Setter] = "idle" /\ mLock = "none" /\ ~mCallback
        /\ UNCHANGED <<locks, pc>>
    BY <1>4 DEF RegisterCallback
  <2>2. worker \in Dead
    BY <2>1 DEF WorkerLife
  <2>3. mRoleSwitchLock # "worker"
    BY <1>2, <2>2 DEF Dead
  <2> QED
    BY <1>1, <1>2, <2>1, <2>3
<1>5. CASE ClearCallback
  BY <1>1, <1>2, <1>5 DEF ClearCallback
<1>6. CASE KillWorker
  <2>1. /\ UNCHANGED <<locks, worker>> /\ pc[Setter] = "kill"
        /\ \/ Goto(Setter, "join") /\ sigPending'
           \/ Goto(Setter, "idle")
    BY <1>6 DEF KillWorker
  <2> QED
    BY <1>1, <1>2, <2>1
<1>7. CASE JoinWorker
  BY <1>1, <1>2, <1>7 DEF JoinWorker
<1>8. CASE SwitchRole(t) \/ LockRoleSwitch(t)
  BY <1>1, <1>2, <1>8 DEF SwitchRole, LockRoleSwitch
<1>9. ASSUME UNCHANGED <<mLock, mRoleSwitchLock, worker, sigPending, destroyThread>>,
             mPartnerLock' = mPartnerLock \/ mPartnerLock' = "none",
             pc[t] # "towait" \/ mPartnerLock' = "none",
             pc' = pc \/ \E l \in {"towait", "wait", "readback", "drp", "report"} : Goto(t, l)
      PROVE  WaitInv'
  BY <1>1, <1>2, <1>9
<1>10. CASE WriteMode(t)
  <2>1. /\ UNCHANGED <<mLock, mRoleSwitchLock, worker, sigPending, destroyThread>>
        /\ mPartnerLock' = t /\ Goto(t, "towait")
    BY <1>10 DEF WriteMode
  <2> QED
    BY <1>1, <1>2, <2>1
<1>11. CASE WriteModeFails(t) \/ BeginWait(t) \/ TimedOut(t) \/ SwitchToDrp(t)
  BY <1>9, <1>11 DEF WriteModeFails, BeginWait, TimedOut, SwitchToDrp
<1>12. CASE WakeUp(t) \/ WriteRole(t) \/ ReadBack(t)
  BY <1>9, <1>12 DEF WakeUp, WriteRole, ReadBack
<1>13. CASE Report(t)
  <2>1. /\ UNCHANGED <<mLock, mPartnerLock, worker, sigPending, destroyThread>>
        /\ mRoleSwitchLock' = "none" /\ pc[t] = "report" /\ Goto(t, "idle")
    BY <1>13 DEF Report
  <2>2. worker # "drpWrite"
    BY <1>1, <1>3, <2>1 DEF SwitchInv, RoleLockHeld
  <2> QED
    BY <1>1, <1>2, <2>1, <2>2
<1> QED
  BY <1>4, <1>5, <1>6, <1>7, <1>8, <1>10, <1>11, <1>12, <1>13 DEF Call, Binder

\* Every step of the worker preserves it: the end of a callback's delivery and
\* of the way back to dual role releases what it had taken.
LEMMA WorkerWait ==
  ASSUME TypeOK, WaitInv, Worker \/ EpollFails
  PROVE  WaitInv'
<1>1. "worker" \notin Threads /\ "none" \notin Threads
  BY ConstantsAssumption
<1>2. MLockOwner /\ RoleLockOwner /\ PartnerLockOwner /\ ToldToEnd
  BY DEF WaitInv
<1>3. UNCHANGED <<pc, mPartnerLock>>
  BY DEF Worker, OpenSocket, TestDestroy, EnterEpoll, EpollFails, Receive, SignalPartner,
     BeginNotify, EndNotify, TryRestoreDrp, RestoreDrp, SigHandler, WorkerVars
<1> USE DEF WaitInv, MLockOwner, RoleLockOwner, PartnerLockOwner, ToldToEnd, Switching, Dead
<1>4. ASSUME UNCHANGED <<mLock, mRoleSwitchLock, sigPending, destroyThread>>,
             worker \notin Dead \cup {"deliver", "drpWrite"}
      PROVE  WaitInv'
  BY <1>2, <1>3, <1>4
<1>5. CASE OpenSocket
  BY <1>1, <1>2, <1>3, <1>5 DEF OpenSocket, WorkerVars
<1>6. CASE TestDestroy \/ EnterEpoll \/ Receive \/ SignalPartner
  BY <1>4, <1>6 DEF TestDestroy, EnterEpoll, Receive, SignalPartner, WorkerVars
<1>7. CASE BeginNotify \/ EndNotify
  BY <1>1, <1>2, <1>3, <1>7 DEF BeginNotify, EndNotify, WorkerVars
<1>8. CASE TryRestoreDrp
  BY <1>1, <1>2, <1>3, <1>8 DEF TryRestoreDrp
<1>9. CASE RestoreDrp
  BY <1>1, <1>2, <1>3, <1>9 DEF RestoreDrp
<1>10. CASE SigHandler
  BY <1>1, <1>2, <1>3, <1>10 DEF SigHandler, WorkerVars
<1>11. CASE EpollFails
  BY <1>1, <1>2, <1>3, <1>11 DEF EpollFails, WorkerVars
<1> QED
  BY <1>5, <1>6, <1>7, <1>8, <1>9, <1>10, <1>11 DEF Worker

\* The invariant holds in every reachable state.
THEOREM WaitInvariant == Spec => []WaitInv
<1>1. Init => WaitInv
  BY ConstantsAssumption
     DEF Init, WaitInv, MLockOwner, RoleLockOwner, PartnerLockOwner, ToldToEnd, Switching
<1>2. TypeOK /\ SwitchInv /\ WorkerLife /\ WaitInv /\ [Next]_vars => WaitInv'
  <2>1. ASSUME WaitInv, Environment \/ UNCHANGED vars
        PROVE  WaitInv'
    <3>1. UNCHANGED <<locks, pc, worker, sigPending, destroyThread>>
      BY <2>1 DEF Environment, Attach, Detach, PartnerSwapsRole, OtherUevent, PortVars, vars
    <3> QED
      BY <2>1, <3>1 DEF WaitInv, MLockOwner, RoleLockOwner, PartnerLockOwner, ToldToEnd,
         Switching
  <2> QED
    BY <2>1, BinderWait, WorkerWait DEF Next, Environment
<1> QED
  BY <1>1, <1>2, TypeCorrect, SwitchInvariant, WorkerLifeInvariant, PTL DEF Spec

\* For every number of threads: no switch, no worker and no thread that clears
\* the callback waits for one that waits for it, no mutex is left locked by a
\* thread that has returned, and a joined worker has been told to end.
THEOREM NoCircularWaitHolds == Spec => []NoCircularWait
<1>1. TypeOK /\ SwitchInv /\ WaitInv => NoCircularWait
  <2> SUFFICES ASSUME TypeOK, SwitchInv, WaitInv PROVE NoCircularWait
    OBVIOUS
  <2>1. /\ mLock \in Threads \cup {"worker", "none"}
        /\ mRoleSwitchLock \in Threads \cup {"worker", "none"}
        /\ mPartnerLock \in Threads \cup {"none"}
        /\ "worker" \notin Threads /\ "none" \notin Threads
    BY ConstantsAssumption DEF TypeOK
  <2>2. MLockOwner /\ RoleLockOwner /\ PartnerLockOwner /\ ToldToEnd
    BY DEF WaitInv
  <2>3. \A t \in Threads : Switching(t) => mRoleSwitchLock = t
    BY DEF SwitchInv, RoleLockHeld
  <2>4. WaitsFor("none") = "none"
    BY <2>1 DEF WaitsFor
  <2>5. WaitsFor(mPartnerLock) = "none"
    <3>1. CASE mPartnerLock = "none"
      BY <2>4, <3>1
    <3>2. CASE mPartnerLock \in Threads
      <4>1. pc[mPartnerLock] = "towait"
        BY <2>2, <3>2 DEF PartnerLockOwner
      <4> QED
        BY <2>1, <3>2, <4>1 DEF WaitsFor
    <3> QED
      BY <2>1, <3>1, <3>2
  <2>6. WaitsFor("worker") \in {mPartnerLock, "none"}
    BY <2>2 DEF WaitsFor, MLockOwner
  <2>7. WaitsFor(mLock) = "none"
    BY <2>2, <2>4 DEF WaitsFor, MLockOwner
  <2>8. \A t \in Threads : pc[t] \in {"locked", "wait"} => mPartnerLock = "none"
    <3> SUFFICES ASSUME NEW t \in Threads, pc[t] \in {"locked", "wait"},
                        mPartnerLock \in Threads
                 PROVE  FALSE
      BY <2>1
    <3>1. pc[mPartnerLock] = "towait"
      BY <2>2 DEF PartnerLockOwner
    <3>2. mRoleSwitchLock = t /\ mRoleSwitchLock = mPartnerLock
      BY <2>3, <3>1 DEF Switching
    <3> QED
      BY <3>1, <3>2
  <2>9. \A t \in Threads : pc[t] # "lock" => WaitsFor(t) \in {mLock, "worker", "none"}
    BY <2>1, <2>8 DEF WaitsFor
  <2>10. WaitsFor(WaitsFor(mRoleSwitchLock)) = "none"
    <3>1. CASE mRoleSwitchLock = "none"
      BY <2>4, <3>1
    <3>2. CASE mRoleSwitchLock = "worker"
      <4>1. WaitsFor("worker") = "none"
        BY <2>2, <3>2 DEF RoleLockOwner, WaitsFor
      <4> QED
        BY <2>4, <3>2, <4>1
    <3>3. CASE mRoleSwitchLock \in Threads
      <4>1. Switching(mRoleSwitchLock)
        BY <2>2, <3>3 DEF RoleLockOwner
      <4>2. WaitsFor(mRoleSwitchLock) \in {mLock, "none"}
        BY <2>1, <2>8, <3>3, <4>1 DEF Switching, WaitsFor
      <4> QED
        BY <2>4, <2>7, <4>2
    <3> QED
      BY <2>1, <3>1, <3>2, <3>3
  <2>11. \A a \in Threads \cup {"worker"} : WaitsFor(WaitsFor(WaitsFor(a))) = "none"
    <3>1. WaitsFor(WaitsFor("worker")) = "none"
      BY <2>4, <2>5, <2>6
    <3>2. ASSUME NEW t \in Threads, pc[t] = "lock"
          PROVE  WaitsFor(t) = mRoleSwitchLock
      BY <2>1, <3>2 DEF WaitsFor
    <3> QED
      BY <2>4, <2>7, <2>9, <2>10, <3>1, <3>2
  <2>12. \A t \in Threads : t \in {mLock, mRoleSwitchLock, mPartnerLock} =>
                            pc[t] \notin {"idle", "lock", "kill", "join"}
    BY <2>1, <2>2 DEF MLockOwner, RoleLockOwner, PartnerLockOwner, Switching
  <2>13. /\ "worker" \in {mLock, mRoleSwitchLock} => worker \in {"deliver", "drpWrite"}
         /\ pc[Setter] = "join" /\ worker \notin Dead => sigPending \/ destroyThread
    BY <2>2 DEF MLockOwner, RoleLockOwner, ToldToEnd
  <2> QED
    BY <2>11, <2>12, <2>13 DEF NoCircularWait
<1> QED
  BY <1>1, TypeCorrect, SwitchInvariant, WaitInvariant, PTL
=============================================================================
