-------------------------- MODULE UsbGadgetProofs --------------------------
(***************************************************************************)
(* Proofs about UsbGadget for every set of threads, requests, daemons and  *)
(* faults: type correctness, that the gadget stays down during the         *)
(* disconnect window of a request, that every request is answered once and *)
(* truthfully, that what the host sees is what was configured, that        *)
(* UsbGadget implements GadgetContract, that nobody waits in a circle, and *)
(* that the monitor misses no endpoint.                                    *)
(***************************************************************************)
EXTENDS UsbGadget, TLAPS

-----------------------------------------------------------------------------
(***************************************************************************)
(* What the configuration operators return.                                *)
(***************************************************************************)

\* An optional link is a sequence of at most one element.
LEMMA LinkIfType ==
  ASSUME NEW S, NEW x \in S, NEW c
  PROVE  LinkIf(c, x) \in Seq(S)
BY DEF LinkIf

\* getVendorFunctions returns "user" or a list of debug functions.
LEMMA VendorType ==
  ASSUME NEW p \in Props
  PROVE  getVendorFunctions(p) \in VendorConfig
<1>1. p.persist \in Seq(Token) /\ p.vendor \in Seq(Token)
  BY DEF Props
<1>2. <<"diag">> \in Seq(Token)
  BY DEF Token
<1> QED
  BY <1>1, <1>2 DEF getVendorFunctions, VendorConfig

\* Publishing the vendor functions leaves properties of the right type.
LEMMA PropsAfterType ==
  ASSUME NEW p \in Props
  PROVE  PropsAfter(p) \in Props
<1>1. p.persist \in Seq(Token) /\ p.vendor \in Seq(Token)
  BY DEF Props
<1>2. <<"diag">> \in Seq(Token)
  BY DEF Token
<1>3. ~p.build => getVendorFunctions(p) \in Seq(Token)
  BY <1>1, <1>2 DEF getVendorFunctions
<1> QED
  BY <1>3 DEF PropsAfter, Props

\* The debug functions of a vendor configuration are linked one by one.
LEMMA VendorLinksType ==
  ASSUME NEW v \in VendorConfig
  PROVE  VendorLinks(v) \in Seq(Link)
<1>1. CASE v = <<"user">>
  BY <1>1 DEF VendorLinks
<1>2. CASE v # <<"user">>
  <2>1. v \in Seq(Token)
    BY <1>2 DEF VendorConfig
  <2>2. \A x \in Token : VendorLink(x) \in Link
    BY DEF Token, VendorLink, Link
  <2>3. DOMAIN v = 1..Len(v) /\ Len(v) \in Nat /\ \A i \in 1..Len(v) : v[i] \in Token
    BY <2>1
  <2>4. VendorLinks(v) \in [1..Len(v) -> Link]
    BY <1>2, <2>2, <2>3 DEF VendorLinks
  <2> QED
    BY <2>3, <2>4
<1> QED
  BY <1>1, <1>2

\* The links of a request are links.
LEMMA LinkOrderType ==
  ASSUME NEW f, NEW v \in VendorConfig
  PROVE  LinkOrder(f, v) \in Seq(Link)
<1>1. \A s, t \in Seq(Link) : s \o t \in Seq(Link)
  OBVIOUS
<1>2. VendorLinks(v) \in Seq(Link)
  BY VendorLinksType
<1>3. \A c : /\ LinkIf(c, "ffs.mtp") \in Seq(Link)
             /\ LinkIf(c, "ffs.ptp") \in Seq(Link)
             /\ LinkIf(c, "midi.gs5") \in Seq(Link)
             /\ LinkIf(c, "accessory.gs2") \in Seq(Link)
             /\ LinkIf(c, "audio_source.gs3") \in Seq(Link)
             /\ LinkIf(c, "gsi.rndis") \in Seq(Link)
             /\ LinkIf(c, "ffs.adb") \in Seq(Link)
  BY LinkIfType DEF Link, FfsLink
<1> QED
  BY <1>1, <1>2, <1>3 DEF LinkOrder

\* The endpoint list holds functionfs instances.
LEMMA EndpointOrderType ==
  ASSUME NEW f
  PROVE  EndpointOrder(f) \in Seq(FfsLink)
<1>1. \A s, t \in Seq(FfsLink) : s \o t \in Seq(FfsLink)
  OBVIOUS
<1>2. \A c : /\ LinkIf(c, "ffs.mtp") \in Seq(FfsLink)
             /\ LinkIf(c, "ffs.ptp") \in Seq(FfsLink)
             /\ LinkIf(c, "ffs.adb") \in Seq(FfsLink)
  BY LinkIfType DEF FfsLink
<1> QED
  BY <1>1, <1>2 DEF EndpointOrder

\* The names in a sequence are its elements; a prefix is a sequence too.
LEMMA NamesType ==
  ASSUME NEW S, NEW s \in Seq(S)
  PROVE  /\ Names(s) \subseteq S
         /\ \A k \in 0..Len(s) : SubSeq(s, 1, k) \in Seq(S)
BY DEF Names

\* An accepted request is given a pair of ids.
LEMMA VidPidType ==
  ASSUME NEW f, NEW v, Supported(f, v)
  PROVE  VidPid(f, v) \in Vid \X Pid
<1>1. VidPids(f, v) \subseteq Vid \X Pid
  BY DEF VidPids, Vid, Pid
<1>2. VidPid(f, v) \in VidPids(f, v)
  BY DEF VidPid, Supported
<1> QED
  BY <1>1, <1>2

-----------------------------------------------------------------------------
(***************************************************************************)
(* Type correctness                                                        *)
(***************************************************************************)

USE DEF kernel, inotify, fields, locks, Goto, Status, Control

\* What the end of the teardown assigns has the right types.
LEMMA CleanupType ==
  ASSUME TypeOK, NEW t \in Threads, Cleanup(t)
  PROVE  /\ watch' \subseteq FfsLink
         /\ events' \in 0..MaxEvents
         /\ eventFd' \in BOOLEAN
         /\ mEndpointList' \in Seq(FfsLink)
         /\ pulled' \subseteq Link
         /\ pc' \in [Threads -> Control]
<1>1. 0 \in 0..MaxEvents
  BY ConstantsAssumption
<1>2. <<>> \in Seq(FfsLink)
  OBVIOUS
<1>3. /\ watch' \subseteq FfsLink
      /\ events' \in 0..MaxEvents
      /\ eventFd' \in BOOLEAN
      /\ pulled' \subseteq Link
  BY <1>1 DEF Cleanup
<1>4. mEndpointList' \in Seq(FfsLink)
  BY <1>2 DEF Cleanup
<1>5. pc' \in [Threads -> Control]
  BY DEF Cleanup, TypeOK
<1> QED
  BY <1>3, <1>4, <1>5

\* The type invariant in three parts, which an action preserves one by one: the
\* flags, what belongs to a binder thread, and the rest.
FlagTypes == /\ bound \in BOOLEAN /\ osDesc \in BOOLEAN /\ eventFd \in BOOLEAN
             /\ mMonitorCreated \in BOOLEAN /\ mCurrentUsbFunctionsApplied \in BOOLEAN
             /\ gadgetPullup \in BOOLEAN

ThreadTypes == /\ pc \in [Threads -> Control]
               /\ req \in [Threads -> [functions : Requests \cup {{}}, callback : BOOLEAN]]
               /\ status \in [Threads -> Status]
               /\ replies \in [Threads -> Seq(Status)]

OtherTypes == /\ links \subseteq Link /\ pulled \subseteq Link
              /\ ids \in Vid \X (Pid \cup {"none"})
              /\ ready \subseteq FfsLink /\ watch \subseteq FfsLink
              /\ events \in 0..MaxEvents
              /\ props \in Props
              /\ mLock \in Threads \cup {NoThread}
              /\ mLockSetCurrentFunction \in Threads \cup {NoThread}
              /\ mEndpointList \in Seq(FfsLink)
              /\ mCurrentUsbFunctions \in Requests \cup {{}}
              /\ mon \in MonState

\* The three parts are the type invariant.
LEMMA TypeParts ==
  /\ TypeOK <=> FlagTypes /\ ThreadTypes /\ OtherTypes
  /\ TypeOK' <=> FlagTypes' /\ ThreadTypes' /\ OtherTypes'
BY DEF TypeOK, FlagTypes, ThreadTypes, OtherTypes

\* Every step of a binder thread preserves the types.
LEMMA BinderType ==
  ASSUME TypeOK, NEW t \in Threads, Call(t) \/ Binder(t) \/ Reset(t)
  PROVE  TypeOK'
<1> USE ConstantsAssumption
<1>0. FlagTypes /\ ThreadTypes /\ OtherTypes
  BY TypeParts
<1>1. CASE Call(t)
  <2>1. FlagTypes'
    BY <1>0, <1>1 DEF Call, FlagTypes
  <2>2. ThreadTypes'
    BY <1>0, <1>1 DEF Call, ThreadTypes
  <2>3. OtherTypes'
    BY <1>0, <1>1 DEF Call, OtherTypes
  <2> QED
    BY <2>1, <2>2, <2>3, TypeParts
<1>2. CASE Lock(t)
  <2>1. req[t].functions \in Requests \cup {{}}
    BY <1>0 DEF ThreadTypes
  <2>2. FlagTypes'
    BY <1>0, <1>2, <2>1 DEF Lock, FlagTypes
  <2>3. ThreadTypes'
    BY <1>0, <1>2, <2>1 DEF Lock, ThreadTypes
  <2>4. OtherTypes'
    BY <1>0, <1>2, <2>1 DEF Lock, OtherTypes
  <2> QED
    BY <2>2, <2>3, <2>4, TypeParts
<1>3. CASE ClearApplied(t)
  <2>1. FlagTypes'
    BY <1>0, <1>3 DEF ClearApplied, FlagTypes
  <2>2. ThreadTypes'
    BY <1>0, <1>3 DEF ClearApplied, ThreadTypes
  <2>3. OtherTypes'
    BY <1>0, <1>3 DEF ClearApplied, OtherTypes
  <2> QED
    BY <2>1, <2>2, <2>3, TypeParts
<1>4. CASE PullDown(t)
  <2>1. FlagTypes'
    BY <1>0, <1>4 DEF PullDown, FlagTypes
  <2>2. ThreadTypes'
    BY <1>0, <1>4 DEF PullDown, ThreadTypes
  <2>3. OtherTypes'
    BY <1>0, <1>4 DEF PullDown, OtherTypes
  <2> QED
    BY <2>1, <2>2, <2>3, TypeParts
<1>5. CASE ClearAttributes(t)
  <2>1. FlagTypes'
    BY <1>0, <1>5 DEF ClearAttributes, Fail, FlagTypes
  <2>2. ThreadTypes'
    BY <1>0, <1>5 DEF ClearAttributes, Fail, ThreadTypes
  <2>3. OtherTypes'
    BY <1>0, <1>5 DEF ClearAttributes, Fail, OtherTypes
  <2> QED
    BY <2>1, <2>2, <2>3, TypeParts
<1>6. CASE Unlink(t)
  <2>1. FlagTypes'
    BY <1>0, <1>6 DEF Unlink, Fail, FlagTypes
  <2>2. ThreadTypes'
    BY <1>0, <1>6 DEF Unlink, Fail, ThreadTypes
  <2>3. OtherTypes'
    BY <1>0, <1>6 DEF Unlink, Fail, OtherTypes
  <2> QED
    BY <2>1, <2>2, <2>3, TypeParts
<1>7. CASE StopMonitor(t)
  <2>1. CASE mMonitorCreated
    <3>1. FlagTypes'
      BY <1>0, <1>7, <2>1 DEF StopMonitor, FlagTypes
    <3>2. ThreadTypes'
      BY <1>0, <1>7, <2>1 DEF StopMonitor, ThreadTypes
    <3>3. OtherTypes'
      BY <1>0, <1>7, <2>1 DEF StopMonitor, OtherTypes
    <3> QED
      BY <3>1, <3>2, <3>3, TypeParts
  <2>2. CASE ~mMonitorCreated
    <3>1. FlagTypes'
      BY <1>0, <1>7, <2>2, CleanupType DEF StopMonitor, FlagTypes
    <3>2. ThreadTypes'
      BY <1>0, <1>7, <2>2, CleanupType DEF StopMonitor, ThreadTypes
    <3>3. OtherTypes'
      BY <1>0, <1>7, <2>2, CleanupType DEF StopMonitor, OtherTypes
    <3> QED
      BY <3>1, <3>2, <3>3, TypeParts
  <2> QED
    BY <2>1, <2>2
<1>8. CASE Join(t)
  <2>1. mon' \in MonState
    BY <1>0, <1>8 DEF Join, OtherTypes, MonState, MonControl
  <2>2. FlagTypes'
    BY <1>0, <1>8, CleanupType, <2>1 DEF Join, FlagTypes
  <2>3. ThreadTypes'
    BY <1>0, <1>8, CleanupType, <2>1 DEF Join, ThreadTypes
  <2>4. OtherTypes'
    BY <1>0, <1>8, CleanupType, <2>1 DEF Join, OtherTypes
  <2> QED
    BY <2>2, <2>3, <2>4, TypeParts
<1>9. CASE FinishNone(t)
  <2>1. FlagTypes'
    BY <1>0, <1>9 DEF FinishNone, Return, Callback, FlagTypes
  <2>2. ThreadTypes'
    BY <1>0, <1>9 DEF FinishNone, Return, Callback, ThreadTypes
  <2>3. OtherTypes'
    BY <1>0, <1>9 DEF FinishNone, Return, Callback, OtherTypes
  <2> QED
    BY <2>1, <2>2, <2>3, TypeParts
<1>10. CASE ValidateAndSetVidPid(t)
  <2> DEFINE f == req[t].functions
             v == getVendorFunctions(props)
  <2>1. props' \in Props
    BY <1>0, <1>10, PropsAfterType DEF ValidateAndSetVidPid, OtherTypes
  <2>2. Supported(f, v) => VidPid(f, v) \in Vid \X Pid
    BY VidPidType
  <2>3. ids' \in Vid \X (Pid \cup {"none"})
    BY <1>0, <1>10, <2>2 DEF ValidateAndSetVidPid, OtherTypes
  <2>4. FlagTypes'
    BY <1>0, <1>10, <2>1, <2>2, <2>3 DEF ValidateAndSetVidPid, Fail, FlagTypes
  <2>5. ThreadTypes'
    BY <1>0, <1>10, <2>1, <2>2, <2>3 DEF ValidateAndSetVidPid, Fail, ThreadTypes
  <2>6. OtherTypes'
    BY <1>0, <1>10, <2>1, <2>2, <2>3 DEF ValidateAndSetVidPid, Fail, OtherTypes
  <2> QED
    BY <2>4, <2>5, <2>6, TypeParts
<1>11. CASE SetupFunctions(t)
  <2> DEFINE order == LinkOrder(req[t].functions, getVendorFunctions(props))
             ffs   == EndpointOrder(req[t].functions)
  <2>1. props' \in Props
    BY <1>0, <1>11, PropsAfterType DEF SetupFunctions, OtherTypes
  <2>2. order \in Seq(Link)
    BY <1>0, VendorType, LinkOrderType DEF OtherTypes
  <2>3. ffs \in Seq(FfsLink)
    BY EndpointOrderType
  <2> HIDE DEF order, ffs
  <2>4. /\ Names(order) \subseteq Link
        /\ \A k \in 0..Len(order) : Names(SubSeq(order, 1, k)) \subseteq Link
    BY <2>2, NamesType
  <2>5. /\ Names(ffs) \subseteq FfsLink
        /\ \A k \in 0..Len(ffs) : SubSeq(ffs, 1, k) \in Seq(FfsLink)
    BY <2>3, NamesType
  <2>6. CASE /\ links' = Names(order)
             /\ osDesc' = (osDesc \/ ffs # <<>>)
             /\ mEndpointList' = ffs
             /\ watch' = Names(ffs)
             /\ mLock' = t
             /\ Goto(t, IF ffs = <<>> THEN "pullnow" ELSE "spawn")
             /\ UNCHANGED status
    <3>1. FlagTypes'
      BY <1>0, <1>11, <2>1, <2>3, <2>4, <2>5, <2>6 DEF SetupFunctions, FlagTypes
    <3>2. ThreadTypes'
      BY <1>0, <1>11, <2>1, <2>3, <2>4, <2>5, <2>6 DEF SetupFunctions, ThreadTypes
    <3>3. OtherTypes'
      BY <1>0, <1>11, <2>1, <2>3, <2>4, <2>5, <2>6 DEF SetupFunctions, OtherTypes
    <3> QED
      BY <3>1, <3>2, <3>3, TypeParts
  <2>7. ASSUME NEW k \in 0..Len(order), NEW j \in 0..Len(ffs),
               links' = Names(SubSeq(order, 1, k)),
               mEndpointList' = SubSeq(ffs, 1, j),
               osDesc' = TRUE \/ osDesc' = osDesc,
               Fail(t, "ERROR"),
               UNCHANGED <<watch, mLock>>
        PROVE  TypeOK'
    <3>1. osDesc' \in BOOLEAN
      BY <1>0, <2>7 DEF FlagTypes
    <3>2. links' \subseteq Link /\ mEndpointList' \in Seq(FfsLink)
      BY <2>4, <2>5, <2>7
    <3>3. FlagTypes'
      BY <1>0, <1>11, <2>1, <2>7, <3>1, <3>2 DEF SetupFunctions, Fail, FlagTypes
    <3>4. ThreadTypes'
      BY <1>0, <1>11, <2>1, <2>7, <3>1, <3>2 DEF SetupFunctions, Fail, ThreadTypes
    <3>5. OtherTypes'
      BY <1>0, <1>11, <2>1, <2>7, <3>1, <3>2 DEF SetupFunctions, Fail, OtherTypes
    <3> QED
      BY <3>3, <3>4, <3>5, TypeParts
  <2> QED
    BY <1>11, <2>6, <2>7 DEF SetupFunctions, order, ffs
<1>12. CASE PullUpNow(t)
  <2>1. FlagTypes'
    BY <1>0, <1>12 DEF PullUpNow, Fail, PullUp, PullUpFails, FlagTypes
  <2>2. ThreadTypes'
    BY <1>0, <1>12 DEF PullUpNow, Fail, PullUp, PullUpFails, ThreadTypes
  <2>3. OtherTypes'
    BY <1>0, <1>12 DEF PullUpNow, Fail, PullUp, PullUpFails, OtherTypes
  <2> QED
    BY <2>1, <2>2, <2>3, TypeParts
<1>13. CASE SpawnMonitor(t)
  <2>1. mon' \in MonState
    BY <1>13 DEF SpawnMonitor, MonState, MonControl
  <2>2. FlagTypes'
    BY <1>0, <1>13, <2>1 DEF SpawnMonitor, Return, FlagTypes
  <2>3. ThreadTypes'
    BY <1>0, <1>13, <2>1 DEF SpawnMonitor, Return, ThreadTypes
  <2>4. OtherTypes'
    BY <1>0, <1>13, <2>1 DEF SpawnMonitor, Return, OtherTypes
  <2> QED
    BY <2>2, <2>3, <2>4, TypeParts
<1>14. CASE WaitReturns(t)
  <2>1. FlagTypes'
    BY <1>0, <1>14 DEF WaitReturns, FlagTypes
  <2>2. ThreadTypes'
    BY <1>0, <1>14 DEF WaitReturns, ThreadTypes
  <2>3. OtherTypes'
    BY <1>0, <1>14 DEF WaitReturns, OtherTypes
  <2> QED
    BY <2>1, <2>2, <2>3, TypeParts
<1>15. CASE Reply(t)
  <2>1. FlagTypes'
    BY <1>0, <1>15 DEF Reply, Return, Callback, FlagTypes
  <2>2. ThreadTypes'
    BY <1>0, <1>15 DEF Reply, Return, Callback, ThreadTypes
  <2>3. OtherTypes'
    BY <1>0, <1>15 DEF Reply, Return, Callback, OtherTypes
  <2> QED
    BY <2>1, <2>2, <2>3, TypeParts
<1>16. CASE ReplyError(t)
  <2>1. FlagTypes'
    BY <1>0, <1>16 DEF ReplyError, Return, Callback, FlagTypes
  <2>2. ThreadTypes'
    BY <1>0, <1>16 DEF ReplyError, Return, Callback, ThreadTypes
  <2>3. OtherTypes'
    BY <1>0, <1>16 DEF ReplyError, Return, Callback, OtherTypes
  <2> QED
    BY <2>1, <2>2, <2>3, TypeParts
<1>17. CASE Reset(t)
  <2>1. FlagTypes'
    BY <1>0, <1>17 DEF Reset, FlagTypes
  <2>2. ThreadTypes'
    BY <1>0, <1>17 DEF Reset, ThreadTypes
  <2>3. OtherTypes'
    BY <1>0, <1>17 DEF Reset, OtherTypes
  <2> QED
    BY <2>1, <2>2, <2>3, TypeParts
<1> QED
  BY <1>1, <1>2, <1>3, <1>4, <1>5, <1>6, <1>7, <1>8, <1>9, <1>10, <1>11, <1>12, <1>13, <1>14,
     <1>15, <1>16, <1>17 DEF Binder

\* A monitor that has handled an event looks again or waits for the next.
LEMMA NextEventType ==
  ASSUME mon \in MonState
  PROVE  NextEvent \in MonState /\ NextEvent.pc \in {"scan", "epoll"}
<1>1. CASE mon.batch > 1
  <2>1. mon.batch - 1 \in 0..MaxEvents
    BY <1>1, ConstantsAssumption DEF MonState
  <2> QED
    BY <1>1, <2>1 DEF NextEvent, MonState, MonControl
<1>2. CASE ~(mon.batch > 1)
  <2>1. 0 \in 0..MaxEvents
    BY ConstantsAssumption
  <2> QED
    BY <1>2, <2>1 DEF NextEvent, MonState, MonControl
<1> QED
  BY <1>1, <1>2

\* Every step of the monitor preserves the types.
LEMMA MonitorType ==
  ASSUME TypeOK, Monitor
  PROVE  TypeOK'
<1> USE ConstantsAssumption
<1> USE DEF MonVars
<1>0. FlagTypes /\ ThreadTypes /\ OtherTypes /\ mon \in MonState
  BY TypeParts DEF OtherTypes
<1>6. NextEvent \in MonState
  BY <1>0, NextEventType
<1>1. CASE MonScan
  <2>1. mon' \in MonState
    <3>1. CASE ScanFound
      <4>1. mon.i \in Nat
        BY <1>0 DEF MonState
      <4>2. mon.i + 1 \in Nat
        BY <4>1
      <4> QED
        BY <1>0, <3>1, <4>2 DEF ScanFound, MonState
    <3>2. CASE ScanAbsent
      BY <1>0, <1>6, <3>2 DEF ScanAbsent, MonState
    <3>3. CASE ScanComplete
      <4>1. [mon EXCEPT !.pc = "pullup0"] \in MonState /\ [mon EXCEPT !.pc = "pullup"] \in MonState
        BY <1>0 DEF MonState, MonControl
      <4>2. mon.writeUdc \in BOOLEAN
        BY <1>0 DEF MonState
      <4> QED
        BY <1>0, <1>6, <3>3, <4>1, <4>2 DEF ScanComplete
    <3> QED
      BY <1>1, <3>1, <3>2, <3>3 DEF MonScan
  <2>2. FlagTypes'
    BY <1>0, <1>1, <2>1 DEF MonScan, FlagTypes
  <2>3. ThreadTypes'
    BY <1>0, <1>1, <2>1 DEF MonScan, ThreadTypes
  <2>4. OtherTypes'
    BY <1>0, <1>1, <2>1 DEF MonScan, OtherTypes
  <2> QED
    BY <2>2, <2>3, <2>4, TypeParts
<1>2. CASE MonPullUp
  <2>1. mon' \in MonState
    BY <1>0, <1>2, <1>6 DEF MonPullUp, MonState, MonControl
  <2>2. FlagTypes'
    BY <1>0, <1>2, <2>1 DEF MonPullUp, PullUp, PullUpFails, FlagTypes
  <2>3. ThreadTypes'
    BY <1>0, <1>2, <2>1 DEF MonPullUp, PullUp, PullUpFails, ThreadTypes
  <2>4. OtherTypes'
    BY <1>0, <1>2, <2>1 DEF MonPullUp, PullUp, PullUpFails, OtherTypes
  <2> QED
    BY <2>2, <2>3, <2>4, TypeParts
<1>3. CASE MonSet
  <2>1. mon' \in MonState
    BY <1>0, <1>3, <1>6 DEF MonSet, MonState
  <2>2. FlagTypes'
    BY <1>0, <1>3, <2>1 DEF MonSet, FlagTypes
  <2>3. ThreadTypes'
    BY <1>0, <1>3, <2>1 DEF MonSet, ThreadTypes
  <2>4. OtherTypes'
    BY <1>0, <1>3, <2>1 DEF MonSet, OtherTypes
  <2> QED
    BY <2>2, <2>3, <2>4, TypeParts
<1>4. CASE MonRead
  <2>1. mon' \in MonState
    BY <1>0, <1>4 DEF MonRead, MonState, MonControl, OtherTypes
  <2>2. events' \in 0..MaxEvents
    BY <1>4 DEF MonRead
  <2>3. FlagTypes'
    BY <1>0, <1>4, <2>1, <2>2 DEF MonRead, FlagTypes
  <2>4. ThreadTypes'
    BY <1>0, <1>4, <2>1, <2>2 DEF MonRead, ThreadTypes
  <2>5. OtherTypes'
    BY <1>0, <1>4, <2>1, <2>2 DEF MonRead, OtherTypes
  <2> QED
    BY <2>3, <2>4, <2>5, TypeParts
<1>5. CASE MonStop
  <2>1. mon' \in MonState
    BY <1>0, <1>5 DEF MonStop, MonState, MonControl
  <2>2. FlagTypes'
    BY <1>0, <1>5, <2>1 DEF MonStop, FlagTypes
  <2>3. ThreadTypes'
    BY <1>0, <1>5, <2>1 DEF MonStop, ThreadTypes
  <2>4. OtherTypes'
    BY <1>0, <1>5, <2>1 DEF MonStop, OtherTypes
  <2> QED
    BY <2>2, <2>3, <2>4, TypeParts
<1> QED
  BY <1>1, <1>2, <1>3, <1>4, <1>5 DEF Monitor

\* Every step of the environment preserves the types.
LEMMA EnvironmentType ==
  ASSUME TypeOK, Environment
  PROVE  TypeOK'
<1> USE ConstantsAssumption
<1> USE DEF EnvVars
<1>0. FlagTypes /\ ThreadTypes /\ OtherTypes
  BY TypeParts
<1>1. ASSUME NEW f \in Daemons, EndpointsUp(f)
      PROVE  TypeOK'
  <2>1. FlagTypes'
    BY <1>0, <1>1 DEF EndpointsUp, Notify, FlagTypes
  <2>2. ThreadTypes'
    BY <1>0, <1>1 DEF EndpointsUp, Notify, ThreadTypes
  <2>3. OtherTypes'
    BY <1>0, <1>1 DEF EndpointsUp, Notify, OtherTypes
  <2> QED
    BY <2>1, <2>2, <2>3, TypeParts
<1>2. ASSUME NEW f \in Daemons, EndpointsDown(f)
      PROVE  TypeOK'
  <2>1. FlagTypes'
    BY <1>0, <1>2 DEF EndpointsDown, Notify, FlagTypes
  <2>2. ThreadTypes'
    BY <1>0, <1>2 DEF EndpointsDown, Notify, ThreadTypes
  <2>3. OtherTypes'
    BY <1>0, <1>2 DEF EndpointsDown, Notify, OtherTypes
  <2> QED
    BY <2>1, <2>2, <2>3, TypeParts
<1>3. ASSUME NEW f \in Daemons, Touch(f)
      PROVE  TypeOK'
  <2>1. FlagTypes'
    BY <1>0, <1>3 DEF Touch, Notify, FlagTypes
  <2>2. ThreadTypes'
    BY <1>0, <1>3 DEF Touch, Notify, ThreadTypes
  <2>3. OtherTypes'
    BY <1>0, <1>3 DEF Touch, Notify, OtherTypes
  <2> QED
    BY <2>1, <2>2, <2>3, TypeParts
<1>4. CASE SetVendorConfig
  <2>1. props' \in Props
    <3>1. PICK v \in Seq(Token) : props' = [props EXCEPT !.vendor = v]
      BY <1>4 DEF SetVendorConfig
    <3>2. props \in Props
      BY <1>0 DEF OtherTypes
    <3> QED
      BY <3>1, <3>2 DEF Props
  <2>2. FlagTypes'
    BY <1>0, <1>4, <2>1 DEF SetVendorConfig, FlagTypes
  <2>3. ThreadTypes'
    BY <1>0, <1>4, <2>1 DEF SetVendorConfig, ThreadTypes
  <2>4. OtherTypes'
    BY <1>0, <1>4, <2>1 DEF SetVendorConfig, OtherTypes
  <2> QED
    BY <2>2, <2>3, <2>4, TypeParts
<1> QED
  BY <1>1, <1>2, <1>3, <1>4 DEF Environment

\* The initial states are type correct.
LEMMA InitType ==
  ASSUME Init
  PROVE  TypeOK
<1>1. ids \in Vid \X (Pid \cup {"none"})
  BY DEF Init, Vid
<1>2. mon \in MonState
  BY ConstantsAssumption DEF Init, MonState, MonControl
<1>3. events \in 0..MaxEvents
  BY ConstantsAssumption DEF Init
<1>4. /\ pc \in [Threads -> Control]
      /\ req \in [Threads -> [functions : Requests \cup {{}}, callback : BOOLEAN]]
      /\ status \in [Threads -> Status]
      /\ replies \in [Threads -> Seq(Status)]
  BY DEF Init
<1>5. mEndpointList \in Seq(FfsLink)
  <2>1. <<>> \in Seq(FfsLink)
    OBVIOUS
  <2> QED
    BY <2>1 DEF Init
<1> QED
  BY <1>1, <1>2, <1>3, <1>4, <1>5, ConstantsAssumption DEF Init, TypeOK

\* A stuttering step preserves the types.
LEMMA TypeStutter ==
  ASSUME TypeOK, UNCHANGED vars
  PROVE  TypeOK'
BY DEF TypeOK, vars

\* Every reachable state is type correct, whatever the framework, the daemons
\* and the faults do.
THEOREM TypeCorrect == Spec => []TypeOK
<1>1. Init => TypeOK
  BY InitType
<1>2. TypeOK /\ [Next]_vars => TypeOK'
  <2>1. ASSUME TypeOK, Next PROVE TypeOK'
    BY <2>1, BinderType, MonitorType, EnvironmentType DEF Next
  <2>2. ASSUME TypeOK, UNCHANGED vars PROVE TypeOK'
    BY <2>2, TypeStutter
  <2> QED
    BY <2>1, <2>2
<1> QED
  BY <1>1, <1>2, PTL DEF Spec

-----------------------------------------------------------------------------
(***************************************************************************)
(* The disconnect window.  The monitor pulls the gadget up without a lock, *)
(* so what keeps it from doing so while a request tears the gadget down is *)
(* not mutual exclusion: it is that the links are gone before the monitor  *)
(* is stopped, that a gadget without links cannot be bound, and that the   *)
(* monitor is joined before links are created again.                       *)
(***************************************************************************)

\* The thread between Lock and Return holds mLockSetCurrentFunction.
LockHeld == \A t \in Threads :
              pc[t] \notin {"idle", "lock"} => mLockSetCurrentFunction = t

\* A bound gadget has a function.
BoundHasLinks == bound => links # {}

\* The links are gone when the monitor is stopped.
StoppedUnlinked == \A t \in Threads : pc[t] \in {"stop", "join"} => links = {}

\* A running monitor is known to be running.
MonitorKnown == mon.pc # "none" => mMonitorCreated

\* The inductive invariant.
GadgetInv == /\ TypeOK
             /\ LockHeld
             /\ BoundHasLinks
             /\ StoppedUnlinked
             /\ MonitorKnown
             /\ DisconnectWindow
             /\ MonitorJoined

\* Every step of a binder thread preserves the invariant.
LEMMA BinderInv ==
  ASSUME GadgetInv, NEW t \in Threads, Call(t) \/ Binder(t) \/ Reset(t)
  PROVE  GadgetInv'
<1> USE NoThreadAssumption
    DEF LockHeld, BoundHasLinks, StoppedUnlinked, MonitorKnown, DisconnectWindow,
        MonitorJoined, Window
<1>0. TypeOK'
  BY BinderType DEF GadgetInv
<1>1. /\ pc \in [Threads -> Control]
      /\ mon \in MonState
  BY DEF GadgetInv, TypeOK
<1> DEFINE I == /\ LockHeld
                /\ BoundHasLinks
                /\ StoppedUnlinked
                /\ MonitorKnown
                /\ DisconnectWindow
                /\ MonitorJoined
<1>2. I
  BY DEF GadgetInv
<1> SUFFICES I'
  BY <1>0 DEF GadgetInv
<1>3. CASE Call(t)
  BY <1>1, <1>2, <1>3 DEF Call
<1>4. CASE Lock(t)
  BY <1>1, <1>2, <1>4 DEF Lock
<1>5. CASE ClearApplied(t)
  BY <1>1, <1>2, <1>5 DEF ClearApplied
<1>6. CASE PullDown(t)
  BY <1>1, <1>2, <1>6 DEF PullDown
<1>7. CASE ClearAttributes(t)
  BY <1>1, <1>2, <1>7 DEF ClearAttributes, Fail
<1>8. CASE Unlink(t)
  BY <1>1, <1>2, <1>8 DEF Unlink, Fail
<1>9. CASE StopMonitor(t)
  BY <1>1, <1>2, <1>9 DEF StopMonitor, Cleanup
<1>10. CASE Join(t)
  BY <1>1, <1>2, <1>10 DEF Join, Cleanup, MonState
<1>11. CASE FinishNone(t)
  BY <1>1, <1>2, <1>11 DEF FinishNone, Return
<1>12. CASE ValidateAndSetVidPid(t)
  BY <1>1, <1>2, <1>12 DEF ValidateAndSetVidPid, Fail
<1>13. CASE SetupFunctions(t)
  BY <1>1, <1>2, <1>13 DEF SetupFunctions, Fail
<1>14. CASE PullUpNow(t)
  BY <1>1, <1>2, <1>14 DEF PullUpNow, Fail, PullUp, PullUpFails, CanBind
<1>15. CASE SpawnMonitor(t)
  BY <1>1, <1>2, <1>15 DEF SpawnMonitor, Return
<1>16. CASE WaitReturns(t)
  BY <1>1, <1>2, <1>16 DEF WaitReturns
<1>17. CASE Reply(t)
  BY <1>1, <1>2, <1>17 DEF Reply, Return
<1>18. CASE ReplyError(t)
  BY <1>1, <1>2, <1>18 DEF ReplyError, Return
<1>19. CASE Reset(t)
  BY <1>1, <1>2, <1>19 DEF Reset
<1> QED
  BY <1>3, <1>4, <1>5, <1>6, <1>7, <1>8, <1>9, <1>10, <1>11, <1>12, <1>13, <1>14,
     <1>15, <1>16, <1>17, <1>18, <1>19 DEF Binder

\* Every step of the monitor preserves the invariant: it runs only when it is
\* known to be running, and binds only a gadget with links.
LEMMA MonitorInv ==
  ASSUME GadgetInv, Monitor
  PROVE  GadgetInv'
<1>1. TypeOK'
  BY MonitorType DEF GadgetInv
<1>2. mon.pc # "none"
  BY DEF Monitor, MonScan, ScanFound, ScanAbsent, ScanComplete, MonPullUp, MonSet,
         MonRead, MonStop
<1>3. UNCHANGED <<links, pc, mMonitorCreated, mLockSetCurrentFunction>>
  BY DEF Monitor, MonVars, MonScan, MonPullUp, MonSet, MonRead, MonStop
<1>4. bound' => bound \/ links # {}
  BY DEF Monitor, MonScan, MonPullUp, MonSet, MonRead, MonStop, PullUp, PullUpFails,
         CanBind
<1>5. \A t \in Threads : ~Window(t)
  BY <1>2 DEF GadgetInv, MonitorJoined
<1>6. LockHeld' /\ StoppedUnlinked'
  BY <1>3 DEF GadgetInv, LockHeld, StoppedUnlinked
<1>7. BoundHasLinks'
  BY <1>3, <1>4 DEF GadgetInv, BoundHasLinks
<1>8. MonitorKnown'
  BY <1>2, <1>3 DEF GadgetInv, MonitorKnown
<1>9. DisconnectWindow' /\ MonitorJoined'
  BY <1>3, <1>5 DEF DisconnectWindow, MonitorJoined, Window
<1> QED
  BY <1>1, <1>6, <1>7, <1>8, <1>9 DEF GadgetInv

\* Every step of the environment preserves the invariant: daemons only unbind.
LEMMA EnvironmentInv ==
  ASSUME GadgetInv, Environment
  PROVE  GadgetInv'
<1>1. TypeOK'
  BY EnvironmentType DEF GadgetInv
<1>2. UNCHANGED <<links, pc, mon, mMonitorCreated, mLockSetCurrentFunction>>
  BY DEF Environment, EndpointsUp, EndpointsDown, Touch, SetVendorConfig, EnvVars
<1>3. bound' => bound
  BY DEF Environment, EndpointsUp, EndpointsDown, Touch, SetVendorConfig, EnvVars
<1> QED
  BY <1>1, <1>2, <1>3 DEF GadgetInv, LockHeld, BoundHasLinks, StoppedUnlinked,
                          MonitorKnown, DisconnectWindow, MonitorJoined, Window

\* The invariant holds in every reachable state.
THEOREM GadgetInvariant == Spec => []GadgetInv
<1>1. Init => GadgetInv
  <2>1. Init => TypeOK
    BY InitType
  <2> QED
    BY <2>1 DEF Init, GadgetInv, LockHeld, BoundHasLinks, StoppedUnlinked,
                MonitorKnown, DisconnectWindow, MonitorJoined, Window
<1>2. GadgetInv /\ [Next]_vars => GadgetInv'
  <2>1. ASSUME GadgetInv, Next PROVE GadgetInv'
    BY <2>1, BinderInv, MonitorInv, EnvironmentInv DEF Next
  <2>2. ASSUME GadgetInv, UNCHANGED vars PROVE GadgetInv'
    <3>1. TypeOK'
      BY <2>2, TypeStutter DEF GadgetInv
    <3> QED
      BY <2>2, <3>1 DEF GadgetInv, LockHeld, BoundHasLinks, StoppedUnlinked,
                        MonitorKnown, DisconnectWindow, MonitorJoined, Window, vars
  <2> QED
    BY <2>1, <2>2
<1> QED
  BY <1>1, <1>2, PTL DEF Spec

\* From the end of its teardown to its own pull-up a request leaves the gadget
\* down, for every number of binder threads and whatever fails: no monitor of
\* an earlier request pulls it up again.
THEOREM DisconnectWindowHolds == Spec => []DisconnectWindow
<1>1. GadgetInv => DisconnectWindow
  BY DEF GadgetInv
<1> QED
  BY <1>1, GadgetInvariant, PTL

\* The monitor of an earlier request is joined before a request validates,
\* links or starts a monitor of its own.
THEOREM MonitorJoinedHolds == Spec => []MonitorJoined
<1>1. GadgetInv => MonitorJoined
  BY DEF GadgetInv
<1> QED
  BY <1>1, GadgetInvariant, PTL

-----------------------------------------------------------------------------
(***************************************************************************)
(* One reply per request.                                                  *)
(***************************************************************************)

\* Adding a reply to none makes one.
LEMMA FirstReply ==
  ASSUME TypeOK, OneReply, NEW t \in Threads, NEW s \in Status,
         pc[t] # "idle", Callback(t, s)
  PROVE  /\ Len(replies'[t]) = IF req[t].callback THEN 1 ELSE 0
         /\ \A u \in Threads \ {t} : replies'[u] = replies[u]
<1>1. replies \in [Threads -> Seq(Status)] /\ Len(replies[t]) = 0
  BY DEF TypeOK, OneReply
<1>2. Len(Append(replies[t], s)) = 1
  BY <1>1
<1>3. CASE req[t].callback
  BY <1>1, <1>2, <1>3 DEF Callback
<1>4. CASE ~req[t].callback
  BY <1>1, <1>4 DEF Callback
<1> QED
  BY <1>3, <1>4

\* Every step of a binder thread preserves OneReply: the four that return add
\* the one reply, or have no callback.
LEMMA BinderReply ==
  ASSUME TypeOK, OneReply, NEW t \in Threads, Call(t) \/ Binder(t) \/ Reset(t)
  PROVE  OneReply'
<1>1. /\ pc \in [Threads -> Control]
      /\ req \in [Threads -> [functions : Requests \cup {{}}, callback : BOOLEAN]]
      /\ status[t] \in Status
      /\ replies \in [Threads -> Seq(Status)]
  BY DEF TypeOK
<1>2. CASE Call(t)
  BY <1>1, <1>2 DEF Call, OneReply
<1>11. ASSUME NEW s \in Status, Callback(t, s), pc[t] # "idle", Goto(t, "idle"), UNCHANGED req
      PROVE  OneReply'
  <2>1. /\ Len(replies'[t]) = IF req[t].callback THEN 1 ELSE 0
        /\ \A u \in Threads \ {t} : replies'[u] = replies[u]
    BY <1>11, FirstReply
  <2>2. pc'[t] = "idle" /\ \A u \in Threads \ {t} : pc'[u] = pc[u]
    BY <1>1, <1>11
  <2> QED
    BY <1>11, <2>1, <2>2 DEF OneReply
<1>3. CASE FinishNone(t)
  <2>1. Callback(t, "SUCCESS") /\ pc[t] # "idle" /\ Goto(t, "idle") /\ UNCHANGED req
    BY <1>3 DEF FinishNone, Return
  <2> QED
    BY <1>11, <2>1
<1>4. CASE Reply(t)
  <2>1. Callback(t, status[t]) /\ pc[t] # "idle" /\ Goto(t, "idle") /\ UNCHANGED req
    BY <1>4 DEF Reply, Return
  <2> QED
    BY <1>1, <1>11, <2>1
<1>5. CASE ReplyError(t)
  <2>1. Callback(t, status[t]) /\ pc[t] # "idle" /\ Goto(t, "idle") /\ UNCHANGED req
    BY <1>5 DEF ReplyError, Return
  <2> QED
    BY <1>1, <1>11, <2>1
<1>6. CASE SpawnMonitor(t)
  BY <1>1, <1>6 DEF SpawnMonitor, Return, OneReply
<1>7. ASSUME UNCHANGED <<replies, req>>,
             pc' = pc \/ (pc[t] # "idle" /\ \E l \in Control \ {"idle"} : Goto(t, l))
      PROVE  OneReply'
  BY <1>1, <1>7 DEF OneReply
<1>8. CASE \/ Lock(t) \/ ClearApplied(t) \/ PullDown(t) \/ ClearAttributes(t)
           \/ Unlink(t) \/ StopMonitor(t) \/ Join(t) \/ Reset(t)
  BY <1>7, <1>8 DEF Lock, ClearApplied, PullDown, ClearAttributes, Unlink, StopMonitor,
     Join, Reset, Cleanup, Fail
<1>9. CASE ValidateAndSetVidPid(t) \/ SetupFunctions(t)
  BY <1>7, <1>9 DEF ValidateAndSetVidPid, SetupFunctions, Fail
<1>10. CASE PullUpNow(t) \/ WaitReturns(t)
  BY <1>7, <1>10 DEF PullUpNow, WaitReturns, Fail
<1> QED
  BY <1>2, <1>3, <1>4, <1>5, <1>6, <1>8, <1>9, <1>10 DEF Binder

\* A request with a callback is answered exactly once when it returns, on every
\* path and for every number of binder threads.
THEOREM OneReplyHolds == Spec => []OneReply
<1>1. Init => OneReply
  BY DEF Init, OneReply
<1>2. TypeOK /\ OneReply /\ [Next]_vars => OneReply'
  <2>1. ASSUME Monitor \/ Environment \/ UNCHANGED vars
        PROVE  UNCHANGED <<pc, req, replies>>
    BY <2>1 DEF Monitor, MonVars, MonScan, MonPullUp, MonSet, MonRead, MonStop, Environment,
       EnvVars, EndpointsUp, EndpointsDown, Touch, SetVendorConfig, vars
  <2>2. ASSUME OneReply, UNCHANGED <<pc, req, replies>> PROVE OneReply'
    BY <2>2 DEF OneReply
  <2> QED
    BY <2>1, <2>2, BinderReply DEF Next
<1> QED
  BY <1>1, <1>2, TypeCorrect, PTL DEF Spec

-----------------------------------------------------------------------------
(***************************************************************************)
(* The contract with the host.  GadgetInv does not say that the owner of   *)
(* the request lock is inside its request, nor that nothing is linked      *)
(* before setupFunctions: the steps map to steps of the contract only with *)
(* these two.                                                              *)
(***************************************************************************)

\* The owner of the request lock is handling its request.
OwnerActive == mLockSetCurrentFunction # NoThread =>
                 pc[mLockSetCurrentFunction] \notin {"idle", "lock"}

\* Nothing is linked from the end of the teardown to setupFunctions.
Unlinked == \A t \in Threads : pc[t] \in {"sleep", "setup"} => links = {}

\* The inductive invariant of the refinement.
RefinementInv == GadgetInv /\ OwnerActive /\ Unlinked

\* Every step of a binder thread keeps the owner inside its request and creates
\* no link before setupFunctions.
LEMMA BinderRefinementInv ==
  ASSUME RefinementInv, NEW t \in Threads, Call(t) \/ Binder(t) \/ Reset(t)
  PROVE  OwnerActive' /\ Unlinked'
<1> USE NoThreadAssumption DEF OwnerActive, Unlinked
<1>1. /\ pc \in [Threads -> Control]
      /\ mLockSetCurrentFunction \in Threads \cup {NoThread}
  BY DEF RefinementInv, GadgetInv, TypeOK
<1>2. OwnerActive /\ Unlinked /\ LockHeld /\ StoppedUnlinked
  BY DEF RefinementInv, GadgetInv
<1> USE DEF LockHeld, StoppedUnlinked
<1>3. CASE Call(t) \/ Reset(t)
  BY <1>1, <1>2, <1>3 DEF Call, Reset
<1>4. CASE Lock(t) \/ ClearApplied(t) \/ PullDown(t) \/ ClearAttributes(t)
  BY <1>1, <1>2, <1>4 DEF Lock, ClearApplied, PullDown, ClearAttributes, Fail
<1>5. CASE Unlink(t)
  BY <1>1, <1>2, <1>5 DEF Unlink, Fail
<1>6. CASE StopMonitor(t) \/ Join(t)
  BY <1>1, <1>2, <1>6 DEF StopMonitor, Join, Cleanup
<1>7. CASE FinishNone(t) \/ Reply(t) \/ ReplyError(t)
  BY <1>1, <1>2, <1>7 DEF FinishNone, Reply, ReplyError, Return
<1>8. CASE ValidateAndSetVidPid(t)
  BY <1>1, <1>2, <1>8 DEF ValidateAndSetVidPid, Fail
<1>9. CASE SetupFunctions(t)
  BY <1>1, <1>2, <1>9 DEF SetupFunctions, Fail
<1>10. CASE PullUpNow(t)
  BY <1>1, <1>2, <1>10 DEF PullUpNow, Fail
<1>11. CASE SpawnMonitor(t) \/ WaitReturns(t)
  BY <1>1, <1>2, <1>11 DEF SpawnMonitor, WaitReturns, Return
<1> QED
  BY <1>3, <1>4, <1>5, <1>6, <1>7, <1>8, <1>9, <1>10, <1>11 DEF Binder

\* Neither the monitor nor the environment links, unlinks or takes a lock.
LEMMA OthersKeepRequest ==
  ASSUME Monitor \/ Environment \/ UNCHANGED vars
  PROVE  UNCHANGED <<links, pc, req, status, mLockSetCurrentFunction>>
BY DEF Monitor, MonVars, MonScan, MonPullUp, MonSet, MonRead, MonStop, Environment, EnvVars,
       EndpointsUp, EndpointsDown, Touch, SetVendorConfig, vars

\* The strengthened invariant holds in every reachable state.
THEOREM RefinementInvariant == Spec => []RefinementInv
<1>1. Init => OwnerActive /\ Unlinked
  BY DEF Init, OwnerActive, Unlinked
<1>2. RefinementInv /\ [Next]_vars => OwnerActive' /\ Unlinked'
  <2>1. ASSUME RefinementInv, Monitor \/ Environment \/ UNCHANGED vars
        PROVE  OwnerActive' /\ Unlinked'
    BY <2>1, OthersKeepRequest DEF RefinementInv, OwnerActive, Unlinked
  <2> QED
    BY <2>1, BinderRefinementInv DEF Next
<1> QED
  BY <1>1, <1>2, GadgetInvariant, PTL DEF Spec, RefinementInv

\* Every step of a binder thread is a step of the contract, or invisible to it.
LEMMA BinderContract ==
  ASSUME RefinementInv, RefinementInv', NEW t \in Threads,
         Call(t) \/ Binder(t) \/ Reset(t)
  PROVE  [Contract!Next]_Contract!vars
<1> USE NoThreadAssumption DEF Contract!Next, Contract!vars
<1>1. /\ pc \in [Threads -> Control]
      /\ mLockSetCurrentFunction \in Threads \cup {NoThread}
      /\ bound \in BOOLEAN
  BY DEF RefinementInv, GadgetInv, TypeOK
<1>2. /\ pc[t] \notin {"idle", "lock"} => mLockSetCurrentFunction = t
      /\ mLockSetCurrentFunction # NoThread =>
           pc[mLockSetCurrentFunction] \notin {"idle", "lock"}
  BY DEF RefinementInv, GadgetInv, LockHeld, OwnerActive
<1>3. CASE Call(t)
  <2>1. UNCHANGED <<bound, links, mLockSetCurrentFunction>> /\ Phase' = Phase
    BY <1>1, <1>2, <1>3 DEF Call, Phase
  <2> QED
    BY <2>1
<1>4. CASE Lock(t)
  <2>1. Phase' = "old"
    BY <1>1, <1>4 DEF Lock, Phase
  <2>2. Contract!Begin(t)
    BY <1>4, <2>1 DEF Lock, Contract!Begin
  <2> QED
    BY <2>2
<1>5. CASE ClearApplied(t)
  <2>1. Phase' = Phase
    BY <1>1, <1>2, <1>5 DEF ClearApplied, Phase
  <2> QED
    BY <1>5, <2>1 DEF ClearApplied
<1>6. CASE PullDown(t)
  <2>1. Phase' = Phase
    BY <1>1, <1>2, <1>6 DEF PullDown, Phase
  <2>2. UNCHANGED <<links, mLockSetCurrentFunction>>
    BY <1>6 DEF PullDown
  <2>3. bound' = bound \/ (bound /\ bound' = FALSE)
    BY <1>1, <1>6 DEF PullDown
  <2> QED
    BY <2>1, <2>2, <2>3 DEF Contract!PullDown
<1>7. CASE ClearAttributes(t)
  <2>1. UNCHANGED <<bound, links, mLockSetCurrentFunction>>
    BY <1>7 DEF ClearAttributes
  <2>2. Phase' = Phase \/ (Phase = "old" /\ Phase' = "end")
    BY <1>1, <1>2, <1>7 DEF ClearAttributes, Fail, Phase
  <2> QED
    BY <2>1, <2>2 DEF Contract!Abandon
<1>8. CASE Unlink(t)
  <2>1. UNCHANGED mLockSetCurrentFunction /\ Phase = "old"
    BY <1>1, <1>2, <1>8 DEF Unlink, Phase
  <2>2. CASE /\ links # {}
             /\ \E l \in links : links' = links \ {l}
             /\ bound' = FALSE
             /\ UNCHANGED <<pc, status>>
    <3>1. Phase' = "old"
      BY <2>1, <2>2 DEF Phase
    <3>2. links' \subseteq links /\ links' # links
      BY <2>2
    <3>3. Contract!Dismantle
      BY <2>1, <2>2, <3>1, <3>2 DEF Contract!Dismantle
    <3> QED
      BY <3>3
  <2>3. CASE UNCHANGED <<bound, links, status>> /\ Goto(t, "stop")
    <3>1. Phase' = "old"
      BY <1>1, <1>2, <1>8, <2>1, <2>3 DEF Phase, Unlink
    <3> QED
      BY <2>1, <2>3, <3>1
  <2>4. CASE UNCHANGED <<bound, links>> /\ Fail(t, "ERROR")
    <3>1. Phase' = "end"
      BY <1>1, <1>2, <1>8, <2>1, <2>4 DEF Phase, Unlink, Fail
    <3> QED
      BY <2>1, <2>4, <3>1 DEF Contract!Abandon
  <2> QED
    BY <1>8, <2>2, <2>3, <2>4 DEF Unlink
<1>9. CASE StopMonitor(t) \/ Join(t)
  <2>1. UNCHANGED <<bound, links, mLockSetCurrentFunction>> /\ Phase = "old"
    BY <1>1, <1>2, <1>9 DEF StopMonitor, Join, Phase
  <2>2. links = {} /\ ~bound
    BY <1>9 DEF StopMonitor, Join, RefinementInv, GadgetInv, StoppedUnlinked, BoundHasLinks
  <2>3. Phase' \in {"old", "new"}
    BY <1>1, <1>2, <1>9 DEF StopMonitor, Join, Cleanup, Phase
  <2> QED
    BY <2>1, <2>2, <2>3 DEF Contract!Disconnected
<1>10. CASE FinishNone(t) \/ Reply(t) \/ ReplyError(t)
  <2>1. UNCHANGED <<bound, links>> /\ mLockSetCurrentFunction' = NoThread
    BY <1>10 DEF FinishNone, Reply, ReplyError, Return
  <2>2. Phase \in {"new", "end"}
    BY <1>1, <1>2, <1>10 DEF FinishNone, Reply, ReplyError, Phase
  <2>3. Phase' = "none"
    BY <2>1 DEF Phase
  <2> QED
    BY <2>1, <2>2, <2>3 DEF Contract!End
<1>11. CASE ValidateAndSetVidPid(t)
  <2>1. UNCHANGED <<bound, links, mLockSetCurrentFunction>>
    BY <1>11 DEF ValidateAndSetVidPid
  <2>2. pc[t] = "sleep" /\ (Goto(t, "setup") \/ Goto(t, "error"))
    BY <1>11 DEF ValidateAndSetVidPid, Fail
  <2>3. Phase = "new" /\ Phase' \in {"new", "end"}
    BY <1>1, <1>2, <2>1, <2>2 DEF Phase
  <2> QED
    BY <2>1, <2>3 DEF Contract!Abandon
<1>12. CASE SetupFunctions(t)
  <2>1. UNCHANGED <<bound, mLockSetCurrentFunction>>
    BY <1>12 DEF SetupFunctions
  <2>2. /\ pc[t] = "setup"
        /\ Goto(t, "pullnow") \/ Goto(t, "spawn") \/ Goto(t, "error")
    BY <1>12 DEF SetupFunctions, Fail
  <2>3. Phase = "new" /\ Phase' \in {"new", "end"}
    BY <1>1, <1>2, <2>1, <2>2 DEF Phase
  <2>4. links = {} /\ ~bound
    BY <2>2 DEF RefinementInv, Unlinked, GadgetInv, DisconnectWindow, Window
  <2>5. links' \in SUBSET Link
    BY DEF RefinementInv, GadgetInv, TypeOK
  <2> QED
    BY <2>1, <2>3, <2>4, <2>5 DEF Contract!Build
<1>13. CASE PullUpNow(t)
  <2>1. UNCHANGED <<links, mLockSetCurrentFunction>> /\ pc[t] = "pullnow"
    BY <1>13 DEF PullUpNow
  <2>2. CASE PullUp /\ Goto(t, "reply")
    <3>1. Phase = "new" /\ Phase' = "new"
      BY <1>1, <1>2, <2>1, <2>2 DEF Phase
    <3> QED
      BY <2>1, <2>2, <3>1 DEF Contract!PullUp, PullUp, CanBind
  <2>3. CASE PullUpFails /\ Goto(t, "error")
    <3>1. Phase = "new" /\ Phase' = "end"
      BY <1>1, <1>2, <2>1, <2>3 DEF Phase
    <3> QED
      BY <2>1, <2>3, <3>1 DEF Contract!Abandon, PullUpFails
  <2> QED
    BY <1>13, <2>2, <2>3 DEF PullUpNow, Fail
<1>14. CASE SpawnMonitor(t)
  <2>1. UNCHANGED <<bound, links>> /\ pc[t] = "spawn" /\ Phase = "new"
    BY <1>1, <1>2, <1>14 DEF SpawnMonitor, Phase
  <2>2. CASE Goto(t, "wait") /\ UNCHANGED mLockSetCurrentFunction
    <3>1. Phase' = "new"
      BY <1>1, <1>2, <2>1, <2>2 DEF Phase
    <3> QED
      BY <2>1, <2>2, <3>1
  <2>3. CASE mLockSetCurrentFunction' = NoThread
    <3>1. Phase' = "none"
      BY <2>3 DEF Phase
    <3> QED
      BY <2>1, <2>3, <3>1 DEF Contract!End
  <2> QED
    BY <1>14, <2>2, <2>3 DEF SpawnMonitor, Return
<1>15. CASE WaitReturns(t)
  <2>1. UNCHANGED <<bound, links, mLockSetCurrentFunction>> /\ Phase' = Phase
    BY <1>1, <1>2, <1>15 DEF WaitReturns, Phase
  <2> QED
    BY <2>1
<1>16. CASE Reset(t)
  <2>1. UNCHANGED <<links, mLockSetCurrentFunction>> /\ Phase' = Phase
    BY <1>16 DEF Reset, Phase
  <2> QED
    BY <1>16, <2>1 DEF Reset, Contract!PullDown
<1> QED
  BY <1>3, <1>4, <1>5, <1>6, <1>7, <1>8, <1>9, <1>10, <1>11, <1>12, <1>13, <1>14,
     <1>15, <1>16 DEF Binder

\* A step of the monitor or the environment connects or disconnects the gadget,
\* or is invisible.
LEMMA OthersContract ==
  ASSUME TypeOK, Monitor \/ Environment \/ UNCHANGED vars
  PROVE  [Contract!Next]_Contract!vars
<1>1. UNCHANGED <<links, pc, mLockSetCurrentFunction>>
  BY OthersKeepRequest
<1>2. Phase' = Phase
  BY <1>1 DEF Phase
<1>3. \/ bound' = bound
      \/ bound /\ bound' = FALSE
      \/ ~bound /\ links # {} /\ bound' = TRUE
  BY DEF TypeOK, Monitor, MonScan, MonPullUp, MonSet, MonRead, MonStop, PullUp, PullUpFails,
         CanBind, Environment, EndpointsUp, EndpointsDown, Touch, SetVendorConfig, vars
<1> QED
  BY <1>1, <1>2, <1>3 DEF Contract!Next, Contract!vars, Contract!PullUp, Contract!PullDown

\* The HAL implements its contract with the host for every number of threads,
\* every set of requests and daemons and every combination of faults.
THEOREM HostContractHolds == Spec => HostContract
<1>1. Init => Contract!Init
  BY DEF Init, Contract!Init, Phase
<1>2. RefinementInv /\ RefinementInv' /\ [Next]_vars => [Contract!Next]_Contract!vars
  <2>1. RefinementInv => TypeOK
    BY DEF RefinementInv, GadgetInv
  <2> QED
    BY <2>1, BinderContract, OthersContract DEF Next
<1> QED
  BY <1>1, <1>2, RefinementInvariant, PTL DEF Spec, HostContract, Contract!Spec

-----------------------------------------------------------------------------
(***************************************************************************)
(* SUCCESS means pulled up.  The monitor announces its pull-up in a second *)
(* step, under mLock; in between the request may time out.  What it        *)
(* announces is nevertheless the pull-up of this request's links, because  *)
(* only the waiting request could have changed them.                       *)
(***************************************************************************)

\* The request whose links are made.
Made(t) == pc[t] \in {"pullnow", "spawn", "wait", "reply"}

\* A request's links are all there from setupFunctions on.
LinkedAsRequested ==
  \A t \in Threads : Made(t) => Names(LinkOrder(req[t].functions, <<>>)) \subseteq links

\* While a request waits, a pull-up about to be announced, or announced, was one
\* of the present links.
AnnouncedIsPulledUp ==
  \A t \in Threads :
    pc[t] = "wait" /\ (gadgetPullup \/ mon.pc \in {"set0", "set"}) => pulled = links

\* A request that will report SUCCESS has seen its links pulled up.
ReportedIsPulledUp ==
  \A t \in Threads : pc[t] = "reply" /\ status[t] = "SUCCESS" => pulled = links

\* The inductive invariant.
SuccessInv == /\ RefinementInv
              /\ LinkedAsRequested
              /\ AnnouncedIsPulledUp
              /\ ReportedIsPulledUp

\* The names in a concatenation are the names in its parts.
LEMMA NamesConcat ==
  ASSUME NEW S, NEW s \in Seq(S), NEW u \in Seq(S)
  PROVE  Names(s \o u) = Names(s) \cup Names(u)
<1>1. /\ s \o u \in Seq(S)
      /\ Len(s \o u) = Len(s) + Len(u)
      /\ Len(s) \in Nat /\ Len(u) \in Nat
  OBVIOUS
<1>2. DOMAIN s = 1..Len(s) /\ DOMAIN u = 1..Len(u) /\ DOMAIN (s \o u) = 1..(Len(s) + Len(u))
  BY <1>1
<1>3. ASSUME NEW i \in DOMAIN (s \o u)
      PROVE  (s \o u)[i] \in Names(s) \cup Names(u)
  <2>1. CASE i <= Len(s)
    BY <1>2, <2>1 DEF Names
  <2>2. CASE i > Len(s)
    <3>1. i - Len(s) \in DOMAIN u /\ (s \o u)[i] = u[i - Len(s)]
      BY <1>1, <1>2, <2>2
    <3> QED
      BY <3>1 DEF Names
  <2> QED
    BY <1>1, <1>2, <2>1, <2>2
<1>4. ASSUME NEW i \in DOMAIN s
      PROVE  s[i] \in Names(s \o u)
  BY <1>1, <1>2 DEF Names
<1>5. ASSUME NEW i \in DOMAIN u
      PROVE  u[i] \in Names(s \o u)
  <2>1. Len(s) + i \in DOMAIN (s \o u) /\ (s \o u)[Len(s) + i] = u[i]
    BY <1>1, <1>2
  <2> QED
    BY <2>1 DEF Names
<1> QED
  BY <1>3, <1>4, <1>5 DEF Names

\* A vendor configuration adds its own links and takes none away.
LEMMA VendorAddsLinks ==
  ASSUME NEW f, NEW v \in VendorConfig
  PROVE  Names(LinkOrder(f, v)) = Names(LinkOrder(f, <<>>)) \cup Names(VendorLinks(v))
<1> DEFINE a == LinkIf("MTP" \in f, "ffs.mtp")
             \o LinkIf("MTP" \notin f /\ "PTP" \in f, "ffs.ptp")
             \o LinkIf("MIDI" \in f, "midi.gs5")
             \o LinkIf("ACCESSORY" \in f, "accessory.gs2")
             \o LinkIf("AUDIO_SOURCE" \in f, "audio_source.gs3")
             \o LinkIf("RNDIS" \in f, "gsi.rndis")
           b == LinkIf("ADB" \in f, "ffs.adb")
<1>1. \A s, t \in Seq(Link) : s \o t \in Seq(Link)
  OBVIOUS
<1>2. a \in Seq(Link)
  <2>1. \A c : /\ LinkIf(c, "ffs.mtp") \in Seq(Link)
               /\ LinkIf(c, "ffs.ptp") \in Seq(Link)
               /\ LinkIf(c, "midi.gs5") \in Seq(Link)
               /\ LinkIf(c, "accessory.gs2") \in Seq(Link)
               /\ LinkIf(c, "audio_source.gs3") \in Seq(Link)
               /\ LinkIf(c, "gsi.rndis") \in Seq(Link)
    BY LinkIfType DEF Link, FfsLink
  <2> QED
    BY <1>1, <2>1
<1>3. b \in Seq(Link)
  BY LinkIfType DEF Link, FfsLink
<1>4. VendorLinks(v) \in Seq(Link) /\ VendorLinks(<<>>) \in Seq(Link)
  <2>1. <<>> \in Seq(Token)
    OBVIOUS
  <2>2. <<>> \in VendorConfig
    BY <2>1 DEF VendorConfig
  <2> QED
    BY <2>2, VendorLinksType
<1>5. \A w : LinkOrder(f, w) = (a \o VendorLinks(w)) \o b
  BY Zenon DEF LinkOrder
<1> HIDE DEF a, b
<1>6. ASSUME NEW w, VendorLinks(w) \in Seq(Link)
      PROVE  Names(LinkOrder(f, w)) = (Names(a) \cup Names(VendorLinks(w))) \cup Names(b)
  <2> DEFINE av == a \o VendorLinks(w)
  <2>1. av \in Seq(Link)
    BY <1>1, <1>2, <1>6
  <2>2. Names(av) = Names(a) \cup Names(VendorLinks(w))
    BY <1>2, <1>6, NamesConcat
  <2>3. LinkOrder(f, w) = av \o b
    BY <1>5
  <2> HIDE DEF av
  <2>4. Names(av \o b) = Names(av) \cup Names(b)
    BY <1>3, <2>1, NamesConcat
  <2> QED
    BY <2>2, <2>3, <2>4
<1>7. Names(VendorLinks(<<>>)) = {}
  BY DEF VendorLinks, Names
<1> QED
  BY <1>4, <1>6, <1>7

\* Every step of a binder thread preserves the invariant.
LEMMA BinderSuccess ==
  ASSUME SuccessInv, NEW t \in Threads, Call(t) \/ Binder(t) \/ Reset(t)
  PROVE  LinkedAsRequested' /\ AnnouncedIsPulledUp' /\ ReportedIsPulledUp'
<1>1. /\ pc \in [Threads -> Control]
      /\ mLockSetCurrentFunction \in Threads \cup {NoThread}
      /\ status \in [Threads -> Status]
      /\ req \in [Threads -> [functions : Requests \cup {{}}, callback : BOOLEAN]]
      /\ mon \in MonState
      /\ props \in Props
  BY DEF SuccessInv, RefinementInv, GadgetInv, TypeOK
<1>2. /\ LinkedAsRequested /\ AnnouncedIsPulledUp /\ ReportedIsPulledUp
      /\ LockHeld
  BY DEF SuccessInv, RefinementInv, GadgetInv
<1> USE DEF LockHeld, LinkedAsRequested, AnnouncedIsPulledUp, ReportedIsPulledUp, Made
<1>3. CASE Call(t) \/ Reset(t)
  <2>1. CASE Call(t)
    BY <1>1, <1>2, <2>1 DEF Call
  <2>2. CASE Reset(t)
    BY <1>1, <1>2, <2>2 DEF Reset
  <2> QED
    BY <1>3, <2>1, <2>2
<1>4. CASE Lock(t) \/ ClearApplied(t) \/ PullDown(t)
  <2>1. CASE Lock(t)
    BY <1>1, <1>2, <2>1 DEF Lock
  <2>2. CASE ClearApplied(t)
    BY <1>1, <1>2, <2>2 DEF ClearApplied
  <2>3. CASE PullDown(t)
    BY <1>1, <1>2, <2>3 DEF PullDown
  <2> QED
    BY <1>4, <2>1, <2>2, <2>3
<1>5. CASE ClearAttributes(t) \/ Unlink(t)
  <2>1. CASE ClearAttributes(t)
    BY <1>1, <1>2, <2>1 DEF ClearAttributes, Fail
  <2>2. CASE Unlink(t)
    BY <1>1, <1>2, <2>2 DEF Unlink, Fail
  <2> QED
    BY <1>5, <2>1, <2>2
<1>6. CASE StopMonitor(t) \/ Join(t)
  <2>1. /\ pc[t] \in {"stop", "join"}
        /\ Goto(t, "join") \/ Goto(t, "sleep")
        /\ UNCHANGED <<links, req, status, gadgetPullup, mLockSetCurrentFunction>>
    BY <1>6 DEF StopMonitor, Join, Cleanup
  <2>2. \A u \in Threads \ {t} : pc'[u] = pc[u] /\ pc[u] \in {"idle", "lock"}
    BY <1>1, <1>2, <2>1
  <2>3. \A u \in Threads : pc'[u] \notin {"pullnow", "spawn", "wait", "reply"}
    BY <1>1, <2>1, <2>2
  <2> QED
    BY <2>3
<1>7. CASE FinishNone(t) \/ Reply(t) \/ ReplyError(t)
  <2>1. CASE FinishNone(t)
    BY <1>1, <1>2, <2>1 DEF FinishNone, Return
  <2>2. CASE Reply(t)
    BY <1>1, <1>2, <2>2 DEF Reply, Return
  <2>3. CASE ReplyError(t)
    BY <1>1, <1>2, <2>3 DEF ReplyError, Return
  <2> QED
    BY <1>7, <2>1, <2>2, <2>3
<1>8. CASE ValidateAndSetVidPid(t)
  <2>1. /\ pc[t] = "sleep"
        /\ Goto(t, "setup") \/ Goto(t, "error")
        /\ UNCHANGED <<links, req, gadgetPullup, mon, pulled, mLockSetCurrentFunction>>
    BY <1>8 DEF ValidateAndSetVidPid, Fail
  <2>2. \A u \in Threads \ {t} : pc'[u] = pc[u] /\ pc[u] \in {"idle", "lock"}
    BY <1>1, <1>2, <2>1
  <2>3. \A u \in Threads : pc'[u] \notin {"pullnow", "spawn", "wait", "reply"}
    BY <1>1, <2>1, <2>2
  <2> QED
    BY <2>3
<1>9. CASE SetupFunctions(t)
  <2>1. Names(LinkOrder(req[t].functions, <<>>))
          \subseteq Names(LinkOrder(req[t].functions, getVendorFunctions(props)))
    BY <1>1, VendorType, VendorAddsLinks
  <2>2. \/ links' = Names(LinkOrder(req[t].functions, getVendorFunctions(props)))
        \/ Goto(t, "error")
    BY <1>9 DEF SetupFunctions, Fail
  <2>3. /\ pc[t] = "setup"
        /\ UNCHANGED <<req, mon, gadgetPullup, pulled, mLockSetCurrentFunction>>
        /\ Goto(t, "pullnow") \/ Goto(t, "spawn") \/ Goto(t, "error")
    BY <1>9 DEF SetupFunctions, Fail
  <2>4. \A u \in Threads \ {t} : pc'[u] = pc[u] /\ pc[u] \in {"idle", "lock"}
    BY <1>1, <1>2, <2>3
  <2> QED
    BY <1>1, <2>1, <2>2, <2>3, <2>4
<1>10. CASE PullUpNow(t)
  BY <1>1, <1>2, <1>10 DEF PullUpNow, PullUp, PullUpFails, Fail
<1>11. CASE SpawnMonitor(t)
  BY <1>1, <1>2, <1>11 DEF SpawnMonitor, Return
<1>12. CASE WaitReturns(t)
  BY <1>1, <1>2, <1>12 DEF WaitReturns
<1> QED
  BY <1>3, <1>4, <1>5, <1>6, <1>7, <1>8, <1>9, <1>10, <1>11, <1>12 DEF Binder

\* A step of the monitor pulls up the present links, and announces only that.
LEMMA MonitorSuccess ==
  ASSUME SuccessInv, Monitor
  PROVE  LinkedAsRequested' /\ AnnouncedIsPulledUp' /\ ReportedIsPulledUp'
<1> USE DEF LinkedAsRequested, AnnouncedIsPulledUp, ReportedIsPulledUp, Made
<1>1. LinkedAsRequested /\ AnnouncedIsPulledUp /\ ReportedIsPulledUp
  BY DEF SuccessInv
<1>2. UNCHANGED <<links, pc, req, status>>
  BY OthersKeepRequest
<1>3. pulled' = pulled \/ pulled' = links
  BY DEF Monitor, MonVars, MonScan, MonPullUp, MonSet, MonRead, MonStop, PullUp, PullUpFails
<1>4. mon \in MonState
  BY DEF SuccessInv, RefinementInv, GadgetInv, TypeOK
<1>5. CASE mon.pc \in {"set0", "set"}
  BY <1>1, <1>2, <1>3, <1>5
<1>6. CASE mon.pc \notin {"set0", "set"}
  <2>1. NextEvent.pc \notin {"set0", "set"}
    BY <1>4 DEF NextEvent, MonState
  <2>2. [NextEvent EXCEPT !.writeUdc = TRUE].pc = NextEvent.pc
    BY <1>4 DEF NextEvent, MonState
  <2>3. gadgetPullup' = gadgetPullup
    BY <1>6 DEF Monitor, MonVars, MonScan, MonPullUp, MonSet, MonRead, MonStop
  <2>4. CASE MonPullUp
    <3>1. pulled' = links \/ mon' = NextEvent
      BY <2>4 DEF MonPullUp, PullUp
    <3> QED
      BY <1>1, <1>2, <1>3, <2>1, <2>3, <3>1
  <2>5. CASE MonScan
    <3>1. mon'.pc \notin {"set0", "set"}
      <4>1. CASE ScanFound
        BY <1>4, <1>6, <4>1 DEF ScanFound, MonState
      <4>2. CASE ScanAbsent
        BY <2>1, <2>2, <4>2 DEF ScanAbsent
      <4>3. CASE ScanComplete
        <5>1. /\ [mon EXCEPT !.pc = "pullup0"].pc = "pullup0"
              /\ [mon EXCEPT !.pc = "pullup"].pc = "pullup"
              /\ mon.writeUdc \in BOOLEAN
          BY <1>4 DEF MonState
        <5> QED
          BY <2>1, <4>3, <5>1 DEF ScanComplete
      <4> QED
        BY <2>5, <4>1, <4>2, <4>3 DEF MonScan
    <3> QED
      BY <1>1, <1>2, <1>3, <2>3, <3>1
  <2>6. CASE MonRead \/ MonStop
    <3>1. mon'.pc \in {"scan", "exited"}
      BY <1>4, <2>6 DEF MonRead, MonStop, MonState
    <3> QED
      BY <1>1, <1>2, <1>3, <2>3, <3>1
  <2> QED
    BY <1>6, <2>4, <2>5, <2>6 DEF Monitor, MonSet
<1> QED
  BY <1>5, <1>6

\* The invariant holds in every reachable state.
THEOREM SuccessInvariant == Spec => []SuccessInv
<1> DEFINE I == LinkedAsRequested /\ AnnouncedIsPulledUp /\ ReportedIsPulledUp
<1>1. Init => I
  BY DEF Init, LinkedAsRequested, AnnouncedIsPulledUp, ReportedIsPulledUp, Made
<1>2. SuccessInv /\ [Next]_vars => I'
  <2>1. ASSUME Environment \/ UNCHANGED vars
        PROVE  UNCHANGED <<links, pc, req, status, pulled, gadgetPullup, mon>>
    BY <2>1 DEF Environment, EnvVars, EndpointsUp, EndpointsDown, Touch, SetVendorConfig, vars
  <2>2. ASSUME SuccessInv, UNCHANGED <<links, pc, req, status, pulled, gadgetPullup, mon>>
        PROVE  I'
    BY <2>2 DEF SuccessInv, LinkedAsRequested, AnnouncedIsPulledUp, ReportedIsPulledUp, Made
  <2> QED
    BY <2>1, <2>2, BinderSuccess, MonitorSuccess DEF Next
<1>3. SuccessInv <=> RefinementInv /\ I
  BY DEF SuccessInv
<1> HIDE DEF I
<1> QED
  BY <1>1, <1>2, <1>3, RefinementInvariant, PTL DEF Spec

\* SUCCESS is reported only after the gadget was pulled up, since this request's
\* teardown, with every function the request asked for, for every number of
\* threads and whatever fails.
THEOREM SuccessIsPulledUpHolds == Spec => []SuccessIsPulledUp
<1>1. SuccessInv => SuccessIsPulledUp
  BY DEF SuccessInv, SuccessIsPulledUp, LinkedAsRequested, ReportedIsPulledUp, Made
<1> QED
  BY <1>1, SuccessInvariant, PTL

-----------------------------------------------------------------------------
(***************************************************************************)
(* What the host sees between requests.  A write to an attribute, a link   *)
(* or an id that fails, or a change of the vendor property behind the      *)
(* HAL's back, leaves a configuration that is not the requested one; with  *)
(* every other fault the configuration is exactly the reported one.        *)
(***************************************************************************)

\* The faults after which the configuration may be another.
Disturbing == {"attribute", "unlink", "ids", "link", "setprop"}

\* The gadget is configured for the functions f.
Configured(f) == /\ links = Names(LinkOrder(f, getVendorFunctions(props)))
                 /\ ids \in VidPids(f, getVendorFunctions(props))
                 /\ osDesc = (EndpointOrder(f) # <<>>)

\* The request being handled is the one getCurrentUsbFunctions reports.
ReportedIsHandled ==
  \A t \in Threads : pc[t] \notin {"idle", "lock"} => mCurrentUsbFunctions = req[t].functions

\* The OS descriptors stay off from the teardown to setupFunctions.
DescriptorsOff ==
  \A t \in Threads : pc[t] \in {"unlink", "stop", "join", "sleep", "setup"} => ~osDesc

\* The ids are those of the request once it is validated.
IdsWritten ==
  \A t \in Threads :
    pc[t] = "setup" => ids \in VidPids(req[t].functions, getVendorFunctions(props))

\* From setupFunctions on the gadget is configured as requested; a request that
\* fails leaves that, or nothing.
ConfiguredInRequest ==
  \A t \in Threads :
    /\ Made(t) => Configured(req[t].functions)
    /\ pc[t] = "error" => links = {} \/ Configured(req[t].functions)

\* Between requests too.
ConfiguredBetween ==
  mLockSetCurrentFunction = NoThread => links = {} \/ Configured(mCurrentUsbFunctions)

\* The inductive invariant.
ConfigurationInv == /\ RefinementInv
                    /\ ReportedIsHandled
                    /\ DescriptorsOff
                    /\ IdsWritten
                    /\ ConfiguredInRequest
                    /\ ConfiguredBetween

\* Publishing the vendor functions does not change them: a second reading
\* agrees with the first.
LEMMA PublishedIsRead ==
  ASSUME NEW p \in Props
  PROVE  getVendorFunctions(PropsAfter(p)) = getVendorFunctions(p)
<1>1. CASE ~p.build /\ p.vendor = <<>> /\ p.radio
  <2>1. getVendorFunctions(p) = IF p.persist # <<>> THEN p.persist ELSE <<"diag">>
    BY <1>1 DEF getVendorFunctions
  <2>2. <<"diag">> # <<>>
    OBVIOUS
  <2>3. getVendorFunctions(p) # <<>>
    BY <2>1, <2>2
  <2>4. /\ PropsAfter(p).vendor = getVendorFunctions(p)
        /\ PropsAfter(p).build = p.build
    BY <1>1 DEF PropsAfter, Props
  <2> QED
    BY <1>1, <2>3, <2>4 DEF getVendorFunctions
<1>2. CASE ~(~p.build /\ p.vendor = <<>> /\ p.radio)
  BY <1>2 DEF PropsAfter
<1> QED
  BY <1>1, <1>2

\* Every step of a binder thread preserves the invariant.
LEMMA BinderConfiguration ==
  ASSUME ConfigurationInv, Faults \cap Disturbing = {},
         NEW t \in Threads, Call(t) \/ Binder(t) \/ Reset(t)
  PROVE  /\ ReportedIsHandled' /\ DescriptorsOff' /\ IdsWritten'
         /\ ConfiguredInRequest' /\ ConfiguredBetween'
<1>1. /\ pc \in [Threads -> Control]
      /\ mLockSetCurrentFunction \in Threads \cup {NoThread}
      /\ req \in [Threads -> [functions : Requests \cup {{}}, callback : BOOLEAN]]
      /\ props \in Props
      /\ osDesc \in BOOLEAN
  BY DEF ConfigurationInv, RefinementInv, GadgetInv, TypeOK
<1>2. /\ ReportedIsHandled /\ DescriptorsOff /\ IdsWritten
      /\ ConfiguredInRequest /\ ConfiguredBetween
      /\ LockHeld /\ Unlinked
  BY DEF ConfigurationInv, RefinementInv, GadgetInv
<1>3. \A x \in Disturbing : x \notin Faults
  OBVIOUS
<1> USE NoThreadAssumption
    DEF ReportedIsHandled, DescriptorsOff, IdsWritten, ConfiguredInRequest, ConfiguredBetween,
        LockHeld, Made
<1>4. CASE Call(t)
  BY <1>1, <1>2, <1>4 DEF Call, Configured
<1>5. CASE Lock(t)
  BY <1>1, <1>2, <1>5 DEF Lock, Configured
<1>6. CASE ClearApplied(t) \/ PullDown(t) \/ Reset(t)
  BY <1>1, <1>2, <1>6 DEF ClearApplied, PullDown, Reset, Configured
<1>7. CASE ClearAttributes(t)
  <2>1. osDesc' = FALSE /\ Goto(t, "unlink")
    BY <1>3, <1>7 DEF ClearAttributes, Disturbing
  <2> QED
    BY <1>1, <1>2, <1>7, <2>1 DEF ClearAttributes, Configured
<1>8. CASE Unlink(t)
  <2>1. /\ pc' = pc \/ Goto(t, "stop")
        /\ pc[t] = "unlink"
        /\ UNCHANGED <<osDesc, mCurrentUsbFunctions, mLockSetCurrentFunction, req>>
    BY <1>3, <1>8 DEF Unlink, Disturbing
  <2>2. \A u \in Threads \ {t} : pc'[u] = pc[u] /\ pc[u] \in {"idle", "lock"}
    BY <1>1, <1>2, <2>1
  <2> QED
    BY <1>1, <1>2, <2>1, <2>2
<1>9. CASE StopMonitor(t) \/ Join(t)
  BY <1>1, <1>2, <1>9 DEF StopMonitor, Join, Cleanup, Configured
<1>10. CASE FinishNone(t)
  <2>1. links = {}
    BY <1>2, <1>10 DEF FinishNone, Unlinked
  <2> QED
    BY <1>1, <1>2, <1>10, <2>1 DEF FinishNone, Return
<1>11. CASE ValidateAndSetVidPid(t)
  <2> DEFINE f == req[t].functions
             v == getVendorFunctions(props)
  <2>1. /\ pc[t] = "sleep"
        /\ UNCHANGED <<links, osDesc, mCurrentUsbFunctions, mLockSetCurrentFunction, req>>
        /\ props' = PropsAfter(props)
        /\ \/ Goto(t, "error")
           \/ Goto(t, "setup") /\ Supported(f, v) /\ ids' = VidPid(f, v)
    BY <1>3, <1>11 DEF ValidateAndSetVidPid, Fail, Disturbing
  <2>2. links = {} /\ ~osDesc
    BY <1>2, <2>1 DEF Unlinked
  <2>3. getVendorFunctions(props)' = v
    BY <1>1, <2>1, PublishedIsRead
  <2>4. Supported(f, v) => VidPid(f, v) \in VidPids(f, v)
    BY DEF Supported, VidPid
  <2>5. \A u \in Threads \ {t} : pc'[u] = pc[u] /\ pc[u] \in {"idle", "lock"}
    BY <1>1, <1>2, <2>1
  <2> HIDE DEF v
  <2> QED
    BY <1>1, <1>2, <2>1, <2>2, <2>3, <2>4, <2>5
<1>12. CASE SetupFunctions(t)
  <2> DEFINE f == req[t].functions
             v == getVendorFunctions(props)
  <2>1. /\ pc[t] = "setup"
        /\ UNCHANGED <<ids, mCurrentUsbFunctions, mLockSetCurrentFunction, req>>
        /\ props' = PropsAfter(props)
        /\ links' = Names(LinkOrder(f, v))
        /\ osDesc' = (osDesc \/ EndpointOrder(f) # <<>>)
        /\ Goto(t, "pullnow") \/ Goto(t, "spawn")
    BY <1>3, <1>12 DEF SetupFunctions, Disturbing
  <2>2. ~osDesc /\ ids \in VidPids(f, v) /\ mLockSetCurrentFunction = t
    BY <1>2, <2>1
  <2>3. getVendorFunctions(props)' = v
    BY <1>1, <2>1, PublishedIsRead
  <2>4. Configured(req[t].functions)'
    BY <2>1, <2>2, <2>3 DEF Configured
  <2>5. \A u \in Threads \ {t} : pc'[u] = pc[u] /\ pc[u] \in {"idle", "lock"}
    BY <1>1, <1>2, <2>1
  <2> HIDE DEF v
  <2> QED
    BY <1>1, <1>2, <2>1, <2>2, <2>4, <2>5
<1>13. CASE PullUpNow(t)
  BY <1>1, <1>2, <1>13 DEF PullUpNow, Fail, Configured
<1>14. CASE SpawnMonitor(t)
  BY <1>1, <1>2, <1>14 DEF SpawnMonitor, Return, Configured
<1>15. CASE WaitReturns(t)
  BY <1>1, <1>2, <1>15 DEF WaitReturns, Configured
<1>16. CASE Reply(t) \/ ReplyError(t)
  BY <1>1, <1>2, <1>16 DEF Reply, ReplyError, Return, Configured
<1> QED
  BY <1>4, <1>5, <1>6, <1>7, <1>8, <1>9, <1>10, <1>11, <1>12, <1>13, <1>14, <1>15,
     <1>16 DEF Binder

\* The invariant holds in every reachable state.
THEOREM ConfigurationInvariant ==
  ASSUME Faults \cap Disturbing = {}
  PROVE  Spec => []ConfigurationInv
<1> DEFINE I == /\ ReportedIsHandled
                /\ DescriptorsOff
                /\ IdsWritten
                /\ ConfiguredInRequest
                /\ ConfiguredBetween
<1>1. Init => I
  BY DEF Init, ReportedIsHandled, DescriptorsOff, IdsWritten, ConfiguredInRequest,
         ConfiguredBetween, Made
<1>2. ConfigurationInv /\ [Next]_vars => I'
  <2>1. ASSUME Monitor \/ Environment \/ UNCHANGED vars
        PROVE  UNCHANGED <<links, ids, osDesc, props, pc, req, mCurrentUsbFunctions,
                           mLockSetCurrentFunction>>
    <3>1. "setprop" \notin Faults
      BY DEF Disturbing
    <3> QED
      BY <2>1, <3>1 DEF Monitor, MonVars, MonScan, MonPullUp, MonSet, MonRead, MonStop,
         Environment, EnvVars, EndpointsUp, EndpointsDown, Touch, SetVendorConfig, vars
  <2>2. ASSUME I, UNCHANGED <<links, ids, osDesc, props, pc, req, mCurrentUsbFunctions,
                              mLockSetCurrentFunction>>
        PROVE  I'
    BY <2>2 DEF ReportedIsHandled, DescriptorsOff, IdsWritten, ConfiguredInRequest,
       ConfiguredBetween, Configured, Made
  <2>3. ConfigurationInv => I
    BY DEF ConfigurationInv
  <2> QED
    BY <2>1, <2>2, <2>3, BinderConfiguration DEF Next
<1>3. ConfigurationInv <=> RefinementInv /\ I
  BY DEF ConfigurationInv
<1> HIDE DEF I
<1> QED
  BY <1>1, <1>2, <1>3, RefinementInvariant, PTL DEF Spec

\* Between requests, a gadget the host can see has exactly the links, the ids
\* and the OS descriptors of the functions getCurrentUsbFunctions reports, for
\* every number of threads, whatever pull-ups and pull-downs fail, daemons die
\* and resets come, as long as no attribute, link or id write fails and the
\* vendor property is left alone.
THEOREM BoundConfigurationHolds ==
  ASSUME Faults \cap Disturbing = {}
  PROVE  Spec => []BoundConfiguration
<1>1. ConfigurationInv => BoundConfiguration
  BY DEF ConfigurationInv, RefinementInv, GadgetInv, BoundHasLinks, ConfiguredBetween,
         Configured, BoundConfiguration
<1> QED
  BY <1>1, ConfigurationInvariant, PTL

-----------------------------------------------------------------------------
(***************************************************************************)
(* Under every fault.  What a failed request leaves linked is the old      *)
(* configuration or a part of it, or the first part of the new one; ids    *)
(* are only written while nothing is linked.                               *)
(***************************************************************************)

\* A validated request has one of its ids.
OwnIds ==
  \A t \in Threads : pc[t] = "setup" => /\ req[t].functions \in Requests
                                       /\ ids \in AnyIds(req[t].functions)

\* The inductive invariant.
OneRequestInv == RefinementInv /\ OwnIds /\ IdsMatchLinks

\* AnyIds has the ids under every vendor configuration.
LEMMA AnyIdsAll ==
  ASSUME NEW f, NEW v
  PROVE  VidPids(f, v) \subseteq AnyIds(f)
<1> SUFFICES ASSUME NEW id \in VidPids(f, v) PROVE id \in AnyIds(f)
  OBVIOUS
<1> DEFINE V == {<<>>} \cup {q.v : q \in QualcommIds}
<1>1. \/ \E g \in GoogleIds : id = <<"18d1", g.pid>> /\ g.f = f
      \/ \E q \in QualcommIds : id = <<"05C6", q.pid>> /\ q.f = f /\ q.v = v
      \/ \E a \in AccessoryIds : id = <<"18d1", a.pid>> /\ a.f = f
  BY Zenon DEF VidPids
<1>2. ASSUME NEW w \in V, id \in VidPids(f, w) PROVE id \in AnyIds(f)
  BY <1>2, Zenon DEF AnyIds
<1>3. CASE \E g \in GoogleIds : id = <<"18d1", g.pid>> /\ g.f = f
  <2>1. id \in VidPids(f, <<>>)
    BY <1>3, Zenon DEF VidPids
  <2> QED
    BY <1>2, <2>1
<1>4. CASE \E q \in QualcommIds : id = <<"05C6", q.pid>> /\ q.f = f /\ q.v = v
  <2>1. v \in V
    BY <1>4, Zenon
  <2> QED
    BY <1>2, <2>1
<1>5. CASE \E a \in AccessoryIds : id = <<"18d1", a.pid>> /\ a.f = f
  <2>1. id \in VidPids(f, <<>>)
    BY <1>5, Zenon DEF VidPids
  <2> QED
    BY <1>2, <2>1
<1> QED
  BY <1>1, <1>3, <1>4, <1>5

\* AnyLinks has the links under every vendor configuration.
LEMMA AnyLinksAll ==
  ASSUME NEW f, NEW v \in VendorConfig
  PROVE  Names(LinkOrder(f, v)) \subseteq AnyLinks(f)
<1> DEFINE w == <<"diag", "serial_cdev", "rmnet_gsi">>
<1>1. w \in Seq(Token) /\ w # <<"user">> /\ DOMAIN w = 1..3
  BY DEF Token
<1>2. Names(VendorLinks(v)) \subseteq {"diag.diag", "cser.dun.0", "gsi.rmnet"}
  <2>1. CASE v = <<"user">>
    BY <2>1 DEF VendorLinks, Names
  <2>2. CASE v # <<"user">>
    <3>1. \A i \in DOMAIN v : v[i] \in Token
      BY <2>2 DEF VendorConfig
    <3>2. \A x \in Token : VendorLink(x) \in {"diag.diag", "cser.dun.0", "gsi.rmnet"}
      BY DEF Token, VendorLink
    <3> QED
      BY <2>2, <3>1, <3>2 DEF VendorLinks, Names
  <2> QED
    BY <2>1, <2>2
<1>3. {"diag.diag", "cser.dun.0", "gsi.rmnet"} \subseteq Names(VendorLinks(w))
  <2>1. VendorLinks(w) = [i \in 1..3 |-> VendorLink(w[i])]
    BY <1>1 DEF VendorLinks
  <2>2. /\ VendorLink(w[1]) = "diag.diag" /\ VendorLink(w[2]) = "cser.dun.0"
        /\ VendorLink(w[3]) = "gsi.rmnet"
    BY DEF VendorLink
  <2> HIDE DEF w
  <2> QED
    BY <2>1, <2>2 DEF Names
<1>4. w \in VendorConfig
  BY <1>1 DEF VendorConfig
<1> HIDE DEF w
<1>5. /\ Names(LinkOrder(f, v)) = Names(LinkOrder(f, <<>>)) \cup Names(VendorLinks(v))
      /\ Names(LinkOrder(f, w)) = Names(LinkOrder(f, <<>>)) \cup Names(VendorLinks(w))
  BY <1>4, VendorAddsLinks
<1>6. AnyLinks(f) = Names(LinkOrder(f, w))
  BY DEF AnyLinks, w
<1> QED
  BY <1>2, <1>3, <1>5, <1>6

\* A step of a binder thread writes ids only while nothing is linked, and links
\* only what belongs to the ids.
LEMMA BinderOneRequest ==
  ASSUME OneRequestInv, NEW t \in Threads, Call(t) \/ Binder(t) \/ Reset(t)
  PROVE  OwnIds' /\ IdsMatchLinks'
<1>1. /\ pc \in [Threads -> Control]
      /\ req \in [Threads -> [functions : Requests \cup {{}}, callback : BOOLEAN]]
      /\ props \in Props
  BY DEF OneRequestInv, RefinementInv, GadgetInv, TypeOK
<1>2. OwnIds /\ IdsMatchLinks /\ LockHeld /\ Unlinked
  BY DEF OneRequestInv, RefinementInv, GadgetInv
<1>3. CASE Call(t)
  BY <1>1, <1>2, <1>3 DEF Call, OwnIds, IdsMatchLinks
<1>4. ASSUME UNCHANGED <<ids, req>>, links' \subseteq links,
             pc' = pc \/ \E l \in Control \ {"setup"} : Goto(t, l)
      PROVE  OwnIds' /\ IdsMatchLinks'
  <2>1. OwnIds'
    BY <1>1, <1>2, <1>4 DEF OwnIds
  <2>2. IdsMatchLinks'
    BY <1>2, <1>4 DEF IdsMatchLinks
  <2> QED
    BY <2>1, <2>2
<1>5. CASE Lock(t) \/ ClearApplied(t) \/ PullDown(t) \/ ClearAttributes(t) \/ Reset(t)
  BY <1>4, <1>5 DEF Lock, ClearApplied, PullDown, ClearAttributes, Reset, Fail
<1>6. CASE Unlink(t)
  BY <1>4, <1>6 DEF Unlink, Fail
<1>7. CASE StopMonitor(t) \/ Join(t)
  BY <1>4, <1>7 DEF StopMonitor, Join, Cleanup
<1>8. CASE FinishNone(t) \/ Reply(t) \/ ReplyError(t)
  BY <1>4, <1>8 DEF FinishNone, Reply, ReplyError, Return
<1>9. CASE PullUpNow(t) \/ WaitReturns(t)
  BY <1>4, <1>9 DEF PullUpNow, WaitReturns, Fail
<1>10. CASE SpawnMonitor(t)
  BY <1>4, <1>10 DEF SpawnMonitor, Return
<1>11. CASE ValidateAndSetVidPid(t)
  <2> DEFINE f == req[t].functions
             v == getVendorFunctions(props)
  <2>1. /\ pc[t] = "sleep" /\ f # {} /\ UNCHANGED <<links, req>>
        /\ \/ Goto(t, "error")
           \/ Goto(t, "setup") /\ Supported(f, v) /\ ids' = VidPid(f, v)
    BY <1>11 DEF ValidateAndSetVidPid, Fail
  <2>2. IdsMatchLinks'
    BY <1>2, <2>1 DEF Unlinked, IdsMatchLinks
  <2>3. \A u \in Threads \ {t} : pc'[u] = pc[u] /\ pc[u] # "setup"
    BY <1>1, <1>2, <2>1 DEF LockHeld
  <2>4. Supported(f, v) => VidPid(f, v) \in AnyIds(f)
    BY AnyIdsAll DEF Supported, VidPid
  <2>5. f \in Requests
    BY <1>1, <2>1
  <2>6. pc'[t] = "setup" => ids' \in AnyIds(f)
    BY <1>1, <2>1, <2>4
  <2>7. OwnIds'
    BY <2>1, <2>3, <2>5, <2>6 DEF OwnIds
  <2> QED
    BY <2>2, <2>7
<1>12. CASE SetupFunctions(t)
  <2> DEFINE f     == req[t].functions
             order == LinkOrder(f, getVendorFunctions(props))
  <2>1. /\ pc[t] = "setup" /\ UNCHANGED <<ids, req>>
        /\ \E l \in {"pullnow", "spawn", "error"} : Goto(t, l)
        /\ \/ links' = Names(order)
           \/ \E k \in 0..Len(order) : links' = Names(SubSeq(order, 1, k))
    BY <1>12 DEF SetupFunctions, Fail
  <2>2. order \in Seq(Link) /\ Names(order) \subseteq AnyLinks(f)
    BY <1>1, VendorType, LinkOrderType, AnyLinksAll
  <2> HIDE DEF order
  <2>3. \A k \in 0..Len(order) : Names(SubSeq(order, 1, k)) \subseteq Names(order)
    BY <2>2 DEF Names
  <2>4. links' \subseteq AnyLinks(f)
    BY <2>1, <2>2, <2>3
  <2>5. f \in Requests /\ ids \in AnyIds(f)
    BY <1>2, <2>1 DEF OwnIds
  <2>6. IdsMatchLinks'
    BY <2>1, <2>4, <2>5 DEF IdsMatchLinks
  <2>7. OwnIds'
    BY <1>1, <1>2, <2>1 DEF OwnIds
  <2> QED
    BY <2>6, <2>7
<1> QED
  BY <1>3, <1>5, <1>6, <1>7, <1>8, <1>9, <1>10, <1>11, <1>12 DEF Binder

\* Whatever fails, and whenever the vendor property changes, what is linked and
\* may be pulled up belongs to the one request whose ids are written.
THEOREM IdsMatchLinksHolds == Spec => []IdsMatchLinks
<1>1. Init => OwnIds /\ IdsMatchLinks
  BY DEF Init, OwnIds, IdsMatchLinks
<1>2. OneRequestInv /\ [Next]_vars => OwnIds' /\ IdsMatchLinks'
  <2>1. ASSUME OneRequestInv, Monitor \/ Environment \/ UNCHANGED vars
        PROVE  OwnIds' /\ IdsMatchLinks'
    <3>1. UNCHANGED <<links, ids, pc, req>>
      BY <2>1 DEF Monitor, MonVars, MonScan, MonPullUp, MonSet, MonRead, MonStop,
         Environment, EnvVars, EndpointsUp, EndpointsDown, Touch, SetVendorConfig, vars
    <3> QED
      BY <2>1, <3>1 DEF OneRequestInv, OwnIds, IdsMatchLinks
  <2> QED
    BY <2>1, BinderOneRequest DEF Next
<1> QED
  BY <1>1, <1>2, RefinementInvariant, PTL DEF Spec, OneRequestInv

\* Links and ids are changed only while the gadget is down, or the change itself
\* takes it down, whatever fails: every request goes through a disconnect.
THEOREM VisibleIsFixedHolds == Spec => VisibleIsFixed
<1>1. GadgetInv /\ [Next]_vars => (bound /\ bound' => UNCHANGED <<links, ids>>)
  <2> SUFFICES ASSUME GadgetInv, [Next]_vars, bound, bound'
               PROVE  UNCHANGED <<links, ids>>
    OBVIOUS
  <2>1. \A t \in Threads : pc[t] \notin {"sleep", "setup"}
    BY DEF GadgetInv, DisconnectWindow, Window
  <2>2. ASSUME NEW t \in Threads, Call(t) \/ Binder(t) \/ Reset(t)
        PROVE  UNCHANGED <<links, ids>>
    <3>1. ~ValidateAndSetVidPid(t) /\ ~SetupFunctions(t)
      BY <2>1 DEF ValidateAndSetVidPid, SetupFunctions
    <3>2. Unlink(t) => UNCHANGED <<links, ids>>
      BY DEF Unlink
    <3>3. \/ Call(t) \/ Lock(t) \/ ClearApplied(t) \/ PullDown(t) \/ ClearAttributes(t)
          \/ StopMonitor(t) \/ Join(t) \/ Reset(t)
          => UNCHANGED <<links, ids>>
      BY DEF Call, Lock, ClearApplied, PullDown, ClearAttributes, StopMonitor, Join, Reset
    <3>4. \/ FinishNone(t) \/ PullUpNow(t) \/ SpawnMonitor(t) \/ WaitReturns(t) \/ Reply(t)
          \/ ReplyError(t)
          => UNCHANGED <<links, ids>>
      BY DEF FinishNone, PullUpNow, SpawnMonitor, WaitReturns, Reply, ReplyError
    <3> QED
      BY <2>2, <3>1, <3>2, <3>3, <3>4 DEF Binder
  <2>3. ASSUME Monitor \/ Environment \/ UNCHANGED vars
        PROVE  UNCHANGED <<links, ids>>
    BY <2>3 DEF Monitor, MonVars, MonScan, MonPullUp, MonSet, MonRead, MonStop,
       Environment, EnvVars, EndpointsUp, EndpointsDown, Touch, SetVendorConfig, vars
  <2> QED
    BY <2>2, <2>3 DEF Next
<1> QED
  BY <1>1, GadgetInvariant, PTL DEF Spec, VisibleIsFixed

-----------------------------------------------------------------------------
(***************************************************************************)
(* Nobody waits for ever: the part of RequestsFinish that is safety.  The  *)
(* one place where two locks meet is a request, which takes mLock inside   *)
(* mLockSetCurrentFunction and holds it only over steps that do not wait;  *)
(* it joins the monitor, which takes mLock, without mLock.                 *)
(***************************************************************************)

\* The owner of mLock is between setupFunctions' lock and its return.
MLockHeld == \A t \in Threads : mLock = t => pc[t] \in {"pullnow", "spawn", "reply"}

\* A monitor that is to be joined exists.
MonitorExists == mMonitorCreated => mon.pc # "none"
JoinedExists  == \A t \in Threads : pc[t] = "join" => mMonitorCreated

\* It has the stop flag, or has read it.
StopSeen == \A t \in Threads : pc[t] = "join" => mon.pc = "exited" \/ eventFd

\* The inductive invariant.
WaitInv == RefinementInv /\ MLockHeld /\ MonitorExists /\ JoinedExists /\ StopSeen

\* Every step of a binder thread preserves it.
LEMMA BinderWait ==
  ASSUME WaitInv, NEW t \in Threads, Call(t) \/ Binder(t) \/ Reset(t)
  PROVE  MLockHeld' /\ MonitorExists' /\ JoinedExists' /\ StopSeen'
<1>1. /\ pc \in [Threads -> Control]
      /\ mon \in MonState
      /\ mLock \in Threads \cup {NoThread}
  BY DEF WaitInv, RefinementInv, GadgetInv, TypeOK
<1>2. MLockHeld /\ MonitorExists /\ JoinedExists /\ StopSeen /\ LockHeld
  BY DEF WaitInv, RefinementInv, GadgetInv
<1> USE NoThreadAssumption DEF MLockHeld, MonitorExists, JoinedExists, StopSeen
<1>3. ASSUME UNCHANGED <<mLock, mon, mMonitorCreated, eventFd>>,
             mLock = t => pc[t] \notin {"pullnow", "spawn", "reply"},
             pc' = pc \/ \E l \in Control \ {"join"} : Goto(t, l)
      PROVE  MLockHeld' /\ MonitorExists' /\ JoinedExists' /\ StopSeen'
  BY <1>1, <1>2, <1>3
<1>4. CASE Call(t) \/ Lock(t) \/ Reset(t)
  BY <1>3, <1>4 DEF Call, Lock, Reset
<1>5. CASE ClearApplied(t) \/ PullDown(t) \/ ClearAttributes(t)
  BY <1>3, <1>5 DEF ClearApplied, PullDown, ClearAttributes, Fail
<1>6. CASE Unlink(t)
  BY <1>3, <1>6 DEF Unlink, Fail
<1>7. CASE StopMonitor(t)
  <2>1. pc[t] = "stop" /\ UNCHANGED <<mon, mMonitorCreated, mLock>>
    BY <1>7 DEF StopMonitor
  <2>2. \A u \in Threads \ {t} : pc[u] \in {"idle", "lock"}
    BY <1>1, <1>2, <2>1 DEF LockHeld
  <2>3. \/ mMonitorCreated /\ eventFd' /\ Goto(t, "join")
        \/ ~mMonitorCreated /\ Goto(t, "sleep")
    BY <1>7 DEF StopMonitor, Cleanup
  <2> QED
    BY <1>1, <1>2, <2>1, <2>2, <2>3
<1>8. CASE Join(t)
  <2>1. pc[t] = "join" /\ ~mMonitorCreated' /\ Goto(t, "sleep") /\ UNCHANGED mLock
    BY <1>8 DEF Join, Cleanup
  <2>2. \A u \in Threads \ {t} : pc[u] \in {"idle", "lock"}
    BY <1>1, <1>2, <2>1 DEF LockHeld
  <2> QED
    BY <1>1, <1>2, <2>1, <2>2
<1>9. CASE FinishNone(t) \/ ReplyError(t)
  BY <1>3, <1>9 DEF FinishNone, ReplyError, Return
<1>10. CASE ValidateAndSetVidPid(t)
  BY <1>3, <1>10 DEF ValidateAndSetVidPid, Fail
<1>11. CASE SetupFunctions(t) \/ PullUpNow(t) \/ SpawnMonitor(t) \/ WaitReturns(t) \/ Reply(t)
  <2>1. /\ pc[t] \notin {"idle", "lock"}
        /\ \E l \in Control \ {"join"} : Goto(t, l)
        /\ \/ mLock' = NoThread
           \/ mLock' \in {mLock, t} /\ pc'[t] \in {"pullnow", "spawn", "reply"}
           \/ mLock' = mLock /\ pc[t] = "setup" /\ mLock = NoThread
    <3>1. CASE SetupFunctions(t)
      BY <1>1, <3>1 DEF SetupFunctions, Fail
    <3>2. CASE PullUpNow(t)
      BY <1>1, <3>2 DEF PullUpNow, Fail
    <3>3. CASE SpawnMonitor(t)
      BY <1>1, <3>3 DEF SpawnMonitor, Return
    <3>4. CASE WaitReturns(t)
      BY <1>1, <3>4 DEF WaitReturns
    <3>5. CASE Reply(t)
      BY <1>1, <3>5 DEF Reply, Return
    <3> QED
      BY <1>11, <3>1, <3>2, <3>3, <3>4, <3>5
  <2>2. \A u \in Threads \ {t} : pc'[u] = pc[u] /\ pc[u] \in {"idle", "lock"}
    BY <1>1, <1>2, <2>1 DEF LockHeld
  <2>3. MLockHeld'
    BY <1>1, <1>2, <2>1, <2>2
  <2>4. JoinedExists' /\ StopSeen'
    BY <1>1, <2>1, <2>2
  <2>5. MonitorExists'
    <3>1. UNCHANGED <<mon, mMonitorCreated>> \/ SpawnMonitor(t)
      BY <1>11 DEF SetupFunctions, PullUpNow, WaitReturns, Reply
    <3>2. SpawnMonitor(t) => mon'.pc # "none"
      BY DEF SpawnMonitor
    <3> QED
      BY <1>2, <3>1, <3>2
  <2> QED
    BY <2>3, <2>4, <2>5
<1> QED
  BY <1>4, <1>5, <1>6, <1>7, <1>8, <1>9, <1>10, <1>11 DEF Binder

\* Every step of the monitor preserves it: it clears the flag only when it returns.
LEMMA MonitorWait ==
  ASSUME WaitInv, Monitor
  PROVE  MLockHeld' /\ MonitorExists' /\ JoinedExists' /\ StopSeen'
<1>1. mon \in MonState /\ mon.pc # "none"
  <2>1. mon \in MonState
    BY DEF WaitInv, RefinementInv, GadgetInv, TypeOK
  <2> QED
    BY <2>1 DEF Monitor, MonScan, ScanFound, ScanAbsent, ScanComplete, MonPullUp, MonSet,
       MonRead, MonStop
<1>2. UNCHANGED <<pc, mLock, mMonitorCreated>>
  BY DEF Monitor, MonVars, MonScan, MonPullUp, MonSet, MonRead, MonStop
<1>3. /\ mon.pc # "exited"
      /\ mon'.pc # "none"
      /\ eventFd' = eventFd \/ mon'.pc = "exited"
  <2>1. NextEvent \in MonState /\ NextEvent.pc \in {"scan", "epoll"}
    BY <1>1, NextEventType
  <2>2. CASE MonScan
    <3>1. UNCHANGED eventFd /\ mon.pc \in {"scan0", "scan"}
      BY <2>2 DEF MonScan, ScanFound, ScanAbsent, ScanComplete
    <3>2. CASE ScanFound
      BY <1>1, <3>1, <3>2 DEF ScanFound, MonState
    <3>3. CASE ScanAbsent
      BY <2>1, <3>1, <3>3 DEF ScanAbsent, MonState
    <3>4. CASE ScanComplete
      <4>1. mon.writeUdc \in BOOLEAN
        BY <1>1 DEF MonState
      <4> QED
        BY <1>1, <2>1, <3>1, <3>4, <4>1 DEF ScanComplete, MonState
    <3> QED
      BY <2>2, <3>2, <3>3, <3>4 DEF MonScan
  <2>3. CASE MonPullUp
    BY <1>1, <2>1, <2>3 DEF MonPullUp, MonState
  <2>4. CASE MonSet
    BY <1>1, <2>1, <2>4 DEF MonSet, MonState
  <2>5. CASE MonRead \/ MonStop
    BY <1>1, <2>1, <2>5 DEF MonRead, MonStop, MonState
  <2> QED
    BY <2>2, <2>3, <2>4, <2>5 DEF Monitor
<1> QED
  BY <1>2, <1>3 DEF WaitInv, MLockHeld, MonitorExists, JoinedExists, StopSeen

\* The invariant holds in every reachable state.
THEOREM WaitInvariant == Spec => []WaitInv
<1> DEFINE I == MLockHeld /\ MonitorExists /\ JoinedExists /\ StopSeen
<1>1. Init => I
  BY NoThreadAssumption DEF Init, MLockHeld, MonitorExists, JoinedExists, StopSeen
<1>2. WaitInv /\ [Next]_vars => I'
  <2>1. ASSUME WaitInv, Environment \/ UNCHANGED vars PROVE I'
    <3>1. UNCHANGED <<pc, mLock, mMonitorCreated, mon, eventFd>>
      BY <2>1 DEF Environment, EnvVars, EndpointsUp, EndpointsDown, Touch,
         SetVendorConfig, vars
    <3> QED
      BY <2>1, <3>1 DEF WaitInv, MLockHeld, MonitorExists, JoinedExists, StopSeen
  <2> QED
    BY <2>1, BinderWait, MonitorWait DEF Next
<1> QED
  BY <1>1, <1>2, RefinementInvariant, PTL DEF Spec, WaitInv

\* No request, and no monitor, waits for a thread that waits for it, whichever
\* thread is joined, times out or fails: with fairness this is why requests
\* return.
THEOREM NoCircularWaitHolds == Spec => []NoCircularWait
<1>1. WaitInv => NoCircularWait
  <2> SUFFICES ASSUME WaitInv PROVE NoCircularWait
    OBVIOUS
  <2>1. /\ pc \in [Threads -> Control]
        /\ mLock \in Threads \cup {NoThread}
        /\ mLockSetCurrentFunction \in Threads \cup {NoThread}
    BY DEF WaitInv, RefinementInv, GadgetInv, TypeOK
  <2>2. MLockHeld /\ MonitorExists /\ JoinedExists /\ StopSeen /\ LockHeld /\ OwnerActive
    BY DEF WaitInv, RefinementInv, GadgetInv
  <2>3. NoThread \notin Threads /\ "monitor" \notin Threads /\ NoThread # "monitor"
    BY NoThreadAssumption, MonitorAssumption DEF NoThread
  <2>4. WaitsFor(NoThread) = NoThread
    BY <2>3 DEF WaitsFor
  <2>5. WaitsFor(mLock) = NoThread
    BY <2>1, <2>2, <2>3, <2>4 DEF MLockHeld, WaitsFor
  <2>6. WaitsFor("monitor") \in {mLock, NoThread}
    BY DEF WaitsFor
  <2>7. WaitsFor(WaitsFor("monitor")) = NoThread
    BY <2>4, <2>5, <2>6
  <2>8. ASSUME NEW t \in Threads, mLockSetCurrentFunction = t
        PROVE  WaitsFor(WaitsFor(t)) = NoThread
    <3>1. pc[t] \notin {"idle", "lock"}
      BY <2>2, <2>3, <2>8 DEF OwnerActive
    <3>2. WaitsFor(t) \in {mLock, "monitor", NoThread}
      BY <2>3, <3>1 DEF WaitsFor
    <3>3. WaitsFor(t) = "monitor" => mLock = NoThread
      <4> SUFFICES ASSUME WaitsFor(t) = "monitor", mLock # NoThread PROVE FALSE
        OBVIOUS
      <4>1. mLock \in Threads /\ pc[mLock] \in {"pullnow", "spawn", "reply"}
        BY <2>1, <2>2 DEF MLockHeld
      <4>2. mLock = t
        BY <2>2, <2>8, <4>1 DEF LockHeld
      <4> QED
        BY <2>3, <4>1, <4>2 DEF WaitsFor
    <3> QED
      BY <2>4, <2>5, <2>6, <3>2, <3>3
  <2>9. ASSUME NEW t \in Threads PROVE WaitsFor(WaitsFor(WaitsFor(t))) = NoThread
    <3>1. CASE pc[t] = "lock"
      <4>1. WaitsFor(t) = mLockSetCurrentFunction
        BY <2>3, <3>1 DEF WaitsFor
      <4> QED
        BY <2>1, <2>4, <2>8, <4>1
    <3>2. CASE pc[t] # "lock"
      <4>1. WaitsFor(t) \in {mLock, "monitor", NoThread}
        BY <2>3, <3>2 DEF WaitsFor
      <4> QED
        BY <2>4, <2>5, <2>7, <4>1
    <3> QED
      BY <3>1, <3>2
  <2>10. \A t \in Threads :
           /\ mLockSetCurrentFunction = t => pc[t] \notin {"idle", "lock"}
           /\ mLock = t => pc[t] \in {"pullnow", "spawn", "reply"}
           /\ pc[t] = "join" => mon.pc = "exited" \/ (mon.pc # "none" /\ eventFd)
    BY <2>2, <2>3 DEF OwnerActive, MLockHeld, MonitorExists, JoinedExists, StopSeen
  <2>11. WaitsFor(WaitsFor(WaitsFor("monitor"))) = NoThread
    BY <2>4, <2>7
  <2> QED
    BY <2>9, <2>10, <2>11 DEF NoCircularWait
<1> QED
  BY <1>1, WaitInvariant, PTL

-----------------------------------------------------------------------------
(***************************************************************************)
(* No appearance of the endpoints is missed: the part of DoesNotStayDown   *)
(* that is safety.  The monitor decides by looking at the endpoints, not   *)
(* by what the events say, and every directory it looks at is watched      *)
(* before its first look.  So an endpoint that a look found absent either  *)
(* still is, or has left an event; and while the gadget is down, writeUdc  *)
(* is set, and a look that finds everything is followed by a pull-up that  *)
(* the kernel accepts.                                                     *)
(***************************************************************************)

\* What takes the gadget down behind the monitor's back, or refuses its pull-up:
\* then it may well stay down.
Spoiling == {"attribute", "unlink", "pullup", "daemonDeath", "reset"}

\* A request has pulled the gadget down and not yet joined the monitor.
TearingDown == \E t \in Threads : pc[t] \in {"attribute", "unlink", "stop", "join"}

\* There is something to pull up, it needs no endpoint outside mEndpointList,
\* and every endpoint of mEndpointList is watched.
Wired == /\ links # {}
         /\ links \cap FfsLink \subseteq Names(mEndpointList)
         /\ Names(mEndpointList) \subseteq watch

SpawnWired == \A t \in Threads : pc[t] = "spawn" => Wired

\* What the monitor knows at each place of its loop.
Knows ==
  /\ mon.pc \in {"set0", "set"} => bound
  /\ bound \/ mon.writeUdc
  /\ mon.pc \in {"scan0", "scan"} =>
       /\ mon.i > 0
       /\ \A k \in DOMAIN mEndpointList : k < mon.i => mEndpointList[k] \in ready
  /\ mon.pc \in {"pullup0", "pullup"} => Names(mEndpointList) \subseteq ready
  /\ mon.pc = "epoll" /\ events = 0 /\ Names(mEndpointList) \subseteq ready => bound

Watching == mon.pc \notin {"none", "exited"} /\ ~TearingDown => Wired /\ Knows

\* The inductive invariant.
WatchInv == RefinementInv /\ SpawnWired /\ Watching

\* The functionfs instances that are linked are the ones in the endpoint list,
\* whatever the vendor configuration adds.
LEMMA EndpointsLinked ==
  ASSUME NEW f, NEW v \in VendorConfig
  PROVE  Names(LinkOrder(f, v)) \cap FfsLink = Names(EndpointOrder(f))
<1> DEFINE mtp == LinkIf("MTP" \in f, "ffs.mtp")
           ptp == LinkIf("MTP" \notin f /\ "PTP" \in f, "ffs.ptp")
           adb == LinkIf("ADB" \in f, "ffs.adb")
           midi == LinkIf("MIDI" \in f, "midi.gs5")
           acc == LinkIf("ACCESSORY" \in f, "accessory.gs2")
           audio == LinkIf("AUDIO_SOURCE" \in f, "audio_source.gs3")
           rndis == LinkIf("RNDIS" \in f, "gsi.rndis")
           Ffs(s) == s \in Seq(Link) /\ Names(s) \subseteq FfsLink
           Other(s) == s \in Seq(Link) /\ Names(s) \cap FfsLink = {}
<1>1. LinkOrder(f, v) = ((((((mtp \o ptp) \o midi) \o acc) \o audio) \o rndis) \o VendorLinks(v)) \o adb
  BY Zenon DEF LinkOrder
<1>2. EndpointOrder(f) = (mtp \o ptp) \o adb
  BY Zenon DEF EndpointOrder
<1>3. \A c : /\ Ffs(LinkIf(c, "ffs.mtp")) /\ Ffs(LinkIf(c, "ffs.ptp"))
             /\ Ffs(LinkIf(c, "ffs.adb"))
             /\ Other(LinkIf(c, "midi.gs5")) /\ Other(LinkIf(c, "accessory.gs2"))
             /\ Other(LinkIf(c, "audio_source.gs3")) /\ Other(LinkIf(c, "gsi.rndis"))
  <2>1. \A c, n : n \in Link => LinkIf(c, n) \in Seq(Link)
    BY LinkIfType
  <2>2. \A c, n : Names(LinkIf(c, n)) \subseteq {n}
    BY DEF LinkIf, Names
  <2>3. {"ffs.mtp", "ffs.ptp", "ffs.adb"} \subseteq FfsLink /\ FfsLink \subseteq Link
    BY DEF FfsLink, Link
  <2>4. {"midi.gs5", "accessory.gs2", "audio_source.gs3", "gsi.rndis"} \subseteq Link \ FfsLink
    BY DEF FfsLink, Link
  <2>5. \A c, n : n \in FfsLink => Ffs(LinkIf(c, n))
    BY <2>1, <2>2, <2>3
  <2>6. \A c, n : n \in Link \ FfsLink => Other(LinkIf(c, n))
    BY <2>1, <2>2
  <2> HIDE DEF Ffs, Other
  <2> QED
    BY <2>3, <2>4, <2>5, <2>6
<1>4. Ffs(mtp) /\ Ffs(ptp) /\ Ffs(adb)
  BY <1>3, Zenon
<1>5. Other(midi) /\ Other(acc) /\ Other(audio) /\ Other(rndis)
  BY <1>3, Zenon
<1>6. Other(VendorLinks(v))
  <2>1. CASE v = <<"user">>
    BY <2>1, VendorLinksType DEF VendorLinks, Names
  <2>2. CASE v # <<"user">>
    <3>1. \A i \in DOMAIN v : v[i] \in Token
      BY <2>2 DEF VendorConfig
    <3>2. \A x \in Token : VendorLink(x) \notin FfsLink
      BY DEF Token, VendorLink, FfsLink
    <3>3. Names(VendorLinks(v)) \cap FfsLink = {}
      BY <2>2, <3>1, <3>2 DEF VendorLinks, Names
    <3> QED
      BY <3>3, VendorLinksType
  <2> QED
    BY <2>1, <2>2
<1> HIDE DEF mtp, ptp, adb, midi, acc, audio, rndis
<1>7. ASSUME NEW s \in Seq(Link), NEW u \in Seq(Link), Other(u)
      PROVE  s \o u \in Seq(Link) /\ Names(s \o u) \cap FfsLink = Names(s) \cap FfsLink
  <2>1. s \o u \in Seq(Link)
    OBVIOUS
  <2>2. Names(s \o u) = Names(s) \cup Names(u)
    BY NamesConcat
  <2> QED
    BY <1>7, <2>1, <2>2
<1> DEFINE a == mtp \o ptp
           b == ((((a \o midi) \o acc) \o audio) \o rndis) \o VendorLinks(v)
<1>8. a \in Seq(Link) /\ Names(a) \subseteq FfsLink
  <2>1. a \in Seq(Link)
    BY <1>4
  <2>2. Names(a) = Names(mtp) \cup Names(ptp)
    BY <1>4, NamesConcat
  <2> QED
    BY <1>4, <2>1, <2>2
<1> HIDE DEF a
<1>9. b \in Seq(Link) /\ Names(b) \cap FfsLink = Names(a) \cap FfsLink
  <2> DEFINE Same(s) == s \in Seq(Link) /\ Names(s) \cap FfsLink = Names(a) \cap FfsLink
  <2>1. ASSUME NEW s, Same(s), NEW u, Other(u) PROVE Same(s \o u)
    BY <1>7, <2>1
  <2>2. Same(a)
    BY <1>8
  <2> HIDE DEF Same, Other
  <2>3. Same(a \o midi)
    BY <1>5, <2>1, <2>2
  <2>4. Same((a \o midi) \o acc)
    BY <1>5, <2>1, <2>3
  <2>5. Same(((a \o midi) \o acc) \o audio)
    BY <1>5, <2>1, <2>4
  <2>6. Same((((a \o midi) \o acc) \o audio) \o rndis)
    BY <1>5, <2>1, <2>5
  <2>7. Same(b)
    BY <1>6, <2>1, <2>6
  <2> QED
    BY <2>7 DEF Same
<1> HIDE DEF b
<1>10. Names(b \o adb) = Names(b) \cup Names(adb)
  BY <1>4, <1>9, NamesConcat
<1>11. Names(a \o adb) = Names(a) \cup Names(adb)
  BY <1>4, <1>8, NamesConcat
<1>12. LinkOrder(f, v) = b \o adb /\ EndpointOrder(f) = a \o adb
  BY <1>1, <1>2, Zenon DEF a, b
<1> QED
  BY <1>4, <1>8, <1>9, <1>10, <1>11, <1>12

\* Every step of a binder thread preserves it: what the monitor looks at changes
\* only after the pull-down, and the monitor is joined before the next request
\* links anything.
LEMMA BinderWatch ==
  ASSUME Faults \cap Spoiling = {}, WatchInv,
         NEW t \in Threads, Call(t) \/ Binder(t) \/ Reset(t)
  PROVE  SpawnWired' /\ Watching'
<1>1. /\ pc \in [Threads -> Control]
      /\ props \in Props
      /\ mon \in MonState
  BY DEF WatchInv, RefinementInv, GadgetInv, TypeOK
<1>2. /\ LockHeld /\ MonitorKnown
      /\ \A u \in Threads : Window(u) => mon.pc = "none"
  BY DEF WatchInv, RefinementInv, GadgetInv, MonitorJoined
<1>3. SpawnWired /\ Watching
  BY DEF WatchInv
<1>4. {"attribute", "unlink", "reset"} \cap Faults = {}
  BY DEF Spoiling
<1>5. pc[t] \notin {"idle", "lock"} => \A u \in Threads \ {t} : pc[u] \in {"idle", "lock"}
  BY <1>1, <1>2 DEF LockHeld
<1>6. ASSUME UNCHANGED <<links, watch, mEndpointList, mon, bound, ready, events>>,
             pc[t] \notin {"attribute", "unlink", "stop", "join"},
             \E l \in Control \ {"spawn"} : Goto(t, l)
      PROVE  SpawnWired' /\ Watching'
  <2>1. Wired' = Wired /\ Knows' = Knows
    BY <1>6 DEF Wired, Knows
  <2>2. ~TearingDown' => ~TearingDown
    BY <1>1, <1>6 DEF TearingDown
  <2>3. SpawnWired'
    BY <1>1, <1>3, <1>6, <2>1 DEF SpawnWired
  <2> QED
    BY <1>3, <1>6, <2>1, <2>2, <2>3 DEF Watching
<1>7. ASSUME pc[t] \notin {"idle", "lock"}, \E l \in Control \ {"spawn"} : Goto(t, l)
      PROVE  SpawnWired'
  BY <1>1, <1>5, <1>7 DEF SpawnWired
<1>8. ASSUME \E l \in {"attribute", "unlink", "stop", "join"} : Goto(t, l)
      PROVE  Watching'
  BY <1>1, <1>8 DEF TearingDown, Watching
<1>9. CASE Call(t) \/ Lock(t) \/ ClearApplied(t)
  BY <1>6, <1>9 DEF Call, Lock, ClearApplied, Control, kernel, inotify
<1>10. CASE FinishNone(t) \/ Reply(t) \/ ReplyError(t) \/ WaitReturns(t)
  BY <1>6, <1>10 DEF FinishNone, Reply, ReplyError, WaitReturns, Return, Control, kernel,
     inotify, fields
<1>11. CASE ValidateAndSetVidPid(t)
  BY <1>6, <1>11 DEF ValidateAndSetVidPid, Fail, Control, inotify, fields
<1>12. CASE PullDown(t) \/ ClearAttributes(t)
  <2>1. /\ pc[t] \notin {"idle", "lock"}
        /\ \E l \in {"attribute", "unlink"} : Goto(t, l)
    BY <1>4, <1>12 DEF PullDown, ClearAttributes
  <2> QED
    BY <1>7, <1>8, <2>1 DEF Control
<1>13. CASE Unlink(t)
  <2>1. pc[t] = "unlink" /\ (pc' = pc \/ Goto(t, "stop"))
    BY <1>4, <1>13 DEF Unlink
  <2>2. CASE pc' = pc
    <3>1. SpawnWired' /\ TearingDown'
      BY <1>5, <2>1, <2>2 DEF SpawnWired, TearingDown
    <3> QED
      BY <3>1 DEF Watching
  <2> QED
    BY <1>7, <1>8, <2>1, <2>2 DEF Control
<1>14. CASE StopMonitor(t)
  <2>1. /\ pc[t] = "stop" /\ UNCHANGED mon
        /\ \/ Goto(t, "join")
           \/ ~mMonitorCreated /\ Goto(t, "sleep")
    BY <1>14 DEF StopMonitor, Cleanup
  <2>2. ~mMonitorCreated => Watching'
    BY <1>2, <2>1 DEF MonitorKnown, Watching
  <2> QED
    BY <1>7, <1>8, <2>1, <2>2 DEF Control
<1>15. CASE Join(t)
  <2>1. pc[t] = "join" /\ mon'.pc = "none" /\ Goto(t, "sleep")
    BY <1>1, <1>15 DEF Join, Cleanup, MonState
  <2> QED
    BY <1>7, <2>1 DEF Watching, Control
<1>16. CASE PullUpNow(t)
  <2>1. pc[t] = "pullnow" /\ UNCHANGED mon /\ \E l \in {"reply", "error"} : Goto(t, l)
    BY <1>16 DEF PullUpNow, Fail
  <2>2. mon.pc = "none"
    BY <1>2, <2>1 DEF Window
  <2> QED
    BY <1>7, <2>1, <2>2 DEF Watching, Control
<1>17. CASE SetupFunctions(t)
  <2> DEFINE f == req[t].functions
             v == getVendorFunctions(props)
  <2>1. pc[t] = "setup" /\ UNCHANGED mon
    BY <1>17 DEF SetupFunctions
  <2>2. Watching'
    BY <1>2, <2>1 DEF Window, Watching
  <2>3. \/ /\ links' = Names(LinkOrder(f, v))
           /\ mEndpointList' = EndpointOrder(f)
           /\ watch' = Names(EndpointOrder(f))
           /\ EndpointOrder(f) # <<>> /\ Goto(t, "spawn")
        \/ \E l \in {"pullnow", "error"} : Goto(t, l)
    BY <1>17 DEF SetupFunctions, Fail
  <2>4. CASE \E l \in {"pullnow", "error"} : Goto(t, l)
    BY <1>7, <2>1, <2>2, <2>4 DEF Control
  <2>5. CASE /\ links' = Names(LinkOrder(f, v))
             /\ mEndpointList' = EndpointOrder(f)
             /\ watch' = Names(EndpointOrder(f))
             /\ EndpointOrder(f) # <<>> /\ Goto(t, "spawn")
    <3>1. Names(LinkOrder(f, v)) \cap FfsLink = Names(EndpointOrder(f))
      BY <1>1, VendorType, EndpointsLinked
    <3>2. Names(EndpointOrder(f)) # {}
      <4>1. EndpointOrder(f) \in Seq(FfsLink)
        BY EndpointOrderType
      <4> QED
        BY <2>5, <4>1 DEF Names
    <3>3. Wired'
      BY <2>5, <3>1, <3>2 DEF Wired
    <3> QED
      BY <2>2, <3>3 DEF SpawnWired
  <2> QED
    BY <2>3, <2>4, <2>5
<1>18. CASE SpawnMonitor(t)
  <2>1. /\ pc[t] = "spawn"
        /\ \E l \in {"wait", "idle"} : Goto(t, l)
        /\ UNCHANGED <<links, watch, mEndpointList>>
        /\ mon' = [pc |-> "scan0", i |-> 1, batch |-> 0, writeUdc |-> TRUE]
    BY <1>18 DEF SpawnMonitor, Return, kernel, inotify
  <2>2. Wired'
    BY <1>3, <2>1 DEF SpawnWired, Wired
  <2>3. WatchInv => \A k \in DOMAIN mEndpointList : k \in Nat \ {0}
    BY DEF WatchInv, RefinementInv, GadgetInv, TypeOK
  <2>4. Knows'
    BY <2>1, <2>3 DEF Knows
  <2> QED
    BY <1>7, <2>1, <2>2, <2>4 DEF Watching, Control
<1> QED
  BY <1>4, <1>9, <1>10, <1>11, <1>12, <1>13, <1>14, <1>15, <1>16, <1>17, <1>18 DEF Binder, Reset

\* Every step of the monitor preserves it.
LEMMA MonitorWatch ==
  ASSUME Faults \cap Spoiling = {}, WatchInv, Monitor
  PROVE  SpawnWired' /\ Watching'
<1>1. /\ mon \in MonState
      /\ mEndpointList \in Seq(FfsLink)
      /\ bound \in BOOLEAN
  BY DEF WatchInv, RefinementInv, GadgetInv, TypeOK
<1>2. UNCHANGED <<pc, links, watch, mEndpointList, ready>>
  BY DEF Monitor, MonVars, MonScan, MonPullUp, MonSet, MonRead, MonStop
<1>3. mon.pc \notin {"none", "exited"}
  BY DEF Monitor, MonScan, ScanFound, ScanAbsent, ScanComplete, MonPullUp, MonSet, MonRead,
     MonStop
<1>4. SpawnWired' /\ Wired' = Wired /\ TearingDown' = TearingDown
  BY <1>2 DEF WatchInv, SpawnWired, Wired, TearingDown
<1> SUFFICES ASSUME ~TearingDown, mon'.pc # "exited"
             PROVE  Knows'
  BY <1>3, <1>4 DEF WatchInv, Watching
<1>5. Wired /\ Knows
  BY <1>3 DEF WatchInv, Watching
<1>6. \A k \in DOMAIN mEndpointList : k \in Nat \ {0}
  BY <1>1
<1>7. /\ NextEvent \in MonState /\ NextEvent.pc \in {"scan", "epoll"}
      /\ NextEvent.i = 1 /\ NextEvent.writeUdc = mon.writeUdc
  <2>1. NextEvent.i = 1 /\ NextEvent.writeUdc = mon.writeUdc
    BY <1>1 DEF NextEvent, MonState
  <2> QED
    BY <1>1, <2>1, NextEventType
<1>8. ASSUME mon'.pc \in {"scan", "epoll"}, mon'.i = 1,
             bound' \/ mon'.writeUdc,
             mon'.pc = "epoll" /\ Names(mEndpointList) \subseteq ready => bound'
      PROVE  Knows'
  BY <1>2, <1>6, <1>8 DEF Knows
<1>9. CASE MonScan
  <2>1. mon.pc \in {"scan0", "scan"} /\ UNCHANGED <<bound, events>>
    BY <1>9 DEF MonScan, ScanFound, ScanAbsent, ScanComplete
  <2>2. /\ mon.i > 0
        /\ \A k \in DOMAIN mEndpointList : k < mon.i => mEndpointList[k] \in ready
    BY <1>5, <2>1 DEF Knows
  <2>3. mon.i \in Nat /\ mon.writeUdc \in BOOLEAN
    BY <1>1 DEF MonState
  <2>4. CASE ScanFound
    <3>1. mon' = [mon EXCEPT !.i = mon.i + 1] /\ mEndpointList[mon.i] \in ready
      BY <2>4 DEF ScanFound, Absent
    <3>2. mon'.pc = mon.pc /\ mon'.i = mon.i + 1 /\ mon'.writeUdc = mon.writeUdc
      BY <1>1, <3>1 DEF MonState
    <3>3. \A k \in DOMAIN mEndpointList : k < mon.i + 1 => mEndpointList[k] \in ready
      BY <1>6, <2>2, <2>3, <3>1
    <3> QED
      BY <1>2, <1>5, <2>1, <2>2, <2>3, <3>2, <3>3 DEF Knows
  <2>5. CASE ScanAbsent
    <3>1. /\ mon'.pc \in {"scan", "epoll"} /\ mon'.i = 1 /\ mon'.writeUdc
      BY <1>7, <2>5 DEF ScanAbsent, MonState
    <3>2. mon.i <= Len(mEndpointList) /\ mEndpointList[mon.i] \notin ready
      BY <1>1, <2>3, <2>5 DEF ScanAbsent, Absent, AllPresent
    <3>3. mon.i \in DOMAIN mEndpointList
      BY <1>1, <2>2, <2>3, <3>2
    <3> QED
      BY <1>8, <3>1, <3>2, <3>3 DEF Names
  <2>6. CASE ScanComplete
    <3>1. mon.i > Len(mEndpointList)
      BY <2>6 DEF ScanComplete, AllPresent
    <3>2. Names(mEndpointList) \subseteq ready
      BY <1>1, <2>2, <2>3, <3>1 DEF Names
    <3>3. CASE mon.pc = "scan" /\ ~mon.writeUdc
      <4>1. mon' = NextEvent /\ bound
        BY <1>5, <2>6, <3>3 DEF ScanComplete, Knows
      <4> QED
        BY <1>7, <1>8, <2>1, <4>1
    <3>4. CASE mon.pc = "scan0" \/ mon.writeUdc
      <4>1. mon'.pc \in {"pullup0", "pullup"} /\ mon'.writeUdc = mon.writeUdc
        BY <1>1, <2>1, <2>3, <2>6, <3>4 DEF ScanComplete, MonState
      <4> QED
        BY <1>2, <1>5, <2>1, <3>2, <4>1 DEF Knows
    <3> QED
      BY <2>1, <3>3, <3>4
  <2> QED
    BY <1>9, <2>4, <2>5, <2>6 DEF MonScan
<1>10. CASE MonPullUp
  <2>1. mon.pc \in {"pullup0", "pullup"} /\ UNCHANGED events
    BY <1>10 DEF MonPullUp
  <2>2. CanBind \/ bound
    BY <1>5, <2>1 DEF CanBind, Wired, Knows
  <2>3. CASE PullUp /\ mon' = [mon EXCEPT !.pc = IF @ = "pullup0" THEN "set0" ELSE "set"]
    <3>1. bound' /\ mon'.pc \in {"set0", "set"}
      BY <1>1, <2>3 DEF PullUp, MonState
    <3> QED
      BY <3>1 DEF Knows
  <2>4. CASE PullUpFails /\ mon' = NextEvent
    <3>1. bound /\ bound'
      BY <2>2, <2>4 DEF PullUpFails, Spoiling, CanBind
    <3> QED
      BY <1>7, <1>8, <2>4, <3>1
  <2> QED
    BY <1>10, <2>3, <2>4 DEF MonPullUp
<1>11. CASE MonSet
  <2>1. mon.pc \in {"set0", "set"} /\ UNCHANGED bound
    BY <1>11 DEF MonSet
  <2>2. bound /\ bound'
    BY <1>5, <2>1 DEF Knows
  <2>3. mon'.pc \in {"scan", "epoll"} /\ mon'.i = 1
    BY <1>7, <1>11 DEF MonSet, MonState
  <2> QED
    BY <1>8, <2>2, <2>3
<1>12. CASE MonRead
  <2>1. /\ mon'.pc = "scan" /\ mon'.i = 1 /\ mon'.writeUdc = mon.writeUdc
        /\ bound' = bound
    BY <1>1, <1>12 DEF MonRead, MonState
  <2> QED
    BY <1>5, <1>8, <2>1 DEF Knows
<1>13. CASE MonStop
  BY <1>1, <1>13 DEF MonStop, MonState
<1> QED
  BY <1>9, <1>10, <1>11, <1>12, <1>13 DEF Monitor

\* So do the daemons: an endpoint that appears in a watched directory leaves an
\* event, and one that is not watched is not one the monitor waits for.
LEMMA EnvironmentWatch ==
  ASSUME Faults \cap Spoiling = {}, WatchInv, Environment
  PROVE  SpawnWired' /\ Watching'
<1>1. events \in 0..MaxEvents /\ MaxEvents \in Nat \ {0}
  BY ConstantsAssumption DEF WatchInv, RefinementInv, GadgetInv, TypeOK
<1>2. UNCHANGED <<pc, links, watch, mEndpointList, mon>>
  BY DEF Environment, EnvVars, EndpointsUp, EndpointsDown, Touch, SetVendorConfig, fields
<1>3. SpawnWired' /\ Wired' = Wired /\ TearingDown' = TearingDown
  BY <1>2 DEF WatchInv, SpawnWired, Wired, TearingDown
<1> SUFFICES ASSUME ~TearingDown, mon.pc \notin {"none", "exited"}
             PROVE  Knows'
  BY <1>2, <1>3 DEF WatchInv, Watching
<1>4. Wired /\ Knows
  BY DEF WatchInv, Watching
<1>5. ASSUME UNCHANGED bound, ready \subseteq ready',
             events' = 0 =>
               (Names(mEndpointList) \subseteq ready' => events = 0 /\ Names(mEndpointList) \subseteq ready)
      PROVE  Knows'
  BY <1>2, <1>4, <1>5 DEF Knows
<1>6. CASE \E f \in Daemons : EndpointsUp(f)
  <2>1. PICK f \in Daemons : EndpointsUp(f)
    BY <1>6
  <2>2. UNCHANGED bound /\ ready' = ready \cup {f} /\ f \notin ready /\ Notify(f)
    BY <2>1 DEF EndpointsUp
  <2>3. CASE f \in watch
    BY <1>1, <1>5, <2>2, <2>3 DEF Notify
  <2>4. CASE f \notin watch
    <3>1. f \notin Names(mEndpointList)
      BY <1>4, <2>4 DEF Wired
    <3>2. events' = events
      BY <2>2, <2>4 DEF Notify
    <3> QED
      BY <1>5, <2>2, <3>1, <3>2
  <2> QED
    BY <2>3, <2>4
<1>7. CASE \E f \in Daemons : EndpointsDown(f)
  BY <1>7 DEF EndpointsDown, Spoiling
<1>8. CASE \E f \in Daemons : Touch(f)
  <2>1. UNCHANGED <<bound, ready>> /\ events' \in {events, events + 1}
    BY <1>8 DEF Touch, Notify
  <2> QED
    BY <1>1, <1>5, <2>1
<1>9. CASE SetVendorConfig
  BY <1>5, <1>9 DEF SetVendorConfig
<1> QED
  BY <1>6, <1>7, <1>8, <1>9 DEF Environment

\* The invariant holds in every reachable state.
THEOREM WatchInvariant ==
  ASSUME Faults \cap Spoiling = {}
  PROVE  Spec => []WatchInv
<1>1. Init => SpawnWired /\ Watching
  BY DEF Init, SpawnWired, Watching
<1>2. WatchInv /\ [Next]_vars => SpawnWired' /\ Watching'
  <2>1. ASSUME WatchInv, UNCHANGED vars PROVE SpawnWired' /\ Watching'
    <3>1. UNCHANGED <<pc, links, watch, mEndpointList, mon, bound, ready, events>>
      BY <2>1 DEF vars, kernel, inotify, fields
    <3>2. UNCHANGED <<Wired, TearingDown, Knows>>
      BY <3>1 DEF Wired, TearingDown, Knows
    <3> QED
      BY <2>1, <3>1, <3>2 DEF WatchInv, SpawnWired, Watching
  <2> QED
    BY <2>1, BinderWatch, MonitorWatch, EnvironmentWatch DEF Next
<1> QED
  BY <1>1, <1>2, RefinementInvariant, PTL DEF Spec, WatchInv

\* Unless something takes the gadget down behind the monitor's back, a monitor
\* that waits for an event has pulled the gadget up or waits for an endpoint
\* that is still missing, for any number of endpoints, of daemons and of events
\* in the queue, and whatever the requests do.
THEOREM NoMissedEndpointsHolds ==
  ASSUME Faults \cap Spoiling = {}
  PROVE  Spec => []NoMissedEndpoints
<1>1. WatchInv => NoMissedEndpoints
  <2> SUFFICES ASSUME WatchInv, ShouldBeUp, mon.pc = "epoll", events = 0
               PROVE  bound
    BY DEF NoMissedEndpoints
  <2>1. ~TearingDown
    BY NoThreadAssumption DEF WatchInv, RefinementInv, GadgetInv, LockHeld, ShouldBeUp, TearingDown
  <2>2. Knows
    BY <2>1 DEF WatchInv, Watching
  <2> QED
    BY <2>2 DEF Knows, ShouldBeUp
<1> QED
  BY <1>1, WatchInvariant, PTL
=============================================================================
