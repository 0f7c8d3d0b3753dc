----------------------------- MODULE UsbGadget -----------------------------
(***************************************************************************)
(* The USB gadget HAL of usb/UsbGadget.cpp: setCurrentUsbFunctions and     *)
(* reset, called from the threads of the binder pool, the monitor thread   *)
(* that pulls the gadget up when the functionfs endpoints appear, and the  *)
(* environment they run in: the kernel's configfs gadget, the functionfs   *)
(* daemons (adbd, the MTP and PTP servers) and the vendor property.        *)
(***************************************************************************)
EXTENDS GadgetConfig, FiniteSets

CONSTANTS
  Threads,      \* the binder threads that call the HAL
  Requests,     \* the function sets the framework asks for
  Daemons,      \* the functionfs instances that have a daemon
  VendorProps,  \* the vendor configurations the property may be set to
  InitProps,    \* the system properties at boot
  MaxEvents,    \* the inotify queue saturates here: equal events coalesce
  Faults        \* what may go wrong, a subset of FaultKind

FaultKind ==
  { "pulldown",     \* writing "none" to UDC fails
    "attribute",    \* a descriptor attribute cannot be written
    "unlink",       \* a function link cannot be removed
    "ids",          \* idVendor or idProduct cannot be written
    "link",         \* setupFunctions fails after some of its links
    "pullup",       \* writing the controller's name to UDC fails
    "daemonDeath",  \* a functionfs daemon dies, its endpoints disappear
    "reset",        \* the framework calls reset
    "setprop" }     \* vendor.usb.config changes

ASSUME ConstantsAssumption ==
  /\ Requests \subseteq SUBSET Function
  /\ Daemons \subseteq FfsLink
  /\ VendorProps \subseteq Seq(Token)
  /\ InitProps \in Props
  /\ MaxEvents \in Nat \ {0}
  /\ Faults \subseteq FaultKind

NoThread == "none"
ASSUME NoThreadAssumption == NoThread \notin Threads
ASSUME MonitorAssumption == "monitor" \notin Threads

VARIABLES
  \* The kernel, the daemons and the properties
  bound,    \* the gadget is bound to the controller: pulled up
  links,    \* the functions linked into the configuration
  ids,      \* idVendor and idProduct
  osDesc,   \* os_desc/use
  ready,    \* the functionfs instances whose descriptors are written
  watch,    \* the functionfs directories mInotifyFd watches
  events,   \* unread inotify events
  eventFd,  \* the stop flag is written to mEventFd
  props,    \* the system properties
  \* The fields of UsbGadget, and gadgetPullup
  mLock, mLockSetCurrentFunction, mMonitorCreated, mEndpointList,
  mCurrentUsbFunctions, mCurrentUsbFunctionsApplied, gadgetPullup,
  \* Threads
  pc, req, status,  \* per binder thread: control, arguments, Status
  mon,              \* the monitor thread: control and local variables
  \* History, read by the properties only
  replies,  \* per thread: the callbacks of its latest request
  pulled    \* the links at the latest pull-up since the last teardown

kernel  == <<bound, links, ids, osDesc>>
inotify == <<watch, events, eventFd>>
fields  == <<mMonitorCreated, mEndpointList, mCurrentUsbFunctions,
             mCurrentUsbFunctionsApplied, gadgetPullup>>
locks   == <<mLock, mLockSetCurrentFunction>>
vars    == <<kernel, inotify, ready, props, fields, locks, pc, req, status,
             mon, replies, pulled>>

Status == {"SUCCESS", "ERROR", "CONFIGURATION_NOT_SUPPORTED"}

Control == {"idle", "lock", "clear", "pulldown", "attribute", "unlink", "stop",
            "join", "sleep", "setup", "pullnow", "spawn", "wait", "reply",
            "error"}

MonControl == {"none", "scan0", "pullup0", "set0", "epoll", "scan", "pullup",
               "set", "exited"}

MonState == [pc : MonControl, i : Nat, batch : 0..MaxEvents, writeUdc : BOOLEAN]

(***************************************************************************)
(* The kernel's gadget, as the HAL uses it.  Pulling up needs a function,  *)
(* an unbound gadget and the descriptors of every linked functionfs        *)
(* instance; unlinking a function of a bound gadget unbinds it.            *)
(***************************************************************************)
CanBind == ~bound /\ links # {} /\ links \cap FfsLink \subseteq ready

\* A successful WriteStringToFile(GADGET_NAME, PULLUP_PATH).
PullUp == /\ CanBind
          /\ bound' = TRUE
          /\ pulled' = links

\* A failed one.
PullUpFails == /\ ~CanBind \/ "pullup" \in Faults
               /\ UNCHANGED <<bound, pulled>>

\* A change in a functionfs directory, seen through inotify if watched.
Notify(f) == events' = IF f \in watch /\ events < MaxEvents
                         THEN events + 1 ELSE events

-----------------------------------------------------------------------------
(***************************************************************************)
(* setCurrentUsbFunctions                                                  *)
(***************************************************************************)
Goto(t, label) == pc' = [pc EXCEPT ![t] = label]

Fail(t, s) == /\ status' = [status EXCEPT ![t] = s]
              /\ Goto(t, "error")

\* The framework calls the HAL, with or without a callback.
Call(t) ==
  /\ pc[t] = "idle"
  /\ \E f \in Requests, cb \in BOOLEAN :
       req' = [req EXCEPT ![t] = [functions |-> f, callback |-> cb]]
  /\ replies' = [replies EXCEPT ![t] = <<>>]
  /\ Goto(t, "lock")
  /\ UNCHANGED <<kernel, inotify, ready, props, fields, locks, status, mon, pulled>>

\* One request at a time; the functions are stored before the flag is cleared.
Lock(t) ==
  /\ pc[t] = "lock"
  /\ mLockSetCurrentFunction = NoThread
  /\ mLockSetCurrentFunction' = t
  /\ mCurrentUsbFunctions' = req[t].functions
  /\ Goto(t, "clear")
  /\ UNCHANGED <<kernel, inotify, ready, props, mMonitorCreated, mEndpointList,
                 mCurrentUsbFunctionsApplied, gadgetPullup, mLock, req, status,
                 mon, replies, pulled>>

ClearApplied(t) ==
  /\ pc[t] = "clear"
  /\ mCurrentUsbFunctionsApplied' = FALSE
  /\ Goto(t, "pulldown")
  /\ UNCHANGED <<kernel, inotify, ready, props, mMonitorCreated, mEndpointList,
                 mCurrentUsbFunctions, gadgetPullup, locks, req, status, mon,
                 replies, pulled>>

(***************************************************************************)
(* tearDownGadget                                                          *)
(***************************************************************************)

\* A pull-down that fails is only logged.
PullDown(t) ==
  /\ pc[t] = "pulldown"
  /\ \/ bound' = FALSE
     \/ "pulldown" \in Faults /\ UNCHANGED bound
  /\ Goto(t, "attribute")
  /\ UNCHANGED <<links, ids, osDesc, inotify, ready, props, fields, locks, req,
                 status, mon, replies, pulled>>

\* Mutant: os_desc/use is not reset.
ClearAttributesKeepsOsDesc(t) ==
  /\ pc[t] = "attribute"
  /\ Goto(t, "unlink")
  /\ UNCHANGED <<kernel, inotify, ready, props, fields, locks, req, status, mon,
                 replies, pulled>>

\* bDeviceClass, bDeviceSubClass, bDeviceProtocol and last os_desc/use.
ClearAttributes(t) ==
  /\ pc[t] = "attribute"
  /\ \/ /\ osDesc' = FALSE
        /\ Goto(t, "unlink")
        /\ UNCHANGED status
     \/ /\ "attribute" \in Faults
        /\ Fail(t, "ERROR")
        /\ UNCHANGED osDesc
  /\ UNCHANGED <<bound, links, ids, inotify, ready, props, fields, locks, req,
                 mon, replies, pulled>>

\* Mutant: the result of unlinkFunctions is ignored.
UnlinkIgnoresFailure(t) ==
  /\ pc[t] = "unlink"
  /\ \/ /\ links # {}
        /\ \E l \in links : links' = links \ {l}
        /\ bound' = FALSE
        /\ UNCHANGED pc
     \/ /\ links = {} \/ "unlink" \in Faults
        /\ Goto(t, "stop")
        /\ UNCHANGED <<bound, links>>
  /\ UNCHANGED <<ids, osDesc, inotify, ready, props, fields, locks, req, status,
                 mon, replies, pulled>>

\* unlinkFunctions removes one link after the other, in directory order.
Unlink(t) ==
  /\ pc[t] = "unlink"
  /\ \/ /\ links # {}
        /\ \E l \in links : links' = links \ {l}
        /\ bound' = FALSE
        /\ UNCHANGED <<pc, status>>
     \/ /\ links = {}
        /\ Goto(t, "stop")
        /\ UNCHANGED <<bound, links, status>>
     \/ /\ "unlink" \in Faults
        /\ Fail(t, "ERROR")
        /\ UNCHANGED <<bound, links>>
  /\ UNCHANGED <<ids, osDesc, inotify, ready, props, fields, locks, req, mon,
                 replies, pulled>>

\* The end of the teardown: the descriptors are closed, the list is emptied.
Cleanup(t) ==
  /\ watch' = {}
  /\ events' = 0
  /\ eventFd' = FALSE
  /\ mEndpointList' = <<>>
  /\ pulled' = {}
  /\ Goto(t, "sleep")

\* Mutant: the stop flag is not written.
StopMonitorNoFlag(t) ==
  /\ pc[t] = "stop"
  /\ \/ /\ mMonitorCreated
        /\ Goto(t, "join")
        /\ UNCHANGED <<inotify, mEndpointList, pulled>>
     \/ /\ ~mMonitorCreated
        /\ Cleanup(t)
  /\ UNCHANGED <<kernel, ready, props, mMonitorCreated, mCurrentUsbFunctions,
                 mCurrentUsbFunctionsApplied, gadgetPullup, locks, req, status,
                 mon, replies>>

StopMonitor(t) ==
  /\ pc[t] = "stop"
  /\ \/ /\ mMonitorCreated
        /\ eventFd' = TRUE
        /\ Goto(t, "join")
        /\ UNCHANGED <<watch, events, mEndpointList, pulled>>
     \/ /\ ~mMonitorCreated
        /\ Cleanup(t)
  /\ UNCHANGED <<kernel, ready, props, mMonitorCreated, mCurrentUsbFunctions,
                 mCurrentUsbFunctionsApplied, gadgetPullup, locks, req, status,
                 mon, replies>>

\* Mutant: the monitor is told to stop and not joined.
JoinNot(t) ==
  /\ pc[t] = "join"
  /\ mMonitorCreated' = FALSE
  /\ Cleanup(t)
  /\ UNCHANGED <<kernel, ready, props, mCurrentUsbFunctions,
                 mCurrentUsbFunctionsApplied, gadgetPullup, locks, req, status,
                 mon, replies>>

\* join returns when the monitor has returned.
Join(t) ==
  /\ pc[t] = "join"
  /\ mon.pc = "exited"
  /\ mon' = [mon EXCEPT !.pc = "none"]
  /\ mMonitorCreated' = FALSE
  /\ Cleanup(t)
  /\ UNCHANGED <<kernel, ready, props, mCurrentUsbFunctions,
                 mCurrentUsbFunctionsApplied, gadgetPullup, locks, req, status,
                 replies>>

(***************************************************************************)
(* After the disconnect wait: NONE is done, anything else is validated.    *)
(***************************************************************************)
Return(t) == /\ Goto(t, "idle")
             /\ mLockSetCurrentFunction' = NoThread
             /\ status' = [status EXCEPT ![t] = "SUCCESS"]

\* The callback, when the caller gave one.
Callback(t, s) ==
  replies' = IF req[t].callback THEN [replies EXCEPT ![t] = Append(@, s)] ELSE replies

FinishNone(t) ==
  /\ pc[t] = "sleep"
  /\ req[t].functions = {}
  /\ Callback(t, "SUCCESS")
  /\ Return(t)
  /\ UNCHANGED <<kernel, inotify, ready, props, fields, mLock, req, mon, pulled>>

\* idVendor is written first; a failure leaves idProduct as it was.
ValidateAndSetVidPid(t) ==
  LET f == req[t].functions
      v == getVendorFunctions(props)
  IN  /\ pc[t] = "sleep"
      /\ f # {}
      /\ props' = PropsAfter(props)
      /\ \/ /\ ~Supported(f, v)
            /\ Fail(t, "CONFIGURATION_NOT_SUPPORTED")
            /\ UNCHANGED ids
         \/ /\ Supported(f, v)
            /\ ids' = VidPid(f, v)
            /\ Goto(t, "setup")
            /\ UNCHANGED status
         \/ /\ Supported(f, v)
            /\ "ids" \in Faults
            /\ ids' \in {ids, <<VidPid(f, v)[1], ids[2]>>}
            /\ Fail(t, "ERROR")
      /\ UNCHANGED <<bound, links, osDesc, inotify, ready, fields, locks, req,
                     mon, replies, pulled>>

(***************************************************************************)
(* setupFunctions, which holds mLock.  The vendor configuration is read    *)
(* a second time.  A failure returns after some of the links, and after    *)
(* all of them when the event descriptors cannot be created; the inotify   *)
(* descriptor is then still local and is closed.                           *)
(***************************************************************************)
SetupFunctions(t) ==
  LET f     == req[t].functions
      order == LinkOrder(f, getVendorFunctions(props))
      ffs   == EndpointOrder(f)
  IN  /\ pc[t] = "setup"
      /\ mLock = NoThread
      /\ props' = PropsAfter(props)
      /\ \/ /\ links' = Names(order)
            /\ osDesc' = (osDesc \/ ffs # <<>>)
            /\ mEndpointList' = ffs
            /\ watch' = Names(ffs)
            /\ mLock' = t
            /\ Goto(t, IF ffs = <<>> THEN "pullnow" ELSE "spawn")
            /\ UNCHANGED status
         \/ /\ "link" \in Faults
            /\ \E k \in 0..Len(order), j \in 0..Len(ffs) :
                 /\ k < Len(order) \/ ffs # <<>>
                 /\ links' = Names(SubSeq(order, 1, k))
                 /\ mEndpointList' = SubSeq(ffs, 1, j)
                 /\ links' \cap FfsLink = Names(mEndpointList')
                 /\ \/ osDesc' = TRUE /\ (j = 0 => order[k + 1] \in FfsLink)
                    \/ osDesc' = osDesc /\ j = 0
            /\ Fail(t, "ERROR")
            /\ UNCHANGED <<watch, mLock>>
      /\ UNCHANGED <<bound, ids, ready, events, eventFd, mMonitorCreated,
                     mCurrentUsbFunctions, mCurrentUsbFunctionsApplied,
                     gadgetPullup, mLockSetCurrentFunction, req, mon, replies,
                     pulled>>

\* No functionfs function: pull up right away.
PullUpNow(t) ==
  /\ pc[t] = "pullnow"
  /\ \/ /\ PullUp
        /\ mCurrentUsbFunctionsApplied' = TRUE
        /\ status' = [status EXCEPT ![t] = "SUCCESS"]
        /\ Goto(t, "reply")
        /\ UNCHANGED mLock
     \/ /\ PullUpFails
        /\ mLock' = NoThread
        /\ Fail(t, "ERROR")
        /\ UNCHANGED mCurrentUsbFunctionsApplied
  /\ UNCHANGED <<links, ids, osDesc, inotify, ready, props, mMonitorCreated,
                 mEndpointList, mCurrentUsbFunctions, gadgetPullup,
                 mLockSetCurrentFunction, req, mon, replies>>

\* Mutant: gadgetPullup keeps its value from the request before.
SpawnMonitorStaleFlag(t) ==
  /\ pc[t] = "spawn"
  /\ mMonitorCreated' = TRUE
  /\ mon' = [pc |-> "scan0", i |-> 1, batch |-> 0, writeUdc |-> TRUE]
  /\ mLock' = NoThread
  /\ \/ /\ req[t].callback
        /\ Goto(t, "wait")
        /\ UNCHANGED <<mLockSetCurrentFunction, status>>
     \/ /\ ~req[t].callback
        /\ Return(t)
  /\ UNCHANGED <<kernel, inotify, ready, props, mEndpointList, gadgetPullup,
                 mCurrentUsbFunctions, mCurrentUsbFunctionsApplied, req, replies,
                 pulled>>

\* A functionfs function: start the monitor; without a callback nobody waits.
SpawnMonitor(t) ==
  /\ pc[t] = "spawn"
  /\ gadgetPullup' = FALSE
  /\ mMonitorCreated' = TRUE
  /\ mon' = [pc |-> "scan0", i |-> 1, batch |-> 0, writeUdc |-> TRUE]
  /\ mLock' = NoThread
  /\ \/ /\ req[t].callback
        /\ Goto(t, "wait")
        /\ UNCHANGED <<mLockSetCurrentFunction, status>>
     \/ /\ ~req[t].callback
        /\ Return(t)
  /\ UNCHANGED <<kernel, inotify, ready, props, mEndpointList,
                 mCurrentUsbFunctions, mCurrentUsbFunctionsApplied, req, replies,
                 pulled>>

\* mCv.wait_for returns, with mLock, when gadgetPullup is set or the time is up.
WaitReturns(t) ==
  /\ pc[t] = "wait"
  /\ mLock = NoThread
  /\ mLock' = t
  /\ status' = [status EXCEPT ![t] = IF gadgetPullup THEN "SUCCESS" ELSE "ERROR"]
  /\ Goto(t, "reply")
  /\ UNCHANGED <<kernel, inotify, ready, props, fields, mLockSetCurrentFunction,
                 req, mon, replies, pulled>>

\* Mutant: after a timeout setupFunctions returns the ERROR it has reported.
ReplyThenError(t) ==
  /\ pc[t] = "reply"
  /\ Callback(t, status[t])
  /\ mLock' = NoThread
  /\ \/ status[t] = "SUCCESS" /\ Return(t)
     \/ status[t] # "SUCCESS" /\ Fail(t, status[t]) /\ UNCHANGED mLockSetCurrentFunction
  /\ UNCHANGED <<kernel, inotify, ready, props, fields, req, mon, pulled>>

\* setupFunctions calls back and returns SUCCESS, whatever it reported.
Reply(t) ==
  /\ pc[t] = "reply"
  /\ Callback(t, status[t])
  /\ mLock' = NoThread
  /\ Return(t)
  /\ UNCHANGED <<kernel, inotify, ready, props, fields, req, mon, pulled>>

\* The error label of setCurrentUsbFunctions.
ReplyError(t) ==
  /\ pc[t] = "error"
  /\ Callback(t, status[t])
  /\ Return(t)
  /\ UNCHANGED <<kernel, inotify, ready, props, fields, mLock, req, mon, pulled>>

\* reset pulls the gadget down, on any free binder thread and with no lock.
Reset(t) ==
  /\ "reset" \in Faults
  /\ pc[t] = "idle"
  /\ bound
  /\ bound' = FALSE
  /\ UNCHANGED <<links, ids, osDesc, inotify, ready, props, fields, locks, pc,
                 req, status, mon, replies, pulled>>

Binder(t) ==
  \/ Lock(t) \/ ClearApplied(t) \/ PullDown(t) \/ ClearAttributes(t)
  \/ Unlink(t) \/ StopMonitor(t) \/ Join(t) \/ FinishNone(t)
  \/ ValidateAndSetVidPid(t) \/ SetupFunctions(t) \/ PullUpNow(t)
  \/ SpawnMonitor(t) \/ WaitReturns(t) \/ Reply(t) \/ ReplyError(t)

-----------------------------------------------------------------------------
(***************************************************************************)
(* monitorFfs.  mon.i is the next entry of mEndpointList to look for,      *)
(* mon.batch the number of events read and not yet handled.                *)
(***************************************************************************)
MonVars == <<links, ids, osDesc, ready, watch, props, mMonitorCreated,
             mEndpointList, mCurrentUsbFunctions, locks, pc, req, status, replies>>

\* All endpoints found; or the one looked for is absent.
AllPresent == mon.i > Len(mEndpointList)
Absent == ~AllPresent /\ mEndpointList[mon.i] \notin ready

\* Mutant: the loop over the events read runs past an empty buffer.
NextEventRunsOver == IF mon.batch # 1
                       THEN [mon EXCEPT !.pc = "scan", !.i = 1, !.batch = @ - 1]
                       ELSE [mon EXCEPT !.pc = "epoll", !.i = 1, !.batch = 0]

\* The monitor with the current event handled.
NextEvent == IF mon.batch > 1
               THEN [mon EXCEPT !.pc = "scan", !.i = 1, !.batch = @ - 1]
               ELSE [mon EXCEPT !.pc = "epoll", !.i = 1, !.batch = 0]

\* access() on the next endpoint, before the loop and for every event.  An
\* absent endpoint makes the next appearance of them all a reason to pull up.
ScanFound ==
  /\ mon.pc \in {"scan0", "scan"}
  /\ ~AllPresent /\ ~Absent
  /\ mon' = [mon EXCEPT !.i = @ + 1]

ScanAbsent ==
  /\ mon.pc \in {"scan0", "scan"}
  /\ Absent
  /\ mon' = [NextEvent EXCEPT !.writeUdc = TRUE]

\* Mutant: endpoints present before the loop are not a reason to pull up.
ScanCompleteOnlyEvents ==
  /\ mon.pc \in {"scan0", "scan"}
  /\ AllPresent
  /\ mon' = IF mon.pc = "scan" /\ mon.writeUdc
              THEN [mon EXCEPT !.pc = "pullup"] ELSE NextEvent

ScanComplete ==
  /\ mon.pc \in {"scan0", "scan"}
  /\ AllPresent
  /\ mon' = CASE mon.pc = "scan0"                -> [mon EXCEPT !.pc = "pullup0"]
              [] mon.pc = "scan" /\ mon.writeUdc  -> [mon EXCEPT !.pc = "pullup"]
              [] mon.pc = "scan" /\ ~mon.writeUdc -> NextEvent

MonScan ==
  /\ ScanFound \/ ScanAbsent \/ ScanComplete
  /\ UNCHANGED <<MonVars, bound, events, eventFd, mCurrentUsbFunctionsApplied,
                 gadgetPullup, pulled>>

\* The write to UDC; it is made without mLock.
MonPullUp ==
  /\ mon.pc \in {"pullup0", "pullup"}
  /\ \/ /\ PullUp
        /\ mon' = [mon EXCEPT !.pc = IF @ = "pullup0" THEN "set0" ELSE "set"]
     \/ /\ PullUpFails
        /\ mon' = NextEvent
  /\ UNCHANGED <<MonVars, events, eventFd, mCurrentUsbFunctionsApplied, gadgetPullup>>

\* Under mLock: record and announce the pull-up.  The pull-up before the loop
\* leaves writeUdc set.
MonSet ==
  /\ mon.pc \in {"set0", "set"}
  /\ mLock = NoThread
  /\ mCurrentUsbFunctionsApplied' = TRUE
  /\ gadgetPullup' = TRUE
  /\ mon' = [NextEvent EXCEPT !.writeUdc = (mon.pc = "set0")]
  /\ UNCHANGED <<MonVars, bound, events, eventFd, pulled>>

\* epoll_wait reports the inotify descriptor: read every queued event.
MonRead ==
  /\ mon.pc = "epoll"
  /\ events > 0
  /\ mon' = [mon EXCEPT !.pc = "scan", !.i = 1, !.batch = events]
  /\ events' = 0
  /\ UNCHANGED <<MonVars, bound, eventFd, mCurrentUsbFunctionsApplied,
                 gadgetPullup, pulled>>

\* epoll_wait reports the event descriptor: the flag is 100, return.
MonStop ==
  /\ mon.pc = "epoll"
  /\ eventFd
  /\ eventFd' = FALSE
  /\ mon' = [mon EXCEPT !.pc = "exited"]
  /\ UNCHANGED <<MonVars, bound, events, mCurrentUsbFunctionsApplied,
                 gadgetPullup, pulled>>

Monitor == MonScan \/ MonPullUp \/ MonSet \/ MonRead \/ MonStop

-----------------------------------------------------------------------------
(***************************************************************************)
(* The environment.                                                        *)
(***************************************************************************)
EnvVars == <<links, ids, osDesc, watch, eventFd, fields, locks, pc, req, status,
             mon, replies, pulled>>

\* A daemon writes its descriptors: the endpoint files appear.
EndpointsUp(f) ==
  /\ f \notin ready
  /\ ready' = ready \cup {f}
  /\ Notify(f)
  /\ UNCHANGED <<EnvVars, bound, props>>

\* A daemon dies: its endpoints go, and a gadget that uses them is unbound.
EndpointsDown(f) ==
  /\ "daemonDeath" \in Faults
  /\ f \in ready
  /\ ready' = ready \ {f}
  /\ bound' = (bound /\ f \notin links)
  /\ Notify(f)
  /\ UNCHANGED <<EnvVars, props>>

\* Any other access to a watched directory (IN_ALL_EVENTS).
Touch(f) ==
  /\ f \in watch
  /\ events < MaxEvents
  /\ Notify(f)
  /\ UNCHANGED <<EnvVars, bound, ready, props>>

SetVendorConfig ==
  /\ "setprop" \in Faults
  /\ \E v \in VendorProps : props' = [props EXCEPT !.vendor = v]
  /\ UNCHANGED <<EnvVars, bound, ready, events>>

Environment == \/ \E f \in Daemons : EndpointsUp(f) \/ EndpointsDown(f) \/ Touch(f)
               \/ SetVendorConfig

-----------------------------------------------------------------------------
\* The constructor leaves mCurrentUsbFunctions uninitialised; at boot init has
\* written idVendor, linked nothing and not pulled the gadget up.
Init ==
  /\ bound = FALSE
  /\ links = {}
  /\ ids = <<"18d1", "none">>
  /\ osDesc = FALSE
  /\ ready = {}
  /\ watch = {}
  /\ events = 0
  /\ eventFd = FALSE
  /\ props = InitProps
  /\ mLock = NoThread
  /\ mLockSetCurrentFunction = NoThread
  /\ mMonitorCreated = FALSE
  /\ mEndpointList = <<>>
  /\ mCurrentUsbFunctions \in Requests
  /\ mCurrentUsbFunctionsApplied = FALSE
  /\ gadgetPullup = FALSE
  /\ pc = [t \in Threads |-> "idle"]
  /\ req = [t \in Threads |-> [functions |-> {}, callback |-> FALSE]]
  /\ status = [t \in Threads |-> "SUCCESS"]
  /\ mon = [pc |-> "none", i |-> 1, batch |-> 0, writeUdc |-> TRUE]
  /\ replies = [t \in Threads |-> <<>>]
  /\ pulled = {}

Next == \/ \E t \in Threads : Call(t) \/ Binder(t) \/ Reset(t)
        \/ Monitor
        \/ Environment

Spec == Init /\ [][Next]_vars

(***************************************************************************)
(* Threads that can run do run; wait_for ends at the latest at its         *)
(* timeout.  epoll_wait reports the event descriptor on every call once it *)
(* is written, next to the inotify descriptor, so a stop is not passed     *)
(* over for ever: strong fairness.  Callers and daemons promise nothing.   *)
(***************************************************************************)
FairSpec == /\ Spec
            /\ \A t \in Threads : WF_vars(Binder(t))
            /\ WF_vars(Monitor)
            /\ SF_vars(MonStop)

-----------------------------------------------------------------------------
(***************************************************************************)
(* Properties                                                              *)
(***************************************************************************)

\* Type correctness of every variable.
TypeOK ==
  /\ bound \in BOOLEAN
  /\ links \subseteq Link
  /\ ids \in Vid \X (Pid \cup {"none"})
  /\ osDesc \in BOOLEAN
  /\ ready \subseteq FfsLink
  /\ watch \subseteq FfsLink
  /\ events \in 0..MaxEvents
  /\ eventFd \in BOOLEAN
  /\ props \in Props
  /\ mLock \in Threads \cup {NoThread}
  /\ mLockSetCurrentFunction \in Threads \cup {NoThread}
  /\ mMonitorCreated \in BOOLEAN
  /\ mEndpointList \in Seq(FfsLink)
  /\ mCurrentUsbFunctions \in Requests \cup {{}}
  /\ mCurrentUsbFunctionsApplied \in BOOLEAN
  /\ gadgetPullup \in BOOLEAN
  /\ pc \in [Threads -> Control]
  /\ req \in [Threads -> [functions : Requests \cup {{}}, callback : BOOLEAN]]
  /\ status \in [Threads -> Status]
  /\ mon \in MonState
  /\ replies \in [Threads -> Seq(Status)]
  /\ pulled \subseteq Link

\* How far the request that holds the lock has come.
Phase ==
  IF mLockSetCurrentFunction = NoThread THEN "none"
  ELSE CASE pc[mLockSetCurrentFunction] = "error" -> "end"
         [] pc[mLockSetCurrentFunction] \in
              {"sleep", "setup", "pullnow", "spawn", "wait", "reply"} -> "new"
         [] OTHER -> "old"

Contract == INSTANCE GadgetContract
              WITH NoOwner <- NoThread, Links <- Link, up <- bound, conf <- links,
                   owner <- mLockSetCurrentFunction, phase <- Phase

\* The HAL implements its contract: whatever monitors, daemons, reset and failing
\* writes do, what the host is shown changes only through a complete disconnect.
HostContract == Contract!Spec

\* The request that has finished its teardown and not yet pulled up.
Window(t) == pc[t] \in {"sleep", "setup", "pullnow", "spawn"}

\* From the disconnect wait ("leave the gadget pulled down to give time for
\* the host to sense disconnect") up to the request's own pull-up the gadget is
\* down, although the old monitor may pull it up at any time until it is joined
\* and a failed pull-down is ignored.
DisconnectWindow == \A t \in Threads : Window(t) => ~bound

\* The old monitor is joined before its std::thread object is replaced
\* (destroying a joinable thread would terminate the service) and before the
\* endpoint list and the descriptors it reads are changed.
MonitorJoined == \A t \in Threads : Window(t) => mon.pc = "none"

\* A request with a callback is answered exactly once, on every path: NONE,
\* failed teardown, rejected configuration, failed setup, timeout, success.
OneReply ==
  \A t \in Threads :
    Len(replies[t]) = IF pc[t] = "idle" /\ req[t].callback THEN 1 ELSE 0

\* SUCCESS is reported only after the gadget was pulled up, since this request's
\* teardown, with every function the request asked for: never on the strength
\* of an earlier request's pull-up.
SuccessIsPulledUp ==
  \A t \in Threads :
    pc[t] = "reply" /\ status[t] = "SUCCESS" =>
      /\ pulled = links
      /\ Names(LinkOrder(req[t].functions, <<>>)) \subseteq pulled

\* Between requests, a gadget the host can see has the links, the ids and the
\* OS descriptors of the functions getCurrentUsbFunctions reports.
BoundConfiguration ==
  LET f == mCurrentUsbFunctions
      v == getVendorFunctions(props)
  IN  bound /\ mLockSetCurrentFunction = NoThread =>
        /\ links = Names(LinkOrder(f, v))
        /\ ids \in VidPids(f, v)
        /\ osDesc = (EndpointOrder(f) # <<>>)

\* The ids that f is accepted with, and what may be linked for it, under any
\* vendor configuration.
AnyIds(f)   == UNION {VidPids(f, v) : v \in {<<>>} \cup {q.v : q \in QualcommIds}}
AnyLinks(f) == Names(LinkOrder(f, <<"diag", "serial_cdev", "rmnet_gsi">>))

\* Whatever a failed teardown or setup leaves behind, and the old monitor may
\* pull up again, is of one request: the gadget never has functions of one
\* request together with the ids of another.
IdsMatchLinks ==
  links # {} => \E f \in Requests : ids \in AnyIds(f) /\ links \subseteq AnyLinks(f)

\* What a connected host has enumerated, functions and ids, never changes under
\* it, although a failed pull-down is ignored and the monitor may pull up again
\* while a request tears the gadget down.
VisibleIsFixed == [][bound /\ bound' => UNCHANGED <<links, ids>>]_vars

\* The thread that a waits for: the owner of the lock it needs, or the monitor
\* it joins.  Nobody waits for NoThread.
WaitsFor(a) ==
  IF a = "monitor"
  THEN IF mon.pc \in {"set0", "set"} THEN mLock ELSE NoThread
  ELSE IF a \notin Threads THEN NoThread
  ELSE CASE pc[a] = "lock"            -> mLockSetCurrentFunction
         [] pc[a] \in {"setup", "wait"} -> mLock
         [] pc[a] = "join"            -> IF mon.pc = "exited" THEN NoThread ELSE "monitor"
         [] OTHER                     -> NoThread

\* Nobody waits for ever: threads that wait for one another end at one that does
\* not wait, the owner of a lock is on its way to release it, and a monitor that
\* is joined has returned or still has the stop flag to read.
NoCircularWait ==
  /\ \A a \in Threads \cup {"monitor"} : WaitsFor(WaitsFor(WaitsFor(a))) = NoThread
  /\ \A t \in Threads :
       /\ mLockSetCurrentFunction = t => pc[t] \notin {"idle", "lock"}
       /\ mLock = t => pc[t] \in {"pullnow", "spawn", "reply"}
       /\ pc[t] = "join" => mon.pc = "exited" \/ (mon.pc # "none" /\ eventFd)

\* Between requests, FUNCTIONS_APPLIED is reported only when the gadget has
\* been pulled up since the current functions were requested.
AppliedIsPulledUp ==
  /\ mCurrentUsbFunctionsApplied
  /\ mCurrentUsbFunctions # {}
  /\ mLockSetCurrentFunction = NoThread
  => pulled # {}

\* A request that holds the request lock returns.
RequestsFinish ==
  \A t \in Threads : pc[t] = "clear" ~> pc[t] = "idle"

\* Between requests, a monitored gadget whose daemons all have their
\* descriptors written.
ShouldBeUp == /\ mLockSetCurrentFunction = NoThread
              /\ mMonitorCreated
              /\ Names(mEndpointList) \subseteq ready

\* The monitor does not go to sleep on a gadget that should be up: whether the
\* endpoints appear before the watches, during a look at them or between two
\* events, the appearance of the last one is seen or still queued.
NoMissedEndpoints == ShouldBeUp /\ mon.pc = "epoll" /\ events = 0 => bound

\* The gadget does not stay down while its daemons are up: the monitor "pulls
\* up the gadget when descriptors are written", "also ... if the userspace
\* process dies and restarts".
DoesNotStayDown == []<>(ShouldBeUp => bound)
=============================================================================
