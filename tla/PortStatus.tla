------------------------------ MODULE PortStatus ------------------------------
(***************************************************************************)
(* What the callbacks of usb/Usb.cpp are told about the Type-C ports:      *)
(* getPortStatusHelper reads the ports' files one after the other while    *)
(* partners come, go and swap roles, on behalf of queryPortStatus and of   *)
(* the worker, and the result goes to a callback of either version, which  *)
(* setCallback may have replaced meanwhile.                                *)
(*                                                                         *)
(* The worker's life is the one of Usb with its signal handling and its    *)
(* faults left out; opening /sys/class/typec is taken to succeed.  Calls   *)
(* of setCallback do not overlap, calls of queryPortStatus do not either.  *)
(***************************************************************************)
EXTENDS Integers

CONSTANTS
  Ports,
  Connected,   \* the partners: records of what the files say
  Callbacks, Callbacks_1_1,   \* the callbacks, and those of version 1.1
  MaxUevents,  \* length at which the uevent queue takes no more
  None

Partner == [accessory : {"none", "analog_audio", "debug"}, power : {"source", "sink"},
            data : {"host", "device"}, pd : BOOLEAN]

ASSUME ConstantsAssumption ==
  /\ Connected \subseteq Partner
  /\ Callbacks_1_1 \subseteq Callbacks
  /\ MaxUevents \in Nat \ {0}
  /\ None \notin Callbacks \cup Ports \cup Partner \cup {"query", "worker"}

VARIABLES
  sysfs,      \* per port: its partner, or None
  uevents,    \* number of typec uevents in the worker's socket
  mCallback,  \* mCallback_1_0: a callback or None
  mLock,      \* None or its holder, "query" or "worker"
  query,      \* control of queryPortStatus
  cast,       \* its callback_V1_1
  worker,     \* control of the worker
  destroy,    \* setCallback(NULL) waits for the worker
  rd,         \* getPortStatusHelper, run by the holder of mLock
  \* History, read by the properties only
  told,       \* what the registered callback was told last; it is dropped when
              \* a read for that callback begins
  missed,     \* a change since then that no socket received
  crossed,    \* that was in the other version's form
  changed     \* a port has changed since rd began

vars == <<sysfs, uevents, mCallback, mLock, query, cast, worker, destroy, rd, told,
          missed, crossed, changed>>
hist == <<told, missed, crossed>>

castFrom(cb) == IF cb \in Callbacks_1_1 THEN cb ELSE None
Version(cb)  == IF cb # None THEN "1.1" ELSE "1.0"

\* The files of a port exist without a partner.
PowerRole(p) == IF sysfs[p] = None THEN "sink" ELSE sysfs[p].power
DataRole(p)  == IF sysfs[p] = None THEN "device" ELSE sysfs[p].data

\* An entry as hidl_vec::resize leaves it, and what the version fills in.
Blank == [name |-> FALSE, power |-> "none", data |-> "none", mode |-> "none",
          canData |-> FALSE, canPower |-> FALSE, supported |-> {}]

supportedModes(v) == IF v = "1.1" THEN {"ufp", "dfp"} ELSE {"dfp"}

Idle == [names |-> {}, left |-> {}, port |-> None, step |-> "idle", vec |-> None,
         version |-> "1.0"]

-----------------------------------------------------------------------------
(***************************************************************************)
(* getPortStatusHelper                                                     *)
(***************************************************************************)

\* getTypeCPortNamesHelper: the ports, and which have a partner.
Begin(v) ==
  /\ rd' = [names |-> {p \in Ports : sysfs[p] # None}, left |-> Ports,
            port |-> None, step |-> "next", vec |-> [p \in Ports |-> Blank],
            version |-> v]
  /\ changed' = FALSE

Supersede == told' = [status |-> "superseded"] /\ missed' = FALSE

Others == <<sysfs, uevents, mCallback, mLock, query, cast, worker, destroy, hist,
            changed>>

Fill(p, fields) == [rd.vec EXCEPT ![p] = fields]

\* An unconnected port has no roles; a connected one's files are read.  The
\* order is the one of an unordered map.
NextPort(p) ==
  /\ rd.step = "next" /\ p \in rd.left
  /\ LET named == [Blank EXCEPT !.name = TRUE] IN
     rd' = IF p \in rd.names
           THEN [rd EXCEPT !.left = @ \ {p}, !.port = p, !.step = "data",
                           !.vec = Fill(p, [named EXCEPT !.power = PowerRole(p)])]
           ELSE [rd EXCEPT !.left = @ \ {p},
                           !.vec = Fill(p, [named EXCEPT !.supported =
                                                supportedModes(rd.version)])]
  /\ UNCHANGED Others

ReadData ==
  /\ rd.step = "data"
  /\ rd' = [rd EXCEPT !.vec[rd.port].data = DataRole(rd.port), !.step = "accessory"]
  /\ UNCHANGED Others

\* Mutant: a failure to read the accessory is not an error.
ReadAccessoryIgnored ==
  /\ rd.step = "accessory"
  /\ LET s == sysfs[rd.port] IN
     rd' = CASE s = None -> [rd EXCEPT !.step = "canData"]
             [] s # None /\ s.accessory = "none" -> [rd EXCEPT !.step = "mode"]
             [] s # None /\ s.accessory # "none" ->
                  [rd EXCEPT !.vec[rd.port].mode = s.accessory, !.step = "canData"]
  /\ UNCHANGED Others

\* Mutant: the data role decides about the mode of an accessory too.
ReadAccessoryNone ==
  /\ rd.step = "accessory"
  /\ rd' = [rd EXCEPT !.step = IF sysfs[rd.port] = None THEN "error" ELSE "mode"]
  /\ UNCHANGED Others

\* getAccessoryConnected: the partner's file is gone with the partner.
ReadAccessory ==
  /\ rd.step = "accessory"
  /\ LET s == sysfs[rd.port] IN
     rd' = CASE s = None -> [rd EXCEPT !.step = "error"]
             [] s # None /\ s.accessory = "none" -> [rd EXCEPT !.step = "mode"]
             [] s # None /\ s.accessory # "none" ->
                  [rd EXCEPT !.vec[rd.port].mode = s.accessory, !.step = "canData"]
  /\ UNCHANGED Others

ReadMode ==
  /\ rd.step = "mode"
  /\ rd' = [rd EXCEPT !.vec[rd.port].mode =
                        IF DataRole(rd.port) = "host" THEN "dfp" ELSE "ufp",
                      !.step = "canData"]
  /\ UNCHANGED Others

\* A partner that is gone supports nothing.
canSwitchRoleHelper(p) == sysfs[p] # None /\ sysfs[p].pd

ReadCanChangeData ==
  /\ rd.step = "canData"
  /\ rd' = [rd EXCEPT !.vec[rd.port].canData = canSwitchRoleHelper(rd.port),
                      !.step = "canPower"]
  /\ UNCHANGED Others

ReadCanChangePower ==
  /\ rd.step = "canPower"
  /\ rd' = [rd EXCEPT !.vec[rd.port].canPower = canSwitchRoleHelper(rd.port),
                      !.vec[rd.port].supported = supportedModes(rd.version),
                      !.port = None, !.step = "next"]
  /\ UNCHANGED Others

Finished == rd.step = "error" \/ (rd.step = "next" /\ rd.left = {})

\* The reader tells callback cb in version v and lets mLock go.
Deliver(cb, v) ==
  /\ IF cb = mCallback
     THEN /\ told' = IF rd.step = "error" THEN [status |-> "error"]
                     ELSE [status |-> "success", version |-> v, vec |-> rd.vec]
          /\ crossed' = (mLock = "query" /\ v # Version(castFrom(cb)))
     ELSE UNCHANGED <<told, crossed>>
  /\ rd' = Idle
  /\ changed' = FALSE
  /\ mLock' = None
  /\ UNCHANGED missed

-----------------------------------------------------------------------------
(***************************************************************************)
(* queryPortStatus: the cast comes before the lock.                        *)
(***************************************************************************)
Target == IF cast # None THEN cast ELSE mCallback

QueryCast ==
  /\ query = "idle"
  /\ query' = "cast"
  /\ cast' = castFrom(mCallback)
  /\ UNCHANGED <<sysfs, uevents, mCallback, mLock, worker, destroy, rd, hist, changed>>

QueryRead ==
  /\ query = "cast"
  /\ mLock = None
  /\ \/ /\ mCallback # None
        /\ mLock' = "query"
        /\ query' = "read"
        /\ Begin(Version(cast))
        /\ IF Target = mCallback THEN Supersede ELSE UNCHANGED <<told, missed>>
        /\ UNCHANGED cast
     \/ /\ mCallback = None
        /\ query' = "idle"
        /\ cast' = None
        /\ UNCHANGED <<mLock, rd, told, missed, changed>>
  /\ UNCHANGED <<sysfs, uevents, mCallback, worker, destroy, crossed>>

QueryDeliver ==
  /\ mLock = "query" /\ Finished
  /\ Deliver(Target, Version(cast))
  /\ query' = "idle"
  /\ cast' = None
  /\ UNCHANGED <<sysfs, uevents, mCallback, worker, destroy>>

(***************************************************************************)
(* setCallback                                                             *)
(***************************************************************************)
ReplaceCallback ==
  /\ mLock = None /\ mCallback # None
  /\ mCallback' \in Callbacks
  /\ told' = [status |-> "none"]
  /\ crossed' = FALSE
  /\ UNCHANGED <<sysfs, uevents, mLock, query, cast, worker, destroy, rd, missed,
                 changed>>

\* It does not overlap the wait for the last worker.
RegisterCallback ==
  /\ mLock = None /\ mCallback = None /\ ~destroy
  /\ mCallback' \in Callbacks
  /\ worker' = "start"
  /\ UNCHANGED <<sysfs, uevents, mLock, query, cast, destroy, rd, hist, changed>>

ClearCallback ==
  /\ mLock = None /\ mCallback # None
  /\ mCallback' = None
  /\ destroy' = TRUE
  /\ told' = [status |-> "none"]
  /\ missed' = FALSE
  /\ crossed' = FALSE
  /\ UNCHANGED <<sysfs, uevents, mLock, query, cast, worker, rd, changed>>

(***************************************************************************)
(* The worker                                                              *)
(***************************************************************************)
OpenSocket ==
  /\ worker = "start"
  /\ worker' = "epoll"
  /\ UNCHANGED <<sysfs, uevents, mCallback, mLock, query, cast, destroy, rd, hist,
                 changed>>

\* Its socket takes the unread uevents along.
EndWorker ==
  /\ worker = "epoll" /\ destroy
  /\ worker' = "none"
  /\ uevents' = 0
  /\ destroy' = FALSE
  /\ UNCHANGED <<sysfs, mCallback, mLock, query, cast, rd, hist, changed>>

Receive ==
  /\ worker = "epoll" /\ uevents > 0
  /\ uevents' = uevents - 1
  /\ worker' = "notify"
  /\ UNCHANGED <<sysfs, mCallback, mLock, query, cast, destroy, rd, hist, changed>>

\* Mutant: while a query is under way the uevent is skipped.
NotifyTryLock ==
  /\ worker = "notify"
  /\ \/ /\ mLock = None /\ mCallback # None
        /\ mLock' = "worker"
        /\ worker' = "read"
        /\ Begin(Version(castFrom(mCallback)))
        /\ Supersede
     \/ /\ mLock # None \/ mCallback = None
        /\ worker' = "epoll"
        /\ UNCHANGED <<mLock, rd, told, missed, changed>>
  /\ UNCHANGED <<sysfs, uevents, mCallback, query, cast, destroy, crossed>>

\* The cast is made under the lock.
Notify ==
  /\ worker = "notify"
  /\ mLock = None
  /\ \/ /\ mCallback # None
        /\ mLock' = "worker"
        /\ worker' = "read"
        /\ Begin(Version(castFrom(mCallback)))
        /\ Supersede
     \/ /\ mCallback = None
        /\ worker' = "epoll"
        /\ UNCHANGED <<mLock, rd, told, missed, changed>>
  /\ UNCHANGED <<sysfs, uevents, mCallback, query, cast, destroy, crossed>>

WorkerDeliver ==
  /\ mLock = "worker" /\ Finished
  /\ Deliver(mCallback, Version(castFrom(mCallback)))
  /\ worker' = "epoll"
  /\ UNCHANGED <<sysfs, uevents, mCallback, query, cast, destroy>>

(***************************************************************************)
(* A partner comes, goes or swaps roles; the accessory mode stays.         *)
(***************************************************************************)
Change(p) ==
  /\ \E s \in (Connected \cup {None}) \ {sysfs[p]} :
       /\ None \notin {s, sysfs[p]} => s.accessory = sysfs[p].accessory
       /\ sysfs' = [sysfs EXCEPT ![p] = s]
  /\ \/ /\ worker \notin {"none", "start"}
        /\ uevents < MaxUevents
        /\ uevents' = uevents + 1
        /\ UNCHANGED missed
     \/ /\ worker \in {"none", "start"}
        /\ missed' = (mCallback # None)
        /\ UNCHANGED uevents
  /\ changed' = (mLock # None)
  /\ UNCHANGED <<mCallback, mLock, query, cast, worker, destroy, rd, told, crossed>>

-----------------------------------------------------------------------------
Init ==
  /\ sysfs = [p \in Ports |-> None]
  /\ uevents = 0
  /\ mCallback = None
  /\ mLock = None
  /\ query = "idle"
  /\ cast = None
  /\ worker = "none"
  /\ destroy = FALSE
  /\ rd = Idle
  /\ told = [status |-> "none"]
  /\ missed = FALSE /\ crossed = FALSE /\ changed = FALSE

Read == \/ \E p \in Ports : NextPort(p)
        \/ ReadData \/ ReadAccessory \/ ReadMode \/ ReadCanChangeData
        \/ ReadCanChangePower

Worker == OpenSocket \/ EndWorker \/ Receive \/ Notify \/ WorkerDeliver

Next == \/ Read \/ Worker
        \/ QueryCast \/ QueryRead \/ QueryDeliver
        \/ ReplaceCallback \/ RegisterCallback \/ ClearCallback
        \/ \E p \in Ports : Change(p)

Spec == Init /\ [][Next]_vars

-----------------------------------------------------------------------------
(***************************************************************************)
(* Properties                                                              *)
(***************************************************************************)
Entry == [name : BOOLEAN, power : {"none", "source", "sink"},
          data : {"none", "host", "device"},
          mode : {"none", "ufp", "dfp", "analog_audio", "debug"},
          canData : BOOLEAN, canPower : BOOLEAN,
          supported : {{}, {"dfp"}, {"ufp", "dfp"}}]

\* Type correctness; only the holder of mLock reads.
TypeOK ==
  /\ sysfs \in [Ports -> Connected \cup {None}]
  /\ uevents \in 0..MaxUevents
  /\ mCallback \in Callbacks \cup {None}
  /\ mLock \in {None, "query", "worker"}
  /\ query \in {"idle", "cast", "read"} /\ (query = "read" <=> mLock = "query")
  /\ cast \in Callbacks_1_1 \cup {None}
  /\ worker \in {"none", "start", "epoll", "notify", "read"}
  /\ worker = "read" <=> mLock = "worker"
  /\ {destroy, missed, crossed, changed} \subseteq BOOLEAN
  /\ mLock = None <=> rd = Idle
  /\ mLock # None => \A p \in Ports : rd.vec[p] \in Entry

\* What the files say of a port, for comparison.
Expected(p, v) ==
  LET s == sysfs[p] IN
  IF s = None
  THEN [Blank EXCEPT !.name = TRUE, !.supported = supportedModes(v)]
  ELSE [name |-> TRUE, power |-> s.power, data |-> s.data,
        mode |-> IF s.accessory # "none" THEN s.accessory
                 ELSE IF s.data = "host" THEN "dfp" ELSE "ufp",
        canData |-> s.pd, canPower |-> s.pd, supported |-> supportedModes(v)]

Current(v) == [p \in Ports |-> Expected(p, v)]

\* When the worker has handled every uevent and nobody reads, what the callback
\* was told last is a success and describes every port as it is, in the form of
\* the callback's version: no read that an unplugged partner has spoilt, and no
\* older status, is the last word.  Excepted are changes before the worker had
\* its socket, and a status that a query cast for an earlier callback.
SettledStatus ==
  /\ mCallback # None /\ told.status # "none" /\ ~missed /\ ~crossed
  /\ worker = "epoll" /\ uevents = 0 /\ mLock = None
  => /\ told.status = "success"
     /\ told.vec = Current(told.version)
     /\ told.version = Version(castFrom(mCallback))

\* A read during which no port changes succeeds and is exact: an error is only
\* ever the trace of a partner that left.
QuietReadIsExact ==
  mLock # None /\ Finished /\ ~changed =>
    rd.step # "error" /\ rd.vec = Current(rd.version)

\* A successful status describes no port as half connected, whatever changes
\* while it is read: a port has all three roles or none, and no role can be
\* changed without a partner.
NeverHalfConnected ==
  mLock # None /\ Finished /\ rd.step # "error" =>
    \A p \in Ports : LET e == rd.vec[p] IN
      /\ e.name
      /\ e.power = "none" <=> e.data = "none"
      /\ e.power = "none" <=> e.mode = "none"
      /\ e.canData \/ e.canPower => e.power # "none"
===============================================================================
