------------------------------- MODULE ModemLog -------------------------------
(***************************************************************************)
(* The modem logs in a bug report: dumpModem and dumpDiagLogs of           *)
(* dumpstate/DumpstateDevice.cpp stop the logger diag_mdlog, copy its      *)
(* newest files, start it again and send an archive, while init carries    *)
(* out the property triggers of init.hardware.diag.rc.userdebug and        *)
(* diag_mdlog, a vendor binary, starts and stops at its own pace.          *)
(*                                                                         *)
(* The service has one thread and exits after each dump; it may be killed  *)
(* at any point.  The builds are those with logging, with a place for the  *)
(* logs set.  The other sections of the bug report change nothing and are  *)
(* left out, and so are the radio logs copied next to diag_mdlog's.        *)
(***************************************************************************)
EXTENDS Integers, Sequences, FiniteSets, FiniteSetsExt

CONSTANTS
  MaxLog,       \* the files in diagLogDir are 1..MaxLog, in alphabetical order
  Foreign,      \* those whose names do not begin with diag_log_
  MaxFileNums,  \* values of persist.sys.modem.diag.mdlog_br_num
  Polls,        \* how often the status is looked at, 30 in the code
  MaxEvents     \* property events init is behind with, at most

ASSUME ConstantsAssumption ==
  /\ MaxLog \in Nat \ {0} /\ Polls \in Nat \ {0} /\ MaxEvents \in Nat \ {0}
  /\ Foreign \subseteq 1..MaxLog
  /\ MaxFileNums \subseteq Nat \cup {-1}

VARIABLES
  \* ro.radio.log_prefix is set; which logger is enabled; the number of files
  prefix, enabled, maxFileNum,
  \* init and diag_mdlog
  events,   \* values of sys.modem.diag.mdlog init has not acted upon
  mdlog,    \* the logger's process
  files,    \* in diagLogDir
  \* The dumpstate service
  pc, diagLogStarted, i, todo, copiedFiles,
  modemLogAllDir,  \* the logs copied so far
  \* History, read by the properties only
  wanted,   \* logging is switched on
  excused,  \* something has happened that may have lost the logging
  leftover, \* a killed dump, or one without an archive, has left its copies
  cpFailed  \* a copy of this dump has failed

config == <<prefix, enabled, maxFileNum>>
logger == <<events, mdlog, files>>
dump   == <<pc, diagLogStarted, i, todo, copiedFiles, modemLogAllDir>>
hist   == <<wanted, excused, leftover, cpFailed>>
vars   == <<config, logger, dump, hist>>

\* sys.modem.diag.mdlog_on, which diag_mdlog sets and clears itself.
mdlog_on == mdlog \in {"on", "stopping"}

SetProperty(v) == Len(events) < MaxEvents /\ events' = Append(events, v)

Settled == events = <<>> /\ mdlog \in {"on", "dead"}

-----------------------------------------------------------------------------
(***************************************************************************)
(* dumpModem                                                               *)
(***************************************************************************)
BeginDump ==
  /\ pc = "idle"
  /\ \/ /\ enabled = "diag"
        /\ diagLogStarted' = mdlog_on
        /\ excused' = (excused \/ ~Settled)
        /\ pc' = "stop"
     \/ /\ enabled = "other"   \* smlog_dump, or neither
        /\ pc' = "archive"
        /\ UNCHANGED <<diagLogStarted, excused>>
  /\ UNCHANGED <<config, logger, i, todo, copiedFiles, modemLogAllDir, wanted,
                 leftover, cpFailed>>

StopLogger ==
  /\ pc = "stop"
  /\ \/ diagLogStarted /\ SetProperty(FALSE)
     \/ ~diagLogStarted /\ UNCHANGED events
  /\ i' = 0
  /\ pc' = "wait"
  /\ UNCHANGED <<config, mdlog, files, diagLogStarted, todo, copiedFiles,
                 modemLogAllDir, hist>>

\* Mutant: one look at the status, and no wait.
PollOnce ==
  /\ pc = "wait"
  /\ pc' = "scan"
  /\ UNCHANGED <<config, logger, diagLogStarted, i, todo, copiedFiles,
                 modemLogAllDir, hist>>

\* One look at the status per second.
Poll ==
  /\ pc = "wait"
  /\ \/ /\ ~mdlog_on
        /\ pc' = "scan"
        /\ UNCHANGED <<i, excused>>
     \/ /\ mdlog_on /\ i + 1 < Polls
        /\ i' = i + 1
        /\ UNCHANGED <<pc, excused>>
     \/ /\ mdlog_on /\ i + 1 = Polls
        /\ pc' = "scan"
        /\ excused' = TRUE
        /\ UNCHANGED i
  /\ UNCHANGED <<config, logger, diagLogStarted, todo, copiedFiles, modemLogAllDir,
                 wanted, leftover, cpFailed>>

\* dumpDiagLogs
ScanDir ==
  /\ pc = "scan"
  /\ todo' = files
  /\ copiedFiles' = 0
  /\ pc' = "copy"
  /\ UNCHANGED <<config, logger, diagLogStarted, i, modemLogAllDir, hist>>

\* Mutant: the names are walked in ascending order.
CopyNextAscending ==
  /\ pc = "copy" /\ todo # {}
  /\ LET n == Min(todo) IN
     /\ todo' = todo \ {n}
     /\ \/ /\ n \in Foreign \/ (copiedFiles >= maxFileNum /\ maxFileNum # -1)
           /\ UNCHANGED <<copiedFiles, modemLogAllDir, cpFailed>>
        \/ /\ n \notin Foreign /\ ~(copiedFiles >= maxFileNum /\ maxFileNum # -1)
           /\ copiedFiles' = copiedFiles + 1
           /\ modemLogAllDir' = modemLogAllDir \cup {n}
           /\ UNCHANGED cpFailed
  /\ UNCHANGED <<config, logger, pc, diagLogStarted, i, wanted, excused, leftover>>

\* From the last name to the first.  A copy that fails is counted too.
CopyNext ==
  /\ pc = "copy" /\ todo # {}
  /\ LET n == Max(todo) IN
     /\ todo' = todo \ {n}
     /\ \/ /\ n \in Foreign \/ (copiedFiles >= maxFileNum /\ maxFileNum # -1)
           /\ UNCHANGED <<copiedFiles, modemLogAllDir, cpFailed>>
        \/ /\ n \notin Foreign /\ ~(copiedFiles >= maxFileNum /\ maxFileNum # -1)
           /\ copiedFiles' = copiedFiles + 1
           /\ \/ modemLogAllDir' = modemLogAllDir \cup {n} /\ UNCHANGED cpFailed
              \/ cpFailed' = TRUE /\ UNCHANGED modemLogAllDir
  /\ UNCHANGED <<config, logger, pc, diagLogStarted, i, wanted, excused, leftover>>

EndCopy ==
  /\ pc = "copy" /\ todo = {}
  /\ pc' = "restart"
  /\ UNCHANGED <<config, logger, diagLogStarted, i, todo, copiedFiles,
                 modemLogAllDir, hist>>

\* Mutant: the logger is started again only when it had stopped at once.
RestartLoggerSeen ==
  /\ pc = "restart"
  /\ \/ diagLogStarted /\ i = 0 /\ SetProperty(TRUE)
     \/ (~diagLogStarted \/ i # 0) /\ UNCHANGED events
  /\ pc' = "archive"
  /\ UNCHANGED <<config, mdlog, files, diagLogStarted, i, todo, copiedFiles,
                 modemLogAllDir, hist>>

RestartLogger ==
  /\ pc = "restart"
  /\ \/ diagLogStarted /\ SetProperty(TRUE)
     \/ ~diagLogStarted /\ UNCHANGED events
  /\ pc' = "archive"
  /\ UNCHANGED <<config, mdlog, files, diagLogStarted, i, todo, copiedFiles,
                 modemLogAllDir, hist>>

\* Archive, send and remove the copies, if the archive has a name; the service
\* exits.
Archive ==
  /\ pc = "archive"
  /\ modemLogAllDir' = IF prefix THEN {} ELSE modemLogAllDir
  /\ leftover' = ~prefix
  /\ pc' = "idle"
  /\ diagLogStarted' = FALSE /\ i' = 0 /\ copiedFiles' = 0
  /\ cpFailed' = FALSE
  /\ UNCHANGED <<config, logger, todo, wanted, excused>>

\* A client that gives up has the service killed.
Kill ==
  /\ pc # "idle"
  /\ pc' = "idle"
  /\ diagLogStarted' = FALSE /\ i' = 0 /\ copiedFiles' = 0 /\ todo' = {}
  /\ leftover' = TRUE
  /\ excused' = (excused \/ pc # "archive")
  /\ cpFailed' = FALSE
  /\ UNCHANGED <<config, logger, modemLogAllDir, wanted>>

Dump == \/ StopLogger \/ Poll \/ ScanDir \/ CopyNext \/ EndCopy \/ RestartLogger
        \/ Archive

-----------------------------------------------------------------------------
(***************************************************************************)
(* init and diag_mdlog                                                     *)
(***************************************************************************)

\* vendor.diag_mdlog_start: starting a service that runs does nothing.  A process
\* that has cleared its status may still be there.
TriggerStart ==
  /\ events # <<>> /\ Head(events)
  /\ events' = Tail(events)
  /\ mdlog' = IF mdlog = "dead" THEN "starting" ELSE mdlog
  /\ excused' = (excused \/ mdlog = "exiting")
  /\ UNCHANGED <<config, files, dump, wanted, leftover, cpFailed>>

\* vendor.diag_mdlog_stop: diag_mdlog -k
TriggerStop ==
  /\ events # <<>> /\ ~Head(events)
  /\ events' = Tail(events)
  /\ mdlog' = IF mdlog \in {"starting", "on"} THEN "stopping" ELSE mdlog
  /\ UNCHANGED <<config, files, dump, hist>>

LoggerStep ==
  /\ \/ mdlog = "starting" /\ mdlog' = "on"
     \/ mdlog = "stopping" /\ mdlog' = "exiting"
     \/ mdlog = "exiting" /\ mdlog' = "dead"
  /\ UNCHANGED <<config, events, files, dump, hist>>

WriteLog ==
  /\ mdlog_on
  /\ \E n \in (1..MaxLog) \ Foreign :
       /\ \A m \in files \ Foreign : m < n
       /\ files' = files \cup {n}
  /\ UNCHANGED <<config, events, mdlog, dump, hist>>

\* The user switches logging on or off.
Toggle ==
  /\ SetProperty(~wanted)
  /\ wanted' = ~wanted
  /\ excused' = ~(pc = "idle" /\ Settled)
  /\ UNCHANGED <<config, mdlog, files, dump, leftover, cpFailed>>

-----------------------------------------------------------------------------
Init ==
  /\ prefix \in BOOLEAN
  /\ enabled \in {"diag", "other"}
  /\ maxFileNum \in MaxFileNums
  /\ events = <<>>
  /\ mdlog = "dead"
  /\ files = Foreign
  /\ pc = "idle"
  /\ diagLogStarted = FALSE
  /\ i = 0
  /\ todo = {}
  /\ copiedFiles = 0
  /\ modemLogAllDir = {}
  /\ wanted = FALSE
  /\ excused = FALSE
  /\ leftover = FALSE
  /\ cpFailed = FALSE

Next == \/ BeginDump \/ Dump \/ Kill
        \/ TriggerStart \/ TriggerStop \/ LoggerStep \/ WriteLog \/ Toggle

Spec == Init /\ [][Next]_vars

(***************************************************************************)
(* The service, init and the logger keep running.                          *)
(***************************************************************************)
FairSpec == /\ Spec
            /\ WF_vars(Dump)
            /\ WF_vars(TriggerStart \/ TriggerStop)
            /\ WF_vars(LoggerStep)

-----------------------------------------------------------------------------
(***************************************************************************)
(* Properties                                                              *)
(***************************************************************************)

\* Type correctness; nothing that is not a log is copied.
TypeOK ==
  /\ {prefix, diagLogStarted, wanted, excused, leftover, cpFailed} \subseteq BOOLEAN
  /\ enabled \in {"diag", "other"} /\ maxFileNum \in MaxFileNums
  /\ events \in Seq(BOOLEAN) /\ Len(events) <= MaxEvents
  /\ mdlog \in {"dead", "starting", "on", "stopping", "exiting"}
  /\ files \subseteq 1..MaxLog /\ todo \subseteq files
  /\ pc \in {"idle", "stop", "wait", "scan", "copy", "restart", "archive"}
  /\ i \in 0..Polls - 1 /\ copiedFiles \in 0..MaxLog
  /\ modemLogAllDir \subseteq files \ Foreign

\* Once everything has settled after a dump, logging is on exactly if it is
\* switched on.  The ways to lose it: the service is killed before it restarts
\* the logger, the logger does not stop in time, or its process outlives its
\* status (the restart finds it running), or it is switched meanwhile.
LoggingRestored ==
  pc = "idle" /\ Settled /\ ~excused => (mdlog = "on") = wanted

\* The logs do not change while they are listed and copied.
QuietCopy ==
  [][diagLogStarted /\ pc \in {"scan", "copy"} /\ ~excused => files' = files]_vars

\* The newest maxFileNum logs, for comparison.
Newest(S) == IF maxFileNum = -1 THEN S
             ELSE {n \in S : Cardinality({m \in S : m > n}) < maxFileNum}

\* A dump that stopped the logger has copied its newest maxFileNum logs and
\* nothing else, unless a copy failed or an earlier dump left its copies behind.
NewestCopied ==
  pc = "restart" /\ diagLogStarted /\ ~excused /\ ~leftover /\ ~cpFailed =>
    modemLogAllDir = Newest(files \ Foreign)

\* Logging that a dump has stopped comes back.
LoggingComesBack ==
  pc = "wait" /\ diagLogStarted ~> mdlog = "on" \/ excused
===============================================================================
