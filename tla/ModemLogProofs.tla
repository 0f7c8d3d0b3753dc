---------------------------- MODULE ModemLogProofs ----------------------------
(***************************************************************************)
(* For any number of logs, any set of foreign files, any maxFileNum, any   *)
(* number of polls and any backlog of init: the type of ModemLog, that a   *)
(* dump leaves logging as it is switched, that the logs stand still while  *)
(* they are copied, and that the newest ones are those copied.             *)
(***************************************************************************)
EXTENDS ModemLog, FiniteSetTheorems, TLAPS

-----------------------------------------------------------------------------
(***************************************************************************)
(* The inductive invariants                                                *)
(***************************************************************************)

\* TypeOK one variable at a time; what CopyNext has counted and what it still has
\* to look at are no more than the files there can be.
Typed ==
  /\ prefix \in BOOLEAN /\ diagLogStarted \in BOOLEAN
  /\ wanted \in BOOLEAN /\ excused \in BOOLEAN
  /\ leftover \in BOOLEAN /\ cpFailed \in BOOLEAN
  /\ enabled \in {"diag", "other"} /\ maxFileNum \in MaxFileNums
  /\ events \in Seq(BOOLEAN) /\ Len(events) <= MaxEvents
  /\ mdlog \in {"dead", "starting", "on", "stopping", "exiting"}
  /\ files \subseteq 1..MaxLog /\ todo \subseteq files
  /\ pc \in {"idle", "stop", "wait", "scan", "copy", "restart", "archive"}
  /\ i \in 0..Polls - 1
  /\ copiedFiles \in Nat /\ copiedFiles + Cardinality(todo) <= MaxLog
  /\ modemLogAllDir \subseteq files \ Foreign

\* The logger is, or init will bring it, where it is wanted.
Resting ==
  \/ events = <<>> /\ (wanted <=> mdlog \in {"starting", "on"})
  \/ events = <<wanted>> /\ mdlog \in {"on", "exiting", "dead"}

\* What a dump that stops the logger finds at each of its steps: it is stopped
\* once it has been seen off, and stays so until the dump starts it again.
LoggerInv ==
  /\ diagLogStarted => pc # "idle"
  /\ ~excused /\ ~diagLogStarted => Resting
  /\ ~excused /\ diagLogStarted =>
       /\ wanted
       /\ pc = "stop" => events = <<>> /\ mdlog = "on"
       /\ pc = "wait" => \/ events = <<FALSE>> /\ mdlog = "on"
                         \/ events = <<>> /\ mdlog \in {"stopping", "exiting", "dead"}
       /\ pc \in {"scan", "copy", "restart"} =>
            events = <<>> /\ mdlog \in {"exiting", "dead"}
       /\ pc = "archive" => Resting

\* This dump is one that NewestCopied speaks of.
Undisturbed == diagLogStarted /\ ~excused /\ ~leftover /\ ~cpFailed

Seen == (files \ Foreign) \ todo

\* CopyNext walks the files from the last to the first: those it has seen are
\* later than those to come, it has copied the newest of them, and it has counted
\* them up to maxFileNum.
CopyInv ==
  /\ pc \in {"idle", "stop", "wait", "scan"} /\ ~leftover => modemLogAllDir = {}
  /\ pc = "copy" /\ Undisturbed =>
       /\ \A m \in files \ todo, n \in todo : n < m
       /\ modemLogAllDir = Newest(files \ Foreign) \ todo
       /\ copiedFiles = IF maxFileNum = -1 \/ Cardinality(Seen) < maxFileNum
                        THEN Cardinality(Seen) ELSE maxFileNum
  /\ pc = "restart" /\ Undisturbed => modemLogAllDir = Newest(files \ Foreign)

-----------------------------------------------------------------------------
(***************************************************************************)
(* Sets of files                                                           *)
(***************************************************************************)

\* The files are finitely many, and so is every set of them.
LEMMA FilesFinite ==
  ASSUME NEW S, S \subseteq 1..MaxLog
  PROVE  IsFiniteSet(S) /\ Cardinality(S) \in Nat /\ Cardinality(S) <= MaxLog
<1>1. IsFiniteSet(1..MaxLog) /\ Cardinality(1..MaxLog) = MaxLog
  BY FS_Interval, ConstantsAssumption
<1>2. IsFiniteSet(S) /\ Cardinality(S) <= MaxLog
  BY <1>1, FS_Subset, Zenon
<1>3. Cardinality(S) \in Nat
  BY <1>2, FS_CardinalityType
<1> QED
  BY <1>2, <1>3

\* A set of files that is not empty has a last one, which Max chooses.
LEMMA LastFile ==
  ASSUME NEW S, S \subseteq 1..MaxLog, S # {}
  PROVE  Max(S) \in S /\ \A n \in S : n <= Max(S)
<1> DEFINE T == {MaxLog - n : n \in S}
           R == OpToRel(<, Nat)
<1>1. T \subseteq Nat /\ T # {}
  <2>1. \A n \in S : n \in 1..MaxLog /\ MaxLog - n \in Nat
    BY ConstantsAssumption
  <2>2. T \subseteq Nat
    BY <2>1
  <2>3. T # {}
    OBVIOUS
  <2> QED
    BY <2>2, <2>3
<1>2. PICK x \in T : \A y \in T : ~(<<y, x>> \in R)
  <2> HIDE DEF T, R
  <2>1. IsWellFoundedOn(R, Nat)
    BY NatLessThanWellFounded DEF R
  <2> QED
    BY <1>1, <2>1, WFMin
<1>3. \A y \in T : x <= y
  <2> SUFFICES ASSUME NEW y \in T PROVE x <= y
    OBVIOUS
  <2> HIDE DEF T
  <2>1. x \in Nat /\ y \in Nat
    BY <1>1
  <2>2. ~(y < x)
    BY <1>2, <2>1 DEF OpToRel
  <2> QED
    BY <2>1, <2>2
<1>4. PICK n \in S : x = MaxLog - n
  OBVIOUS
<1>5. \A m \in S : n >= m
  <2> SUFFICES ASSUME NEW m \in S PROVE n >= m
    OBVIOUS
  <2>1. MaxLog - m \in T
    OBVIOUS
  <2>2. n \in Int /\ m \in Int /\ MaxLog \in Int
    BY ConstantsAssumption
  <2> HIDE DEF T
  <2>3. MaxLog - n <= MaxLog - m
    BY <1>3, <1>4, <2>1
  <2> QED
    BY <2>2, <2>3
<1>6. \A y \in S : Max(S) >= y
  BY <1>5 DEF Max
<1>7. Max(S) \in S
  BY <1>5 DEF Max
<1> QED
  BY <1>6, <1>7

-----------------------------------------------------------------------------
(***************************************************************************)
(* Type correctness                                                        *)
(***************************************************************************)

\* The types in two parts: the flags, and the rest.
TypedFlags ==
  /\ prefix \in BOOLEAN /\ diagLogStarted \in BOOLEAN
  /\ wanted \in BOOLEAN /\ excused \in BOOLEAN
  /\ leftover \in BOOLEAN /\ cpFailed \in BOOLEAN
TypedRest ==
  /\ enabled \in {"diag", "other"} /\ maxFileNum \in MaxFileNums
  /\ events \in Seq(BOOLEAN) /\ Len(events) <= MaxEvents
  /\ mdlog \in {"dead", "starting", "on", "stopping", "exiting"}
  /\ files \subseteq 1..MaxLog /\ todo \subseteq files
  /\ pc \in {"idle", "stop", "wait", "scan", "copy", "restart", "archive"}
  /\ i \in 0..Polls - 1
  /\ copiedFiles \in Nat /\ copiedFiles + Cardinality(todo) <= MaxLog
  /\ modemLogAllDir \subseteq files \ Foreign

\* The two parts are the whole, before a step and after it.
LEMMA TypedParts ==
  /\ Typed <=> TypedFlags /\ TypedRest
  /\ Typed' <=> TypedFlags' /\ TypedRest'
BY DEF Typed, TypedFlags, TypedRest

\* CopyNext takes the last file off its list, and counts no more files than it
\* has taken off.
LEMMA CopyNextTyped ==
  ASSUME Typed, CopyNext
  PROVE  /\ Max(todo) \in todo /\ todo' = todo \ {Max(todo)}
         /\ copiedFiles' \in Nat /\ copiedFiles' + Cardinality(todo') <= MaxLog
<1>1. todo \subseteq 1..MaxLog /\ todo # {}
  BY DEF Typed, CopyNext
<1>2. Max(todo) \in todo /\ IsFiniteSet(todo) /\ Cardinality(todo) \in Nat
  BY <1>1, LastFile, FilesFinite
<1>3. todo' = todo \ {Max(todo)} /\ copiedFiles' \in {copiedFiles, copiedFiles + 1}
  BY DEF CopyNext
<1>4. Cardinality(todo') = Cardinality(todo) - 1
  BY <1>2, <1>3, FS_RemoveElement
<1>5. copiedFiles \in Nat /\ copiedFiles + Cardinality(todo) <= MaxLog
  BY DEF Typed
<1> QED
  BY <1>2, <1>3, <1>4, <1>5, ConstantsAssumption

\* A property event is one more for init to act upon.
LEMMA SetPropertyTyped ==
  ASSUME Typed, NEW v \in BOOLEAN, SetProperty(v)
  PROVE  events' \in Seq(BOOLEAN) /\ Len(events') <= MaxEvents
BY ConstantsAssumption DEF Typed, SetProperty

\* Init acts upon the first.
LEMMA TailTyped ==
  ASSUME Typed, events # <<>>, events' = Tail(events)
  PROVE  events' \in Seq(BOOLEAN) /\ Len(events') <= MaxEvents
BY ConstantsAssumption DEF Typed

\* The steps of a dump, from its beginning to its end or its death, keep the types.
LEMMA DumpTyped ==
  ASSUME Typed, BeginDump \/ Dump \/ Kill
  PROVE  Typed'
<1>0. /\ 0 \in 0..Polls - 1 /\ Cardinality({}) = 0 /\ MaxLog \in Nat /\ Polls \in Nat
      /\ TypedFlags /\ TypedRest
  BY ConstantsAssumption, FS_EmptySet, TypedParts
<1>1. CASE BeginDump
  <2>1. diagLogStarted' \in BOOLEAN /\ excused' \in BOOLEAN
    <3>1. /\ diagLogStarted \in BOOLEAN /\ excused \in BOOLEAN
          /\ mdlog_on \in BOOLEAN /\ Settled \in BOOLEAN
      BY DEF Typed, mdlog_on, Settled
    <3> QED
      BY <1>1, <3>1 DEF BeginDump
  <2> QED
    BY <1>1, <2>1 DEF Typed, BeginDump, config, logger
<1>2. CASE StopLogger
  <2>1. events' \in Seq(BOOLEAN) /\ Len(events') <= MaxEvents
    BY <1>2, SetPropertyTyped DEF Typed, StopLogger
  <2> QED
    BY <1>0, <1>2, <2>1 DEF Typed, StopLogger, config, hist
<1>3. CASE Poll
  <2>1. i' \in 0..Polls - 1
    BY <1>0, <1>3 DEF Typed, Poll
  <2>8. TypedFlags'
    BY <1>0, <1>3 DEF TypedFlags, Poll, config, logger
  <2>9. TypedRest'
    BY <1>0, <1>3, <2>1 DEF TypedRest, Poll, config, logger
  <2> QED
    BY <2>8, <2>9, TypedParts
<1>4. CASE ScanDir
  <2>1. copiedFiles' + Cardinality(todo') <= MaxLog /\ copiedFiles' \in Nat
    <3>1. copiedFiles' = 0 /\ todo' = files /\ files \subseteq 1..MaxLog
      BY <1>4 DEF ScanDir, Typed
    <3>2. Cardinality(todo') \in Nat /\ Cardinality(todo') <= MaxLog
      BY <3>1, FilesFinite
    <3> QED
      BY <1>0, <3>1, <3>2
  <2> QED
    BY <1>4, <2>1 DEF Typed, ScanDir, config, logger, hist
<1>5. CASE CopyNext
  <2>1. modemLogAllDir' \subseteq files \ Foreign
    BY <1>5, CopyNextTyped DEF Typed, CopyNext
  <2>8. TypedFlags'
    BY <1>0, <1>5 DEF TypedFlags, CopyNext, config, logger
  <2>9. TypedRest'
    BY <1>0, <1>5, <2>1, CopyNextTyped DEF TypedRest, CopyNext, config, logger
  <2> QED
    BY <2>8, <2>9, TypedParts
<1>6. CASE EndCopy
  BY <1>6 DEF Typed, EndCopy, config, logger, hist
<1>7. CASE RestartLogger
  <2>1. events' \in Seq(BOOLEAN) /\ Len(events') <= MaxEvents
    BY <1>7, SetPropertyTyped DEF Typed, RestartLogger
  <2> QED
    BY <1>7, <2>1 DEF Typed, RestartLogger, config, hist
<1>8. CASE Archive
  <2>1. copiedFiles' + Cardinality(todo') <= MaxLog /\ copiedFiles' \in Nat
    <3>1. todo' \subseteq 1..MaxLog /\ copiedFiles' = 0
      BY <1>8 DEF Typed, Archive
    <3>2. Cardinality(todo') \in Nat /\ Cardinality(todo') <= MaxLog
      BY <3>1, FilesFinite
    <3> QED
      BY <1>0, <3>1, <3>2
  <2> QED
    BY <1>0, <1>8, <2>1 DEF Typed, Archive, config, logger
<1>9. CASE Kill
  <2>1. copiedFiles' + Cardinality(todo') <= MaxLog /\ copiedFiles' \in Nat
    BY <1>0, <1>9 DEF Kill
  <2> QED
    BY <1>0, <1>9, <2>1 DEF Typed, Kill, config, logger
<1> QED
  BY <1>1, <1>2, <1>3, <1>4, <1>5, <1>6, <1>7, <1>8, <1>9 DEF Dump

\* The steps of init, of the logger and of the user keep the types.
LEMMA LoggerTyped ==
  ASSUME Typed, TriggerStart \/ TriggerStop \/ LoggerStep \/ WriteLog \/ Toggle
  PROVE  Typed'
<1>0. TypedFlags /\ TypedRest
  BY TypedParts
<1>1. CASE TriggerStart
  <2>1. events' \in Seq(BOOLEAN) /\ Len(events') <= MaxEvents
    BY <1>1, TailTyped DEF TriggerStart
  <2>8. TypedFlags'
    BY <1>0, <1>1 DEF TypedFlags, TriggerStart, config, dump
  <2>9. TypedRest'
    BY <1>0, <1>1, <2>1 DEF TypedRest, TriggerStart, config, dump
  <2> QED
    BY <2>8, <2>9, TypedParts
<1>2. CASE TriggerStop
  <2>1. events' \in Seq(BOOLEAN) /\ Len(events') <= MaxEvents
    BY <1>2, TailTyped DEF TriggerStop
  <2>8. TypedFlags'
    BY <1>0, <1>2 DEF TypedFlags, TriggerStop, config, dump, hist
  <2>9. TypedRest'
    BY <1>0, <1>2, <2>1 DEF TypedRest, TriggerStop, config, dump, hist
  <2> QED
    BY <2>8, <2>9, TypedParts
<1>3. CASE LoggerStep
  BY <1>3 DEF Typed, LoggerStep, config, dump, hist
<1>4. CASE WriteLog
  BY <1>4 DEF Typed, WriteLog, config, dump, hist
<1>5. CASE Toggle
  <2>1. events' \in Seq(BOOLEAN) /\ Len(events') <= MaxEvents
    BY <1>5, SetPropertyTyped DEF Typed, Toggle
  <2> QED
    BY <1>5, <2>1 DEF Typed, Toggle, config, dump, Settled
<1> QED
  BY <1>1, <1>2, <1>3, <1>4, <1>5

\* The invariant behind TypeOK.
THEOREM TypedInvariant == Spec => []Typed
<1>1. Init => Typed
  <2> SUFFICES ASSUME Init PROVE Typed
    OBVIOUS
  <2>1. /\ 0 \in 0..Polls - 1 /\ Cardinality({}) = 0 /\ MaxLog \in Nat
        /\ Foreign \subseteq 1..MaxLog /\ MaxEvents \in Nat
    BY ConstantsAssumption, FS_EmptySet
  <2>2. copiedFiles \in Nat /\ copiedFiles + Cardinality(todo) <= MaxLog
    BY <2>1 DEF Init
  <2>3. events \in Seq(BOOLEAN) /\ Len(events) <= MaxEvents
    BY <2>1 DEF Init
  <2> QED
    BY <2>1, <2>2, <2>3 DEF Init, Typed
<1>2. Typed /\ [Next]_vars => Typed'
  <2>1. ASSUME Typed, UNCHANGED vars PROVE Typed'
    BY <2>1 DEF Typed, vars, config, logger, dump, hist
  <2> QED
    BY <2>1, DumpTyped, LoggerTyped DEF Next
<1> QED
  BY <1>1, <1>2, PTL DEF Spec

\* Every variable keeps its type: init never falls behind by more than MaxEvents
\* in the model, the polls stay below Polls, and no file is copied twice or that
\* is not a log.
THEOREM TypeCorrect == Spec => []TypeOK
<1>1. Typed => TypeOK
  <2> SUFFICES ASSUME Typed PROVE TypeOK
    OBVIOUS
  <2>1. Cardinality(todo) \in Nat
    BY FilesFinite DEF Typed
  <2>2. copiedFiles \in 0..MaxLog
    BY <2>1, ConstantsAssumption DEF Typed
  <2> QED
    BY <2>2 DEF Typed, TypeOK
<1> QED
  BY <1>1, TypedInvariant, PTL

-----------------------------------------------------------------------------
(***************************************************************************)
(* A dump leaves the logging as it is switched                             *)
(***************************************************************************)

\* A queue of one event.
LEMMA OneEvent ==
  ASSUME NEW v
  PROVE  /\ <<v>> # <<>> /\ Head(<<v>>) = v
         /\ Tail(<<v>>) = <<>> /\ Append(<<>>, v) = <<v>>
OBVIOUS

\* The logger stays at rest as long as neither it nor its events change.
LEMMA RestingKept ==
  ASSUME Resting, UNCHANGED <<events, mdlog, wanted>>
  PROVE  Resting'
BY DEF Resting

\* The steps of a dump keep the logger invariant.
LEMMA DumpLogger ==
  ASSUME Typed, LoggerInv, BeginDump \/ Dump \/ Kill
  PROVE  LoggerInv'
<1>1. CASE BeginDump
  <2>1. ~diagLogStarted /\ UNCHANGED <<events, mdlog, wanted>>
    BY <1>1 DEF BeginDump, LoggerInv, logger
  <2>2. CASE enabled = "diag"
    <3>1. diagLogStarted' = mdlog_on /\ excused' = (excused \/ ~Settled) /\ pc' = "stop"
      BY <1>1, <2>2 DEF BeginDump
    <3>2. ~excused' => Resting /\ Settled
      BY <2>1, <3>1 DEF LoggerInv
    <3>3. ~excused' => events = <<>> /\ mdlog \in {"on", "dead"}
                       /\ (wanted <=> mdlog \in {"starting", "on"})
      BY <3>2, OneEvent DEF Resting, Settled
    <3> QED
      BY <2>1, <3>1, <3>3 DEF LoggerInv, Resting, mdlog_on
  <2>3. CASE enabled # "diag"
    <3>1. pc' = "archive" /\ UNCHANGED <<diagLogStarted, excused>>
      BY <1>1, <2>3 DEF BeginDump
    <3> QED
      BY <2>1, <3>1, RestingKept DEF LoggerInv
  <2> QED
    BY <2>2, <2>3
<1>2. CASE StopLogger
  <2>1. UNCHANGED <<mdlog, diagLogStarted, wanted, excused>> /\ pc' = "wait"
    BY <1>2 DEF StopLogger, hist
  <2>2. CASE diagLogStarted
    <3>1. ~excused => wanted /\ events = <<>> /\ mdlog = "on"
      BY <1>2, <2>2 DEF StopLogger, LoggerInv
    <3>2. ~excused => events' = <<FALSE>>
      BY <1>2, <2>2, <3>1, OneEvent DEF StopLogger, SetProperty
    <3> QED
      BY <2>1, <2>2, <3>1, <3>2 DEF LoggerInv
  <2>3. CASE ~diagLogStarted
    <3>1. events' = events
      BY <1>2, <2>3 DEF StopLogger
    <3> QED
      BY <2>1, <2>3, <3>1, RestingKept DEF LoggerInv
  <2> QED
    BY <2>2, <2>3
<1>3. CASE Poll
  <2>1. UNCHANGED <<events, mdlog, diagLogStarted, wanted>>
    BY <1>3 DEF Poll, logger
  <2>2. CASE ~mdlog_on
    <3>1. pc = "wait" /\ pc' = "scan" /\ excused' = excused
      BY <1>3, <2>2 DEF Poll
    <3> QED
      BY <2>1, <2>2, <3>1 DEF LoggerInv, Resting, mdlog_on
  <2>3. CASE mdlog_on
    <3>1. excused' \/ (pc = "wait" /\ pc' = "wait" /\ excused' = excused)
      BY <1>3, <2>3 DEF Poll
    <3>2. pc' # "idle"
      BY <1>3 DEF Poll
    <3> QED
      BY <2>1, <3>1, <3>2 DEF LoggerInv, Resting
  <2> QED
    BY <2>2, <2>3
<1>4. CASE ScanDir \/ CopyNext \/ EndCopy
  <2>1. /\ pc \in {"scan", "copy"} /\ pc' \in {"copy", "restart"}
        /\ UNCHANGED <<events, mdlog, diagLogStarted, wanted, excused>>
    BY <1>4 DEF ScanDir, CopyNext, EndCopy, logger, hist
  <2> QED
    BY <2>1 DEF LoggerInv, Resting
<1>5. CASE RestartLogger
  <2>1. UNCHANGED <<mdlog, diagLogStarted, wanted, excused>> /\ pc' = "archive"
    BY <1>5 DEF RestartLogger, hist
  <2>2. CASE diagLogStarted
    <3>1. ~excused => wanted /\ events = <<>> /\ mdlog \in {"exiting", "dead"}
      BY <1>5, <2>2 DEF RestartLogger, LoggerInv
    <3>2. ~excused => events' = <<TRUE>>
      BY <1>5, <2>2, <3>1, OneEvent DEF RestartLogger, SetProperty
    <3>3. ~excused => events' = <<wanted>>
      BY <3>1, <3>2 DEF Typed
    <3> QED
      BY <2>1, <2>2, <3>1, <3>3 DEF LoggerInv, Resting
  <2>3. CASE ~diagLogStarted
    <3>1. events' = events
      BY <1>5, <2>3 DEF RestartLogger
    <3> QED
      BY <2>1, <2>3, <3>1, RestingKept DEF LoggerInv
  <2> QED
    BY <2>2, <2>3
<1>6. CASE Archive
  BY <1>6 DEF Archive, logger, LoggerInv, Resting
<1>7. CASE Kill
  BY <1>7 DEF Kill, logger, LoggerInv, Resting
<1> QED
  BY <1>1, <1>2, <1>3, <1>4, <1>5, <1>6, <1>7 DEF Dump

\* Init and the logger touch neither the files nor the dump, and do not take back
\* an excuse.
LEMMA InitKeeps ==
  ASSUME TriggerStart \/ TriggerStop \/ LoggerStep
  PROVE  /\ UNCHANGED <<maxFileNum, files, pc, diagLogStarted, todo, copiedFiles,
                        modemLogAllDir, wanted, leftover, cpFailed>>
         /\ excused => excused'
<1>1. CASE TriggerStart
  BY <1>1 DEF TriggerStart, config, dump
<1>2. CASE TriggerStop
  BY <1>2 DEF TriggerStop, config, dump, hist
<1>3. CASE LoggerStep
  BY <1>3 DEF LoggerStep, config, dump, hist
<1> QED
  BY <1>1, <1>2, <1>3

\* Init and the logger bring it where it is wanted, if its process does not
\* outlive its status.
LEMMA InitResting ==
  ASSUME Typed, Resting, TriggerStart \/ TriggerStop \/ LoggerStep, ~excused'
  PROVE  Resting'
<1>0. wanted \in BOOLEAN /\ wanted' = wanted
  BY DEF Typed, TriggerStart, TriggerStop, LoggerStep, hist
<1>1. CASE TriggerStart
  <2>1. events = <<wanted>> /\ mdlog \in {"on", "dead"} /\ wanted
    BY <1>1, OneEvent DEF TriggerStart, Resting
  <2>2. events' = <<>> /\ mdlog' \in {"starting", "on"}
    BY <1>1, <2>1, OneEvent DEF TriggerStart
  <2> QED
    BY <1>0, <2>1, <2>2 DEF Resting
<1>2. CASE TriggerStop
  <2>1. events = <<wanted>> /\ mdlog \in {"on", "exiting", "dead"} /\ ~wanted
    BY <1>2, OneEvent DEF TriggerStop, Resting
  <2>2. events' = <<>> /\ mdlog' \in {"stopping", "exiting", "dead"}
    BY <1>2, <2>1, OneEvent DEF TriggerStop
  <2> QED
    BY <1>0, <2>1, <2>2 DEF Resting
<1>3. CASE LoggerStep
  BY <1>0, <1>3 DEF LoggerStep, Resting
<1> QED
  BY <1>1, <1>2, <1>3

\* The steps of init and of the logger keep the logger invariant.
LEMMA InitLogger ==
  ASSUME Typed, LoggerInv, TriggerStart \/ TriggerStop \/ LoggerStep
  PROVE  LoggerInv'
<1>1. UNCHANGED <<pc, diagLogStarted, wanted>> /\ (excused => excused')
  BY InitKeeps
<1> SUFFICES ASSUME ~excused'
             PROVE  LoggerInv'
  BY <1>1 DEF LoggerInv
<1>2. CASE ~diagLogStarted \/ pc = "archive"
  <2>1. Resting
    BY <1>1, <1>2 DEF LoggerInv
  <2>2. Resting'
    BY <2>1, InitResting
  <2> QED
    BY <1>1, <1>2, <2>2 DEF LoggerInv
<1>3. CASE diagLogStarted /\ pc # "archive"
  <2>1. /\ wanted /\ pc # "idle"
        /\ pc = "stop" => events = <<>> /\ mdlog = "on"
        /\ pc = "wait" => \/ events = <<FALSE>> /\ mdlog = "on"
                          \/ events = <<>> /\ mdlog \in {"stopping", "exiting", "dead"}
        /\ pc \in {"scan", "copy", "restart"} =>
             events = <<>> /\ mdlog \in {"exiting", "dead"}
    BY <1>1, <1>3 DEF LoggerInv
  <2>2. ~TriggerStart
    BY <1>3, <2>1, OneEvent DEF TriggerStart, Typed
  <2>3. CASE TriggerStop
    <3>1. pc = "wait" /\ events = <<FALSE>> /\ mdlog = "on"
      BY <1>3, <2>1, <2>3 DEF TriggerStop, Typed
    <3>2. events' = <<>> /\ mdlog' = "stopping"
      BY <2>3, <3>1, OneEvent DEF TriggerStop
    <3> QED
      BY <1>1, <1>3, <2>1, <3>1, <3>2 DEF LoggerInv
  <2>4. CASE LoggerStep
    BY <1>1, <1>3, <2>1, <2>4 DEF LoggerStep, LoggerInv
  <2> QED
    BY <2>2, <2>3, <2>4
<1> QED
  BY <1>2, <1>3

\* In every reachable state that is not excused, what is on its way to the
\* logger will leave it as the switch says, or the dump still owes the restart.
THEOREM LoggerInvariant == Spec => []LoggerInv
<1>1. Init => LoggerInv
  BY DEF Init, LoggerInv, Resting
<1>2. Typed /\ LoggerInv /\ [Next]_vars => LoggerInv'
  <2> SUFFICES ASSUME Typed, LoggerInv, [Next]_vars PROVE LoggerInv'
    OBVIOUS
  <2>1. CASE WriteLog
    BY <2>1 DEF WriteLog, dump, hist, LoggerInv, Resting
  <2>2. CASE Toggle
    <3>1. CASE pc = "idle" /\ Settled
      <4>1. ~diagLogStarted /\ events = <<>> /\ mdlog \in {"on", "dead"}
        BY <3>1 DEF LoggerInv, Settled
      <4>2. events' = <<~wanted>> /\ wanted' = ~wanted /\ UNCHANGED <<mdlog, dump>>
        BY <2>2, <4>1, OneEvent DEF Toggle, SetProperty
      <4>3. Resting'
        BY <4>1, <4>2 DEF Resting
      <4> QED
        BY <4>1, <4>2, <4>3 DEF dump, LoggerInv
    <3>2. CASE ~(pc = "idle" /\ Settled)
      BY <2>2, <3>2 DEF Toggle, dump, LoggerInv
    <3> QED
      BY <3>1, <3>2
  <2>3. CASE UNCHANGED vars
    BY <2>3 DEF vars, logger, dump, hist, LoggerInv, Resting
  <2> QED
    BY <2>1, <2>2, <2>3, DumpLogger, InitLogger DEF Next
<1> QED
  BY <1>1, <1>2, TypedInvariant, PTL DEF Spec

\* After a dump, with init and the logger at rest, diag_mdlog runs exactly if
\* logging is switched on, but for the losses that `excused' stands for.
THEOREM LoggingRestoredHolds == Spec => []LoggingRestored
<1>1. Typed /\ LoggerInv => LoggingRestored
  <2> SUFFICES ASSUME Typed, LoggerInv, pc = "idle", Settled, ~excused
               PROVE  (mdlog = "on") = wanted
    BY DEF LoggingRestored
  <2>1. Resting
    BY DEF LoggerInv
  <2>2. wanted <=> mdlog = "on"
    BY <2>1, OneEvent DEF Resting, Settled
  <2> QED
    BY <2>2 DEF Typed
<1> QED
  BY <1>1, TypedInvariant, LoggerInvariant, PTL

\* A logger that has been seen off writes nothing while its files are listed and
\* copied: it is started again by the dump only.
THEOREM QuietCopyHolds == Spec => QuietCopy
<1> DEFINE Quiet == diagLogStarted /\ pc \in {"scan", "copy"} /\ ~excused => files' = files
<1>1. LoggerInv /\ [Next]_vars => [Quiet]_vars
  <2> SUFFICES ASSUME LoggerInv, Next PROVE Quiet
    OBVIOUS
  <2>1. CASE WriteLog
    BY <2>1 DEF WriteLog, mdlog_on, LoggerInv
  <2>2. CASE ~WriteLog
    BY <2>2 DEF Next, BeginDump, Dump, StopLogger, Poll, ScanDir, CopyNext, EndCopy,
       RestartLogger, Archive, Kill, TriggerStart, TriggerStop, LoggerStep, Toggle, logger
  <2> QED
    BY <2>1, <2>2
<1> QED
  BY <1>1, LoggerInvariant, PTL DEF Spec, QuietCopy

-----------------------------------------------------------------------------
(***************************************************************************)
(* The newest logs are copied                                              *)
(***************************************************************************)

\* The step of CopyNext at the last file n of those to come: the logs after n are
\* those it has seen, so that n is among the newest exactly if fewer than
\* maxFileNum have been seen.
LEMMA NewestStep ==
  ASSUME Typed, NEW n \in todo, \A m \in todo : m <= n,
         \A m \in files \ todo, k \in todo : k < m
  PROVE  /\ IsFiniteSet(Seen) /\ Cardinality(Seen) \in Nat
         /\ maxFileNum \in Nat \cup {-1}
         /\ n \in Newest(files \ Foreign) <=>
              /\ n \notin Foreign
              /\ maxFileNum = -1 \/ Cardinality(Seen) < maxFileNum
         /\ (files \ Foreign) \ (todo \ {n}) =
              IF n \in Foreign THEN Seen ELSE Seen \cup {n}
         /\ n \notin Seen
<1>1. Seen \subseteq 1..MaxLog /\ todo \subseteq files /\ files \subseteq 1..MaxLog
  BY DEF Seen, Typed
<1>2. IsFiniteSet(Seen) /\ Cardinality(Seen) \in Nat
  BY <1>1, FilesFinite
<1>3. maxFileNum \in Nat \cup {-1}
  BY ConstantsAssumption DEF Typed
<1>4. {m \in files \ Foreign : m > n} = Seen
  <2>1. ASSUME NEW m \in files \ Foreign, m > n PROVE m \in Seen
    <3>1. m \in 1..MaxLog /\ n \in 1..MaxLog
      BY <1>1
    <3>2. m \notin todo
      BY <2>1, <3>1
    <3> QED
      BY <3>2 DEF Seen
  <2>2. ASSUME NEW m \in Seen PROVE m \in files \ Foreign /\ m > n
    <3>1. m \in files \ todo /\ m \notin Foreign
      BY DEF Seen
    <3>2. n < m /\ m \in 1..MaxLog /\ n \in 1..MaxLog
      BY <1>1, <3>1
    <3> QED
      BY <3>1, <3>2
  <2> QED
    BY <2>1, <2>2
<1>5. n \in Newest(files \ Foreign) <=>
        n \notin Foreign /\ (maxFileNum = -1 \/ Cardinality(Seen) < maxFileNum)
  BY <1>1, <1>4 DEF Newest
<1>6. (files \ Foreign) \ (todo \ {n}) = IF n \in Foreign THEN Seen ELSE Seen \cup {n}
  BY <1>1 DEF Seen
<1>7. n \notin Seen
  BY DEF Seen
<1> QED
  BY <1>2, <1>3, <1>5, <1>6, <1>7

\* What CopyNext does while the logger stands still and every copy succeeds.
LEMMA CopyNextNewest ==
  ASSUME Typed, CopyInv, CopyNext, Undisturbed'
  PROVE  CopyInv'
<1> DEFINE n == Max(todo)
           L == files \ Foreign
           full == maxFileNum # -1 /\ ~(Cardinality(Seen) < maxFileNum)
<1>1. /\ pc = "copy" /\ pc' = "copy" /\ todo # {}
      /\ UNCHANGED <<files, maxFileNum, leftover, diagLogStarted, excused>>
  BY DEF CopyNext, config, logger
<1>2. ~cpFailed
  BY DEF CopyNext, Undisturbed
<1>3. /\ \A m \in files \ todo, k \in todo : k < m
      /\ modemLogAllDir = Newest(L) \ todo
      /\ copiedFiles = IF full THEN maxFileNum ELSE Cardinality(Seen)
  BY <1>1, <1>2 DEF CopyInv, Undisturbed
<1>4. n \in todo /\ todo' = todo \ {n}
  BY CopyNextTyped
<1>5. todo \subseteq 1..MaxLog /\ files \subseteq 1..MaxLog /\ todo \subseteq files
  BY DEF Typed
<1>6. \A m \in todo : m <= n
  BY <1>1, <1>5, LastFile
<1> HIDE DEF n
<1>7. /\ IsFiniteSet(Seen) /\ Cardinality(Seen) \in Nat
      /\ maxFileNum \in Nat \cup {-1}
      /\ n \in Newest(L) <=> n \notin Foreign /\ ~full
      /\ L \ (todo \ {n}) = IF n \in Foreign THEN Seen ELSE Seen \cup {n}
      /\ n \notin Seen
  BY <1>3, <1>4, <1>6, NewestStep
<1>8. (copiedFiles >= maxFileNum /\ maxFileNum # -1) <=> full
  BY <1>3, <1>7
<1>9. \/ /\ n \in Foreign \/ full
         /\ UNCHANGED <<copiedFiles, modemLogAllDir>>
      \/ /\ n \notin Foreign /\ ~full
         /\ copiedFiles' = copiedFiles + 1
         /\ modemLogAllDir' = modemLogAllDir \cup {n}
  BY <1>8 DEF CopyNext, Undisturbed, n
<1>10. \A m \in files' \ todo', k \in todo' : k < m
  <2> SUFFICES ASSUME NEW m \in files \ (todo \ {n}), NEW k \in todo, k # n
               PROVE  k < m
    BY <1>1, <1>4
  <2>1. CASE m \notin todo
    BY <1>3, <2>1
  <2>2. CASE m = n
    BY <1>4, <1>5, <1>6, <2>2
  <2> QED
    BY <2>1, <2>2
<1>11. Newest(L)' = Newest(L)
  BY <1>1 DEF Newest
<1>12. modemLogAllDir' = Newest(L)' \ todo'
  <2>1. CASE n \in Foreign \/ full
    BY <1>3, <1>4, <1>7, <1>9, <1>11, <2>1
  <2>2. CASE n \notin Foreign /\ ~full
    BY <1>3, <1>4, <1>7, <1>9, <1>11, <2>2
  <2> QED
    BY <2>1, <2>2
<1>13. Seen' = IF n \in Foreign THEN Seen ELSE Seen \cup {n}
  BY <1>1, <1>4, <1>7 DEF Seen
<1>14. copiedFiles' = IF maxFileNum' = -1 \/ Cardinality(Seen)' < maxFileNum'
                      THEN Cardinality(Seen)' ELSE maxFileNum'
  <2>1. CASE n \in Foreign
    BY <1>1, <1>3, <1>7, <1>9, <1>13, <2>1
  <2>2. CASE n \notin Foreign
    <3>1. Seen' = Seen \cup {n}
      BY <1>13, <2>2
    <3>2. Cardinality(Seen)' = Cardinality(Seen) + 1
      BY <1>7, <3>1, FS_AddElement
    <3>3. CASE full
      BY <1>1, <1>3, <1>7, <1>9, <2>2, <3>2, <3>3
    <3>4. CASE ~full
      BY <1>1, <1>3, <1>7, <1>9, <2>2, <3>2, <3>4
    <3> QED
      BY <3>3, <3>4
  <2> QED
    BY <2>1, <2>2
<1> QED
  BY <1>1, <1>10, <1>12, <1>14 DEF CopyInv

\* The steps of a dump keep the copy invariant.
LEMMA CopyDump ==
  ASSUME Typed, LoggerInv, CopyInv, BeginDump \/ Dump \/ Kill
  PROVE  CopyInv'
<1>1. CASE BeginDump
  BY <1>1 DEF BeginDump, CopyInv
<1>2. CASE StopLogger
  BY <1>2 DEF StopLogger, CopyInv, hist
<1>3. CASE Poll
  BY <1>3 DEF Poll, CopyInv
<1>4. CASE ScanDir
  <2> DEFINE L == files \ Foreign
  <2>1. /\ pc = "scan" /\ pc' = "copy" /\ todo' = files /\ copiedFiles' = 0
        /\ UNCHANGED <<files, maxFileNum, modemLogAllDir, leftover>>
    BY <1>4 DEF ScanDir, config, logger, hist
  <2>2. ~leftover => modemLogAllDir' = {}
    BY <2>1 DEF CopyInv
  <2>3. Newest(L)' \ todo' = {}
    BY <2>1 DEF Newest
  <2>4. Seen' = {}
    BY <2>1 DEF Seen
  <2>5. Cardinality(Seen)' = 0
    BY <2>4, FS_EmptySet
  <2>6. maxFileNum' \in Nat \cup {-1}
    BY <2>1, ConstantsAssumption DEF Typed
  <2>7. copiedFiles' = IF maxFileNum' = -1 \/ Cardinality(Seen)' < maxFileNum'
                       THEN Cardinality(Seen)' ELSE maxFileNum'
    BY <2>1, <2>5, <2>6
  <2>8. files' \ todo' = {}
    BY <2>1
  <2> QED
    BY <2>1, <2>2, <2>3, <2>7, <2>8 DEF CopyInv, Undisturbed
<1>5. CASE CopyNext
  <2>1. CASE Undisturbed'
    BY <1>5, <2>1, CopyNextNewest
  <2>2. CASE ~Undisturbed'
    BY <1>5, <2>2 DEF CopyNext, CopyInv
  <2> QED
    BY <2>1, <2>2
<1>6. CASE EndCopy
  <2>1. /\ pc = "copy" /\ pc' = "restart" /\ todo = {}
        /\ UNCHANGED <<files, maxFileNum, modemLogAllDir, leftover, cpFailed, excused,
                       diagLogStarted>>
    BY <1>6 DEF EndCopy, config, logger, hist
  <2> QED
    BY <2>1 DEF CopyInv, Undisturbed, Newest
<1>7. CASE RestartLogger
  BY <1>7 DEF RestartLogger, CopyInv
<1>8. CASE Archive
  BY <1>8 DEF Archive, CopyInv
<1>9. CASE Kill
  BY <1>9 DEF Kill, CopyInv
<1> QED
  BY <1>1, <1>2, <1>3, <1>4, <1>5, <1>6, <1>7, <1>8, <1>9 DEF Dump

\* In every reachable state of an undisturbed copy the directory holds the newest
\* of the files looked at so far and copiedFiles counts them.
THEOREM CopyInvariant == Spec => []CopyInv
<1>1. Init => CopyInv
  BY DEF Init, CopyInv
<1>2. Typed /\ LoggerInv /\ CopyInv /\ [Next]_vars => CopyInv'
  <2> SUFFICES ASSUME Typed, LoggerInv, CopyInv, [Next]_vars PROVE CopyInv'
    OBVIOUS
  <2>1. CASE TriggerStart \/ TriggerStop \/ LoggerStep
    <3>1. /\ UNCHANGED <<maxFileNum, files, pc, diagLogStarted, todo, copiedFiles,
                         modemLogAllDir, leftover, cpFailed>>
          /\ ~excused' => ~excused
      BY <2>1, InitKeeps
    <3> QED
      BY <3>1 DEF CopyInv, Undisturbed, Newest, Seen
  <2>2. CASE WriteLog
    <3>1. UNCHANGED <<pc, leftover, modemLogAllDir, diagLogStarted, excused>>
      BY <2>2 DEF WriteLog, dump, hist
    <3>2. pc \in {"copy", "restart"} => ~Undisturbed'
      BY <2>2, <3>1 DEF WriteLog, mdlog_on, LoggerInv, Undisturbed
    <3> QED
      BY <3>1, <3>2 DEF CopyInv
  <2>3. CASE Toggle
    <3>1. UNCHANGED <<pc, leftover, modemLogAllDir>>
      BY <2>3 DEF Toggle, dump
    <3>2. pc # "idle" => excused'
      BY <2>3 DEF Toggle
    <3> QED
      BY <3>1, <3>2 DEF CopyInv, Undisturbed
  <2>4. CASE UNCHANGED vars
    BY <2>4 DEF vars, config, logger, dump, hist, CopyInv, Undisturbed, Newest, Seen
  <2> QED
    BY <2>1, <2>2, <2>3, <2>4, CopyDump DEF Next
<1> QED
  BY <1>1, <1>2, TypedInvariant, LoggerInvariant, PTL DEF Spec

\* A dump that has stopped the logger, and whose copies all succeeded into an
\* empty directory, has there the newest maxFileNum logs and nothing else.
THEOREM NewestCopiedHolds == Spec => []NewestCopied
<1>1. CopyInv => NewestCopied
  BY DEF CopyInv, Undisturbed, NewestCopied
<1> QED
  BY <1>1, CopyInvariant, PTL
===============================================================================
