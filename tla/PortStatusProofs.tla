--------------------------- MODULE PortStatusProofs ---------------------------
(***************************************************************************)
(* For any set of ports, partners and callbacks and any length of the      *)
(* uevent queue: the type of PortStatus, and that what getPortStatusHelper *)
(* returns is never half a connection, is exact when nothing changed while *)
(* it read, and is what the callback knows once the worker has caught up.  *)
(***************************************************************************)
EXTENDS PortStatus, TLAPS

-----------------------------------------------------------------------------
(***************************************************************************)
(* The inductive invariants                                                *)
(***************************************************************************)
AtPort == {"data", "accessory", "mode", "canData", "canPower"}

Reading == [names : SUBSET Ports, left : SUBSET Ports, port : Ports \cup {None},
            step : AtPort \cup {"next", "error"}, vec : [Ports -> Entry],
            version : {"1.0", "1.1"}]

\* The reader is at a port it has taken off its list, and the port was connected
\* when it began; between two ports it is at none.
AtOnePort ==
  /\ rd.step \in AtPort => rd.port \in Ports /\ rd.port \in rd.names \ rd.left
  /\ rd.step = "next" => rd.port = None

Typed ==
  /\ sysfs \in [Ports -> Connected \cup {None}]
  /\ uevents \in 0..MaxUevents
  /\ mCallback \in Callbacks \cup {None}
  /\ mLock \in {None, "query", "worker"}
  /\ query \in {"idle", "cast", "read"} /\ (query = "read" <=> mLock = "query")
  /\ cast \in Callbacks_1_1 \cup {None}
  /\ worker \in {"none", "start", "epoll", "notify", "read"}
  /\ worker = "read" <=> mLock = "worker"
  /\ destroy \in BOOLEAN /\ missed \in BOOLEAN /\ crossed \in BOOLEAN
  /\ changed \in BOOLEAN
  /\ mLock = None => rd = Idle
  /\ mLock # None => rd \in Reading /\ AtOnePort

\* A port is described as connected, with all its roles, or as unconnected.
Whole(e) ==
  /\ e.name
  /\ e.power = "none" <=> e.data = "none"
  /\ e.power = "none" <=> e.mode = "none"
  /\ e.canData \/ e.canPower => e.power # "none"

\* Every port the reader has left behind is whole, and the roles of the port it
\* is at are filled in one after the other.
WholeInv ==
  mLock # None =>
    /\ \A p \in Ports \ rd.left : p # rd.port => Whole(rd.vec[p])
    /\ rd.step \in AtPort =>
         /\ rd.vec[rd.port].name /\ rd.vec[rd.port].power # "none"
         /\ rd.step # "data" => rd.vec[rd.port].data # "none"
         /\ rd.step \in {"canData", "canPower"} => rd.vec[rd.port].mode # "none"

\* As long as no port has changed: the same with the values of the files.
ExactInv ==
  mLock # None /\ ~changed =>
    /\ rd.names = {p \in Ports : sysfs[p] # None}
    /\ rd.step # "error"
    /\ \A p \in Ports \ rd.left : p # rd.port => rd.vec[p] = Expected(p, rd.version)
    /\ rd.step \in AtPort =>
         LET e == rd.vec[rd.port]
             x == Expected(rd.port, rd.version)
         IN  /\ e.name /\ e.power = x.power
             /\ rd.step # "data" => e.data = x.data
             /\ rd.step = "mode" => sysfs[rd.port].accessory = "none"
             /\ rd.step \in {"canData", "canPower"} => e.mode = x.mode
             /\ rd.step = "canPower" => e.canData = x.canData

\* What the callback was told is what the files say.
ToldCurrent ==
  /\ told.status = "success"
  /\ told.vec = Current(told.version)
  /\ told.version = Version(castFrom(mCallback))

\* The read is in the form its callback will get it in; a change it may have
\* missed is still to be handled by the worker; and so is whatever the last
\* status does not show.
FormInv ==
  /\ destroy => mCallback = None
  /\ mCallback = None => mLock = None /\ told.status = "none"
  /\ mLock = "query" => rd.version = Version(cast)
  /\ mLock = "worker" => rd.version = Version(castFrom(mCallback))

ChangeInv == mLock # None /\ changed => uevents > 0 \/ worker = "notify" \/ missed

ToldInv ==
  mCallback # None /\ told.status # "none" /\ ~missed /\ ~crossed =>
    \/ uevents > 0
    \/ worker \in {"notify", "read"}
    \/ mLock = "query" /\ Target = mCallback
    \/ ToldCurrent

SettledInv == FormInv /\ ChangeInv /\ ToldInv

-----------------------------------------------------------------------------
(***************************************************************************)
(* The steps of getPortStatusHelper                                        *)
(***************************************************************************)

\* The reader fills in e for port p and goes on to `step' at `port'.
Moved(p, e, step, port) ==
  /\ rd'.names = rd.names /\ rd'.version = rd.version
  /\ rd'.left = rd.left \ {p}
  /\ rd'.step = step /\ rd'.port = port
  /\ rd'.vec = [rd.vec EXCEPT ![p] = e]

\* The entry of the port the reader is at.
Here == rd.vec[rd.port]

Mode(p) == IF DataRole(p) = "host" THEN "dfp" ELSE "ufp"

\* Only the holder of mLock reads, and a reader at a port has a record to fill.
LEMMA ReaderHasLock ==
  ASSUME Typed, rd.step # "idle"
  PROVE  mLock # None /\ rd \in Reading /\ AtOnePort
BY DEF Typed, Idle

\* At a port, the entry to fill and the files are of the right types.
LEMMA HereTyped ==
  ASSUME Typed, rd.step \in AtPort
  PROVE  /\ mLock # None /\ rd \in Reading
         /\ rd.port \in Ports /\ rd.port \in rd.names \ rd.left
         /\ Here \in Entry
         /\ sysfs[rd.port] \in Partner \cup {None}
<1>1. rd.step # "idle"
  BY DEF AtPort
<1>2. mLock # None /\ rd \in Reading /\ AtOnePort
  BY <1>1, ReaderHasLock
<1> QED
  BY <1>2, ConstantsAssumption DEF Typed, AtOnePort, Reading, Here

\* getCurrentRoleHelper for the data role fills it in.
LEMMA ReadDataStep ==
  ASSUME Typed, ReadData
  PROVE  /\ rd' \in Reading
         /\ Moved(rd.port, [Here EXCEPT !.data = DataRole(rd.port)], "accessory", rd.port)
<1>1. rd.step \in AtPort
  BY DEF ReadData, AtPort
<1>2. DataRole(rd.port) \in {"host", "device"}
  BY <1>1, HereTyped DEF DataRole, Partner
<1>3. [Here EXCEPT !.data = DataRole(rd.port)] \in Entry
  BY <1>1, <1>2, HereTyped DEF Entry
<1>4. rd' = [rd EXCEPT !.vec = [rd.vec EXCEPT ![rd.port] =
                                  [Here EXCEPT !.data = DataRole(rd.port)]],
                       !.step = "accessory"]
  BY DEF ReadData, Here
<1> QED
  BY <1>1, <1>3, <1>4, HereTyped DEF Moved, Reading, AtPort

\* getAccessoryConnected fails, finds no accessory, or fills in the mode.
LEMMA ReadAccessoryStep ==
  ASSUME Typed, ReadAccessory
  PROVE  /\ rd' \in Reading
         /\ \/ /\ sysfs[rd.port] = None
               /\ Moved(rd.port, Here, "error", rd.port)
            \/ /\ sysfs[rd.port] \in Partner /\ sysfs[rd.port].accessory = "none"
               /\ Moved(rd.port, Here, "mode", rd.port)
            \/ /\ sysfs[rd.port] \in Partner /\ sysfs[rd.port].accessory # "none"
               /\ Moved(rd.port, [Here EXCEPT !.mode = sysfs[rd.port].accessory],
                        "canData", rd.port)
<1> DEFINE a == sysfs[rd.port].accessory
<1>1. rd.step \in AtPort
  BY DEF ReadAccessory, AtPort
<1>2. rd.vec = [rd.vec EXCEPT ![rd.port] = Here]
  BY <1>1, HereTyped DEF Here, Reading
<1>3. CASE sysfs[rd.port] = None
  <2>1. rd' = [rd EXCEPT !.step = "error"]
    BY <1>3 DEF ReadAccessory
  <2> QED
    BY <1>1, <1>2, <1>3, <2>1, HereTyped DEF Moved, Reading, AtPort
<1>4. CASE sysfs[rd.port] # None /\ a = "none"
  <2>1. rd' = [rd EXCEPT !.step = "mode"]
    BY <1>4 DEF ReadAccessory
  <2> QED
    BY <1>1, <1>2, <1>4, <2>1, HereTyped DEF Moved, Reading, AtPort
<1>5. CASE sysfs[rd.port] # None /\ a # "none"
  <2>1. sysfs[rd.port] \in Partner /\ a \in {"analog_audio", "debug"}
    BY <1>1, <1>5, HereTyped DEF Partner
  <2>2. [Here EXCEPT !.mode = a] \in Entry
    BY <1>1, <2>1, HereTyped DEF Entry
  <2>3. rd' = [rd EXCEPT !.vec = [rd.vec EXCEPT ![rd.port] = [Here EXCEPT !.mode = a]],
                         !.step = "canData"]
    BY <1>5 DEF ReadAccessory, Here
  <2> QED
    BY <1>1, <1>5, <2>1, <2>2, <2>3, HereTyped DEF Moved, Reading, AtPort
<1> QED
  BY <1>3, <1>4, <1>5

\* Without an accessory the mode follows the data role.
LEMMA ReadModeStep ==
  ASSUME Typed, ReadMode
  PROVE  /\ rd' \in Reading
         /\ Moved(rd.port, [Here EXCEPT !.mode = Mode(rd.port)], "canData", rd.port)
<1>1. rd.step \in AtPort
  BY DEF ReadMode, AtPort
<1>2. [Here EXCEPT !.mode = Mode(rd.port)] \in Entry
  BY <1>1, HereTyped DEF Entry, Mode
<1>3. rd' = [rd EXCEPT !.vec = [rd.vec EXCEPT ![rd.port] =
                                  [Here EXCEPT !.mode = Mode(rd.port)]],
                       !.step = "canData"]
  BY DEF ReadMode, Here, Mode
<1> QED
  BY <1>1, <1>2, <1>3, HereTyped DEF Moved, Reading, AtPort

\* canSwitchRoleHelper fills in whether the data role can be changed.
LEMMA ReadCanChangeDataStep ==
  ASSUME Typed, ReadCanChangeData
  PROVE  /\ rd' \in Reading
         /\ Moved(rd.port, [Here EXCEPT !.canData = canSwitchRoleHelper(rd.port)],
                  "canPower", rd.port)
<1>1. rd.step \in AtPort
  BY DEF ReadCanChangeData, AtPort
<1>2. canSwitchRoleHelper(rd.port) \in BOOLEAN
  BY <1>1, HereTyped DEF canSwitchRoleHelper, Partner
<1>3. [Here EXCEPT !.canData = canSwitchRoleHelper(rd.port)] \in Entry
  BY <1>1, <1>2, HereTyped DEF Entry
<1>4. rd' = [rd EXCEPT !.vec = [rd.vec EXCEPT ![rd.port] =
                          [Here EXCEPT !.canData = canSwitchRoleHelper(rd.port)]],
                       !.step = "canPower"]
  BY DEF ReadCanChangeData, Here
<1> QED
  BY <1>1, <1>3, <1>4, HereTyped DEF Moved, Reading, AtPort

\* The last file of a port: the reader is then between two ports.
LEMMA ReadCanChangePowerStep ==
  ASSUME Typed, ReadCanChangePower
  PROVE  /\ rd' \in Reading
         /\ Moved(rd.port, [Here EXCEPT !.canPower = canSwitchRoleHelper(rd.port),
                                        !.supported = supportedModes(rd.version)],
                  "next", None)
<1> DEFINE e == [Here EXCEPT !.canPower = canSwitchRoleHelper(rd.port),
                             !.supported = supportedModes(rd.version)]
<1>1. rd.step \in AtPort
  BY DEF ReadCanChangePower, AtPort
<1>2. canSwitchRoleHelper(rd.port) \in BOOLEAN
  BY <1>1, HereTyped DEF canSwitchRoleHelper, Partner
<1>3. supportedModes(rd.version) \in {{}, {"dfp"}, {"ufp", "dfp"}}
  BY DEF supportedModes
<1>4. e \in Entry
  BY <1>1, <1>2, <1>3, HereTyped DEF Entry
<1>5. rd' = [rd EXCEPT !.vec = [rd.vec EXCEPT ![rd.port] = e], !.port = None,
                       !.step = "next"]
  BY <1>1, HereTyped DEF ReadCanChangePower, Here, Reading
<1> QED
  BY <1>1, <1>4, <1>5, HereTyped DEF Moved, Reading, AtPort

\* An unconnected port is done at once; a connected one has its power role first.
LEMMA NextPortStep ==
  ASSUME Typed, NEW p \in Ports, NextPort(p)
  PROVE  /\ mLock # None /\ rd' \in Reading
         /\ rd.port = None /\ p \in rd.left
         /\ \/ /\ p \in rd.names
               /\ Moved(p, [Blank EXCEPT !.name = TRUE, !.power = PowerRole(p)], "data", p)
            \/ /\ p \notin rd.names
               /\ Moved(p, [Blank EXCEPT !.name = TRUE,
                                         !.supported = supportedModes(rd.version)],
                        "next", None)
<1> DEFINE c == [Blank EXCEPT !.name = TRUE, !.power = PowerRole(p)]
           u == [Blank EXCEPT !.name = TRUE, !.supported = supportedModes(rd.version)]
<1>1. /\ mLock # None /\ rd \in Reading /\ AtOnePort /\ rd.port = None
      /\ rd.step = "next" /\ p \in rd.left
  BY ReaderHasLock DEF NextPort, AtOnePort
<1>2. PowerRole(p) \in {"source", "sink"}
  BY ConstantsAssumption DEF Typed, PowerRole, Partner
<1>3. supportedModes(rd.version) \in {{}, {"dfp"}, {"ufp", "dfp"}}
  BY DEF supportedModes
<1>4. c \in Entry /\ u \in Entry
  BY <1>2, <1>3 DEF Entry, Blank
<1>5. CASE p \in rd.names
  <2>1. rd' = [rd EXCEPT !.left = rd.left \ {p}, !.port = p, !.step = "data",
                         !.vec = [rd.vec EXCEPT ![p] = c]]
    BY <1>5 DEF NextPort, Fill, Blank
  <2> HIDE DEF c
  <2>2. rd' \in Reading
    BY <1>1, <1>4, <2>1 DEF Reading, AtPort
  <2>3. Moved(p, c, "data", p)
    BY <1>1, <2>1 DEF Moved, Reading
  <2> QED
    BY <1>1, <1>5, <2>2, <2>3 DEF c
<1>6. CASE p \notin rd.names
  <2>1. rd' = [rd EXCEPT !.left = rd.left \ {p}, !.vec = [rd.vec EXCEPT ![p] = u]]
    BY <1>6 DEF NextPort, Fill, Blank
  <2> HIDE DEF u
  <2>2. rd' \in Reading
    BY <1>1, <1>4, <2>1 DEF Reading, AtPort
  <2>3. Moved(p, u, "next", None)
    BY <1>1, <2>1 DEF Moved, Reading
  <2> QED
    BY <1>1, <1>6, <2>2, <2>3 DEF u
<1> QED
  BY <1>5, <1>6

-----------------------------------------------------------------------------
(***************************************************************************)
(* Type correctness                                                        *)
(***************************************************************************)

\* A step of the reader changes nothing but rd.
LEMMA ReadKeeps ==
  ASSUME Typed, Read
  PROVE  /\ mLock # None
         /\ UNCHANGED <<sysfs, uevents, mCallback, mLock, query, cast, worker, destroy,
                        told, missed, crossed, changed>>
<1>1. rd.step # "idle"
  BY DEF Read, NextPort, ReadData, ReadAccessory, ReadMode, ReadCanChangeData,
     ReadCanChangePower
<1>2. mLock # None
  BY <1>1, ReaderHasLock
<1>3. UNCHANGED Others
  <2>1. CASE \E p \in Ports : NextPort(p)
    BY <2>1 DEF NextPort
  <2>2. CASE ReadData \/ ReadAccessory \/ ReadMode
    BY <2>2 DEF ReadData, ReadAccessory, ReadMode
  <2>3. CASE ReadCanChangeData \/ ReadCanChangePower
    BY <2>3 DEF ReadCanChangeData, ReadCanChangePower
  <2> QED
    BY <2>1, <2>2, <2>3 DEF Read
<1> QED
  BY <1>2, <1>3 DEF Others, hist

\* The reader stays at one port, or is at none.
LEMMA MovedAtOnePort ==
  ASSUME Typed, NEW p \in Ports, NEW e, NEW step,
         \/ p \in rd.names /\ step # "next" /\ Moved(p, e, step, p)
         \/ step = "next" /\ Moved(p, e, step, None)
  PROVE  AtOnePort'
BY DEF AtOnePort, Moved, AtPort

\* Every step of getPortStatusHelper keeps the types.
LEMMA ReadTyped ==
  ASSUME Typed, Read
  PROVE  Typed'
<1>1. rd' \in Reading /\ AtOnePort'
  <2>1. ASSUME NEW p \in Ports, NextPort(p) PROVE rd' \in Reading /\ AtOnePort'
    BY <2>1, NextPortStep, MovedAtOnePort, "data" # "next"
  <2>2. ASSUME ReadData PROVE rd' \in Reading /\ AtOnePort'
    <3>1. rd.step \in AtPort
      BY <2>2 DEF ReadData, AtPort
    <3> QED
      BY <2>2, <3>1, ReadDataStep, HereTyped, MovedAtOnePort
  <2>3. ASSUME ReadAccessory PROVE rd' \in Reading /\ AtOnePort'
    <3>1. rd.step \in AtPort
      BY <2>3 DEF ReadAccessory, AtPort
    <3> QED
      BY <2>3, <3>1, ReadAccessoryStep, HereTyped, MovedAtOnePort
  <2>4. ASSUME ReadMode PROVE rd' \in Reading /\ AtOnePort'
    <3>1. rd.step \in AtPort
      BY <2>4 DEF ReadMode, AtPort
    <3> QED
      BY <2>4, <3>1, ReadModeStep, HereTyped, MovedAtOnePort
  <2>5. ASSUME ReadCanChangeData PROVE rd' \in Reading /\ AtOnePort'
    <3>1. rd.step \in AtPort
      BY <2>5 DEF ReadCanChangeData, AtPort
    <3> QED
      BY <2>5, <3>1, ReadCanChangeDataStep, HereTyped, MovedAtOnePort
  <2>6. ASSUME ReadCanChangePower PROVE rd' \in Reading /\ AtOnePort'
    <3>1. rd.step \in AtPort
      BY <2>6 DEF ReadCanChangePower, AtPort
    <3> QED
      BY <2>6, <3>1, ReadCanChangePowerStep, HereTyped, MovedAtOnePort
  <2> QED
    BY <2>1, <2>2, <2>3, <2>4, <2>5, <2>6 DEF Read
<1> QED
  BY <1>1, ReadKeeps DEF Typed

\* A callback is of one of two versions.
LEMMA VersionType ==
  ASSUME NEW cb PROVE Version(cb) \in {"1.0", "1.1"}
BY DEF Version

\* The cast yields a 1.1 callback or nothing.
LEMMA CastType ==
  ASSUME NEW cb PROVE castFrom(cb) \in Callbacks_1_1 \cup {None}
BY DEF castFrom

\* A read begins between two ports, with an entry for every port.
LEMMA BeginTyped ==
  ASSUME NEW v \in {"1.0", "1.1"}, Begin(v)
  PROVE  /\ rd' \in Reading /\ AtOnePort' /\ changed' = FALSE
         /\ rd'.names = {p \in Ports : sysfs[p] # None} /\ rd'.left = Ports
         /\ rd'.step = "next" /\ rd'.version = v
<1>1. Blank \in Entry
  BY DEF Blank, Entry
<1> QED
  BY <1>1 DEF Begin, Reading, AtOnePort, AtPort

\* Every other step keeps the types.
LEMMA OthersTyped ==
  ASSUME Typed, Next, ~Read
  PROVE  Typed'
<1>0. None \notin {"query", "worker"} /\ MaxUevents \in Nat \ {0}
  BY ConstantsAssumption
<1>1. CASE QueryCast
  BY <1>1, CastType DEF Typed, QueryCast, hist, AtOnePort
<1>2. CASE QueryRead
  <2>1. CASE mCallback # None
    <3>1. rd' \in Reading /\ AtOnePort' /\ changed' = FALSE
      BY <1>2, <2>1, BeginTyped, VersionType DEF QueryRead
    <3> QED
      BY <1>0, <1>2, <2>1, <3>1 DEF Typed, QueryRead, Supersede
  <2>2. CASE mCallback = None
    BY <1>0, <1>2, <2>2 DEF Typed, QueryRead, AtOnePort
  <2> QED
    BY <2>1, <2>2
<1>3. CASE QueryDeliver
  BY <1>0, <1>3 DEF Typed, QueryDeliver, Deliver
<1>4. CASE ReplaceCallback
  BY <1>0, <1>4 DEF Typed, ReplaceCallback
<1>5. CASE RegisterCallback
  BY <1>0, <1>5 DEF Typed, RegisterCallback, hist
<1>6. CASE ClearCallback
  BY <1>0, <1>6 DEF Typed, ClearCallback
<1>7. CASE OpenSocket
  BY <1>7 DEF Typed, OpenSocket, hist, AtOnePort
<1>8. CASE EndWorker
  <2>1. uevents' \in 0..MaxUevents
    BY <1>0, <1>8 DEF EndWorker
  <2> QED
    BY <1>8, <2>1 DEF Typed, EndWorker, hist, AtOnePort
<1>9. CASE Receive
  <2>1. uevents' \in 0..MaxUevents
    BY <1>0, <1>9 DEF Typed, Receive
  <2> QED
    BY <1>9, <2>1 DEF Typed, Receive, hist, AtOnePort
<1>10. CASE Notify
  <2>1. CASE mCallback # None
    <3>1. rd' \in Reading /\ AtOnePort' /\ changed' = FALSE
      BY <1>10, <2>1, BeginTyped, VersionType DEF Notify
    <3> QED
      BY <1>0, <1>10, <2>1, <3>1 DEF Typed, Notify, Supersede
  <2>2. CASE mCallback = None
    BY <1>0, <1>10, <2>2 DEF Typed, Notify
  <2> QED
    BY <2>1, <2>2
<1>11. CASE WorkerDeliver
  BY <1>0, <1>11 DEF Typed, WorkerDeliver, Deliver
<1>12. ASSUME NEW p \in Ports, Change(p) PROVE Typed'
  <2>1. sysfs' \in [Ports -> Connected \cup {None}]
    BY <1>12 DEF Typed, Change
  <2>2. uevents' \in 0..MaxUevents
    BY <1>0, <1>12 DEF Typed, Change
  <2>3. missed' \in BOOLEAN
    BY <1>12 DEF Typed, Change
  <2> QED
    BY <1>12, <2>1, <2>2, <2>3 DEF Typed, Change, AtOnePort
<1> QED
  BY <1>1, <1>2, <1>3, <1>4, <1>5, <1>6, <1>7, <1>8, <1>9, <1>10, <1>11, <1>12
  DEF Next, Worker

\* The invariant behind TypeOK.
THEOREM TypedInvariant == Spec => []Typed
<1>1. Init => Typed
  <2>1. 0 \in 0..MaxUevents /\ None \notin {"query", "worker"}
    BY ConstantsAssumption
  <2> QED
    BY <2>1 DEF Init, Typed
<1>2. Typed /\ [Next]_vars => Typed'
  <2>1. ASSUME Typed, UNCHANGED vars PROVE Typed'
    BY <2>1 DEF Typed, vars, AtOnePort
  <2> QED
    BY <2>1, ReadTyped, OthersTyped
<1> QED
  BY <1>1, <1>2, PTL DEF Spec

\* Every variable keeps its type, and a read is under way exactly while mLock is
\* held, by the one of queryPortStatus and the worker that says it reads.
THEOREM TypeCorrect == Spec => []TypeOK
<1>1. Typed => TypeOK
  <2> SUFFICES ASSUME Typed PROVE TypeOK
    OBVIOUS
  <2>1. mLock # None => rd # Idle
    BY DEF Typed, Reading, AtPort, Idle
  <2>2. mLock # None => \A p \in Ports : rd.vec[p] \in Entry
    BY DEF Typed, Reading
  <2> QED
    BY <2>1, <2>2 DEF Typed, TypeOK
<1> QED
  BY <1>1, TypedInvariant, PTL

-----------------------------------------------------------------------------
(***************************************************************************)
(* No half connection                                                      *)
(***************************************************************************)

\* The entry of the port the reader works on is the only one that changes, and
\* that port is the only one that may leave the reader's list.
LEMMA MovedEntries ==
  ASSUME Typed, mLock # None, NEW p \in Ports, p = rd.port \/ rd.port = None,
         NEW e, NEW step, NEW port, Moved(p, e, step, port)
  PROVE  /\ rd'.vec[p] = e
         /\ \A q \in Ports \ rd'.left : q # p =>
              q \in Ports \ rd.left /\ q # rd.port /\ rd'.vec[q] = rd.vec[q]
<1>1. rd.vec \in [Ports -> Entry] /\ None \notin Ports
  BY ConstantsAssumption DEF Typed, Reading
<1> QED
  BY <1>1 DEF Moved

\* Every step of getPortStatusHelper keeps what has been read whole.
LEMMA WholeRead ==
  ASSUME Typed, WholeInv, Read
  PROVE  WholeInv'
<1> DEFINE Behind == \A q \in Ports \ rd.left : q # rd.port => Whole(rd.vec[q])
<1>1. mLock # None /\ Behind
  BY ReadKeeps DEF WholeInv
<1>2. ASSUME NEW p \in Ports, NextPort(p) PROVE WholeInv'
  <2>1. /\ rd.port = None
        /\ \/ Moved(p, [Blank EXCEPT !.name = TRUE, !.power = PowerRole(p)], "data", p)
           \/ Moved(p, [Blank EXCEPT !.name = TRUE,
                                     !.supported = supportedModes(rd.version)],
                    "next", None)
    BY <1>2, NextPortStep
  <2>2. CASE Moved(p, [Blank EXCEPT !.name = TRUE, !.power = PowerRole(p)], "data", p)
    <3>1. PowerRole(p) # "none"
      BY ConstantsAssumption DEF Typed, PowerRole, Partner
    <3>2. rd'.vec[p].name /\ rd'.vec[p].power # "none" /\ rd'.step = "data" /\ rd'.port = p
      BY <1>1, <2>1, <2>2, <3>1, MovedEntries DEF Moved, Blank
    <3>3. Behind'
      BY <1>1, <2>1, <2>2, <3>2, MovedEntries
    <3> QED
      BY <3>2, <3>3 DEF WholeInv
  <2>3. CASE Moved(p, [Blank EXCEPT !.name = TRUE,
                                    !.supported = supportedModes(rd.version)],
                   "next", None)
    <3>0. rd'.vec[p] = [Blank EXCEPT !.name = TRUE,
                                     !.supported = supportedModes(rd.version)]
      BY <1>1, <2>1, <2>3, MovedEntries
    <3>1. Whole(rd'.vec[p])
      BY <3>0 DEF Blank, Whole
    <3>2. Behind'
      BY <1>1, <2>1, <2>3, <3>1, MovedEntries
    <3> QED
      BY <2>3, <3>2 DEF WholeInv, Moved, AtPort
  <2> QED
    BY <2>1, <2>2, <2>3
<1>3. CASE ReadData
  <2>1. rd.step \in AtPort /\ rd.step = "data"
    BY <1>3 DEF ReadData, AtPort
  <2>2. Moved(rd.port, [Here EXCEPT !.data = DataRole(rd.port)], "accessory", rd.port)
    BY <1>3, ReadDataStep
  <2>3. DataRole(rd.port) # "none"
    BY <2>1, HereTyped DEF DataRole, Partner
  <2>4. Behind'
    BY <1>1, <2>1, <2>2, HereTyped, MovedEntries DEF Moved
  <2>5. /\ rd'.vec[rd.port].name /\ rd'.vec[rd.port].power # "none"
        /\ rd'.vec[rd.port].data # "none"
    BY <1>1, <2>1, <2>2, <2>3, HereTyped, MovedEntries DEF WholeInv, Here, Entry
  <2> QED
    BY <2>2, <2>4, <2>5 DEF WholeInv, Moved
<1>4. CASE ReadAccessory
  <2>1. rd.step \in AtPort /\ rd.step = "accessory"
    BY <1>4 DEF ReadAccessory, AtPort
  <2>2. CASE Moved(rd.port, Here, "error", rd.port)
    <3>1. Behind'
      BY <1>1, <2>1, <2>2, HereTyped, MovedEntries DEF Moved
    <3> QED
      BY <2>2, <3>1 DEF WholeInv, Moved, AtPort
  <2>3. CASE Moved(rd.port, Here, "mode", rd.port)
    <3>1. Behind'
      BY <1>1, <2>1, <2>3, HereTyped, MovedEntries DEF Moved
    <3>2. /\ rd'.vec[rd.port].name /\ rd'.vec[rd.port].power # "none"
          /\ rd'.vec[rd.port].data # "none"
      BY <1>1, <2>1, <2>3, HereTyped, MovedEntries DEF WholeInv, Here
    <3> QED
      BY <2>3, <3>1, <3>2 DEF WholeInv, Moved
  <2>4. CASE /\ sysfs[rd.port] \in Partner /\ sysfs[rd.port].accessory # "none"
             /\ Moved(rd.port, [Here EXCEPT !.mode = sysfs[rd.port].accessory],
                      "canData", rd.port)
    <3>1. Behind'
      BY <1>1, <2>1, <2>4, HereTyped, MovedEntries DEF Moved
    <3>2. /\ rd'.vec[rd.port].name /\ rd'.vec[rd.port].power # "none"
          /\ rd'.vec[rd.port].data # "none" /\ rd'.vec[rd.port].mode # "none"
      BY <1>1, <2>1, <2>4, HereTyped, MovedEntries DEF WholeInv, Here, Entry
    <3> QED
      BY <2>4, <3>1, <3>2 DEF WholeInv, Moved
  <2> QED
    BY <1>4, <2>2, <2>3, <2>4, ReadAccessoryStep
<1>5. CASE ReadMode
  <2>1. rd.step \in AtPort /\ rd.step = "mode"
    BY <1>5 DEF ReadMode, AtPort
  <2>2. Moved(rd.port, [Here EXCEPT !.mode = Mode(rd.port)], "canData", rd.port)
    BY <1>5, ReadModeStep
  <2>3. Behind'
    BY <1>1, <2>1, <2>2, HereTyped, MovedEntries DEF Moved
  <2>4. /\ rd'.vec[rd.port].name /\ rd'.vec[rd.port].power # "none"
        /\ rd'.vec[rd.port].data # "none" /\ rd'.vec[rd.port].mode # "none"
    BY <1>1, <2>1, <2>2, HereTyped, MovedEntries DEF WholeInv, Here, Entry, Mode
  <2> QED
    BY <2>2, <2>3, <2>4 DEF WholeInv, Moved
<1>6. CASE ReadCanChangeData
  <2>1. rd.step \in AtPort /\ rd.step = "canData"
    BY <1>6 DEF ReadCanChangeData, AtPort
  <2>2. Moved(rd.port, [Here EXCEPT !.canData = canSwitchRoleHelper(rd.port)],
              "canPower", rd.port)
    BY <1>6, ReadCanChangeDataStep
  <2>3. Behind'
    BY <1>1, <2>1, <2>2, HereTyped, MovedEntries DEF Moved
  <2>4. /\ rd'.vec[rd.port].name /\ rd'.vec[rd.port].power # "none"
        /\ rd'.vec[rd.port].data # "none" /\ rd'.vec[rd.port].mode # "none"
    BY <1>1, <2>1, <2>2, HereTyped, MovedEntries DEF WholeInv, Here, Entry
  <2> QED
    BY <2>2, <2>3, <2>4 DEF WholeInv, Moved
<1>7. CASE ReadCanChangePower
  <2>1. rd.step \in AtPort /\ rd.step = "canPower"
    BY <1>7 DEF ReadCanChangePower, AtPort
  <2>2. Moved(rd.port, [Here EXCEPT !.canPower = canSwitchRoleHelper(rd.port),
                                    !.supported = supportedModes(rd.version)],
              "next", None)
    BY <1>7, ReadCanChangePowerStep
  <2>3. Whole(rd'.vec[rd.port])
    <3>1. rd'.vec[rd.port] = [Here EXCEPT !.canPower = canSwitchRoleHelper(rd.port),
                                          !.supported = supportedModes(rd.version)]
      BY <1>1, <2>1, <2>2, HereTyped, MovedEntries
    <3>2. Here \in Entry
      BY <2>1, HereTyped
    <3>3. /\ Here.name /\ Here.power # "none" /\ Here.data # "none"
          /\ Here.mode # "none"
      BY <1>1, <2>1 DEF WholeInv, Here
    <3> QED
      BY <3>1, <3>2, <3>3 DEF Entry, Whole
  <2>4. Behind'
    BY <1>1, <2>1, <2>2, <2>3, HereTyped, MovedEntries DEF Moved
  <2> QED
    BY <2>2, <2>4 DEF WholeInv, Moved, AtPort
<1> QED
  BY <1>2, <1>3, <1>4, <1>5, <1>6, <1>7 DEF Read

\* A step that is not the reader's leaves rd alone, begins a read or ends one.
LEMMA OthersRead ==
  ASSUME Typed, Next, ~Read
  PROVE  \/ UNCHANGED <<rd, mLock>>
         \/ mLock' = None
         \/ /\ mLock = None /\ changed' = FALSE /\ sysfs' = sysfs
            /\ rd'.names = {p \in Ports : sysfs[p] # None} /\ rd'.left = Ports
            /\ rd'.step = "next"
<1>1. CASE QueryRead
  BY <1>1, BeginTyped, VersionType DEF QueryRead
<1>2. CASE Notify
  BY <1>2, BeginTyped, VersionType DEF Notify
<1>3. CASE QueryDeliver \/ WorkerDeliver
  BY <1>3 DEF QueryDeliver, WorkerDeliver, Deliver
<1>4. CASE ~(QueryRead \/ Notify \/ QueryDeliver \/ WorkerDeliver)
  BY <1>4 DEF Next, Worker, QueryCast, ReplaceCallback, RegisterCallback,
     ClearCallback, OpenSocket, EndWorker, Receive, Change
<1> QED
  BY <1>1, <1>2, <1>3, <1>4

\* In every reachable state the ports a reader has left behind are whole,
\* whatever partners have come and gone since it began.
THEOREM WholeInvariant == Spec => []WholeInv
<1>1. Init => WholeInv
  BY DEF Init, WholeInv
<1>2. Typed /\ WholeInv /\ [Next]_vars => WholeInv'
  <2> SUFFICES ASSUME Typed, WholeInv, [Next]_vars PROVE WholeInv'
    OBVIOUS
  <2>1. CASE UNCHANGED vars
    BY <2>1 DEF WholeInv, vars
  <2>2. CASE Next /\ ~Read
    BY <2>2, OthersRead DEF WholeInv, AtPort
  <2> QED
    BY <2>1, <2>2, WholeRead
<1> QED
  BY <1>1, <1>2, TypedInvariant, PTL DEF Spec

\* Whatever changes while the ports' files are read one after the other, a status
\* that is reported as a success has no port with some of its roles only.
THEOREM NeverHalfConnectedHolds == Spec => []NeverHalfConnected
<1>1. Typed /\ WholeInv => NeverHalfConnected
  <2> SUFFICES ASSUME Typed, WholeInv, mLock # None, Finished, rd.step # "error",
                      NEW p \in Ports
               PROVE  Whole(rd.vec[p])
    BY DEF NeverHalfConnected, Whole
  <2>1. rd.left = {} /\ rd.port = None /\ None \notin Ports
    BY ConstantsAssumption DEF Finished, Typed, AtOnePort
  <2> QED
    BY <2>1 DEF WholeInv
<1> QED
  BY <1>1, TypedInvariant, WholeInvariant, PTL

-----------------------------------------------------------------------------
(***************************************************************************)
(* A quiet read is exact                                                   *)
(***************************************************************************)

\* What Expected says of a connected port, field by field.
LEMMA ExpectedFields ==
  ASSUME NEW p \in Ports, NEW v, sysfs[p] \in Partner
  PROVE  LET s == sysfs[p]
             x == Expected(p, v)
         IN  /\ x = [name |-> TRUE, power |-> s.power, data |-> s.data, mode |-> x.mode,
                     canData |-> s.pd, canPower |-> s.pd,
                     supported |-> supportedModes(v)]
             /\ x.mode = IF s.accessory # "none" THEN s.accessory ELSE Mode(p)
<1>1. sysfs[p] # None
  BY ConstantsAssumption
<1> QED
  BY <1>1 DEF Expected, Mode, DataRole

\* An entry whose last two fields are filled in.
LEMMA LastFields ==
  ASSUME NEW e \in Entry, NEW c, NEW m
  PROVE  [e EXCEPT !.canPower = c, !.supported = m]
           = [name |-> e.name, power |-> e.power, data |-> e.data, mode |-> e.mode,
              canData |-> e.canData, canPower |-> c, supported |-> m]
<1>1. PICK n, p, d, o, cd, cp, su :
        e = [name |-> n, power |-> p, data |-> d, mode |-> o, canData |-> cd,
             canPower |-> cp, supported |-> su]
  <2>1. e = [name |-> e.name, power |-> e.power, data |-> e.data, mode |-> e.mode,
             canData |-> e.canData, canPower |-> e.canPower,
             supported |-> e.supported]
    BY DEF Entry
  <2> QED
    BY <2>1
<1>2. [e EXCEPT !.canPower = c, !.supported = m]
        = [name |-> n, power |-> p, data |-> d, mode |-> o, canData |-> cd,
           canPower |-> c, supported |-> m]
  <2> DEFINE f == [e EXCEPT !.canPower = c]
  <2>1. f = [name |-> n, power |-> p, data |-> d, mode |-> o, canData |-> cd,
             canPower |-> c, supported |-> su]
    BY <1>1
  <2>2. [e EXCEPT !.canPower = c, !.supported = m] = [f EXCEPT !.supported = m]
    OBVIOUS
  <2> HIDE DEF f
  <2> QED
    BY <2>1, <2>2
<1>3. /\ e.name = n /\ e.power = p /\ e.data = d /\ e.mode = o
      /\ e.canData = cd
  BY <1>1
<1> QED
  BY <1>2, <1>3

\* The reader keeps its list of connected ports and its version.
LEMMA ReadHeader ==
  ASSUME Typed, Read
  PROVE  rd'.names = rd.names /\ rd'.version = rd.version
BY NextPortStep, ReadDataStep, ReadAccessoryStep, ReadModeStep, ReadCanChangeDataStep,
   ReadCanChangePowerStep DEF Read, Moved

\* Every step of getPortStatusHelper copies the files as they are, if no port
\* has changed since it began.
LEMMA ExactRead ==
  ASSUME Typed, ExactInv, Read
  PROVE  ExactInv'
<1> SUFFICES ASSUME ~changed'
             PROVE  ExactInv'
  BY DEF ExactInv
<1> DEFINE v == rd.version
           X(q) == Expected(q, v)
           Behind == \A q \in Ports \ rd.left : q # rd.port => rd.vec[q] = X(q)
<1>1. /\ mLock # None /\ ~changed /\ mLock' # None
      /\ sysfs' = sysfs /\ rd'.names = rd.names /\ rd'.version = rd.version
  BY ReadKeeps, ReadHeader
<1>2. /\ rd.names = {q \in Ports : sysfs[q] # None} /\ rd.step # "error"
      /\ Behind
  BY <1>1 DEF ExactInv
<1>3. rd'.names = {q \in Ports : sysfs'[q] # None}
  BY <1>1, <1>2
<1>4. \A q \in Ports : X(q)' = X(q)
  BY <1>1 DEF Expected
<1>5. ASSUME NEW p \in Ports, NextPort(p) PROVE ExactInv'
  <2>1. rd.port = None /\ sysfs[p] \in Partner \cup {None}
    BY <1>5, NextPortStep, ConstantsAssumption DEF Typed
  <2>2. CASE /\ p \in rd.names
             /\ Moved(p, [Blank EXCEPT !.name = TRUE, !.power = PowerRole(p)], "data", p)
    <3>1. sysfs[p] \in Partner /\ sysfs[p] # None
      BY <1>2, <2>1, <2>2
    <3>2. X(p).power = PowerRole(p)
      BY <3>1, ExpectedFields DEF PowerRole
    <3>0. rd'.vec[p] = [Blank EXCEPT !.name = TRUE, !.power = PowerRole(p)]
      BY <1>1, <2>1, <2>2, MovedEntries
    <3>3. rd'.vec[p].name /\ rd'.vec[p].power = X(p).power
      BY <3>0, <3>2 DEF Blank
    <3>4. Behind'
      BY <1>1, <1>2, <1>4, <2>1, <2>2, MovedEntries DEF Moved
    <3> QED
      BY <1>3, <1>4, <2>2, <3>3, <3>4 DEF ExactInv, Moved
  <2>3. CASE /\ p \notin rd.names
             /\ Moved(p, [Blank EXCEPT !.name = TRUE,
                                       !.supported = supportedModes(rd.version)],
                      "next", None)
    <3>1. X(p) = [Blank EXCEPT !.name = TRUE, !.supported = supportedModes(rd.version)]
      BY <1>2, <2>3 DEF Expected
    <3>2. rd'.vec[p] = X(p)
      BY <1>1, <2>1, <2>3, <3>1, MovedEntries
    <3>3. Behind'
      BY <1>1, <1>2, <1>4, <2>1, <2>3, <3>2, MovedEntries
    <3> QED
      BY <1>3, <2>3, <3>3 DEF ExactInv, Moved, AtPort
  <2> QED
    BY <1>5, <2>2, <2>3, NextPortStep
<1> DEFINE x == X(rd.port)
           s == sysfs[rd.port]
<1>6. ASSUME rd.step \in AtPort
      PROVE  /\ Here \in Entry /\ rd.port \in Ports /\ s \in Partner /\ s # None
             /\ Here.name /\ Here.power = x.power
             /\ rd.step # "data" => Here.data = x.data
             /\ rd.step = "mode" => s.accessory = "none"
             /\ rd.step \in {"canData", "canPower"} => Here.mode = x.mode
             /\ rd.step = "canPower" => Here.canData = x.canData
  <2>1. Here \in Entry /\ rd.port \in Ports /\ rd.port \in rd.names /\ s \in Partner \cup {None}
    BY <1>6, HereTyped
  <2>2. s # None
    BY <1>2, <2>1
  <2> QED
    BY <1>1, <1>6, <2>1, <2>2 DEF ExactInv, Here
\* The reader stays at its port: the other entries, and what to expect, stand.
<1>7. ASSUME rd.step \in AtPort, NEW e, NEW step, Moved(rd.port, e, step, rd.port)
      PROVE  /\ Behind' /\ x' = x /\ s' = s
             /\ rd'.vec[rd.port] = e /\ rd'.port = rd.port /\ rd'.step = step
  <2>1. rd'.vec[rd.port] = e /\ Behind'
    BY <1>1, <1>2, <1>4, <1>6, <1>7, MovedEntries DEF Moved
  <2>2. rd'.port = rd.port /\ rd'.step = step
    BY <1>7 DEF Moved
  <2>3. x' = x /\ s' = s
    BY <1>1, <2>2 DEF Expected
  <2> QED
    BY <2>1, <2>2, <2>3
<1>8. CASE ReadData
  <2>1. rd.step \in AtPort /\ rd.step = "data"
    BY <1>8 DEF ReadData, AtPort
  <2>2. Moved(rd.port, [Here EXCEPT !.data = DataRole(rd.port)], "accessory", rd.port)
    BY <1>8, ReadDataStep
  <2>3. x.data = DataRole(rd.port)
    BY <1>6, <2>1, ExpectedFields DEF DataRole
  <2>4. rd'.vec[rd.port] = [Here EXCEPT !.data = DataRole(rd.port)]
    BY <1>7, <2>1, <2>2
  <2>5. /\ rd'.vec[rd.port].name /\ rd'.vec[rd.port].power = x.power
        /\ rd'.vec[rd.port].data = x.data
    BY <1>6, <2>1, <2>3, <2>4 DEF Entry
  <2> QED
    BY <1>3, <1>7, <2>1, <2>2, <2>5 DEF ExactInv
<1>9. CASE ReadAccessory
  <2>1. rd.step \in AtPort /\ rd.step = "accessory"
    BY <1>9 DEF ReadAccessory, AtPort
  <2>2. CASE /\ s \in Partner /\ s.accessory = "none"
             /\ Moved(rd.port, Here, "mode", rd.port)
    <3>1. /\ rd'.vec[rd.port].name /\ rd'.vec[rd.port].power = x.power
          /\ rd'.vec[rd.port].data = x.data
      BY <1>6, <1>7, <2>1, <2>2
    <3> QED
      BY <1>3, <1>7, <2>1, <2>2, <3>1 DEF ExactInv
  <2>3. CASE /\ s \in Partner /\ s.accessory # "none"
             /\ Moved(rd.port, [Here EXCEPT !.mode = s.accessory], "canData", rd.port)
    <3>1. x.mode = s.accessory
      BY <1>6, <2>1, <2>3, ExpectedFields
    <3>2. rd'.vec[rd.port] = [Here EXCEPT !.mode = s.accessory]
      BY <1>7, <2>1, <2>3
    <3>3. /\ rd'.vec[rd.port].name /\ rd'.vec[rd.port].power = x.power
          /\ rd'.vec[rd.port].data = x.data /\ rd'.vec[rd.port].mode = x.mode
      BY <1>6, <2>1, <3>1, <3>2 DEF Entry
    <3> QED
      BY <1>3, <1>7, <2>1, <2>3, <3>3 DEF ExactInv
  <2> QED
    BY <1>6, <1>9, <2>1, <2>2, <2>3, ReadAccessoryStep
<1>10. CASE ReadMode
  <2>1. rd.step \in AtPort /\ rd.step = "mode"
    BY <1>10 DEF ReadMode, AtPort
  <2>2. Moved(rd.port, [Here EXCEPT !.mode = Mode(rd.port)], "canData", rd.port)
    BY <1>10, ReadModeStep
  <2>3. x.mode = Mode(rd.port)
    BY <1>6, <2>1, ExpectedFields
  <2>4. rd'.vec[rd.port] = [Here EXCEPT !.mode = Mode(rd.port)]
    BY <1>7, <2>1, <2>2
  <2>5. /\ rd'.vec[rd.port].name /\ rd'.vec[rd.port].power = x.power
        /\ rd'.vec[rd.port].data = x.data /\ rd'.vec[rd.port].mode = x.mode
    BY <1>6, <2>1, <2>3, <2>4 DEF Entry
  <2> QED
    BY <1>3, <1>7, <2>1, <2>2, <2>5 DEF ExactInv
<1>11. ASSUME rd.step \in AtPort
       PROVE  canSwitchRoleHelper(rd.port) = s.pd /\ x.canData = s.pd /\ x.canPower = s.pd
  BY <1>6, <1>11, ExpectedFields DEF canSwitchRoleHelper, Partner
<1>12. CASE ReadCanChangeData
  <2>1. rd.step \in AtPort /\ rd.step = "canData"
    BY <1>12 DEF ReadCanChangeData, AtPort
  <2>2. Moved(rd.port, [Here EXCEPT !.canData = canSwitchRoleHelper(rd.port)],
              "canPower", rd.port)
    BY <1>12, ReadCanChangeDataStep
  <2>3. rd'.vec[rd.port] = [Here EXCEPT !.canData = canSwitchRoleHelper(rd.port)]
    BY <1>7, <2>1, <2>2
  <2>4. /\ rd'.vec[rd.port].name /\ rd'.vec[rd.port].power = x.power
        /\ rd'.vec[rd.port].data = x.data /\ rd'.vec[rd.port].mode = x.mode
        /\ rd'.vec[rd.port].canData = x.canData
    BY <1>6, <1>11, <2>1, <2>3 DEF Entry
  <2> QED
    BY <1>3, <1>7, <2>1, <2>2, <2>4 DEF ExactInv
<1>13. CASE ReadCanChangePower
  <2> DEFINE e == [Here EXCEPT !.canPower = canSwitchRoleHelper(rd.port),
                               !.supported = supportedModes(rd.version)]
  <2>1. rd.step \in AtPort /\ rd.step = "canPower"
    BY <1>13 DEF ReadCanChangePower, AtPort
  <2>2. Moved(rd.port, e, "next", None)
    BY <1>13, ReadCanChangePowerStep
  <2>3. e = [name |-> Here.name, power |-> Here.power, data |-> Here.data,
             mode |-> Here.mode, canData |-> Here.canData, canPower |-> s.pd,
             supported |-> supportedModes(v)]
    <3>1. canSwitchRoleHelper(rd.port) = s.pd /\ Here \in Entry
      BY <1>6, <1>11, <2>1
    <3> QED
      BY <3>1, LastFields
  <2>4. e = x
    <3>1. x = [name |-> TRUE, power |-> s.power, data |-> s.data, mode |-> x.mode,
               canData |-> s.pd, canPower |-> s.pd, supported |-> supportedModes(v)]
      BY <1>6, <2>1, ExpectedFields
    <3>2. x.power = s.power /\ x.data = s.data /\ x.canData = s.pd
      BY <3>1
    <3>3. Here.name = TRUE
      BY <1>6, <2>1 DEF Entry
    <3>4. /\ Here.power = s.power /\ Here.data = s.data /\ Here.mode = x.mode
          /\ Here.canData = s.pd
      BY <1>6, <2>1, <3>2
    <3> HIDE DEF x, s, e
    <3> QED
      BY <2>3, <3>1, <3>3, <3>4
  <2>5. rd'.vec[rd.port] = x
    BY <1>1, <1>6, <2>1, <2>2, <2>4, MovedEntries
  <2>6. Behind'
    BY <1>1, <1>2, <1>4, <1>6, <2>1, <2>2, <2>5, MovedEntries
  <2> QED
    BY <1>3, <2>2, <2>6 DEF ExactInv, Moved, AtPort
<1> QED
  BY <1>5, <1>8, <1>9, <1>10, <1>12, <1>13 DEF Read

\* In every reachable state a reader that was not disturbed has the values of the
\* files for the ports it has left behind.
THEOREM ExactInvariant == Spec => []ExactInv
<1>1. Init => ExactInv
  BY DEF Init, ExactInv
<1>2. Typed /\ ExactInv /\ [Next]_vars => ExactInv'
  <2> SUFFICES ASSUME Typed, ExactInv, [Next]_vars PROVE ExactInv'
    OBVIOUS
  <2>1. CASE UNCHANGED vars
    BY <2>1 DEF ExactInv, vars, Expected
  <2>2. CASE Next /\ ~Read
    <3>1. CASE \E p \in Ports : Change(p)
      BY <3>1 DEF Change, ExactInv
    <3>2. CASE /\ mLock = None /\ changed' = FALSE /\ sysfs' = sysfs
               /\ rd'.names = {p \in Ports : sysfs[p] # None} /\ rd'.left = Ports
               /\ rd'.step = "next"
      BY <3>2 DEF ExactInv, AtPort
    <3>3. CASE mLock' = None
      BY <3>3 DEF ExactInv
    <3>4. CASE UNCHANGED <<rd, mLock>> /\ ~\E p \in Ports : Change(p)
      <4>1. CASE mLock = None
        BY <3>4, <4>1 DEF ExactInv
      <4>2. CASE mLock # None
        <5>1. UNCHANGED <<rd, mLock, sysfs, changed>>
          BY <2>2, <3>4, <4>2 DEF Next, Worker, QueryCast, QueryRead, QueryDeliver,
             Deliver, ReplaceCallback, RegisterCallback, ClearCallback, OpenSocket,
             EndWorker, Receive, Notify, WorkerDeliver
        <5> QED
          BY <5>1 DEF ExactInv, Expected
      <4> QED
        BY <4>1, <4>2
    <3> QED
      BY <2>2, <3>1, <3>2, <3>3, <3>4, OthersRead
  <2> QED
    BY <2>1, <2>2, ExactRead
<1> QED
  BY <1>1, <1>2, TypedInvariant, PTL DEF Spec

\* When a read that no change disturbed is over, it reports neither an error nor
\* anything that differs from the files.
LEMMA ExactWhenFinished ==
  ASSUME Typed, ExactInv, mLock # None, Finished, ~changed
  PROVE  rd.step # "error" /\ rd.vec = Current(rd.version)
<1>1. rd.step # "error"
  BY DEF ExactInv
<1>2. rd.left = {} /\ rd.port = None /\ None \notin Ports
  BY <1>1, ConstantsAssumption DEF Finished, Typed, AtOnePort
<1>3. \A p \in Ports : rd.vec[p] = Expected(p, rd.version)
  BY <1>2 DEF ExactInv
<1>4. rd.vec \in [Ports -> Entry]
  BY DEF Typed, Reading
<1> QED
  BY <1>1, <1>3, <1>4 DEF Current

\* A status that was read while no port changed is the state of the ports: for
\* any number of ports, no field of one is filled in from another or left stale.
THEOREM QuietReadIsExactHolds == Spec => []QuietReadIsExact
<1>1. Typed /\ ExactInv => QuietReadIsExact
  BY ExactWhenFinished DEF QuietReadIsExact
<1> QED
  BY <1>1, TypedInvariant, ExactInvariant, PTL

-----------------------------------------------------------------------------
(***************************************************************************)
(* Once the worker has caught up, the callback knows the ports as they are *)
(***************************************************************************)

\* A read for the callback that is over without a change gives it the current
\* status; after a change the worker still has something to do.
LEMMA DeliverCurrent ==
  ASSUME Typed, ExactInv, SettledInv, mLock # None, Finished, NEW v,
         v = rd.version, Deliver(mCallback, v), sysfs' = sysfs,
         mCallback' = mCallback, uevents' = uevents, ~missed', ~crossed',
         v = Version(castFrom(mCallback))
  PROVE  uevents > 0 \/ worker = "notify" \/ ToldCurrent'
<1> SUFFICES ASSUME ~(uevents > 0), worker # "notify"
             PROVE  ToldCurrent'
  OBVIOUS
<1>1. ~changed
  BY DEF SettledInv, ChangeInv, Deliver
<1>2. rd.step # "error" /\ rd.vec = Current(v)
  BY <1>1, ExactWhenFinished
<1>3. told' = [status |-> "success", version |-> v, vec |-> rd.vec]
  BY <1>2 DEF Deliver
<1>4. Current(told.version)' = Current(v)
  <2>1. told'.version = v
    BY <1>3
  <2> QED
    BY <2>1 DEF Current, Expected
<1> QED
  BY <1>2, <1>3, <1>4 DEF ToldCurrent

\* Every step keeps the form of what is told, and keeps a uevent, a notification
\* or a read under way for every change that was not yet told.
LEMMA SettledStep ==
  ASSUME Typed, ExactInv, SettledInv, Next
  PROVE  SettledInv'
<1>0. None \notin {"query", "worker"} \cup Callbacks
  BY ConstantsAssumption
<1>1. CASE Read
  <2>1. /\ UNCHANGED <<sysfs, uevents, mCallback, mLock, query, cast, worker, destroy,
                       told, missed, crossed, changed>>
        /\ rd'.version = rd.version
    BY <1>1, ReadKeeps, ReadHeader
  <2> QED
    BY <2>1 DEF SettledInv, FormInv, ChangeInv, ToldInv, ToldCurrent, Target, Current,
       Expected
<1>2. CASE QueryCast
  <2>1. mLock # "query"
    BY <1>2 DEF QueryCast, Typed
  <2> QED
    BY <1>2, <2>1 DEF QueryCast, hist, SettledInv, FormInv, ChangeInv, ToldInv,
       ToldCurrent, Current, Expected
<1>3. CASE QueryRead
  <2>1. CASE mCallback # None
    <3>1. changed' = FALSE /\ rd'.version = Version(cast)
      BY <1>3, <2>1, BeginTyped, VersionType DEF QueryRead
    <3>2. FormInv' /\ ChangeInv'
      BY <1>0, <1>3, <2>1, <3>1 DEF QueryRead, SettledInv, FormInv, ChangeInv
    <3>3. ToldInv'
      <4>1. CASE Target = mCallback
        BY <1>3, <2>1, <4>1 DEF QueryRead, ToldInv, Target
      <4>2. CASE Target # mCallback
        BY <1>0, <1>3, <2>1, <4>2 DEF QueryRead, Typed, SettledInv, ToldInv, ToldCurrent,
           Current, Expected
      <4> QED
        BY <4>1, <4>2
    <3> QED
      BY <3>2, <3>3 DEF SettledInv
  <2>2. CASE mCallback = None
    BY <1>0, <1>3, <2>2 DEF QueryRead, SettledInv, FormInv, ChangeInv, ToldInv
  <2> QED
    BY <2>1, <2>2
<1>4. CASE QueryDeliver
  <2>1. mLock = "query" /\ mLock # None /\ mCallback # None /\ rd.version = Version(cast)
    BY <1>0, <1>4 DEF QueryDeliver, SettledInv, FormInv
  <2>2. FormInv' /\ ChangeInv'
    BY <1>0, <1>4, <2>1 DEF QueryDeliver, Deliver, SettledInv, FormInv, ChangeInv
  <2>3. ToldInv'
    <3> SUFFICES ASSUME ~missed', ~crossed', told'.status # "none"
                 PROVE  uevents > 0 \/ worker = "notify" \/ ToldCurrent'
      BY <1>4 DEF ToldInv, QueryDeliver
    <3>1. CASE Target = mCallback
      <4>1. Version(cast) = Version(castFrom(mCallback))
        BY <1>4, <2>1, <3>1 DEF QueryDeliver, Deliver
      <4> QED
        BY <1>4, <2>1, <3>1, <4>1, DeliverCurrent DEF QueryDeliver
    <3>2. CASE Target # mCallback
      <4>1. UNCHANGED <<told, crossed, missed, sysfs, mCallback>>
        BY <1>4, <3>2 DEF QueryDeliver, Deliver
      <4>2. worker # "read"
        BY <1>0, <2>1 DEF Typed
      <4>3. uevents > 0 \/ worker = "notify" \/ ToldCurrent
        BY <2>1, <3>2, <4>1, <4>2 DEF SettledInv, ToldInv
      <4> QED
        BY <4>1, <4>3 DEF ToldCurrent, Current, Expected
    <3> QED
      BY <3>1, <3>2
  <2> QED
    BY <2>2, <2>3 DEF SettledInv
<1>5. CASE ReplaceCallback
  BY <1>0, <1>5 DEF ReplaceCallback, Typed, SettledInv, FormInv, ChangeInv, ToldInv
<1>6. CASE RegisterCallback
  BY <1>0, <1>6 DEF RegisterCallback, hist, Typed, SettledInv, FormInv, ChangeInv, ToldInv
<1>7. CASE ClearCallback
  BY <1>0, <1>7 DEF ClearCallback, Typed, SettledInv, FormInv, ChangeInv, ToldInv
<1>8. CASE OpenSocket
  BY <1>8 DEF OpenSocket, hist, SettledInv, FormInv, ChangeInv, ToldInv, ToldCurrent,
     Target, Current, Expected
<1>9. CASE EndWorker
  BY <1>9 DEF EndWorker, hist, SettledInv, FormInv, ChangeInv, ToldInv
<1>10. CASE Receive
  BY <1>10 DEF Receive, hist, SettledInv, FormInv, ChangeInv, ToldInv
<1>11. CASE Notify
  <2>1. CASE mCallback # None
    <3>1. changed' = FALSE /\ rd'.version = Version(castFrom(mCallback))
      BY <1>11, <2>1, BeginTyped, VersionType DEF Notify
    <3> QED
      BY <1>0, <1>11, <2>1, <3>1 DEF Notify, SettledInv, FormInv, ChangeInv, ToldInv
  <2>2. CASE mCallback = None
    BY <1>11, <2>2 DEF Notify, SettledInv, FormInv, ChangeInv, ToldInv
  <2> QED
    BY <2>1, <2>2
<1>12. CASE WorkerDeliver
  <2>1. /\ mLock = "worker" /\ mLock # None /\ mCallback # None
        /\ rd.version = Version(castFrom(mCallback))
    BY <1>0, <1>12 DEF WorkerDeliver, SettledInv, FormInv
  <2>2. FormInv' /\ ChangeInv'
    BY <1>0, <1>12, <2>1 DEF WorkerDeliver, Deliver, SettledInv, FormInv, ChangeInv
  <2>3. ToldInv'
    <3> SUFFICES ASSUME ~missed', ~crossed'
                 PROVE  uevents > 0 \/ ToldCurrent'
      BY <1>12 DEF ToldInv, WorkerDeliver
    <3>1. worker = "read"
      BY <2>1 DEF Typed
    <3> QED
      BY <1>12, <2>1, <3>1, DeliverCurrent DEF WorkerDeliver
  <2> QED
    BY <2>2, <2>3 DEF SettledInv
<1>13. ASSUME NEW p \in Ports, Change(p) PROVE SettledInv'
  <2>1. FormInv'
    BY <1>13 DEF Change, SettledInv, FormInv
  <2>2. mCallback # None => uevents' > 0 \/ missed'
    <3>1. CASE worker \notin {"none", "start"}
      <4>1. uevents' = uevents + 1 /\ uevents \in Nat
        BY <1>13, <3>1, ConstantsAssumption DEF Change, Typed
      <4> QED
        BY <4>1
    <3>2. CASE worker \in {"none", "start"}
      BY <1>13, <3>2 DEF Change
    <3> QED
      BY <3>1, <3>2
  <2> QED
    BY <1>13, <2>1, <2>2 DEF Change, SettledInv, FormInv, ChangeInv, ToldInv
<1> QED
  BY <1>1, <1>2, <1>3, <1>4, <1>5, <1>6, <1>7, <1>8, <1>9, <1>10, <1>11, <1>12, <1>13
  DEF Next, Worker

\* In every reachable state the callback has been told the ports as they are, or
\* something is still on its way that will tell it.
THEOREM SettledInvariant == Spec => []SettledInv
<1>1. Init => SettledInv
  BY ConstantsAssumption DEF Init, SettledInv, FormInv, ChangeInv, ToldInv
<1>2. Typed /\ ExactInv /\ SettledInv /\ [Next]_vars => SettledInv'
  <2>1. ASSUME SettledInv, UNCHANGED vars PROVE SettledInv'
    BY <2>1 DEF vars, SettledInv, FormInv, ChangeInv, ToldInv, ToldCurrent, Target,
       Current, Expected
  <2> QED
    BY <2>1, SettledStep
<1> QED
  BY <1>1, <1>2, TypedInvariant, ExactInvariant, PTL DEF Spec

\* With the uevents handled and no read under way, the callback was last told the
\* ports as they are, in the form of its version: a partner that left during a
\* read, and spoilt it, has left a uevent that leads to another one.
THEOREM SettledStatusHolds == Spec => []SettledStatus
<1>1. Typed /\ SettledInv => SettledStatus
  BY ConstantsAssumption DEF Typed, SettledInv, ToldInv, ToldCurrent, SettledStatus
<1> QED
  BY <1>1, TypedInvariant, SettledInvariant, PTL
===============================================================================
