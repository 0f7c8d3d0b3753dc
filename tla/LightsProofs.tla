----------------------------- MODULE LightsProofs -----------------------------
(***************************************************************************)
(* Proofs about Lights for every set of threads, every set of light states *)
(* and every combination of failing files: type correctness, what the LED  *)
(* shows, and what a successful backlight call leaves.                     *)
(***************************************************************************)
EXTENDS Lights, TLAPS

-----------------------------------------------------------------------------
(***************************************************************************)
(* What is inductive.                                                      *)
(***************************************************************************)

\* What a thread was called with; the files of the LED.
Argument == {<<>>} \cup ({"backlight"} \X Backlights)
                   \cup ({"notifications"} \X Notifications)
                   \cup ({"attention"} \X Attentions)
Rhythm == Nat \X Nat

MoreTypes == /\ arg \in [Threads -> Argument]
             /\ onOff \in [Colors -> Rhythm]
             /\ shown \in [Colors -> (0..25) \X Rhythm]
             /\ last.ok \in BOOLEAN
             /\ last.ok => last.state \in Backlights

\* A thread between its lock and its unlock holds g_lock, and has the argument
\* of its operation; nobody calls before open_lights.
LockHeld == \A t \in Threads :
              /\ pc[t] \in {"lcd", "led"} => g_lock = t
              /\ pc[t] = "led" => step[t] >= 1
              /\ pc[t] # "idle" => arg[t] # <<>> /\ ratio # 255
              /\ pc[t] = "lcd" => arg[t][1] = "backlight"

\* A file of the LED holds what the notification asks for.
Holds(kind, x) ==
  CASE kind = "onOff" -> onOff[x] = OnOff(g_notification)
    [] kind = "led"   -> led[x] = Scaled(g_notification.color)[x]
    [] kind = "start" -> shown[x] = <<Scaled(g_notification.color)[x], OnOff(g_notification)>>

\* A refresh without a failure has written the files before its position.
RefreshProgress ==
  \A t \in Threads : pc[t] = "led" /\ ~ledFailed =>
    \A i \in DOMAIN Files : i < step[t] => Holds(Files[i][1], Files[i][2])

\* Outside a refresh the LED shows the notification; before open_lights both
\* are off.
ShownOutsideRefresh ==
  (\A t \in Threads : pc[t] # "led") /\ ~ledFailed =>
    IF ratio = 255
      THEN shown = [x \in Colors |-> <<0, <<0, 0>>>>]
      ELSE shown = [x \in Colors |-> <<Scaled(g_notification.color)[x], OnOff(g_notification)>>]
BeforeOpen == ratio = 255 => g_notification = Off

\* The persistence file follows the remembered mode, and a backlight call has
\* remembered its own.
PersistFollows == ~unsynced => persist = (g_last_backlight_mode = "lp")
ModeRemembered ==
  \A t \in Threads : pc[t] = "lcd" => g_last_backlight_mode = State(t).mode

\* Outside a backlight call the last successful one is still in force.
LastInForce ==
  (\A t \in Threads : pc[t] # "lcd") /\ last.ok =>
    /\ last.state.mode = g_last_backlight_mode
    /\ lcd = rgb_to_brightness(last.state.color)

-----------------------------------------------------------------------------
(***************************************************************************)
(* Colours, brightness and the order of the files                          *)
(***************************************************************************)

\* The nine files, in order.
LEMMA FilesAre ==
  /\ Len(Files) = 9
  /\ DOMAIN Files = 1..9
  /\ Files[1] = <<"onOff", "red">> /\ Files[2] = <<"led", "red">>
  /\ Files[3] = <<"onOff", "green">> /\ Files[4] = <<"led", "green">>
  /\ Files[5] = <<"onOff", "blue">> /\ Files[6] = <<"led", "blue">>
  /\ Files[7] = <<"start", "red">> /\ Files[8] = <<"start", "green">>
  /\ Files[9] = <<"start", "blue">>
BY DEF Files

\* The brightness of a colour is a byte, and that of a grey is the grey.
LEMMA BrightnessOfGrey ==
  ASSUME NEW c \in Color
  PROVE  /\ rgb_to_brightness(c) \in 0..255
         /\ c["red"] = c["green"] /\ c["green"] = c["blue"]
              => rgb_to_brightness(c) = c["red"]
<1>1. c["red"] \in 0..255 /\ c["green"] \in 0..255 /\ c["blue"] \in 0..255
  BY DEF Color, Colors
<1>2. \A r \in 0..255 : (77 * r + 150 * r + 29 * r) \div 256 = r
  <2> SUFFICES ASSUME NEW r \in 0..255
               PROVE  (77 * r + 150 * r + 29 * r) \div 256 = r
    OBVIOUS
  <2>1. 77 * r + 150 * r + 29 * r = 256 * r
    OBVIOUS
  <2>2. r \in Int /\ (256 * r) \div 256 = r
    OBVIOUS
  <2> QED
    BY <2>1, <2>2
<1>3. PICK r, g, b \in 0..255 : r = c["red"] /\ g = c["green"] /\ b = c["blue"]
  BY <1>1, Zenon
<1>4. rgb_to_brightness(c) = (77 * r + 150 * g + 29 * b) \div 256
  BY <1>3 DEF rgb_to_brightness
<1>5. rgb_to_brightness(c) \in 0..255
  BY <1>4
<1>6. r = g /\ g = b => rgb_to_brightness(c) = r
  BY <1>2, <1>4
<1> QED
  BY <1>3, <1>5, <1>6

\* An opened LED is dimmed to a tenth.
LEMMA ScaledType ==
  ASSUME NEW c \in Color, ratio \in {15, 20, 25}
  PROVE  Scaled(c) \in [Colors -> 0..25]
<1>1. \A n \in 0..255 : /\ (n * 15) \div 255 \in 0..25
                        /\ (n * 20) \div 255 \in 0..25
                        /\ (n * 25) \div 255 \in 0..25
  OBVIOUS
<1>2. \A x \in Colors : c[x] \in 0..255
  BY DEF Color
<1>3. \A x \in Colors : (c[x] * ratio) \div 255 \in 0..25
  BY <1>1, <1>2
<1> QED
  BY <1>3 DEF Scaled

\* A light that is off is a light, unlit, without a rhythm.
LEMMA OffIsLight ==
  /\ Off \in Light
  /\ OnOff(Off) = <<0, 0>>
  /\ Off.color = [x \in Colors |-> 0]
  /\ ~is_lit(Off)
<1>1. [x \in Colors |-> 0] \in Color
  BY DEF Color
<1> QED
  BY <1>1 DEF Off, Light, Flash, OnOff, is_lit

\* The speaker light is the notification: nobody sets the battery light.
LEMMA SpeakerIsNotification == SpeakerLight = g_notification
BY OffIsLight DEF SpeakerLight, g_battery

\* The rhythm of a light.
LEMMA RhythmType ==
  ASSUME NEW s \in Light
  PROVE  OnOff(s) \in Rhythm
BY DEF OnOff, Rhythm, Light

\* A notification that was set is a light.
LEMMA NotificationIsLight ==
  ASSUME TypeOK
  PROVE  g_notification \in Light /\ g_notification.color \in Color
<1>1. g_notification \in Light
  BY OffIsLight, ConstantsAssumption DEF TypeOK
<1> QED
  BY <1>1 DEF Light

-----------------------------------------------------------------------------
(***************************************************************************)
(* Type correctness, and who holds the lock                                *)
(***************************************************************************)

USE DEF files, globals, Goto

\* The types and the lock.
BasicInv == TypeOK /\ MoreTypes /\ LockHeld

\* An argument of an operation is a state of its light.
LEMMA StateType ==
  ASSUME MoreTypes, NEW t \in Threads, arg[t] # <<>>
  PROVE  /\ arg[t][1] = "backlight" => /\ State(t) \in Backlights
                                       /\ State(t).mode \in Modes /\ State(t).color \in Color
         /\ arg[t][1] = "notifications" => State(t) \in Notifications
         /\ arg[t][1] = "attention" => /\ State(t) \in Attentions
                                       /\ State(t).flash \in Flash
<1>1. arg[t] \in ({"backlight"} \X Backlights) \cup ({"notifications"} \X Notifications)
                  \cup ({"attention"} \X Attentions)
  BY DEF MoreTypes, Argument
<1>2. \A s \in Backlights : s.mode \in Modes /\ s.color \in Color
  BY ConstantsAssumption
<1>3. \A s \in Attentions : s.flash \in Flash
  BY ConstantsAssumption DEF Light
<1> QED
  BY <1>1, <1>2, <1>3 DEF State

\* Unlocking forgets the argument.
LEMMA UnlockType ==
  ASSUME BasicInv, NEW t \in Threads, Unlock(t)
  PROVE  /\ g_lock' \in Threads \cup {None}
         /\ pc' \in [Threads -> {"idle", "lock", "lcd", "led"}]
         /\ arg' \in [Threads -> Argument]
         /\ pc'[t] = "idle"
         /\ \A u \in Threads \ {t} : pc'[u] = pc[u] /\ arg'[u] = arg[u]
<1>1. <<>> \in Argument
  BY DEF Argument
<1> QED
  BY <1>1 DEF Unlock, BasicInv, TypeOK, MoreTypes

\* Every step of a call preserves the types and the lock.
LEMMA CallType ==
  ASSUME BasicInv, NEW t \in Threads,
         \/ Call(t) \/ SetPersistence(t) \/ SetBrightness(t)
         \/ SetNotification(t) \/ SetAttention(t) \/ WriteLed(t) \/ FinishLed(t)
  PROVE  BasicInv'
<1>0. /\ pc \in [Threads -> {"idle", "lock", "lcd", "led"}]
      /\ arg \in [Threads -> Argument]
      /\ step \in [Threads -> 0..10]
      /\ None \notin Threads
  BY FilesAre, ConstantsAssumption DEF BasicInv, TypeOK, MoreTypes
<1>1. CASE Call(t)
  <2>1. PICK a \in    {<<"backlight", s>> : s \in Backlights}
                 \cup {<<"notifications", s>> : s \in Notifications}
                 \cup {<<"attention", s>> : s \in Attentions} :
          arg' = [arg EXCEPT ![t] = a]
    BY <1>1 DEF Call
  <2>2. a \in Argument /\ a # <<>>
    BY DEF Argument
  <2>3. LockHeld'
    BY <1>0, <1>1, <2>1, <2>2 DEF Call, BasicInv, LockHeld
  <2>4. MoreTypes'
    BY <1>0, <1>1, <2>1, <2>2 DEF Call, BasicInv, MoreTypes
  <2>5. TypeOK'
    BY <1>1 DEF Call, BasicInv, TypeOK
  <2> QED
    BY <2>3, <2>4, <2>5 DEF BasicInv
<1>2. CASE SetPersistence(t)
  <2>1. pc[t] = "lock" /\ arg[t] # <<>> /\ ratio # 255 /\ g_lock = None
    BY <1>2 DEF SetPersistence, BasicInv, LockHeld
  <2>2. State(t) \in Backlights /\ State(t).mode \in Modes
    BY <1>2, <2>1, StateType DEF SetPersistence, BasicInv
  <2>3. \A u \in Threads : pc[u] \notin {"lcd", "led"}
    BY <1>0, <2>1 DEF BasicInv, LockHeld
  <2>4. persist' \in BOOLEAN /\ unsynced' \in BOOLEAN
    <3>1. persist \in BOOLEAN /\ unsynced \in BOOLEAN /\ lpEnabled(t) \in BOOLEAN
      BY DEF BasicInv, TypeOK, lpEnabled
    <3>2. /\ persist' = persist \/ persist' = lpEnabled(t)
          /\ \/ unsynced' = unsynced
             \/ unsynced' = FALSE
             \/ unsynced' = (persist # lpEnabled(t))
      BY <1>2 DEF SetPersistence
    <3> QED
      BY <3>1, <3>2, Zenon
  <2>5. CASE g_lock' = t /\ Goto(t, "lcd") /\ UNCHANGED <<arg, last>>
    <3>1. TypeOK'
      BY <1>0, <1>2, <2>2, <2>4, <2>5 DEF SetPersistence, BasicInv, TypeOK
    <3>2. MoreTypes'
      BY <1>2, <2>5 DEF SetPersistence, BasicInv, MoreTypes
    <3>3. LockHeld'
      BY <1>0, <1>2, <2>1, <2>3, <2>5 DEF SetPersistence, BasicInv, LockHeld
    <3> QED
      BY <3>1, <3>2, <3>3 DEF BasicInv
  <2>6. CASE Unlock(t) /\ last' = [state |-> State(t), ok |-> FALSE]
    <3>1. TypeOK'
      BY <1>0, <1>2, <2>2, <2>4, <2>6, UnlockType DEF SetPersistence, BasicInv, TypeOK
    <3>2. MoreTypes'
      BY <1>2, <2>6, UnlockType DEF SetPersistence, BasicInv, MoreTypes
    <3>3. LockHeld'
      BY <1>0, <1>2, <2>3, <2>6, UnlockType DEF SetPersistence, BasicInv, LockHeld
    <3> QED
      BY <3>1, <3>2, <3>3 DEF BasicInv
  <2> QED
    BY <1>2, <2>5, <2>6 DEF SetPersistence
<1>3. CASE SetBrightness(t)
  <2>1. pc[t] = "lcd" /\ arg[t] # <<>> /\ g_lock = t /\ arg[t][1] = "backlight"
    BY <1>3 DEF SetBrightness, BasicInv, LockHeld
  <2>2. State(t) \in Backlights /\ State(t).color \in Color
    BY <2>1, StateType DEF BasicInv
  <2>3. lcd' \in 0..255
    <3>1. rgb_to_brightness(State(t).color) \in 0..255
      BY <2>2, BrightnessOfGrey
    <3>2. lcd' = lcd \/ lcd' = rgb_to_brightness(State(t).color)
      BY <1>3 DEF SetBrightness
    <3>3. lcd \in 0..255
      BY DEF BasicInv, TypeOK
    <3> QED
      BY <3>1, <3>2, <3>3, Zenon
  <2>4. Unlock(t)
    BY <1>3 DEF SetBrightness
  <2>5. TypeOK'
    BY <1>0, <1>3, <2>3, <2>4, UnlockType DEF SetBrightness, BasicInv, TypeOK
  <2>6. MoreTypes'
    <3>1. last'.ok \in BOOLEAN /\ (last'.ok => last'.state \in Backlights)
      <4>1. PICK b \in BOOLEAN : last' = [state |-> State(t), ok |-> b]
        BY <1>3 DEF SetBrightness
      <4> QED
        BY <2>2, <4>1
    <3>2. arg' \in [Threads -> Argument]
      BY <2>4, UnlockType
    <3> QED
      BY <1>3, <3>1, <3>2 DEF SetBrightness, BasicInv, MoreTypes
  <2>7. LockHeld'
    BY <1>0, <1>3, <2>1, <2>4, UnlockType DEF SetBrightness, BasicInv, LockHeld
  <2> QED
    BY <2>5, <2>6, <2>7 DEF BasicInv
<1>4. CASE SetNotification(t) \/ SetAttention(t)
  <2>1. pc[t] = "lock" /\ arg[t] # <<>> /\ ratio # 255 /\ g_lock = None
    BY <1>4 DEF SetNotification, SetAttention, BasicInv, LockHeld
  <2>2. /\ UNCHANGED <<files, ratio, g_last_backlight_mode, arg, last, unsynced>>
        /\ g_lock' = t /\ Refresh(t)
    BY <1>4 DEF SetNotification, SetAttention
  <2>3. /\ g_notification' \in Notifications \cup {Off}
        /\ g_attention' \in {s.on : s \in Attentions} \cup {0}
    <3>1. CASE SetNotification(t)
      BY <2>1, <3>1, StateType DEF SetNotification, BasicInv, TypeOK
    <3>2. CASE SetAttention(t)
      <4>1. State(t) \in Attentions /\ State(t).flash \in Flash
        BY <2>1, <3>2, StateType DEF SetAttention, BasicInv
      <4> QED
        BY <3>2, <4>1 DEF SetAttention, BasicInv, TypeOK, Flash
    <3> QED
      BY <1>4, <3>1, <3>2
  <2>4. TypeOK'
    <3>1. pc' \in [Threads -> {"idle", "lock", "lcd", "led"}] /\ ledFailed' \in BOOLEAN
      BY <1>0, <2>2 DEF Refresh
    <3>2. step' \in [Threads -> 0..Len(Files) + 1]
      BY <1>0, <2>2, FilesAre DEF Refresh
    <3> QED
      BY <2>2, <2>3, <3>1, <3>2 DEF BasicInv, TypeOK
  <2>5. MoreTypes'
    BY <2>2 DEF BasicInv, MoreTypes
  <2>6. LockHeld'
    BY <1>0, <2>1, <2>2 DEF Refresh, BasicInv, LockHeld
  <2> QED
    BY <2>4, <2>5, <2>6 DEF BasicInv
<1>5. CASE WriteLed(t)
  <2> DEFINE kind == Files[step[t]][1]
             x    == Files[step[t]][2]
  <2>1. /\ pc[t] = "led" /\ step[t] \in 1..9 /\ g_lock = t
        /\ ratio \in {15, 20, 25}
    <3>1. pc[t] = "led" /\ step[t] <= 9
      BY <1>5, FilesAre DEF WriteLed
    <3>2. g_lock = t /\ step[t] \in 1..9 /\ ratio # 255
      BY <1>0, <3>1 DEF BasicInv, LockHeld
    <3>3. ratio \in {15, 20, 25, 255}
      BY DEF BasicInv, TypeOK
    <3> QED
      BY <3>1, <3>2, <3>3
  <2>2. x \in Colors
    BY <2>1, FilesAre DEF Colors
  <2>3. /\ OnOff(SpeakerLight) \in Rhythm
        /\ Scaled(SpeakerLight.color) \in [Colors -> 0..25]
    BY <2>1, SpeakerIsNotification, NotificationIsLight, RhythmType, ScaledType DEF BasicInv
  <2>4. /\ led \in [Colors -> 0..25]
        /\ onOff \in [Colors -> Rhythm]
        /\ shown \in [Colors -> (0..25) \X Rhythm]
    <3>1. led \in [Colors -> 0..25]
      BY DEF BasicInv, TypeOK
    <3>2. onOff \in [Colors -> Rhythm] /\ shown \in [Colors -> (0..25) \X Rhythm]
      BY DEF BasicInv, MoreTypes
    <3> QED
      BY <3>1, <3>2
  <2>5. /\ led' \in [Colors -> 0..25]
        /\ onOff' \in [Colors -> Rhythm]
        /\ shown' \in [Colors -> (0..25) \X Rhythm]
    <3> HIDE DEF kind, x
    <3>1. /\ led' = led \/ led' = [led EXCEPT ![x] = Scaled(SpeakerLight.color)[x]]
          /\ onOff' = onOff \/ onOff' = [onOff EXCEPT ![x] = OnOff(SpeakerLight)]
          /\ shown' = shown \/ shown' = [shown EXCEPT ![x] = <<led[x], onOff[x]>>]
      BY <1>5 DEF WriteLed, kind, x
    <3>2. <<led[x], onOff[x]>> \in (0..25) \X Rhythm
      BY <2>2, <2>4
    <3>3. Scaled(SpeakerLight.color)[x] \in 0..25 /\ OnOff(SpeakerLight) \in Rhythm
      BY <2>2, <2>3
    <3>4. led' \in [Colors -> 0..25]
      BY <2>4, <3>1, <3>3
    <3>5. onOff' \in [Colors -> Rhythm]
      BY <2>4, <3>1, <3>3
    <3>6. shown' \in [Colors -> (0..25) \X Rhythm]
      BY <2>4, <3>1, <3>2
    <3> QED
      BY <3>4, <3>5, <3>6
  <2>6. /\ step' \in [Threads -> 0..10]
        /\ step'[t] >= 1
        /\ \A u \in Threads \ {t} : step'[u] = step[u]
        /\ ledFailed' \in BOOLEAN
    <3>1. step[t] + 1 \in 1..10 /\ Len(Files) + 1 = 10
      BY <2>1, FilesAre
    <3>2. \/ step' = [step EXCEPT ![t] = step[t] + 1]
          \/ step' = [step EXCEPT ![t] = 10]
      BY <1>5, <3>1 DEF WriteLed
    <3>3. ledFailed' \in BOOLEAN
      BY <1>5 DEF WriteLed, BasicInv, TypeOK
    <3> QED
      BY <1>0, <3>1, <3>2, <3>3
  <2>7. UNCHANGED <<persist, lcd, globals, g_lock, pc, arg, last, unsynced>>
    BY <1>5 DEF WriteLed
  <2>8. TypeOK'
    BY <2>5, <2>6, <2>7, FilesAre DEF BasicInv, TypeOK
  <2>9. MoreTypes'
    BY <2>5, <2>7 DEF BasicInv, MoreTypes
  <2>10. LockHeld'
    BY <2>6, <2>7 DEF BasicInv, LockHeld
  <2> QED
    BY <2>8, <2>9, <2>10 DEF BasicInv
<1>6. CASE FinishLed(t)
  <2>1. Unlock(t) /\ pc[t] = "led" /\ g_lock = t
    BY <1>6 DEF FinishLed, BasicInv, LockHeld
  <2>2. TypeOK'
    BY <1>0, <1>6, <2>1, UnlockType, FilesAre DEF FinishLed, BasicInv, TypeOK
  <2>3. MoreTypes'
    BY <1>6, <2>1, UnlockType DEF FinishLed, BasicInv, MoreTypes
  <2>4. LockHeld'
    BY <1>0, <1>6, <2>1, UnlockType DEF FinishLed, BasicInv, LockHeld
  <2> QED
    BY <2>2, <2>3, <2>4 DEF BasicInv
<1> QED
  BY <1>1, <1>2, <1>3, <1>4, <1>5, <1>6

\* Opening, a restart and a stutter preserve the types and the lock.
LEMMA OtherType ==
  ASSUME BasicInv, OpenLights \/ Restart \/ UNCHANGED vars
  PROVE  BasicInv'
<1>1. CASE OpenLights
  <2>1. ratio' \in {15, 20, 25} /\ ratio = 255
    BY <1>1 DEF OpenLights, RatioOf
  <2>2. TypeOK'
    BY <1>1, <2>1 DEF OpenLights, BasicInv, TypeOK
  <2>3. MoreTypes'
    BY <1>1 DEF OpenLights, BasicInv, MoreTypes
  <2>4. LockHeld'
    BY <1>1, <2>1 DEF OpenLights, BasicInv, LockHeld
  <2> QED
    BY <2>2, <2>3, <2>4 DEF BasicInv
<1>2. CASE Restart
  <2>1. <<>> \in Argument /\ 0 \in 0..10 /\ persist \in BOOLEAN
    BY DEF Argument, BasicInv, TypeOK
  <2>2. TypeOK'
    BY <1>2, <2>1, FilesAre DEF Restart, InitialGlobals, BasicInv, TypeOK, Modes
  <2>3. MoreTypes'
    BY <1>2, <2>1 DEF Restart, InitialGlobals, BasicInv, MoreTypes
  <2>4. LockHeld'
    BY <1>2 DEF Restart, InitialGlobals, LockHeld
  <2> QED
    BY <2>2, <2>3, <2>4 DEF BasicInv
<1>3. CASE UNCHANGED vars
  BY <1>3 DEF vars, BasicInv, TypeOK, MoreTypes, LockHeld, State
<1> QED
  BY <1>1, <1>2, <1>3

\* The types and the lock hold in every reachable state.
THEOREM BasicInvariant == Spec => []BasicInv
<1>1. Init => BasicInv
  <2> SUFFICES ASSUME Init PROVE BasicInv
    OBVIOUS
  <2>1. <<>> \in Argument /\ <<0, 0>> \in Rhythm /\ <<0, <<0, 0>>>> \in (0..25) \X Rhythm
    BY DEF Argument, Rhythm
  <2>2. TypeOK
    <3>1. step \in [Threads -> 0..Len(Files) + 1]
      BY FilesAre DEF Init
    <3>2. lcd \in 0..255 /\ led \in [Colors -> 0..25] /\ ratio \in {15, 20, 25, 255}
      BY DEF Init
    <3>3. g_attention \in {s.on : s \in Attentions} \cup {0}
      BY DEF Init
    <3> QED
      BY <3>1, <3>2, <3>3 DEF Init, TypeOK, Modes
  <2>3. MoreTypes
    BY <2>1 DEF Init, MoreTypes
  <2>4. LockHeld
    BY DEF Init, LockHeld
  <2> QED
    BY <2>2, <2>3, <2>4 DEF BasicInv
<1>2. BasicInv /\ [Next]_vars => BasicInv'
  BY CallType, OtherType DEF Next
<1> QED
  BY <1>1, <1>2, PTL DEF Spec

\* Every reachable state is type correct: a brightness is a byte, and the LED is
\* dimmed whatever colour is asked for.
THEOREM TypeCorrect == Spec => []TypeOK
<1>1. BasicInv => TypeOK
  BY DEF BasicInv
<1> QED
  BY <1>1, BasicInvariant, PTL

-----------------------------------------------------------------------------
(***************************************************************************)
(* The LED.  A refresh writes nine files while other threads call; the     *)
(* notification it shows cannot change meanwhile, because whoever changes  *)
(* it needs g_lock and starts a refresh of its own.                        *)
(***************************************************************************)

\* What is said about the LED is inductive together.
LedInv == RefreshProgress /\ ShownOutsideRefresh /\ BeforeOpen

\* A step that leaves the LED, the notification and the refreshes alone.
LEMMA LedUntouched ==
  ASSUME LedInv, UNCHANGED <<onOff, led, shown, ratio, g_notification, ledFailed, step>>,
         \A t \in Threads : pc'[t] = "led" <=> pc[t] = "led"
  PROVE  LedInv'
<1>1. \A kind, x : Holds(kind, x)' = Holds(kind, x)
  BY DEF Holds, Scaled
<1>2. RefreshProgress'
  BY <1>1 DEF LedInv, RefreshProgress
<1>3. ShownOutsideRefresh'
  BY DEF LedInv, ShownOutsideRefresh, Scaled
<1> QED
  BY <1>2, <1>3 DEF LedInv, BeforeOpen

\* One write of a refresh: the file at its position now holds what the
\* notification asks for, and the ones before it still do.
LEMMA WriteLedProgress ==
  ASSUME BasicInv, LedInv, NEW t \in Threads, WriteLed(t), ~ledFailed'
  PROVE  /\ \A i \in DOMAIN Files : i < step'[t] => Holds(Files[i][1], Files[i][2])'
         /\ ~ledFailed
<1> DEFINE n == g_notification
<1>0. PICK k \in 1..9 : k = step[t]
  BY FilesAre DEF WriteLed, BasicInv, TypeOK, LockHeld
<1>1. step'[t] = k + 1 /\ ~ledFailed
  BY <1>0, FilesAre DEF WriteLed, BasicInv, TypeOK
<1> DEFINE kind == Files[k][1]
           x    == Files[k][2]
<1>2. /\ onOff' = IF kind = "onOff" THEN [onOff EXCEPT ![x] = OnOff(n)] ELSE onOff
      /\ led' = IF kind = "led" THEN [led EXCEPT ![x] = Scaled(n.color)[x]] ELSE led
      /\ shown' = IF kind = "start" THEN [shown EXCEPT ![x] = <<led[x], onOff[x]>>] ELSE shown
      /\ UNCHANGED <<ratio, g_notification>>
  BY <1>0, SpeakerIsNotification DEF WriteLed
<1>3. /\ led \in [Colors -> 0..25]
      /\ onOff \in [Colors -> Rhythm]
      /\ shown \in [Colors -> (0..25) \X Rhythm]
  BY DEF BasicInv, TypeOK, MoreTypes
<1>4. \A i \in 1..9 : i < k => Holds(Files[i][1], Files[i][2])
  BY <1>0, <1>1, FilesAre DEF LedInv, RefreshProgress, WriteLed
<1>5. Scaled(n.color)' = Scaled(n.color)
  BY <1>2 DEF Scaled
<1>6. x \in Colors /\ kind \in {"onOff", "led", "start"}
  BY FilesAre DEF Colors
<1>7. kind = "start" => led[x] = Scaled(n.color)[x] /\ onOff[x] = OnOff(n)
  <2> SUFFICES ASSUME kind = "start"
               PROVE  led[x] = Scaled(n.color)[x] /\ onOff[x] = OnOff(n)
    OBVIOUS
  <2>1. k \in 7..9
    BY FilesAre
  <2>2. \A i \in 1..6 : Holds(Files[i][1], Files[i][2])
    BY <1>4, <2>1
  <2>3. /\ Holds("onOff", "red") /\ Holds("led", "red")
        /\ Holds("onOff", "green") /\ Holds("led", "green")
        /\ Holds("onOff", "blue") /\ Holds("led", "blue")
    BY <2>2, FilesAre
  <2>4. \A c \in Colors : led[c] = Scaled(n.color)[c] /\ onOff[c] = OnOff(n)
    BY <2>3 DEF Holds, Colors
  <2> QED
    BY <1>6, <2>4
<1>8. Holds(kind, x)'
  <2> HIDE DEF kind, x
  <2>1. CASE kind = "onOff"
    BY <1>2, <1>3, <1>6, <2>1 DEF Holds
  <2>2. CASE kind = "led"
    BY <1>2, <1>3, <1>5, <1>6, <2>2 DEF Holds
  <2>3. CASE kind = "start"
    BY <1>2, <1>3, <1>5, <1>6, <1>7, <2>3 DEF Holds
  <2> QED
    BY <1>6, <2>1, <2>2, <2>3
<1>9. ASSUME NEW l \in {"onOff", "led", "start"}, NEW c \in Colors, Holds(l, c)
      PROVE  Holds(l, c)'
  <2> HIDE DEF kind, x
  <2>1. CASE l = "onOff"
    <3>1. onOff[c] = OnOff(n)
      BY <1>9, <2>1 DEF Holds
    <3>2. onOff'[c] = OnOff(n)
      BY <1>2, <1>3, <3>1
    <3> QED
      BY <1>2, <2>1, <3>2 DEF Holds
  <2>2. CASE l = "led"
    <3>1. led[c] = Scaled(n.color)[c]
      BY <1>9, <2>2 DEF Holds
    <3>2. led'[c] = Scaled(n.color)[c]
      BY <1>2, <1>3, <3>1
    <3> QED
      BY <1>5, <2>2, <3>2 DEF Holds
  <2>3. CASE l = "start"
    <3>1. shown[c] = <<Scaled(n.color)[c], OnOff(n)>>
      BY <1>9, <2>3 DEF Holds
    <3>2. shown'[c] = <<Scaled(n.color)[c], OnOff(n)>>
      BY <1>2, <1>3, <1>7, <3>1
    <3> QED
      BY <1>2, <1>5, <2>3, <3>2 DEF Holds
  <2> QED
    BY <2>1, <2>2, <2>3
<1>10. \A i \in 1..9 : Files[i][1] \in {"onOff", "led", "start"} /\ Files[i][2] \in Colors
  BY FilesAre DEF Colors
<1>11. ASSUME NEW i \in 1..9, i < k + 1
       PROVE  Holds(Files[i][1], Files[i][2])'
  <2>1. CASE i = k
    BY <1>8, <2>1
  <2>2. CASE i < k
    BY <1>4, <1>9, <1>10, <2>2
  <2> QED
    BY <1>11, <2>1, <2>2
<1> QED
  BY <1>1, <1>11, FilesAre

\* Every step of a call preserves what is said about the LED.
LEMMA CallLed ==
  ASSUME BasicInv, LedInv, NEW t \in Threads,
         \/ Call(t) \/ SetPersistence(t) \/ SetBrightness(t)
         \/ SetNotification(t) \/ SetAttention(t) \/ WriteLed(t) \/ FinishLed(t)
  PROVE  LedInv'
<1>0. /\ pc \in [Threads -> {"idle", "lock", "lcd", "led"}]
      /\ step \in [Threads -> 0..10]
      /\ ledFailed \in BOOLEAN
      /\ None \notin Threads
      /\ \A u \in Threads : pc[u] \in {"lcd", "led"} => g_lock = u
      /\ pc[t] # "idle" => ratio # 255
  BY FilesAre, ConstantsAssumption DEF BasicInv, TypeOK, LockHeld
<1>1. CASE Call(t) \/ SetPersistence(t) \/ SetBrightness(t)
  BY <1>0, <1>1, LedUntouched DEF Call, SetPersistence, SetBrightness, Unlock
<1>2. CASE SetNotification(t) \/ SetAttention(t)
  <2>1. /\ pc'[t] = "led" /\ step'[t] = 1 /\ UNCHANGED ratio /\ ratio # 255
        /\ \A u \in Threads \ {t} : pc'[u] # "led"
    BY <1>0, <1>2 DEF SetNotification, SetAttention, Refresh
  <2>2. RefreshProgress'
    BY <2>1, FilesAre DEF RefreshProgress
  <2> QED
    BY <2>1, <2>2 DEF LedInv, ShownOutsideRefresh, BeforeOpen
<1>3. CASE WriteLed(t)
  <2>1. /\ pc[t] = "led" /\ UNCHANGED <<pc, ratio, g_notification>>
        /\ \A u \in Threads \ {t} : pc[u] # "led"
    BY <1>0, <1>3 DEF WriteLed
  <2>2. RefreshProgress'
    BY <1>3, <2>1, WriteLedProgress DEF RefreshProgress
  <2> QED
    BY <2>1, <2>2 DEF LedInv, ShownOutsideRefresh, BeforeOpen
<1>4. CASE FinishLed(t)
  <2>1. /\ pc[t] = "led" /\ ratio # 255
        /\ \A u \in Threads : pc'[u] # "led"
        /\ UNCHANGED <<onOff, led, shown, ratio, g_notification, ledFailed>>
    BY <1>0, <1>4 DEF FinishLed, Unlock
  <2>2. ASSUME ~ledFailed
        PROVE  shown = [x \in Colors |-> <<Scaled(g_notification.color)[x],
                                           OnOff(g_notification)>>]
    <3>1. \A i \in 1..9 : Holds(Files[i][1], Files[i][2])
      BY <1>0, <1>4, <2>1, <2>2, FilesAre DEF FinishLed, LedInv, RefreshProgress
    <3>2. Holds("start", "red") /\ Holds("start", "green") /\ Holds("start", "blue")
      BY <3>1, FilesAre
    <3>3. \A x \in Colors : shown[x] = <<Scaled(g_notification.color)[x],
                                         OnOff(g_notification)>>
      BY <3>2 DEF Holds, Colors
    <3>4. shown \in [Colors -> (0..25) \X Rhythm]
      BY DEF BasicInv, MoreTypes
    <3> QED
      BY <3>3, <3>4
  <2>3. RefreshProgress'
    BY <2>1 DEF RefreshProgress
  <2>4. ShownOutsideRefresh'
    BY <2>1, <2>2 DEF ShownOutsideRefresh, Scaled
  <2> QED
    BY <2>1, <2>3, <2>4 DEF LedInv, BeforeOpen
<1> QED
  BY <1>1, <1>2, <1>3, <1>4

\* Opening and a restart preserve it: an LED that is off shows a notification
\* that is off, whatever the ratio.
LEMMA OtherLed ==
  ASSUME BasicInv, LedInv, OpenLights \/ Restart \/ UNCHANGED vars
  PROVE  LedInv'
<1>1. CASE OpenLights
  <2>1. /\ ratio = 255 /\ ratio' \in {15, 20, 25}
        /\ UNCHANGED <<onOff, led, shown, g_notification, ledFailed, pc, step>>
        /\ g_notification = Off
    BY <1>1 DEF OpenLights, RatioOf, LedInv, BeforeOpen
  <2>2. \A t \in Threads : pc[t] # "led"
    BY <2>1 DEF BasicInv, LockHeld
  <2>3. Scaled(g_notification.color)' = [x \in Colors |-> 0]
    <3>1. \A x \in Colors : g_notification'.color[x] = 0
      BY <2>1, OffIsLight
    <3>2. (0 * 15) \div 255 = 0 /\ (0 * 20) \div 255 = 0 /\ (0 * 25) \div 255 = 0
      OBVIOUS
    <3>3. \A x \in Colors : (g_notification'.color[x] * ratio') \div 255 = 0
      BY <2>1, <3>1, <3>2
    <3> QED
      BY <3>3 DEF Scaled
  <2>4. OnOff(g_notification)' = <<0, 0>>
    BY <2>1, OffIsLight
  <2>5. ShownOutsideRefresh'
    <3>1. ~ledFailed => shown = [x \in Colors |-> <<0, <<0, 0>>>>]
      BY <2>1, <2>2 DEF LedInv, ShownOutsideRefresh
    <3>2. [x \in Colors |-> <<Scaled(g_notification.color)[x], OnOff(g_notification)>>]'
            = [x \in Colors |-> <<0, <<0, 0>>>>]
      BY <2>3, <2>4
    <3> QED
      BY <2>1, <3>1, <3>2 DEF ShownOutsideRefresh
  <2>6. RefreshProgress'
    BY <2>1, <2>2 DEF RefreshProgress
  <2> QED
    BY <2>1, <2>5, <2>6 DEF LedInv, BeforeOpen
<1>2. CASE Restart
  BY <1>2 DEF Restart, InitialGlobals, LedInv, RefreshProgress, ShownOutsideRefresh, BeforeOpen
<1>3. CASE UNCHANGED vars
  BY <1>3, LedUntouched DEF vars
<1> QED
  BY <1>1, <1>2, <1>3

\* What is said about the LED holds in every reachable state.
THEOREM LedInvariant == Spec => []LedInv
<1>1. Init => LedInv
  BY DEF Init, LedInv, RefreshProgress, ShownOutsideRefresh, BeforeOpen
<1>2. BasicInv /\ LedInv /\ [Next]_vars => LedInv'
  BY CallLed, OtherLed DEF Next
<1> QED
  BY <1>1, <1>2, BasicInvariant, PTL DEF Spec

\* When no call is inside and the last refresh had no failure, the LED shows
\* the notification that was set last, in all its colours and with its rhythm,
\* for every number of threads and whatever earlier refreshes have failed to
\* write.
THEOREM LedShowsNotificationHolds == Spec => []LedShowsNotification
<1>1. BasicInv /\ LedInv => LedShowsNotification
  <2> SUFFICES ASSUME BasicInv, LedInv, g_lock = None, ratio # 255, ~ledFailed
               PROVE  shown = [x \in Colors |-> <<Scaled(g_notification.color)[x],
                                                  OnOff(g_notification)>>]
    BY DEF LedShowsNotification
  <2>1. \A t \in Threads : pc[t] # "led"
    BY ConstantsAssumption DEF BasicInv, LockHeld
  <2> QED
    BY <2>1 DEF LedInv, ShownOutsideRefresh
<1> QED
  BY <1>1, BasicInvariant, LedInvariant, PTL

-----------------------------------------------------------------------------
(***************************************************************************)
(* The backlight                                                           *)
(***************************************************************************)

\* What is said about the backlight is inductive together.
BacklightInv == PersistFollows /\ ModeRemembered /\ LastInForce

\* Every step of a call preserves it: Transition is exactly a change between
\* low persistence and the other modes.
LEMMA CallBacklight ==
  ASSUME BasicInv, BacklightInv, NEW t \in Threads,
         \/ Call(t) \/ SetPersistence(t) \/ SetBrightness(t)
         \/ SetNotification(t) \/ SetAttention(t) \/ WriteLed(t) \/ FinishLed(t)
  PROVE  BacklightInv'
<1>0. /\ pc \in [Threads -> {"idle", "lock", "lcd", "led"}]
      /\ arg \in [Threads -> Argument]
      /\ persist \in BOOLEAN /\ unsynced \in BOOLEAN
      /\ None \notin Threads
      /\ \A u \in Threads : pc[u] \in {"lcd", "led"} => g_lock = u
  BY ConstantsAssumption DEF BasicInv, TypeOK, MoreTypes, LockHeld
<1> USE DEF BacklightInv, PersistFollows, ModeRemembered, LastInForce
<1>1. CASE Call(t)
  <2>1. /\ UNCHANGED <<persist, lcd, g_last_backlight_mode, last, unsynced>>
        /\ \A u \in Threads : pc'[u] = "lcd" <=> pc[u] = "lcd"
        /\ \A u \in Threads : pc[u] = "lcd" => State(u)' = State(u)
    BY <1>0, <1>1 DEF Call, State
  <2> QED
    BY <2>1
<1>2. CASE SetPersistence(t)
  <2>1. \A u \in Threads : pc[u] # "lcd"
    BY <1>0, <1>2 DEF SetPersistence
  <2>2. PersistFollows'
    <3>1. CASE ~Transition(t)
      BY <1>0, <1>2, <3>1 DEF SetPersistence, Transition, lpEnabled
    <3>2. CASE Transition(t)
      BY <1>0, <1>2, <3>2 DEF SetPersistence, lpEnabled
    <3> QED
      BY <3>1, <3>2
  <2>3. CASE Goto(t, "lcd") /\ UNCHANGED arg
    <3>1. State(t)' = State(t) /\ g_last_backlight_mode' = State(t).mode /\ pc'[t] = "lcd"
      BY <1>0, <1>2, <2>3 DEF SetPersistence, State
    <3>2. \A u \in Threads \ {t} : pc'[u] # "lcd"
      BY <1>0, <2>1, <2>3
    <3> QED
      BY <2>2, <3>1, <3>2
  <2>4. CASE Unlock(t) /\ last' = [state |-> State(t), ok |-> FALSE]
    <3>1. \A u \in Threads : pc'[u] # "lcd"
      BY <1>0, <2>1, <2>4 DEF Unlock
    <3>2. ~last'.ok
      BY <2>4
    <3> QED
      BY <2>2, <3>1, <3>2
  <2> QED
    BY <1>2, <2>3, <2>4 DEF SetPersistence
<1>3. CASE SetBrightness(t)
  <2>1. /\ pc[t] = "lcd" /\ g_last_backlight_mode = State(t).mode
        /\ UNCHANGED <<persist, g_last_backlight_mode, unsynced>>
        /\ \A u \in Threads : pc'[u] # "lcd"
    BY <1>0, <1>3 DEF SetBrightness, Unlock
  <2>2. \/ /\ lcd' = rgb_to_brightness(State(t).color)
           /\ last' = [state |-> State(t), ok |-> TRUE]
        \/ last' = [state |-> State(t), ok |-> FALSE]
    BY <1>3 DEF SetBrightness
  <2>3. last'.ok => /\ last'.state = State(t)
                    /\ lcd' = rgb_to_brightness(State(t).color)
    BY <2>2
  <2> QED
    BY <2>1, <2>3
<1>4. CASE SetNotification(t) \/ SetAttention(t)
  <2>1. /\ UNCHANGED <<persist, lcd, g_last_backlight_mode, last, unsynced, arg>>
        /\ \A u \in Threads : pc'[u] = "lcd" <=> pc[u] = "lcd"
    BY <1>0, <1>4 DEF SetNotification, SetAttention, Refresh
  <2> QED
    BY <2>1 DEF State
<1>5. CASE WriteLed(t) \/ FinishLed(t)
  <2>1. /\ UNCHANGED <<persist, lcd, g_last_backlight_mode, last, unsynced>>
        /\ \A u \in Threads : pc'[u] = "lcd" <=> pc[u] = "lcd"
        /\ \A u \in Threads : pc[u] = "lcd" => State(u)' = State(u)
    BY <1>0, <1>5 DEF WriteLed, FinishLed, Unlock, State
  <2>2. PersistFollows'
    BY <2>1
  <2>3. ModeRemembered'
    BY <2>1
  <2>4. LastInForce'
    BY <2>1
  <2> QED
    BY <2>2, <2>3, <2>4
<1> QED
  BY <1>1, <1>2, <1>3, <1>4, <1>5

\* What is said about the backlight holds in every reachable state; a restart
\* forgets the mode, which is then known to differ from the file or not.
THEOREM BacklightInvariant == Spec => []BacklightInv
<1>1. Init => BacklightInv
  <2>1. Init => PersistFollows
    BY DEF Init, PersistFollows
  <2>2. Init => ModeRemembered /\ ~last.ok
    BY DEF Init, ModeRemembered
  <2> QED
    BY <2>1, <2>2 DEF BacklightInv, LastInForce
<1>2. BasicInv /\ BacklightInv /\ [Next]_vars => BacklightInv'
  <2>1. ASSUME BasicInv, BacklightInv, OpenLights \/ UNCHANGED vars PROVE BacklightInv'
    BY <2>1 DEF OpenLights, vars, BacklightInv, PersistFollows, ModeRemembered, LastInForce,
       State
  <2>2. ASSUME BasicInv, BacklightInv, Restart PROVE BacklightInv'
    <3>1. persist \in BOOLEAN
      BY <2>2 DEF BasicInv, TypeOK
    <3> QED
      BY <2>2, <3>1 DEF Restart, InitialGlobals, BacklightInv, PersistFollows,
         ModeRemembered, LastInForce
  <2> QED
    BY <2>1, <2>2, CallBacklight DEF Next
<1> QED
  BY <1>1, <1>2, BasicInvariant, PTL DEF Spec

\* After a successful backlight call the display has the brightness of the grey
\* it asked for, whatever the other threads do, and the persistence mode it
\* asked for unless an earlier failure or a restart has left the file behind.
THEOREM BacklightAsAskedHolds == Spec => []BacklightAsAsked
<1>1. BasicInv /\ BacklightInv => BacklightAsAsked
  <2> SUFFICES ASSUME BasicInv, BacklightInv, g_lock = None, last.ok
               PROVE  /\ LET c == last.state.color IN
                         c["red"] = c["green"] /\ c["green"] = c["blue"] => lcd = c["red"]
                      /\ ~unsynced => persist = (last.state.mode = "lp")
    BY DEF BacklightAsAsked
  <2>1. \A t \in Threads : pc[t] # "lcd"
    BY ConstantsAssumption DEF BasicInv, LockHeld
  <2>2. last.state.color \in Color
    BY ConstantsAssumption DEF BasicInv, MoreTypes
  <2>3. /\ last.state.mode = g_last_backlight_mode
        /\ lcd = rgb_to_brightness(last.state.color)
    BY <2>1 DEF BacklightInv, LastInForce
  <2> QED
    BY <2>2, <2>3, BrightnessOfGrey DEF BacklightInv, PersistFollows
<1> QED
  BY <1>1, BasicInvariant, BacklightInvariant, PTL
===============================================================================
