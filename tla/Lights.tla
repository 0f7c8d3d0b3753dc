-------------------------------- MODULE Lights --------------------------------
(***************************************************************************)
(* The lights HAL of liblight/lights.c: the backlight with its low         *)
(* persistence mode, and the notification and attention lights, which      *)
(* share one LED of three colours.  The calls come from several threads;   *)
(* g_lock makes the writes of one call to the LED's nine files a unit.     *)
(* The files keep their values when the process dies, its globals do not.  *)
(***************************************************************************)
EXTENDS Integers, Sequences

CONSTANTS
  Threads,
  Backlights,     \* the states set_light_backlight is called with
  Notifications,  \* the states of the notification light
  Attentions,     \* the states of the attention light
  ColorIds,       \* values of ro.boot.hardware.color
  Faults,         \* the files whose write may fail
  None

Colors == {"red", "green", "blue"}
Modes  == {"user", "sensor", "lp"}
Color  == [Colors -> 0..255]
Flash  == {"none", "timed", "hardware"}
Light  == [color : Color, flash : Flash, on : Nat, off : Nat]

ASSUME ConstantsAssumption ==
  /\ Backlights \subseteq [color : Color, mode : Modes]
  /\ Notifications \cup Attentions \subseteq Light
  /\ None \notin Threads

VARIABLES
  \* The files
  persist,  \* msm_fb_persist_mode
  lcd,      \* lcd-backlight/brightness
  onOff,    \* per colour: on_off_ms
  led,      \* per colour: brightness
  shown,    \* per colour: what rgb_start has put on the LED
  \* The globals
  ratio, g_lock, g_notification, g_attention, g_last_backlight_mode,
  \* The threads
  pc, arg,  \* control; the operation and its state
  step,     \* position in Files
  \* History, read by the properties only
  last,      \* the last completed backlight call: its state, whether it returned 0
  unsynced,  \* the persistence file has not followed g_last_backlight_mode
  ledFailed  \* a write of the last refresh of the LED has failed

files   == <<persist, lcd, onOff, led, shown>>
globals == <<ratio, g_notification, g_attention, g_last_backlight_mode>>
vars == <<files, globals, g_lock, pc, arg, step, last, unsynced, ledFailed>>

-----------------------------------------------------------------------------
(***************************************************************************)
(* Colours and brightness                                                  *)
(***************************************************************************)

\* init_globals: how far the colour of the glass dims the LED.
RatioOf(id) == CASE id = "GRA00" -> 25
                 [] id \in {"SLV00", "BLU00"} -> 15
                 [] OTHER -> 20

rgb_to_brightness(c) == (77 * c["red"] + 150 * c["green"] + 29 * c["blue"]) \div 256

\* Mutant: the LED is not dimmed.
ScaledFull(c) == [x \in Colors |-> c[x]]

Scaled(c) == [x \in Colors |-> (c[x] * ratio) \div 255]

OnOff(state) == IF state.flash = "timed" THEN <<state.on, state.off>> ELSE <<0, 0>>

Off == [color |-> [x \in Colors |-> 0], flash |-> "none", on |-> 0, off |-> 0]

\* LIGHTS_SUPPORT_BATTERY is 0: nobody sets the battery light.
g_battery == Off
is_lit(state) == \E x \in Colors : state.color[x] # 0

\* handle_speaker_battery_locked
SpeakerLight == IF is_lit(g_battery) THEN g_battery ELSE g_notification

\* The files set_speaker_light_locked writes, in its order.
Files == << <<"onOff", "red">>, <<"led", "red">>, <<"onOff", "green">>,
            <<"led", "green">>, <<"onOff", "blue">>, <<"led", "blue">>,
            <<"start", "red">>, <<"start", "green">>, <<"start", "blue">> >>

-----------------------------------------------------------------------------
Goto(t, label) == pc' = [pc EXCEPT ![t] = label]

\* The first open_lights runs init_globals.
OpenLights ==
  /\ ratio = 255
  /\ \E id \in ColorIds : ratio' = RatioOf(id)
  /\ UNCHANGED <<files, g_lock, g_notification, g_attention, g_last_backlight_mode,
                 pc, arg, step, last, unsynced, ledFailed>>

Call(t) ==
  /\ pc[t] = "idle" /\ ratio # 255
  /\ \E a \in    {<<"backlight", s>> : s \in Backlights}
            \cup {<<"notifications", s>> : s \in Notifications}
            \cup {<<"attention", s>> : s \in Attentions} :
       arg' = [arg EXCEPT ![t] = a]
  /\ Goto(t, "lock")
  /\ UNCHANGED <<files, globals, g_lock, step, last, unsynced, ledFailed>>

Unlock(t) ==
  /\ g_lock' = None
  /\ arg' = [arg EXCEPT ![t] = <<>>]
  /\ Goto(t, "idle")

(***************************************************************************)
(* set_light_backlight                                                     *)
(***************************************************************************)
State(t)     == arg[t][2]
lpEnabled(t) == State(t).mode = "lp"

\* Mutant: only switching the mode on is a transition.
TransitionOn(t) == g_last_backlight_mode # State(t).mode /\ lpEnabled(t)

Transition(t) ==
  \/ g_last_backlight_mode # State(t).mode /\ lpEnabled(t)
  \/ ~lpEnabled(t) /\ g_last_backlight_mode = "lp"

\* The mode is remembered whether or not the display has taken it; after a
\* failure the brightness is not written.
SetPersistence(t) ==
  /\ pc[t] = "lock" /\ arg[t][1] = "backlight"
  /\ g_lock = None
  /\ g_last_backlight_mode' = State(t).mode
  /\ \/ /\ ~Transition(t)
        /\ g_lock' = t
        /\ Goto(t, "lcd")
        /\ UNCHANGED <<persist, arg, last, unsynced>>
     \/ /\ Transition(t)
        /\ persist' = lpEnabled(t)
        /\ unsynced' = FALSE
        /\ g_lock' = t
        /\ Goto(t, "lcd")
        /\ UNCHANGED <<arg, last>>
     \/ /\ Transition(t) /\ "persist" \in Faults
        /\ unsynced' = (persist # lpEnabled(t))
        /\ last' = [state |-> State(t), ok |-> FALSE]
        /\ Unlock(t)
        /\ UNCHANGED persist
  /\ UNCHANGED <<lcd, onOff, led, shown, ratio, g_notification, g_attention, step,
                 ledFailed>>

SetBrightness(t) ==
  /\ pc[t] = "lcd"
  /\ \/ /\ lcd' = rgb_to_brightness(State(t).color)
        /\ last' = [state |-> State(t), ok |-> TRUE]
     \/ /\ "lcd" \in Faults
        /\ last' = [state |-> State(t), ok |-> FALSE]
        /\ UNCHANGED lcd
  /\ Unlock(t)
  /\ UNCHANGED <<persist, onOff, led, shown, globals, step, unsynced, ledFailed>>

(***************************************************************************)
(* set_light_notifications and set_light_attention                         *)
(***************************************************************************)
Refresh(t) ==
  /\ Goto(t, "led")
  /\ step' = [step EXCEPT ![t] = 1]
  /\ ledFailed' = FALSE

SetNotification(t) ==
  /\ pc[t] = "lock" /\ arg[t][1] = "notifications"
  /\ g_lock = None
  /\ g_lock' = t
  /\ g_notification' = State(t)
  /\ Refresh(t)
  /\ UNCHANGED <<files, ratio, g_attention, g_last_backlight_mode, arg, last, unsynced>>

\* Mutant: the attention light, which stores next to nothing, takes no lock.
SetAttentionUnlocked(t) ==
  /\ pc[t] = "lock" /\ arg[t][1] = "attention"
  /\ g_attention' = CASE State(t).flash = "hardware" -> State(t).on
                      [] State(t).flash = "none"     -> 0
                      [] State(t).flash = "timed"    -> g_attention
  /\ Refresh(t)
  /\ UNCHANGED <<files, ratio, g_lock, g_notification, g_last_backlight_mode, arg,
                 last, unsynced>>

SetAttention(t) ==
  /\ pc[t] = "lock" /\ arg[t][1] = "attention"
  /\ g_lock = None
  /\ g_lock' = t
  /\ g_attention' = CASE State(t).flash = "hardware" -> State(t).on
                      [] State(t).flash = "none"     -> 0
                      [] State(t).flash = "timed"    -> g_attention
  /\ Refresh(t)
  /\ UNCHANGED <<files, ratio, g_notification, g_last_backlight_mode, arg, last,
                 unsynced>>

\* One write of set_speaker_light_locked.  A failed one is passed over, but
\* each rgb_start is only written when the one before it was.
WriteLed(t) ==
  /\ pc[t] = "led" /\ step[t] <= Len(Files)
  /\ LET kind  == Files[step[t]][1]
         x     == Files[step[t]][2]
     IN  \/ /\ onOff' = IF kind = "onOff"
                        THEN [onOff EXCEPT ![x] = OnOff(SpeakerLight)] ELSE onOff
            /\ led' = IF kind = "led"
                      THEN [led EXCEPT ![x] = Scaled(SpeakerLight.color)[x]] ELSE led
            /\ shown' = IF kind = "start"
                        THEN [shown EXCEPT ![x] = <<led[x], onOff[x]>>] ELSE shown
            /\ step' = [step EXCEPT ![t] = @ + 1]
            /\ UNCHANGED ledFailed
         \/ /\ kind \in Faults
            /\ step' = [step EXCEPT ![t] = IF kind = "start" THEN Len(Files) + 1
                                                             ELSE @ + 1]
            /\ ledFailed' = TRUE
            /\ UNCHANGED <<onOff, led, shown>>
  /\ UNCHANGED <<persist, lcd, globals, g_lock, pc, arg, last, unsynced>>

\* Both calls return 0 whatever has failed.
FinishLed(t) ==
  /\ pc[t] = "led" /\ step[t] > Len(Files)
  /\ step' = [step EXCEPT ![t] = 0]
  /\ Unlock(t)
  /\ UNCHANGED <<files, globals, last, unsynced, ledFailed>>

(***************************************************************************)
(* The process dies and is started again by init.                          *)
(***************************************************************************)
InitialGlobals ==
  /\ ratio' = 255
  /\ g_lock' = None
  /\ g_notification' = Off
  /\ g_attention' = 0
  /\ g_last_backlight_mode' = "user"
  /\ pc' = [t \in Threads |-> "idle"]
  /\ arg' = [t \in Threads |-> <<>>]
  /\ step' = [t \in Threads |-> 0]

Restart ==
  /\ ratio # 255
  /\ InitialGlobals
  /\ unsynced' = persist
  /\ last' = [state |-> None, ok |-> FALSE]
  /\ ledFailed' = TRUE
  /\ UNCHANGED files

-----------------------------------------------------------------------------
Init ==
  /\ persist = FALSE
  /\ lcd = 0
  /\ onOff = [x \in Colors |-> <<0, 0>>]
  /\ led = [x \in Colors |-> 0]
  /\ shown = [x \in Colors |-> <<0, <<0, 0>>>>]
  /\ ratio = 255
  /\ g_lock = None
  /\ g_notification = Off
  /\ g_attention = 0
  /\ g_last_backlight_mode = "user"
  /\ pc = [t \in Threads |-> "idle"]
  /\ arg = [t \in Threads |-> <<>>]
  /\ step = [t \in Threads |-> 0]
  /\ last = [state |-> None, ok |-> FALSE]
  /\ unsynced = FALSE
  /\ ledFailed = FALSE

Next == \/ OpenLights \/ Restart
        \/ \E t \in Threads : \/ Call(t) \/ SetPersistence(t) \/ SetBrightness(t)
                              \/ SetNotification(t) \/ SetAttention(t)
                              \/ WriteLed(t) \/ FinishLed(t)

Spec == Init /\ [][Next]_vars

-----------------------------------------------------------------------------
(***************************************************************************)
(* Properties                                                              *)
(***************************************************************************)

\* Type correctness; a brightness is a byte, and the LED is dimmed to the ratio.
TypeOK ==
  /\ persist \in BOOLEAN /\ lcd \in 0..255
  /\ led \in [Colors -> 0..25]
  /\ ratio \in {15, 20, 25, 255}
  /\ g_lock \in Threads \cup {None}
  /\ g_notification \in Notifications \cup {Off}
  /\ g_attention \in {s.on : s \in Attentions} \cup {0}
  /\ g_last_backlight_mode \in Modes
  /\ pc \in [Threads -> {"idle", "lock", "lcd", "led"}]
  /\ step \in [Threads -> 0..Len(Files) + 1]
  /\ {unsynced, ledFailed} \subseteq BOOLEAN

\* When no call is inside, the LED shows the notification that was set last, in
\* all its colours and with its rhythm: the refreshes of several threads do not
\* mix, and one refresh without a failed write repairs whatever earlier failures
\* have left behind.
LedShowsNotification ==
  g_lock = None /\ ratio # 255 /\ ~ledFailed =>
    shown = [x \in Colors |-> <<Scaled(g_notification.color)[x], OnOff(g_notification)>>]

\* After a call of set_light_backlight that returned 0, the backlight has the
\* brightness of the grey it asked for, and the display is in low persistence
\* exactly when it asked for it; unless an earlier failure or a restart has left
\* the file behind the mode, which only the next transition writes again.
BacklightAsAsked ==
  g_lock = None /\ last.ok =>
    /\ LET c == last.state.color IN
       c["red"] = c["green"] /\ c["green"] = c["blue"] => lcd = c["red"]
    /\ ~unsynced => persist = (last.state.mode = "lp")
===============================================================================
