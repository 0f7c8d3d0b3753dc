---------------------------- MODULE GadgetContract ----------------------------
(***************************************************************************)
(* What the gadget HAL promises the host and the framework, without its    *)
(* threads, locks, attributes and failures: requests are handled one at a  *)
(* time, and the configuration the host sees only changes through a        *)
(* complete disconnect.  A request dismantles the old configuration, which *)
(* may still be connected until the first function goes, and builds a new  *)
(* one from nothing with the gadget down.  Connecting and disconnecting    *)
(* are otherwise free, within a request and between two.                   *)
(***************************************************************************)
CONSTANTS Threads, NoOwner, Links

VARIABLES
  up,     \* the gadget is connected
  conf,   \* the functions in its configuration
  owner,  \* the thread whose request is handled
  phase   \* "none", "old", "new" or "end"

vars == <<up, conf, owner, phase>>

Init == up = FALSE /\ conf = {} /\ owner = NoOwner /\ phase = "none"

Begin(t) ==
  /\ owner = NoOwner
  /\ owner' = t
  /\ phase' = "old"
  /\ UNCHANGED <<up, conf>>

\* A function is removed, and the host disconnected with it.
Dismantle ==
  /\ phase = "old"
  /\ conf' \in (SUBSET conf) \ {conf}
  /\ up' = FALSE
  /\ UNCHANGED <<owner, phase>>

\* The host has time to notice.
Disconnected ==
  /\ phase = "old" /\ conf = {} /\ ~up
  /\ phase' = "new"
  /\ UNCHANGED <<up, conf, owner>>

\* The new functions, or some of them when the request fails here.
Build ==
  /\ phase = "new" /\ conf = {} /\ ~up
  /\ conf' \in SUBSET Links
  /\ phase' \in {"new", "end"}
  /\ UNCHANGED <<up, owner>>

PullUp ==
  /\ ~up /\ conf # {}
  /\ up' = TRUE
  /\ UNCHANGED <<conf, owner, phase>>

PullDown ==
  /\ up
  /\ up' = FALSE
  /\ UNCHANGED <<conf, owner, phase>>

Abandon ==
  /\ phase \in {"old", "new"}
  /\ phase' = "end"
  /\ UNCHANGED <<up, conf, owner>>

End ==
  /\ phase \in {"new", "end"}
  /\ owner' = NoOwner
  /\ phase' = "none"
  /\ UNCHANGED <<up, conf>>

Next == \/ \E t \in Threads : Begin(t)
        \/ Dismantle \/ Disconnected \/ Build \/ PullUp \/ PullDown \/ Abandon \/ End

Spec == Init /\ [][Next]_vars
===============================================================================
