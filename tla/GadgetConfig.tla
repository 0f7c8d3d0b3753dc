---------------------------- MODULE GadgetConfig ----------------------------
(***************************************************************************)
(* The USB configurations usb/UsbGadget.cpp knows: which requested         *)
(* function sets it accepts under which vendor configuration, the vendor   *)
(* and product id it then writes, and the configfs links it creates.       *)
(*                                                                         *)
(* A request is a set of function names (the GadgetFunction bit mask; NONE *)
(* is the empty set).  A vendor configuration, a comma-separated property  *)
(* in the code, is the sequence of its tokens.                             *)
(***************************************************************************)
EXTENDS Integers, Sequences

Function == {"MTP", "PTP", "MIDI", "ACCESSORY", "AUDIO_SOURCE", "RNDIS", "ADB"}

FfsLink == {"ffs.mtp", "ffs.ptp", "ffs.adb"}

Link == FfsLink \cup {"midi.gs5", "accessory.gs2", "audio_source.gs3",
                      "gsi.rndis", "diag.diag", "cser.dun.0", "gsi.rmnet"}

Token == {"diag", "serial_cdev", "rmnet_gsi"}

\* What getVendorFunctions can return: a "user" build has no debug functions.
VendorConfig == Seq(Token) \cup {<<"user">>}

(***************************************************************************)
(* The system properties read by getVendorFunctions.  build is TRUE for a  *)
(* "user" build, radio is TRUE when the boot mode is "usbradio".           *)
(***************************************************************************)
Props == [build : BOOLEAN, radio : BOOLEAN,
          persist : Seq(Token), vendor : Seq(Token)]

\* What getVendorFunctions returns.
getVendorFunctions(p) ==
  IF p.build THEN <<"user">>
  ELSE IF p.vendor # <<>> THEN p.vendor
  ELSE IF ~p.radio THEN <<>>
  ELSE IF p.persist # <<>> THEN p.persist ELSE <<"diag">>

\* Mutant: the choice is not published.
PropsAfterSilent(p) == p

\* The properties after the call: usbradio mode publishes its choice.
PropsAfter(p) ==
  IF ~p.build /\ p.vendor = <<>> /\ p.radio
    THEN [p EXCEPT !.vendor = getVendorFunctions(p)]
    ELSE p

(***************************************************************************)
(* validateAndSetVidPid.  The three tables are the three shapes of its     *)
(* cases: Google ids for an ordinary vendor configuration, Qualcomm ids    *)
(* for one particular debug configuration, and the accessory ids that are  *)
(* written under every vendor configuration.                               *)
(***************************************************************************)
GoogleIds ==
  { [f |-> {"MTP"}, pid |-> "4ee1"],   [f |-> {"ADB", "MTP"}, pid |-> "4ee2"],
    [f |-> {"RNDIS"}, pid |-> "4ee3"], [f |-> {"ADB", "RNDIS"}, pid |-> "4ee4"],
    [f |-> {"PTP"}, pid |-> "4ee5"],   [f |-> {"ADB", "PTP"}, pid |-> "4ee6"],
    [f |-> {"ADB"}, pid |-> "4ee7"],
    [f |-> {"MIDI"}, pid |-> "4ee8"],  [f |-> {"ADB", "MIDI"}, pid |-> "4ee9"] }

\* Mutant: a copied case whose product id was not changed.
QualcommIdsCopied ==
  { [f |-> {"MTP"}, v |-> <<"diag">>, pid |-> "901B"],
    [f |-> {"ADB"}, v |-> <<"diag">>, pid |-> "901D"],
    [f |-> {"ADB"}, v |-> <<"diag", "serial_cdev">>, pid |-> "901D"] }

QualcommIds ==
  { [f |-> {"MTP"}, v |-> <<"diag">>, pid |-> "901B"],
    [f |-> {"ADB", "MTP"}, v |-> <<"diag">>, pid |-> "903A"],
    [f |-> {"RNDIS"}, v |-> <<"diag">>, pid |-> "902C"],
    [f |-> {"RNDIS"}, v |-> <<"serial_cdev", "diag">>, pid |-> "90B5"],
    [f |-> {"ADB", "RNDIS"}, v |-> <<"diag">>, pid |-> "902D"],
    [f |-> {"ADB", "RNDIS"}, v |-> <<"serial_cdev", "diag">>, pid |-> "90B6"],
    [f |-> {"ADB"}, v |-> <<"diag">>, pid |-> "901D"],
    [f |-> {"ADB"}, v |-> <<"diag", "serial_cdev", "rmnet_gsi">>, pid |-> "9091"],
    [f |-> {"ADB"}, v |-> <<"diag", "serial_cdev">>, pid |-> "901F"] }

AccessoryIds ==
  { [f |-> {"ACCESSORY"}, pid |-> "2d00"],
    [f |-> {"ADB", "ACCESSORY"}, pid |-> "2d01"],
    [f |-> {"AUDIO_SOURCE"}, pid |-> "2d02"],
    [f |-> {"ADB", "AUDIO_SOURCE"}, pid |-> "2d03"],
    [f |-> {"ACCESSORY", "AUDIO_SOURCE"}, pid |-> "2d04"],
    [f |-> {"ADB", "ACCESSORY", "AUDIO_SOURCE"}, pid |-> "2d05"] }

Vid == {"18d1", "05C6"}
Pid == {e.pid : e \in GoogleIds \cup QualcommIds \cup AccessoryIds}

\* The <<vid, pid>> pairs the switch selects: at most one.
VidPids(f, v) ==
  { <<"18d1", e.pid>> : e \in {g \in GoogleIds : g.f = f /\ v \in {<<"user">>, <<>>}} }
  \cup { <<"05C6", e.pid>> : e \in {q \in QualcommIds : q.f = f /\ q.v = v} }
  \cup { <<"18d1", e.pid>> : e \in {a \in AccessoryIds : a.f = f} }

\* Anything else is CONFIGURATION_NOT_SUPPORTED.
Supported(f, v) == VidPids(f, v) # {}

VidPid(f, v) == CHOOSE id \in VidPids(f, v) : TRUE

(***************************************************************************)
(* setupFunctions: the links in the order it creates them.                 *)
(***************************************************************************)
LinkIf(cond, name) == IF cond THEN <<name>> ELSE <<>>

VendorLink(token) == CASE token = "diag"        -> "diag.diag"
                       [] token = "serial_cdev" -> "cser.dun.0"
                       [] token = "rmnet_gsi"   -> "gsi.rmnet"

\* "user" names no debug function.
VendorLinks(v) ==
  IF v = <<"user">> THEN <<>> ELSE [i \in DOMAIN v |-> VendorLink(v[i])]

\* Mutant: accessory and audio source are linked in the alternative.
LinkOrderExclusive(f, v) ==
     LinkIf("MTP" \in f, "ffs.mtp")
  \o LinkIf("MTP" \notin f /\ "PTP" \in f, "ffs.ptp")
  \o LinkIf("MIDI" \in f, "midi.gs5")
  \o LinkIf("ACCESSORY" \in f, "accessory.gs2")
  \o LinkIf("ACCESSORY" \notin f /\ "AUDIO_SOURCE" \in f, "audio_source.gs3")
  \o LinkIf("RNDIS" \in f, "gsi.rndis")
  \o VendorLinks(v)
  \o LinkIf("ADB" \in f, "ffs.adb")

LinkOrder(f, v) ==
     LinkIf("MTP" \in f, "ffs.mtp")
  \o LinkIf("MTP" \notin f /\ "PTP" \in f, "ffs.ptp")
  \o LinkIf("MIDI" \in f, "midi.gs5")
  \o LinkIf("ACCESSORY" \in f, "accessory.gs2")
  \o LinkIf("AUDIO_SOURCE" \in f, "audio_source.gs3")
  \o LinkIf("RNDIS" \in f, "gsi.rndis")
  \o VendorLinks(v)
  \o LinkIf("ADB" \in f, "ffs.adb")

\* The names in a sequence of links.
Names(seq) == {seq[i] : i \in DOMAIN seq}

\* The functionfs links of a request, in the order their endpoints are pushed
\* on mEndpointList; the endpoint files of one instance appear together.
EndpointOrder(f) ==
     LinkIf("MTP" \in f, "ffs.mtp")
  \o LinkIf("MTP" \notin f /\ "PTP" \in f, "ffs.ptp")
  \o LinkIf("ADB" \in f, "ffs.adb")
=============================================================================
