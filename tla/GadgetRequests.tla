--------------------------- MODULE GadgetRequests ---------------------------
(***************************************************************************)
(* Every request under every vendor configuration: the configuration       *)
(* operators of GadgetConfig in the order setCurrentUsbFunctions applies   *)
(* them, one request after the other.                                      *)
(***************************************************************************)
EXTENDS GadgetConfig

CONSTANT VendorConfigs  \* what vendor.usb.config and its persistent form may hold

\* No token comes twice.
Once(seq) == \A i, j \in DOMAIN seq : seq[i] = seq[j] => i = j

\* The properties are written by the build and by developers; a token that comes
\* twice names a function that cannot be linked twice.
ASSUME VendorAssumption == VendorConfigs \subseteq {v \in Seq(Token) : Once(v)}

VARIABLES props, config

vars == <<props, config>>

Init == /\ props \in [build : BOOLEAN, radio : BOOLEAN,
                      persist : VendorConfigs, vendor : VendorConfigs]
        /\ config = [functions |-> {}, accepted |-> FALSE, ids |-> <<>>, links |-> <<>>]

\* validateAndSetVidPid, then, if it succeeds, the links of setupFunctions; each
\* of the two calls getVendorFunctions.
Configure(f) ==
  LET v == getVendorFunctions(props)
      p == PropsAfter(props)
  IN  IF Supported(f, v)
        THEN /\ props' = PropsAfter(p)
             /\ config' = [functions |-> f, accepted |-> TRUE, ids |-> VidPid(f, v),
                           links |-> LinkOrder(f, getVendorFunctions(p))]
        ELSE /\ props' = p
             /\ config' = [functions |-> f, accepted |-> FALSE, ids |-> <<>>, links |-> <<>>]

SetVendorConfig(v) == /\ props' = [props EXCEPT !.vendor = v]
                      /\ UNCHANGED config

Next == \/ \E f \in (SUBSET Function) \ {{}} : Configure(f)
        \/ \E v \in VendorConfigs : SetVendorConfig(v)

Spec == Init /\ [][Next]_vars

-----------------------------------------------------------------------------
\* The link that serves each function.
ServedBy == [MTP |-> "ffs.mtp", PTP |-> "ffs.ptp", MIDI |-> "midi.gs5",
             ACCESSORY |-> "accessory.gs2", AUDIO_SOURCE |-> "audio_source.gs3",
             RNDIS |-> "gsi.rndis", ADB |-> "ffs.adb"]

\* Whatever validateAndSetVidPid accepts, setupFunctions links completely: no
\* accepted function is dropped by an else branch (as PTP next to MTP is), and
\* no function is linked twice, which the kernel refuses.
AcceptedIsLinked ==
  config.accepted =>
    /\ \A x \in config.functions : ServedBy[x] \in Names(config.links)
    /\ Once(config.links)

\* The host selects its drivers by vendor and product id: two requests that are
\* given the same ids are given the same functions.  (The accessory ids, which
\* ignore the debug functions, are the exception.)
IdsIdentifyFunctions ==
  [][/\ config.accepted /\ config'.accepted
     /\ config.ids = config'.ids
     /\ config.ids[2] \notin {e.pid : e \in AccessoryIds}
     => Names(config.links) = Names(config'.links)]_vars

\* In usbradio mode "vendor.usb.config will reflect the current configured
\* functions": after a request the property names the debug functions linked,
\* and the second reading of it in setupFunctions agreed with the first.
VendorConfigReflects ==
  [][/\ config'.accepted /\ config # config'
     /\ props.radio /\ ~props.build
     => Names(config'.links) \ Names(LinkOrder(config'.functions, <<>>))
          = Names(VendorLinks(props'.vendor))]_vars
=============================================================================
