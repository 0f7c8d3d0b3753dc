---------------------------- MODULE MCUsbGadget ----------------------------
(***************************************************************************)
(* Small instances of UsbGadget for TLC.                                   *)
(***************************************************************************)
EXTENDS UsbGadget, TLC

\* No function, one functionfs, two functionfs, none, and a set that validation
\* always rejects.
MCRequests == { {}, {"ADB"}, {"ADB", "MTP"}, {"RNDIS"}, {"MTP", "PTP"} }

\* One function set with and one without functionfs, and NONE.
MCFewRequests == { {}, {"ADB"}, {"MIDI"} }

\* A userdebug build outside usbradio mode.
MCDebugProps == [build |-> FALSE, radio |-> FALSE, persist |-> <<>>, vendor |-> <<>>]

\* A userdebug build in usbradio mode.
MCRadioProps == [build |-> FALSE, radio |-> TRUE, persist |-> <<>>, vendor |-> <<>>]

\* Debugging is switched on while the system runs.
MCVendorProps == { <<"diag", "serial_cdev">> }

Symmetry == Permutations(Threads)
=============================================================================
