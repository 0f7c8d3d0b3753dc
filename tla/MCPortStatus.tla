----------------------------- MODULE MCPortStatus -----------------------------
(***************************************************************************)
(* PortStatus for TLC: partners that swap both roles, and an audio adapter.*)
(***************************************************************************)
EXTENDS PortStatus, TLC

Partners ==
  { [accessory |-> "none", power |-> "sink", data |-> "device", pd |-> TRUE],
    [accessory |-> "none", power |-> "source", data |-> "host", pd |-> TRUE],
    [accessory |-> "analog_audio", power |-> "source", data |-> "host", pd |-> FALSE] }

Symmetry == Permutations(Ports)
===============================================================================
