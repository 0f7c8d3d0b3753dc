------------------------------- MODULE MCLights -------------------------------
(***************************************************************************)
(* Lights for TLC: a bright and a dark grey with and without low           *)
(* persistence, a dark and a flashing notification.                        *)
(***************************************************************************)
EXTENDS Lights, TLC

Rgb(r, g, b) == [red |-> r, green |-> g, blue |-> b]

MCBacklights == { [color |-> Rgb(255, 255, 255), mode |-> "lp"],
                  [color |-> Rgb(1, 1, 1), mode |-> "sensor"] }

MCNotifications ==
  { Off, [color |-> Rgb(255, 13, 0), flash |-> "timed", on |-> 500, off |-> 2000] }

MCAttentions == { [color |-> Rgb(0, 0, 0), flash |-> "hardware", on |-> 3, off |-> 0] }

Symmetry == Permutations(Threads)
===============================================================================
