------------------------------ MODULE MCModemLog ------------------------------
(* ModemLog for TLC: all logs, none, or the newest two. *)
EXTENDS ModemLog

MCMaxFileNums == {-1, 0, 2}
===============================================================================
