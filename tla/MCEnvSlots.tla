----------------------------- MODULE MCEnvSlots -----------------------------
(***************************************************************************)
(* EnvSlots with three environments and the serial numbers around the wrap *)
(* and around the middle.  Every fault may happen any number of times.     *)
(***************************************************************************)
EXTENDS EnvSlots

CONSTANTS e1, e2, e3

MCValues  == {e1, e2, e3}
MCSerials == {0, 1, 2, 128, 254, 255}
=============================================================================
