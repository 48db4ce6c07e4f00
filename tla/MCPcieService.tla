--------------------------- MODULE MCPcieService ----------------------------
(***************************************************************************)
(* PcieService as it is: both ends are finite, every failure, kill, late   *)
(* answer and reboot may happen any number of times.                       *)
(***************************************************************************)
EXTENDS PcieServiceInvariant
=============================================================================
