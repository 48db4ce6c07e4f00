----------------------------- MODULE MCPortRate -----------------------------
(***************************************************************************)
(* One port of each boot rate; the rates and the carriers are all there    *)
(* are.  An unfinished transaction refuses the next one, so kills cannot   *)
(* accumulate slow workers; restorations begun beside one can, and so have *)
(* a bound.                                                                *)
(***************************************************************************)
EXTENDS PortRateInvariant, TLC

CONSTANTS eth1, eth2

MCInitial == eth1 :> 10000 @@ eth2 :> 25000
=============================================================================
