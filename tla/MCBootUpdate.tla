--------------------------- MODULE MCBootUpdate -----------------------------
(***************************************************************************)
(* A flash of five sectors, one per kind: padding in the low firmware      *)
(* range, which no digest covers, the reserved sectors (environment and    *)
(* all else the tool must not write), the two manifest slots, and the high *)
(* firmware range (DPL, DPC, device tree), which the manifests pin.        *)
(***************************************************************************)
EXTENDS BootUpdateInvariant

MCCovered == {4}
=============================================================================
