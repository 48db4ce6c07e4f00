--------------------------- MODULE MCServiceInstall ---------------------------
(***************************************************************************)
(* ServiceInstall with three bundles: the one that runs, the next and the  *)
(* one after it.  No bound: everything may happen any number of times.     *)
(***************************************************************************)
EXTENDS ServiceInstall
=============================================================================
