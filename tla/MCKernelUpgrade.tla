-------------------------- MODULE MCKernelUpgrade ---------------------------
(***************************************************************************)
(* Two packages and their transactions.  The packages are interchangeable, *)
(* and only safety is checked, so they may be permuted.                    *)
(***************************************************************************)
EXTENDS KernelUpgradeInvariant, TLC

MCSymmetry == Permutations(Packages)
=============================================================================
