------------------------------- MODULE MCVntb -------------------------------
(***************************************************************************)
(* Instances of Vntb: two host threads with two buffers for the mailbox,   *)
(* one of each for the doorbell.  Threads and Buffers are model values.    *)
(* They are interchangeable, but no symmetry is declared: both             *)
(* configurations check liveness.                                          *)
(***************************************************************************)
EXTENDS VntbInvariant
=============================================================================
