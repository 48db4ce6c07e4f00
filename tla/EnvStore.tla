------------------------------ MODULE EnvStore -------------------------------
(***************************************************************************)
(* What saving the environment promises, abstractly: a boot finds what was *)
(* kept or what is being saved, never an earlier attempt once another has  *)
(* taken its place; a save is reported only when a boot finds it; and      *)
(* nothing but a save changes what a boot finds.  After a boot that could  *)
(* not read all there is, this holds from the next report on.              *)
(***************************************************************************)
CONSTANTS Values, Default

VARIABLES
  found,  \* what a boot that can read everything finds
  kept,   \* what was found at boot, or the last save that was reported
  want,   \* the environment of the save under way, or of the last one
  busy,   \* a save is under way
  blind   \* not everything could be read, and nothing was saved since

vars == <<found, kept, want, busy, blind>>

Found == Values \cup {Default}

Init ==
  /\ found \in Found /\ kept = Default /\ want = Default
  /\ busy = FALSE /\ blind = TRUE

Boot ==
  /\ \/ blind' = FALSE /\ kept' = found
     \/ blind' = TRUE /\ kept' \in Found
  /\ busy' = FALSE
  /\ UNCHANGED <<found, want>>

Save(v) ==
  /\ ~busy /\ v # kept
  /\ want' = v /\ busy' = TRUE
  /\ UNCHANGED <<found, kept, blind>>

\* A step of the save, or its failure.
Attempt ==
  /\ busy
  /\ found' \in IF blind THEN Found ELSE {found, kept, want}
  /\ busy' \in BOOLEAN
  /\ UNCHANGED <<kept, want, blind>>

Report ==
  /\ busy /\ found = want
  /\ kept' = want /\ busy' = FALSE /\ blind' = FALSE
  /\ UNCHANGED <<found, want>>

Next == Boot \/ (\E v \in Values : Save(v)) \/ Attempt \/ Report

Spec == Init /\ [][Next]_vars
=============================================================================
