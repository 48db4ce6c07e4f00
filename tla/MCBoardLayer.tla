---------------------------- MODULE MCBoardLayer ------------------------------
(***************************************************************************)
(* BoardLayer on the upstream tree and on every tree in which one edit has *)
(* drifted: its anchor moved or doubled, its passage there twice, or its   *)
(* marker there in another form.  The edits stand in a file in the order   *)
(* in which they are made.  One run is killed, and the installer may be    *)
(* run any number of times before and after.                               *)
(***************************************************************************)
EXTENDS BoardLayerInvariant

Upstream == [anchor |-> 1, copy |-> 0, marked |-> FALSE]
Pristine == [e \in Edits |-> IF Rule(e) = "own" THEN Absent ELSE Upstream]
Drifted  == {Absent, [Upstream EXCEPT !.anchor = 2], [Upstream EXCEPT !.copy = 2],
             [Upstream EXCEPT !.marked = TRUE]}

MCPlace ==
  [e \in Edits |->
     2 * (CHOOSE i \in 1 .. Last : e \in Steps[i].on) + IF e[2] = "MEM2" THEN 1 ELSE 0]

MCInputs ==
  [tree : {Pristine}, fails : Gates \cup {"none"}]
  \cup [tree : {[Pristine EXCEPT ![e] = p] : e \in {x \in Edits : Rule(x) # "own"}, p \in Drifted},
        fails : {"none"}]
=============================================================================
