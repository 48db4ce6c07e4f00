------------------------- MODULE BoardLayerInvariant ------------------------
(***************************************************************************)
(* The inductive invariant of BoardLayer: what the steps that were made    *)
(* have done, what the step in hand will do, and what a file that was cut  *)
(* short cannot hide.                                                      *)
(***************************************************************************)
EXTENDS BoardLayer

\* The passage is in, and the rule finds it there.
Done(e, p) == IF Rule(e) = "own" THEN p.copy = 1 ELSE Installed(Rule(e), p)

\* A run has done the steps that it is past, and passed their gates.
StepsDone ==
  /\ run = "done" => stage = Last + 1
  /\ run \in {"running", "done"} =>
       \A i \in 1 .. stage - 1 :
         Steps[i].rule # wrong /\ \A e \in Steps[i].on : Done(e, piece[e])

Pending(f) == \E i \in DOMAIN todo : todo[i] = f

\* The text in hand does the step in full, and changes nothing else.
InHand ==
  todo # <<>> =>
    /\ run = "running" /\ stage <= Last /\ Steps[stage].rule # wrong
    /\ \A i \in DOMAIN todo : \E j \in DOMAIN Steps[stage].files : todo[i] = Steps[stage].files[j]
    /\ \A e \in Edits \ Steps[stage].on : text[e] = piece[e]
    /\ \A e \in Steps[stage].on :
         Done(e, text[e]) /\ (Pending(e[1]) \/ piece[e] = text[e])

\* The two files of the clock are written in their order.
ClockInHand ==
  todo # <<>> /\ Steps[stage].rule = "clock" =>
    \E pair \in ClockPairs : Steps[stage].files = pair /\ (todo = pair \/ todo = <<pair[2]>>)

\* The rule of an edit finds neither the passage nor the place for it.
Stuck(e, p) == ~Installed(Rule(e), p) /\ ~Applicable(Rule(e), p)

\* A file that was cut short has such an edit, unless all could be found in it:
\* the step of that edit refuses, and those before it do not touch it.
LostStuck ==
  \A f \in lost \ unseen : \E e \in Edits :
    e[1] = f /\ Stuck(e, piece[e]) /\ (todo # <<>> => text[e] = piece[e])

\* ClockTogether, and what of it holds between the two writes.
ClockKept ==
  \A pair \in ClockPairs, m \in {"MEM", "MEM2"} :
    ~Alien(piece, pair, m) =>
      /\ Used(piece, pair, m) > 0 => Defined(piece, pair, m) > 0 \/ pair[1] \in lost
      /\ \/ kills > 0 \/ todo = <<pair[2]>>
         \/ Defined(piece, pair, m) > 0 => Used(piece, pair, m) > 0

LayerIInv == LayerTypeOK /\ StepsDone /\ InHand /\ ClockInHand /\ LostStuck /\ ClockKept
=============================================================================
