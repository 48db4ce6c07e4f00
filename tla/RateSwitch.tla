----------------------------- MODULE RateSwitch -----------------------------
(***************************************************************************)
(* What a manual rate switch promises, abstractly: outside a transaction   *)
(* no rate moves, a transaction moves only the rate of its own port, and   *)
(* when it is closed that port runs either at the rate it had or at the    *)
(* rate that was asked for.  A transaction may lose its port: the rate is  *)
(* then unknown, in this transaction and in later ones, while the promise  *)
(* for the other ports stands.  A reboot returns every port to its rate.   *)
(***************************************************************************)
CONSTANTS Ports, Rates, Initial, None, Unknown

VARIABLES
  rate,  \* the rate each port runs at, or Unknown
  open   \* the transaction under way

vars == <<rate, open>>

Init == rate = Initial /\ open = None

\* A transaction records the rate of its port, whatever that is if unknown.
Begin(p, r) ==
  /\ open = None
  /\ \E f \in Rates : /\ rate[p] \in {f, Unknown} /\ r # f
                      /\ open' = [port |-> p, from |-> f, to |-> r]
  /\ rate' = rate

Lose == open # None /\ rate' = [rate EXCEPT ![open.port] = Unknown] /\ open' = open

End ==
  /\ open # None
  /\ \/ rate[open.port] = Unknown /\ rate' = rate
     \/ rate[open.port] # Unknown /\ \E r \in {open.from, open.to} : rate' = [rate EXCEPT ![open.port] = r]
  /\ open' = None

Reset == rate' = Initial /\ open' = None

Next == (\E p \in Ports, r \in Rates : Begin(p, r)) \/ Lose \/ End \/ Reset

Spec == Init /\ [][Next]_vars
=============================================================================
