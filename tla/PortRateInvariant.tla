------------------------- MODULE PortRateInvariant --------------------------
(***************************************************************************)
(* The inductive invariant of PortRate, in parts: who may still write to   *)
(* the drivers, and which ports are known to run at the rate of their node. *)
(***************************************************************************)
EXTENDS PortRate

\* A module that is not loaded has no change to hold.
Held == ChangeHeld /\ (~loaded => \A p \in Ports : ~active[p])

Working == {"down", "unbind", "set", "bind"}

\* A script runs only inside its transaction and beside no stray worker, those
\* of loose ports apart; any other stray is one, and keeps the transaction it
\* belongs to pending.  A port whose transaction goes on beside a stray is loose.
OneScript ==
  /\ pc # "idle" => pending # None /\ Firm = {}
  /\ own # None => pc \in Working /\ own.job.port = P
  /\ pending = None => Firm = {}
  /\ \A j \in Firm : j.port = P
  /\ \A i, j \in Firm : i = j

\* The port is up, and its lane runs at the rate of its node.
Settled(p) == netdev[p] = "up" /\ lane[p] = NodeRate(p)

\* Ports no transaction is about are left alone, unless they are loose.
ElsewhereSettled ==
  \A p \in Ports \ loose : pending = None \/ p # P => Settled(p)

\* Before its first step and after its last one so is the port of the
\* transaction, at one of its two rates.
EndsSettled ==
  pc \in {"load", "unload", "unlink"} /\ P \notin loose =>
    Settled(P) /\ NodeRate(P) \in {pending.from, pending.to}

IInv == TypeOK /\ Held /\ OneScript /\ ElsewhereSettled /\ EndsSettled
=============================================================================
