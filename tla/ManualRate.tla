----------------------------- MODULE ManualRate -----------------------------
(***************************************************************************)
(* dual-rate/manual-rate/x200_manual_rate.c: a kernel module that replaces *)
(* the phy-mode property of a DPMAC node through an OF change set, and     *)
(* reverts it.  A command runs under control_lock and the locks of both    *)
(* devices, so it is one action.  Nobody else in the repository edits the  *)
(* nodes: the property in the tree is the one found at boot ("original")   *)
(* or the one the module made ("replacement").  The drivers that own the   *)
(* port (netdev, lane) are kernel code outside the repository.             *)
(***************************************************************************)
EXTENDS Integers, FiniteSets

CONSTANTS
  Ports,    \* the switchable ports
  Initial   \* initial_rate of each port

Rates == {10000, 25000}

ASSUME RateAssumption == IsFiniteSet(Ports) /\ Initial \in [Ports -> Rates]

VARIABLES
  loaded,        \* the module is in the kernel
  property,      \* per port: which phy-mode property the tree holds
  active, ambiguous, revert_failed,  \* per port: fields of struct port
  active_count,  \* above zero it holds a reference on the module
  netdev,        \* per port: "none" (no driver bound), "fresh", "down", "up"
  lane           \* per port: the rate the serdes lane is set to

fields  == <<active, ambiguous, revert_failed, active_count>>
module  == <<loaded, property, fields>>
drivers == <<netdev, lane>>

ManualTypeOK ==
  /\ loaded \in BOOLEAN /\ active_count \in Nat
  /\ property \in [Ports -> {"original", "replacement"}]
  /\ active \in [Ports -> BOOLEAN] /\ ambiguous \in [Ports -> BOOLEAN]
  /\ revert_failed \in [Ports -> BOOLEAN]
  /\ netdev \in [Ports -> {"none", "fresh", "down", "up"}]
  /\ lane \in [Ports -> Rates]

Other(rate) == IF rate = 10000 THEN 25000 ELSE 10000

\* node_rate: a replacement is only made for the rate the port does not have.
NodeRate(p) == IF property[p] = "original" THEN Initial[p] ELSE Other(Initial[p])

ClearFields ==
  /\ active' = [p \in Ports |-> FALSE] /\ ambiguous' = active'
  /\ revert_failed' = active' /\ active_count' = 0

Boot ==
  /\ loaded = FALSE /\ property = [p \in Ports |-> "original"]
  /\ active = [p \in Ports |-> FALSE] /\ ambiguous = active
  /\ revert_failed = active /\ active_count = 0
  /\ netdev = [p \in Ports |-> "up"] /\ lane = Initial

ManualReboot ==
  /\ loaded' = FALSE /\ property' = [p \in Ports |-> "original"] /\ ClearFields
  /\ netdev' = [p \in Ports |-> "up"] /\ lane' = Initial

-----------------------------------------------------------------------------
LoadModule == ~loaded /\ loaded' = TRUE /\ ClearFields /\ UNCHANGED <<property, drivers>>

\* The reference of an active change refuses rmmod.
UnloadModule == /\ loaded /\ active_count = 0
                /\ loaded' = FALSE /\ UNCHANGED <<property, fields, drivers>>

Release(p) ==
  /\ active' = [active EXCEPT ![p] = FALSE]
  /\ ambiguous' = [ambiguous EXCEPT ![p] = FALSE]
  /\ active_count' = active_count - 1
  /\ UNCHANGED revert_failed

\* Mutant: the change is released although its revert may have failed.
RestoreReleasing(p, ok) ==
  /\ \E now \in {"original", "replacement"} : property' = [property EXCEPT ![p] = now]
  /\ ok /\ Release(p)

\* A revert may fail in its notifiers with the property replaced or not.
RestoreChange(p, ok) ==
  \/ revert_failed[p] /\ ~ok /\ UNCHANGED <<property, fields>>
  \/ /\ ~revert_failed[p] /\ ok
     /\ property' = [property EXCEPT ![p] = "original"]
     /\ Release(p)
  \/ /\ ~revert_failed[p] /\ property[p] = "replacement" /\ ~ok
     /\ \E now \in {"original", "replacement"} : property' = [property EXCEPT ![p] = now]
     /\ revert_failed' = [revert_failed EXCEPT ![p] = TRUE]
     /\ ambiguous' = [ambiguous EXCEPT ![p] = TRUE]
     /\ UNCHANGED <<active, active_count>>

\* Applying may fail with the property replaced or not; the change stays
\* active either way, for a later restore.
Apply(p, ok) ==
  /\ \E now \in {"original", "replacement"} :
       (ok => now = "replacement") /\ property' = [property EXCEPT ![p] = now]
  /\ active' = [active EXCEPT ![p] = TRUE]
  /\ revert_failed' = [revert_failed EXCEPT ![p] = FALSE]
  /\ ambiguous' = [ambiguous EXCEPT ![p] = ~ok]
  /\ active_count' = active_count + 1

ChangeRate(p, rate, ok) ==
  \/ active[p] /\ rate = Initial[p] /\ RestoreChange(p, ok)
  \/ /\ active[p] /\ rate # Initial[p]
     /\ ok = (~ambiguous[p] /\ NodeRate(p) = rate)
     /\ UNCHANGED <<property, fields>>
  \/ /\ ~active[p] /\ (rate = Initial[p] \/ NodeRate(p) # Initial[p])
     /\ ok = (NodeRate(p) = Initial[p])
     /\ UNCHANGED <<property, fields>>
  \/ ~active[p] /\ rate # Initial[p] /\ NodeRate(p) = Initial[p] /\ Apply(p, ok)

\* The guards of board, node, devices, topology and memory may refuse.
Refused(ok) == ~ok /\ UNCHANGED module

\* command, execute: "set <mac> <rate>".  A bound driver is -EBUSY; without
\* the module there is no file to write to.
Command(p, rate, ok) ==
  /\ \/ Refused(ok)
     \/ loaded /\ netdev[p] = "none" /\ ChangeRate(p, rate, ok) /\ UNCHANGED loaded
  /\ UNCHANGED drivers

\* show: the state of a port as read from the proc file.
Reported(p) ==
  IF ambiguous[p] \/ (property[p] = "replacement") # active[p] THEN "ambiguous"
  ELSE IF active[p] THEN "changed" ELSE "original"

-----------------------------------------------------------------------------
(* The owners of a port: dpaa2-eth and NetworkManager. *)

LinkDown(p) ==
  /\ netdev[p] # "none" /\ netdev' = [netdev EXCEPT ![p] = "down"]
  /\ UNCHANGED <<module, lane>>

Unbind(p) ==
  /\ netdev[p] # "none" /\ netdev' = [netdev EXCEPT ![p] = "none"]
  /\ UNCHANGED <<module, lane>>

Bind(p) ==
  /\ netdev[p] = "none" /\ netdev' = [netdev EXCEPT ![p] = "fresh"]
  /\ UNCHANGED <<module, lane>>

\* NetworkManager activates a new device; opening it sets the lane to the
\* mode in the tree, or fails to.
Adopt(p) ==
  /\ netdev[p] = "fresh" /\ netdev' = [netdev EXCEPT ![p] = "up"]
  /\ lane' \in {lane, [lane EXCEPT ![p] = NodeRate(p)]}
  /\ UNCHANGED module

(* A property that is not known to be the original one holds the module in *)
(* the kernel, where its change set can be reverted or diagnosed, and is   *)
(* counted once: release_change must not run for a change that is not      *)
(* undone, and module_put not before the last change is released.          *)
ChangeHeld ==
  /\ \A p \in Ports : property[p] = "replacement" \/ ambiguous[p] => loaded /\ active[p]
  /\ active_count = Cardinality({p \in Ports : active[p]})

=============================================================================
