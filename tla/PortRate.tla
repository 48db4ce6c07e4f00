------------------------------ MODULE PortRate ------------------------------
(***************************************************************************)
(* dual-rate/manual-rate/port_rate.py "set": take the netdev of a port     *)
(* down, unbind its driver, change the rate through the module             *)
(* (ManualRate), bind again, wait for NetworkManager, verify, and on any   *)
(* error do the same with the previous rate.                               *)
(*                                                                         *)
(* Each sysfs or proc write is made by a worker process in a session of    *)
(* its own.  The script waits 15 seconds for it; a worker that is slower,  *)
(* or whose script was killed, is a stray that writes later or never.  A   *)
(* flock admits one script (pc # "idle"), the workers do not hold it.      *)
(* The pending file survives the script; like everything else here it does *)
(* not survive a reboot.                                                   *)
(***************************************************************************)
EXTENDS ManualRate

CONSTANTS
  None,     \* no transaction, no worker
  MaxLoose  \* bound: on so many ports, once each, is a restoration begun beside a
            \* slow worker between two boots

ASSUME NoneAssumption == None \notin [port : Ports, from : Rates, to : Rates]

VARIABLES
  pending,  \* the pending file, with what the receipt it names says
  pc, undo, \* the script: where it is, whether it restores
  status,   \* of the report printed or written last
  own,      \* the worker the script waits for
  stray,    \* workers nobody waits for
  loose     \* history: ports restored beside their own slow worker since the boot

script  == <<pc, undo, status>>
workers == <<own, stray, loose>>
vars    == <<module, drivers, pending, script, workers>>

-----------------------------------------------------------------------------
Transactions == [port : Ports, from : Rates, to : Rates]
Jobs    == [op : {"down", "unbind", "set", "bind"}, port : Ports, rate : Rates]
Running == [job : Jobs, exit : {"pending", "ok", "failed"}]

TypeOK ==
  /\ ManualTypeOK
  /\ pending \in Transactions \cup {None}
  /\ pc \in {"idle", "load", "down", "unbind", "set", "bind", "adopt", "verify",
             "unload", "unlink"}
  /\ undo \in BOOLEAN
  /\ status \in {"NONE", "PREPARING", "UNCHANGED", "APPLIED", "FAILED", "AMBIGUOUS",
                 "RESTORATION_INCOMPLETE", "CLEANUP_INCOMPLETE"}
  /\ own \in Running \cup {None} /\ stray \subseteq Jobs /\ loose \subseteq Ports

Init ==
  /\ Boot /\ pending = None
  /\ pc = "idle" /\ undo = FALSE /\ status = "NONE"
  /\ own = None /\ stray = {} /\ loose = {}

\* rates_from_module; without the module the rates are the initial ones.
Known    == loaded => \A p \in Ports : Reported(p) # "ambiguous"
Selected == [p \in Ports |-> IF loaded THEN NodeRate(p) ELSE Initial[p]]

\* check_mixed: devices, tree and serdes agree with the rates.
Validates(rates) ==
  \A p \in Ports : netdev[p] # "none" /\ NodeRate(p) = rates[p] /\ lane[p] = rates[p]

P    == pending.port
Goal == IF undo THEN pending.from ELSE pending.to

\* The end of a run.
Stop(st) == pc' = "idle" /\ status' = st /\ undo' = FALSE
Goto(l)  == pc' = l /\ UNCHANGED <<undo, status>>

\* Mutant: a restoration that failed is tried again.
FailRetries ==
  pc' = "down" /\ undo' = TRUE /\ status' = "FAILED"

\* An exception: the first one starts the restoration, the second ends it.
Fail ==
  \/ ~undo /\ pc' = "down" /\ undo' = TRUE /\ status' = "FAILED"
  \/ undo /\ Stop("RESTORATION_INCOMPLETE")

-----------------------------------------------------------------------------
(* apply, up to the point where it changes something *)

Admitted(p) == pending = None /\ Known /\ Validates(Selected) /\ netdev[p] = "up"

KeepRate(p) ==
  /\ pc = "idle" /\ Admitted(p)
  /\ \E st \in {"UNCHANGED", "FAILED"} : Stop(st)
  /\ UNCHANGED <<module, drivers, pending, workers>>

Begin(p, rate) ==
  /\ pc = "idle" /\ Admitted(p) /\ rate # Selected[p]
  /\ pending' = [port |-> p, from |-> Selected[p], to |-> rate]
  /\ pc' = "load" /\ undo' = FALSE
  /\ status' = "PREPARING"
  /\ UNCHANGED <<module, drivers, workers>>

\* insmod, if the module is not there.  A failure here has changed nothing.
Load ==
  /\ pc = "load"
  /\ \/ LoadModule /\ Goto("down")
     \/ loaded /\ UNCHANGED <<module, drivers>> /\ Goto("down")
     \/ /\ LoadModule \/ UNCHANGED <<module, drivers>>
        /\ pc' = "unload" /\ status' = "FAILED" /\ UNCHANGED undo
  /\ UNCHANGED <<pending, workers>>

-----------------------------------------------------------------------------
(* change: unbind, set, bind *)

\* What must hold when the worker of this step has returned 0.
Achieved == CASE pc = "unbind" -> netdev[P] = "none"
              [] pc = "set"    -> NodeRate(P) = Goal
              [] pc = "bind"   -> netdev[P] # "none"
              [] OTHER         -> TRUE

After == CASE pc = "down"   -> "unbind"
           [] pc = "unbind" -> "set"
           [] pc = "set"    -> "bind"
           [] OTHER         -> "adopt"

\* A port that has no driver needs no unbinding.  What fails here fails before
\* there is a worker; later failures are those of JoinWorker and Abandon.
StartWorker ==
  /\ own = None
  /\ \/ /\ pc \in {"down", "unbind", "set", "bind"} /\ (pc = "down" => netdev[P] # "none")
        /\ own' = [job |-> [op |-> pc, port |-> P, rate |-> Goal], exit |-> "pending"]
        /\ UNCHANGED script
     \/ pc = "down" /\ netdev[P] = "none" /\ Goto("set") /\ UNCHANGED own
     \/ pc \in {"down", "unbind", "set", "bind"} /\ Fail /\ UNCHANGED own
  /\ UNCHANGED <<module, drivers, pending, stray, loose>>

\* The receipt is saved before and after the wait, and each save may fail.
JoinWorker ==
  /\ own # None /\ own.exit # "pending"
  /\ own' = None
  /\ \/ own.exit = "ok" /\ Achieved /\ Goto(After)
     \/ Fail
  /\ UNCHANGED <<module, drivers, pending, stray, loose>>

\* Mutant: a slow worker is an error like any other.
TimeOutFails ==
  /\ own # None /\ own.exit = "pending"
  /\ own' = None /\ stray' = stray \cup {own.job}
  /\ Fail
  /\ UNCHANGED <<module, drivers, pending, loose>>

\* Ambiguous is raised: no rollback, the pending file stays.  Raised in a
\* restoration it is caught like the other exceptions there.
TimeOut ==
  /\ own # None /\ own.exit = "pending"
  /\ own' = None /\ stray' = stray \cup {own.job}
  /\ Stop(IF undo THEN "RESTORATION_INCOMPLETE" ELSE "AMBIGUOUS")
  /\ UNCHANGED <<module, drivers, pending, loose>>

\* The save after the worker's start, or the one before Ambiguous is raised,
\* fails: an exception like any other, and the restoration begins beside a
\* worker that may still write.  In a restoration it ends like TimeOut.
Abandon ==
  /\ own # None /\ own.exit = "pending" /\ ~undo
  /\ P \notin loose /\ Cardinality(loose) < MaxLoose
  /\ own' = None /\ stray' = stray \cup {own.job} /\ loose' = loose \cup {P}
  /\ Fail
  /\ UNCHANGED <<module, drivers, pending>>

\* wait_network_manager, management_guard, selected_guard.
AwaitManager ==
  /\ pc = "adopt"
  /\ \/ netdev[P] = "up" /\ Goto("verify")
     \/ Fail
  /\ UNCHANGED <<module, drivers, pending, workers>>

\* observe_link, capture, check_mixed, neighbor_guard, selected_guard.  The
\* carriers they compare move with cables and peers at any time: they may refuse
\* whatever the rest says, which is Verify's other outcome.
Verified == Validates([Selected EXCEPT ![P] = Goal]) /\ netdev[P] = "up"

\* Mutant: the state after the change is not validated.
VerifyNothing ==
  /\ pc = "verify"
  /\ pc' = "unload" /\ status' = (IF undo THEN status ELSE "APPLIED")
  /\ UNCHANGED <<undo, module, drivers, pending, workers>>

Verify ==
  /\ pc = "verify"
  /\ \/ /\ Verified /\ pc' = "unload" /\ status' = (IF undo THEN status ELSE "APPLIED")
        /\ UNCHANGED undo
     \/ Fail
  /\ UNCHANGED <<module, drivers, pending, workers>>

\* The finally clause: an unpinned module is removed, then the pending file.
Unload ==
  /\ pc = "unload"
  /\ \/ UnloadModule /\ Goto("unlink")
     \/ (active_count # 0 \/ ~loaded) /\ UNCHANGED <<module, drivers>> /\ Goto("unlink")
     \/ UNCHANGED <<module, drivers>> /\ Stop("CLEANUP_INCOMPLETE")
  /\ UNCHANGED <<pending, workers>>

Unlink ==
  /\ pc = "unlink"
  /\ \/ pending' = None /\ Stop(status)
     \/ UNCHANGED pending /\ Stop("CLEANUP_INCOMPLETE")
  /\ UNCHANGED <<module, drivers, workers>>

-----------------------------------------------------------------------------
(* The workers, the environment *)

\* What the worker of job j does, and whether it exits with 0.
Effect(j, ok) ==
  \/ j.op = "down" /\ ok /\ LinkDown(j.port)
  \/ j.op = "unbind" /\ ok /\ Unbind(j.port)
  \/ j.op = "bind" /\ ok /\ Bind(j.port)
  \/ j.op = "set" /\ Command(j.port, j.rate, ok)
  \/ j.op # "set" /\ ~ok /\ UNCHANGED <<module, drivers>>

WorkerWrites ==
  /\ own # None /\ own.exit = "pending"
  /\ \E ok \in BOOLEAN :
       Effect(own.job, ok) /\ own' = [own EXCEPT !.exit = IF ok THEN "ok" ELSE "failed"]
  /\ UNCHANGED <<pending, script, stray, loose>>

\* Two slow workers of a loose port may be alike: then one of them is left.
StrayWrites(j) ==
  /\ j \in stray
  /\ \/ stray' = stray \ {j}
     \/ j.port \in loose /\ UNCHANGED stray
  /\ \E ok \in BOOLEAN : Effect(j, ok)
  /\ UNCHANGED <<pending, script, own, loose>>

ManagerAdopts(p) == Adopt(p) /\ UNCHANGED <<pending, script, workers>>

\* The module's other command, which is there for a person: it takes no
\* lock of the script's.
PersonRestores(p) ==
  /\ \E ok \in BOOLEAN : Command(p, Initial[p], ok)
  /\ UNCHANGED <<pending, script, workers>>

\* The script is killed; its worker has a session of its own and goes on.
Killed ==
  /\ pc # "idle" /\ Stop(status)
  /\ own' = None
  /\ stray' = IF own # None /\ own.exit = "pending" THEN stray \cup {own.job} ELSE stray
  /\ UNCHANGED <<module, drivers, pending, loose>>

Reboot ==
  /\ ManualReboot /\ pending' = None
  /\ Stop("NONE")
  /\ own' = None /\ stray' = {} /\ loose' = {}

Step == \/ Load \/ StartWorker \/ JoinWorker \/ TimeOut \/ Abandon
        \/ AwaitManager \/ Verify \/ Unload \/ Unlink

Next == \/ Step \/ WorkerWrites \/ Killed \/ Reboot
        \/ \E p \in Ports :
             \/ KeepRate(p) \/ ManagerAdopts(p) \/ PersonRestores(p)
             \/ \E rate \in Rates : Begin(p, rate)
        \/ \E j \in stray : StrayWrites(j)

\* Every wait of the script has a timeout, so it is scheduled to its end.
Fairness == WF_vars(Step)

Spec == Init /\ [][Next]_vars /\ Fairness

-----------------------------------------------------------------------------
\* The workers that may still write to a port with nothing known against it.
Firm == {j \in stray : j.port \notin loose}

(* Of all the workers of all scripts at most one can still write to ports  *)
(* that are not loose: what it finds there is what its own script left.    *)
(* Starting another transaction beside a slow worker would break this, and *)
(* so would a rollback begun anywhere but in Abandon.                      *)
OneWriter == /\ Cardinality(Firm) <= 1
             /\ own # None \/ pending = None => Firm = {}

\* The comment above the worker's start: "Do not start rollback while such a
\* worker might still be mutating."  Abandon does.
RollbackAlone == [][~undo /\ undo' => stray' = {}]_vars

\* The rate a port runs at; any other state of the port is no rate at all.
Runs(p) == IF netdev[p] = "up" /\ lane[p] = NodeRate(p) THEN NodeRate(p) ELSE 0

(* The script, the module, slow workers and kills implement RateSwitch:    *)
(* while no transaction is pending nothing moves, during one only its port *)
(* does, and it is closed only when that port runs at the old or new rate. *)
(* Of a loose port nothing is promised until the reboot.                   *)
Switch == INSTANCE RateSwitch WITH
  Unknown <- -1,
  rate <- [p \in Ports |-> IF p \in loose THEN -1
                           ELSE IF pending # None /\ pending.port = p THEN pending.from
                           ELSE Runs(p)],
  open <- pending
ImplementsRateSwitch == Switch!Init /\ [][Switch!Next]_(Switch!vars)

(* Every run of the script ends, whatever its workers, the link and the    *)
(* manager do.                                                             *)
TransactionEnds == pc # "idle" ~> pc = "idle"
=============================================================================
