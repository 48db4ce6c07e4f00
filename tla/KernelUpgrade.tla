--------------------------- MODULE KernelUpgrade ----------------------------
(***************************************************************************)
(* pcie-management/kernel-upgrade/install.py: stage a kernel Image, a card *)
(* bundle, the service unit and its configuration on the SATA root, with a *)
(* journal per transaction, and roll a transaction back.                   *)
(*                                                                         *)
(* A non-blocking flock admits one process (pc # "idle").  It may raise at *)
(* every step or be killed, and other programs may change the files at any *)
(* time.  A package stands for what it contains: the content p of a file   *)
(* is what package p puts there.  The bundle of p is one file, named p,    *)
(* because its path is derived from its digest.                            *)
(***************************************************************************)
EXTENDS Integers, Sequences

CONSTANTS
  Packages,     \* the upgrade packages
  MaxJournals,  \* bound: transactions begun
  MaxCrashes,   \* bound: kills of the process
  MaxForeign    \* bound: changes by other programs

ASSUME BoundsAssumption ==
  {MaxJournals, MaxCrashes, MaxForeign} \subseteq Nat /\ MaxJournals > 0

\* A package is none of the other names of contents and files.
ASSUME NamesAssumption ==
  Packages \cap {"original", "absent", "conf", "foreign", "none", "image", "unit"} = {}

VARIABLES
  file,     \* the content of each file
  status,   \* per journal: "none", "opened" (no transaction.json), or its status
  package,  \* per journal: the package it stages
  old,      \* per journal: the snapshots, one content per file
  pc, txn, index,   \* the process: where it is, its journal, its loop index
  crashes, foreigns, \* used up of the bounds
  late,     \* history: files changed by others after this process compared them
  lifo      \* history: only latest transactions have been rolled back

vars == <<file, status, package, old, pc, txn, index, crashes, foreigns, late, lifo>>
journals == <<status, package, old>>
history  == <<crashes, foreigns, late, lifo>>

-----------------------------------------------------------------------------
Journals == 1 .. MaxJournals
Shared   == {"image", "unit", "conf"}
Files    == Packages \cup Shared
Contents == Packages \cup {"original", "absent", "conf", "foreign"}

\* What package p writes to f; the configuration is the same in all packages.
New(p, f) == IF f = "conf" THEN "conf" ELSE p

\* Mutant: the unit is switched before the kernel is there.
OrderUnitFirst(p) == <<p, "unit", "image", "conf">>

\* The order of the dictionary "changes"; a rollback walks it backwards.
Order(p) == <<p, "image", "unit", "conf">>
FilesOf(p) == {p} \cup Shared
Last == 4  \* Len(Order(p))

At(i) == Order(package[txn])[i]

Saved(j) == status[j] \notin {"none", "opened"}

\* The transaction that is to be rolled back first.
Latest(j) == /\ Saved(j) /\ status[j] # "ROLLED_BACK"
             /\ \A i \in Journals : i > j => ~Saved(i) \/ status[i] = "ROLLED_BACK"

TypeOK ==
  /\ file \in [Files -> Contents]
  /\ status \in [Journals -> {"none", "opened", "PREPARED", "STAGED",
                              "INTERRUPTED", "ROLLED_BACK"}]
  /\ package \in [Journals -> Packages \cup {"none"}] /\ old \in [Journals -> [Files -> Contents]]
  /\ pc \in {"idle", "prepare", "check", "replace", "staged", "interrupt",
             "audit", "restore", "restored"}
  /\ txn \in Journals /\ index \in 1 .. Last
  /\ crashes \in 0 .. MaxCrashes /\ foreigns \in 0 .. MaxForeign
  /\ late \subseteq Files /\ lifo \in BOOLEAN

Untouched == [f \in Files |-> "original"]

Init ==
  /\ \E unit \in {"absent", "original"}, conf \in {"absent", "conf", "foreign"} :
       file = [f \in Files |-> CASE f = "image" -> "original"
                                 [] f = "unit"  -> unit
                                 [] f = "conf"  -> conf
                                 [] OTHER       -> "absent"]
  /\ status = [j \in Journals |-> "none"]
  /\ package = [j \in Journals |-> "none"]
  /\ old = [j \in Journals |-> Untouched]
  /\ pc = "idle" /\ txn = 1 /\ index = 1
  /\ crashes = 0 /\ foreigns = 0 /\ late = {} /\ lifo = TRUE

Exit == pc' = "idle" /\ txn' = 1 /\ index' = 1 /\ late' = {}

\* The process goes on, at file i.
Continue(step, i) == pc' = step /\ index' = i /\ UNCHANGED <<txn, late>>

-----------------------------------------------------------------------------
(* stage *)

\* The journal must be new, a configuration file may only be missing or ours,
\* a bundle of this digest may only be missing or complete.  The current Image
\* is the one the operator named, so it may be anything.
StageBegin(j, p) ==
  /\ pc = "idle" /\ status[j] = "none"
  /\ \A i \in Journals : i < j => status[i] # "none"
  /\ file["conf"] \in {"absent", "conf"}
  /\ file[p] \in {"absent", p}
  /\ status'  = [status EXCEPT ![j] = "opened"]
  /\ package' = [package EXCEPT ![j] = p]
  /\ old' = [old EXCEPT ![j] = [f \in Files |-> IF f \in FilesOf(p) THEN file[f]
                                                ELSE "original"]]
  /\ pc' = "prepare" /\ txn' = j /\ index' = 1
  /\ UNCHANGED <<file, history>>

\* Snapshots and transaction.json; without the latter nothing can be undone,
\* and nothing has been written either.
StagePrepare ==
  /\ pc = "prepare"
  /\ \/ status' = [status EXCEPT ![txn] = "PREPARED"] /\ Continue("check", 1)
     \/ status' \in {status, [status EXCEPT ![txn] = "PREPARED"]} /\ Exit
  /\ UNCHANGED <<file, package, old, crashes, foreigns, lifo>>

\* Mutant: the file is not compared again.
StageNoCheck ==
  /\ pc = "check" /\ Continue("replace", index)
  /\ UNCHANGED <<file, journals, crashes, foreigns, lifo>>

\* Each file must still be what the snapshot says.
StageCheck ==
  /\ pc = "check"
  /\ \/ file[At(index)] = old[txn][At(index)] /\ Continue("replace", index)
     \/ Continue("interrupt", index)
  /\ UNCHANGED <<file, journals, crashes, foreigns, lifo>>

\* Mutant: the file is removed and written in place.
StageReplaceInPlace ==
  /\ pc = "replace"
  /\ \/ /\ file' = [file EXCEPT ![At(index)] = New(package[txn], At(index))]
        /\ IF index < Last THEN Continue("check", index + 1)
                           ELSE Continue("staged", index)
     \/ file' = [file EXCEPT ![At(index)] = "absent"] /\ Continue("interrupt", index)
  /\ UNCHANGED <<journals, crashes, foreigns, lifo>>

StageReplace ==
  /\ pc = "replace"
  /\ LET written == [file EXCEPT ![At(index)] = New(package[txn], At(index))]
     IN  \/ /\ file' = written
            /\ IF index < Last THEN Continue("check", index + 1)
                               ELSE Continue("staged", index)
         \/ file' \in {file, written} /\ Continue("interrupt", index)
  /\ UNCHANGED <<journals, crashes, foreigns, lifo>>

StageFinish ==
  /\ pc = "staged"
  /\ \/ status' = [status EXCEPT ![txn] = "STAGED"] /\ Exit
     \/ status' \in {status, [status EXCEPT ![txn] = "STAGED"]}
        /\ Continue("interrupt", index)
  /\ UNCHANGED <<file, package, old, crashes, foreigns, lifo>>

\* The handler saves INTERRUPTED and re-raises; that save may raise as well.
StageInterrupted ==
  /\ pc = "interrupt"
  /\ status' \in {status, [status EXCEPT ![txn] = "INTERRUPTED"]}
  /\ Exit
  /\ UNCHANGED <<file, package, old, crashes, foreigns, lifo>>

-----------------------------------------------------------------------------
(* rollback *)

\* Any journal with a transaction.json may be rolled back, in any order and
\* again.
RollbackBegin(j) ==
  /\ pc = "idle" /\ Saved(j)
  /\ pc' = "audit" /\ txn' = j /\ index' = 1
  /\ lifo' = (lifo /\ Latest(j))
  /\ UNCHANGED <<file, journals, crashes, foreigns, late>>

\* Mutant: only the first file is compared.
RollbackAuditFirst ==
  /\ pc = "audit"
  /\ \/ /\ file[At(index)] \in {old[txn][At(index)], New(package[txn], At(index))}
        /\ Continue("restore", Last)
     \/ Exit
  /\ UNCHANGED <<file, journals, crashes, foreigns, lifo>>

\* Every file holds its old or its new bytes, or the rollback ends here.
RollbackAudit ==
  /\ pc = "audit"
  /\ \/ /\ file[At(index)] \in {old[txn][At(index)], New(package[txn], At(index))}
        /\ IF index < Last THEN Continue("audit", index + 1)
                           ELSE Continue("restore", Last)
     \/ Exit
  /\ UNCHANGED <<file, journals, crashes, foreigns, lifo>>

\* Mutant: the first file is forgotten.
RollbackRestoreOneLess ==
  /\ pc = "restore"
  /\ file' = [file EXCEPT ![At(index)] = old[txn][At(index)]]
  /\ IF index > 2 THEN Continue("restore", index - 1)
                  ELSE Continue("restored", index)
  /\ UNCHANGED <<journals, crashes, foreigns, lifo>>

RollbackRestore ==
  /\ pc = "restore"
  /\ LET written == [file EXCEPT ![At(index)] = old[txn][At(index)]]
     IN  \/ /\ file' = written
            /\ IF index > 1 THEN Continue("restore", index - 1)
                            ELSE Continue("restored", index)
         \/ file' \in {file, written} /\ Exit
  /\ UNCHANGED <<journals, crashes, foreigns, lifo>>

RollbackFinish ==
  /\ pc = "restored"
  /\ status' \in {status, [status EXCEPT ![txn] = "ROLLED_BACK"]}
  /\ Exit
  /\ UNCHANGED <<file, package, old, crashes, foreigns, lifo>>

-----------------------------------------------------------------------------
(* The world *)

Crash ==
  /\ crashes < MaxCrashes /\ crashes' = crashes + 1
  /\ pc # "idle" /\ Exit
  /\ UNCHANGED <<file, journals, foreigns, lifo>>

\* The files the running process has already compared.
Compared ==
  CASE pc = "replace"  -> {At(index)}
    [] pc = "audit"    -> {At(i) : i \in 1 .. index - 1}
    [] pc = "restore"  -> FilesOf(package[txn])
    [] OTHER           -> {}

Foreign ==
  /\ foreigns < MaxForeign /\ foreigns' = foreigns + 1
  /\ \E f \in Files : /\ file[f] # "foreign"
                      /\ file' = [file EXCEPT ![f] = "foreign"]
                      /\ late' = late \cup ({f} \cap Compared)
  /\ UNCHANGED <<journals, pc, txn, index, crashes, lifo>>

Running == \/ StagePrepare \/ StageCheck \/ StageReplace \/ StageFinish
           \/ StageInterrupted
           \/ RollbackAudit \/ RollbackRestore \/ RollbackFinish

Next == \/ \E j \in Journals : RollbackBegin(j) \/ \E p \in Packages : StageBegin(j, p)
        \/ Running
        \/ Crash \/ Foreign

Spec == Init /\ [][Next]_vars

-----------------------------------------------------------------------------
(* Properties *)

\* A rollback writes nothing while one of its files carries a change that was
\* there to be seen when it compared that file: a change of somebody else is
\* never lost, and never leaves a transaction half undone.
RollbackRefusesForeign ==
  [][pc = "restore" /\ file' # file
       => \A f \in FilesOf(package[txn]) \ late :
            file[f] = "foreign" => old[txn][f] = "foreign"]_vars

\* Staging never overwrites a change made before it compared the file.
StageRefusesForeign ==
  [][pc = "replace" /\ file' # file /\ At(index) \notin late
       => file[At(index)] = old[txn][At(index)]]_vars

\* The status a run leaves is the truth when it is written: STAGED, every file
\* is the new one; ROLLED_BACK, every file is back to its snapshot (or changed
\* by somebody else since).
StatusTruthful ==
  [][\A j \in Journals : status'[j] # status[j] => \A f \in FilesOf(package[j]) :
       /\ status'[j] = "STAGED" => file[f] \in {New(package[j], f), "foreign"}
       /\ status'[j] = "ROLLED_BACK" => file[f] \in {old[j][f], "foreign"}]_vars

\* Whatever was interrupted, and wherever, the latest transaction can be rolled
\* back (again): its audit passes as long as nobody else changed its files.
LatestCanRollBack ==
  lifo /\ foreigns = 0 => \A j \in Journals : Latest(j) =>
    \A f \in FilesOf(package[j]) : file[f] \in {old[j][f], New(package[j], f)}

\* The service unit of the next boot never names a bundle that is not there,
\* nor, in the transaction that installs it, a kernel that is not: at every
\* moment of staging and rolling back, so also after a crash.
ServiceComplete ==
  lifo /\ foreigns = 0 => \A p \in Packages : file["unit"] = p =>
    /\ file[p] = p
    /\ \A j \in Journals :
         Latest(j) /\ package[j] = p /\ old[j]["unit"] # p => file["image"] = p
=============================================================================
