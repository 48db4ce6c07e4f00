------------------------ MODULE KernelUpgradeInvariant ------------------------
(***************************************************************************)
(* The inductive invariant of KernelUpgrade, in parts: what the running    *)
(* process knows of its journal and its files, and how the snapshots of    *)
(* the active transactions lie on top of each other.                       *)
(***************************************************************************)
EXTENDS KernelUpgrade

\* A transaction that has something to undo.
Active(j) == Saved(j) /\ status[j] # "ROLLED_BACK"

Staging     == {"prepare", "check", "replace", "staged", "interrupt"}
RollingBack == {"audit", "restore", "restored"}

\* The journals are used in order, and the process works on one of its own.
Bookkeeping ==
  /\ \A j \in Journals : status[j] # "none" => package[j] \in Packages
  /\ \A i, j \in Journals : i < j /\ status[j] # "none" => status[i] # "none"
  /\ pc # "idle" => status[txn] # "none"
  /\ pc \in Staging => \A j \in Journals : j > txn => status[j] = "none"
  /\ pc = "prepare" => status[txn] = "opened"
  /\ pc \in {"check", "replace", "staged"} => status[txn] = "PREPARED"
  /\ pc = "interrupt" => status[txn] \in {"PREPARED", "STAGED"}
  /\ pc \in RollingBack => Saved(txn) /\ (lifo => Latest(txn))

\* What a process has compared is still so, but for a change since.
StillCompared ==
  /\ pc = "replace" /\ At(index) \notin late => file[At(index)] = old[txn][At(index)]
  /\ pc \in {"audit", "restore"} => \A f \in Compared \ late :
       file[f] = "foreign" => old[txn][f] = "foreign"

\* A file holds what was written to it, but for a change by somebody else.
Holds(f, content) == file[f] = content \/ (foreigns > 0 /\ file[f] = "foreign")

\* The files a process is done with.
Done == CASE pc \in {"check", "replace"}     -> {At(i) : i \in 1 .. index - 1}
          [] pc = "restore"                  -> {At(i) : i \in index + 1 .. Last}
          [] pc \in {"staged", "restored"}   -> FilesOf(package[txn])
          [] OTHER                           -> {}

Written ==
  \A f \in Done :
    /\ pc \in Staging     => Holds(f, New(package[txn], f))
    /\ pc \in RollingBack => Holds(f, old[txn][f])

\* Transactions are undone latest first and nobody else writes.
Calm == lifo /\ foreigns = 0

\* A journal whose snapshots count: an active one, and one being prepared.
Snapped(j) == Active(j) \/ (pc = "prepare" /\ j = txn)

\* Of the journals before j the last active one that stages file f is i.
Owns(i, j, f) ==
  /\ Active(i) /\ i < j /\ f \in FilesOf(package[i])
  /\ \A k \in Journals : i < k /\ k < j /\ Active(k) => f \notin FilesOf(package[k])

End == MaxJournals + 1

\* Every file is as its last transaction found it or as that one leaves it, and
\* so was it when the next transaction took its snapshot.
Stacked ==
  Calm => \A i \in Journals, f \in Files :
    /\ Owns(i, End, f) => file[f] \in {old[i][f], New(package[i], f)}
    /\ \A j \in Journals : Owns(i, j, f) /\ Snapped(j) /\ f \in FilesOf(package[j]) =>
         old[j][f] \in {old[i][f], New(package[i], f)}

\* While a transaction is prepared nothing changes.
Fresh ==
  Calm /\ pc = "prepare" =>
    \A f \in FilesOf(package[txn]) : file[f] = old[txn][f]

\* The bundle a unit names is there, and stays there as long as a transaction
\* may bring that unit back.
BundleThere ==
  Calm => /\ file["unit"] \in Packages => file[file["unit"]] = file["unit"]
          /\ \A j \in Journals : Snapped(j) /\ old[j]["unit"] \in Packages =>
               LET q == old[j]["unit"] IN
               /\ file[q] = q
               /\ \A k \in Journals : k >= j /\ Snapped(k) /\ package[k] = q => old[k][q] = q

\* The kernel a new unit was installed with is there, now and in the snapshots
\* of the next transaction.
KernelThere ==
  Calm => \A i \in Journals : old[i]["unit"] # package[i] =>
    /\ Owns(i, End, "unit") /\ file["unit"] = package[i] => file["image"] = package[i]
    /\ \A j \in Journals : Owns(i, j, "unit") /\ Snapped(j) /\ old[j]["unit"] = package[i] =>
         old[j]["image"] = package[i]

IInv == /\ TypeOK /\ Bookkeeping /\ StillCompared /\ Written
        /\ Stacked /\ Fresh /\ BundleThere /\ KernelThere
=============================================================================
