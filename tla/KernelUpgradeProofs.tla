------------------------ MODULE KernelUpgradeProofs -------------------------
(***************************************************************************)
(* The properties of KernelUpgrade, proved for every set of packages and   *)
(* any number of transactions, kills and changes by others.                *)
(*                                                                         *)
(* The action properties follow from what the process knows of the files   *)
(* it has compared and written.  The state properties need the snapshots   *)
(* of all active transactions: what one finds is what the one before it    *)
(* found or left.                                                          *)
(***************************************************************************)
EXTENDS KernelUpgradeInvariant, TLAPS

USE DEF journals, history, Journals

-----------------------------------------------------------------------------
(* Files, in the order they are staged *)

LEMMA Orders ==
  ASSUME NEW p \in Packages
  PROVE  /\ Order(p)[1] = p /\ Order(p)[2] = "image"
         /\ Order(p)[3] = "unit" /\ Order(p)[4] = "conf"
         /\ p \notin Shared /\ p \notin {"original", "absent", "conf", "foreign", "none"}
         /\ FilesOf(p) \subseteq Files /\ p \in Contents
BY NamesAssumption DEF Order, Shared, FilesOf, Files, Contents

LEMMA OrderCovers ==
  ASSUME NEW p \in Packages
  PROVE  /\ \A i \in 1 .. Last : Order(p)[i] \in FilesOf(p)
         /\ \A f \in FilesOf(p) : \E i \in 1 .. Last : f = Order(p)[i]
         /\ \A i, j \in 1 .. Last : Order(p)[i] = Order(p)[j] => i = j
<1>1. \A i \in 1 .. Last : i = 1 \/ i = 2 \/ i = 3 \/ i = 4
  BY DEF Last
<1>2. 1 \in 1 .. Last /\ 2 \in 1 .. Last /\ 3 \in 1 .. Last /\ 4 \in 1 .. Last
  BY DEF Last
<1>3. \A i \in 1 .. Last : Order(p)[i] \in FilesOf(p)
  BY <1>1, Orders DEF FilesOf, Shared
<1>4. \A f \in FilesOf(p) : \E i \in 1 .. Last : f = Order(p)[i]
  BY <1>2, Orders DEF FilesOf, Shared
<1>5. \A i, j \in 1 .. Last : Order(p)[i] = Order(p)[j] => i = j
  BY <1>1, Orders DEF Shared
<1> QED
  BY <1>3, <1>4, <1>5

LEMMA News ==
  ASSUME NEW p \in Packages, NEW f
  PROVE  New(p, f) \in Contents /\ New(p, f) # "foreign"
BY Orders DEF New, Contents

\* The file in hand is one of its transaction.
LEMMA AtHand ==
  ASSUME TypeOK, Bookkeeping, pc # "idle"
  PROVE  /\ package[txn] \in Packages /\ FilesOf(package[txn]) \subseteq Files
         /\ At(index) \in FilesOf(package[txn]) /\ At(index) \in Files
<1>1. package[txn] \in Packages /\ index \in 1 .. Last
  BY DEF TypeOK, Bookkeeping
<1> QED
  BY <1>1, Orders, OrderCovers DEF At

-----------------------------------------------------------------------------
(* Types *)

LEMMA TypeStep ==
  ASSUME TypeOK, Bookkeeping, Next
  PROVE  TypeOK'
<1>1. 1 \in Journals /\ 1 \in 1 .. Last
  BY BoundsAssumption DEF Last
<1>2. Exit => pc' = "idle" /\ txn' \in Journals /\ index' \in 1 .. Last /\ late' \subseteq Files
  BY <1>1 DEF Exit
<1>3. ASSUME NEW j \in Journals, NEW p \in Packages, StageBegin(j, p)
      PROVE  TypeOK'
  <2>1. old' \in [Journals -> [Files -> Contents]]
    BY <1>3 DEF StageBegin, TypeOK, Contents
  <2> QED
    BY <1>1, <1>3, <2>1 DEF StageBegin, TypeOK
<1>4. CASE StagePrepare
  BY <1>1, <1>2, <1>4 DEF StagePrepare, Continue, TypeOK
<1>5. CASE StageCheck
  BY <1>5 DEF StageCheck, Continue, TypeOK
<1>6. CASE StageReplace
  <2>1. New(package[txn], At(index)) \in Contents /\ At(index) \in Files
    BY <1>6, AtHand, News DEF StageReplace
  <2>2. index < Last => index + 1 \in 1 .. Last
    BY DEF TypeOK, Last
  <2>3. file' \in [Files -> Contents]
    BY <1>6, <2>1 DEF StageReplace, TypeOK
  <2> QED
    BY <1>6, <2>2, <2>3 DEF StageReplace, Continue, TypeOK
<1>7. CASE StageFinish
  BY <1>2, <1>7 DEF StageFinish, Continue, TypeOK
<1>8. CASE StageInterrupted
  BY <1>2, <1>8 DEF StageInterrupted, TypeOK
<1>9. ASSUME NEW j \in Journals, RollbackBegin(j)
      PROVE  TypeOK'
  BY <1>1, <1>9 DEF RollbackBegin, Latest, TypeOK
<1>10. CASE RollbackAudit
  <2>1. /\ index < Last => index + 1 \in 1 .. Last
        /\ Last \in 1 .. Last
    BY DEF TypeOK, Last
  <2> QED
    BY <1>2, <1>10, <2>1 DEF RollbackAudit, Continue, TypeOK
<1>11. CASE RollbackRestore
  <2>1. old[txn][At(index)] \in Contents /\ At(index) \in Files
    BY <1>11, AtHand DEF RollbackRestore, TypeOK
  <2>2. index > 1 => index - 1 \in 1 .. Last
    BY DEF TypeOK, Last
  <2>3. file' \in [Files -> Contents]
    BY <1>11, <2>1 DEF RollbackRestore, TypeOK
  <2> QED
    BY <1>2, <1>11, <2>2, <2>3 DEF RollbackRestore, Continue, TypeOK
<1>12. CASE RollbackFinish
  BY <1>2, <1>12 DEF RollbackFinish, TypeOK
<1>13. CASE Crash
  BY <1>2, <1>13, BoundsAssumption DEF Crash, TypeOK
<1>14. CASE Foreign
  <2>1. foreigns' \in 0 .. MaxForeign
    BY <1>14, BoundsAssumption DEF Foreign, TypeOK
  <2>2. file' \in [Files -> Contents] /\ late' \subseteq Files
    BY <1>14 DEF Foreign, TypeOK, Contents
  <2> QED
    BY <1>14, <2>1, <2>2 DEF Foreign, TypeOK
<1> QED
  BY <1>3, <1>4, <1>5, <1>6, <1>7, <1>8, <1>9, <1>10, <1>11, <1>12, <1>13, <1>14
  DEF Next, Running

-----------------------------------------------------------------------------
(* The process and its journal *)

LEMMA BookkeepingStep ==
  ASSUME TypeOK, Bookkeeping, Next
  PROVE  Bookkeeping'
<1>. USE DEF Staging, RollingBack
<1>1. ASSUME NEW j \in Journals, NEW p \in Packages, StageBegin(j, p)
      PROVE  Bookkeeping'
  <2>1. /\ status[j] = "none" /\ \A i \in Journals : i < j => status[i] # "none"
        /\ \A i \in Journals : i > j => status[i] = "none"
        /\ status' = [status EXCEPT ![j] = "opened"]
        /\ package' = [package EXCEPT ![j] = p]
        /\ pc' = "prepare" /\ txn' = j
    BY <1>1 DEF StageBegin, Bookkeeping
  <2>2. /\ \A i \in Journals : status'[i] # "none" <=> i <= j
        /\ status'[j] = "opened" /\ package'[j] = p
        /\ \A i \in Journals : i # j => package'[i] = package[i] /\ status'[i] = status[i]
    BY <2>1 DEF TypeOK
  <2> QED
    BY <2>1, <2>2 DEF Bookkeeping
<1>2. CASE StagePrepare
  BY <1>2 DEF StagePrepare, Exit, Continue, Bookkeeping, TypeOK
<1>3. CASE StageCheck \/ StageReplace
  BY <1>3 DEF StageCheck, StageReplace, Continue, Bookkeeping
<1>4. CASE StageFinish
  BY <1>4 DEF StageFinish, Exit, Continue, Bookkeeping, TypeOK
<1>5. CASE StageInterrupted
  BY <1>5 DEF StageInterrupted, Exit, Bookkeeping, TypeOK
<1>6. ASSUME NEW j \in Journals, RollbackBegin(j)
      PROVE  Bookkeeping'
  BY <1>6 DEF RollbackBegin, Bookkeeping, Saved, Latest, TypeOK
<1>7. CASE RollbackAudit \/ RollbackRestore
  BY <1>7 DEF RollbackAudit, RollbackRestore, Exit, Continue, Bookkeeping, Saved, Latest
<1>8. CASE RollbackFinish
  BY <1>8 DEF RollbackFinish, Exit, Bookkeeping, Saved, TypeOK
<1>9. CASE Crash
  BY <1>9 DEF Crash, Exit, Bookkeeping
<1>10. CASE Foreign
  BY <1>10 DEF Foreign, Bookkeeping, Saved, Latest
<1> QED
  BY <1>1, <1>2, <1>3, <1>4, <1>5, <1>6, <1>7, <1>8, <1>9, <1>10 DEF Next, Running

-----------------------------------------------------------------------------
(* What was compared and what was written *)

LEMMA ComparedStep ==
  ASSUME TypeOK, Bookkeeping, StillCompared, Next
  PROVE  StillCompared'
<1>1. ASSUME pc' \notin {"replace", "audit", "restore"}
      PROVE  StillCompared'
  BY <1>1 DEF StillCompared
<1>2. CASE StageCheck
  BY <1>2 DEF StageCheck, Continue, StillCompared, At
<1>3. ASSUME NEW j \in Journals, RollbackBegin(j)
      PROVE  StillCompared'
  <2>1. pc' = "audit" /\ index' = 1
    BY <1>3 DEF RollbackBegin
  <2>2. Compared' = {}
    BY <2>1 DEF Compared
  <2> QED
    BY <2>1, <2>2 DEF StillCompared
<1>4. CASE RollbackAudit
  <2>1. CASE Exit
    BY <1>1, <2>1 DEF Exit
  <2>2. CASE /\ pc = "audit"
             /\ file[At(index)] \in {old[txn][At(index)], New(package[txn], At(index))}
             /\ IF index < Last THEN Continue("audit", index + 1)
                                ELSE Continue("restore", Last)
    <3>1. /\ UNCHANGED <<file, package, old, txn, late>>
          /\ pc' \in {"audit", "restore"}
          /\ index < Last => pc' = "audit" /\ index' = index + 1
          /\ index >= Last => pc' = "restore"
      BY <1>4, <2>2 DEF RollbackAudit, Continue, TypeOK, Last
    <3>2. package[txn] \in Packages /\ index \in 1 .. Last
      BY <2>2, AtHand DEF TypeOK
    <3>3. Compared' \subseteq Compared \cup {At(index)}
      <4>1. Compared = {At(i) : i \in 1 .. index - 1}
        BY <2>2 DEF Compared
      <4>2. CASE index < Last
        <5>1. Compared' = {At(i) : i \in 1 .. index}
          BY <3>1, <3>2, <4>2 DEF Compared, At, Last
        <5> QED
          BY <3>2, <4>1, <5>1 DEF Last
      <4>3. CASE index >= Last
        <5>1. Compared' = FilesOf(package[txn]) /\ index = Last
          BY <3>1, <3>2, <4>3 DEF Compared, FilesOf, Last
        <5>2. \A f \in FilesOf(package[txn]) : \E i \in 1 .. index : f = At(i)
          BY <3>2, <5>1, OrderCovers DEF At
        <5> QED
          BY <3>2, <4>1, <5>1, <5>2 DEF Last
      <4> QED
        BY <3>2, <4>2, <4>3 DEF Last
    <3>4. file[At(index)] = "foreign" => old[txn][At(index)] = "foreign"
      BY <2>2, <3>2, News
    <3> QED
      BY <2>2, <3>1, <3>3, <3>4 DEF StillCompared
  <2> QED
    BY <1>4, <2>1, <2>2 DEF RollbackAudit
<1>5. CASE RollbackRestore
  <2>1. CASE Exit
    BY <1>1, <2>1 DEF Exit
  <2>2. CASE /\ file' = [file EXCEPT ![At(index)] = old[txn][At(index)]]
             /\ IF index > 1 THEN Continue("restore", index - 1)
                             ELSE Continue("restored", index)
    <3>1. pc = "restore" /\ UNCHANGED <<package, old, txn, late>>
      BY <1>5, <2>2 DEF RollbackRestore, Continue
    <3>2. pc' = "restore" => Compared' = Compared
      BY <3>1 DEF Compared, FilesOf
    <3>3. \A f \in Files : file'[f] = file[f] \/ file'[f] = old[txn][f]
      BY <2>2 DEF TypeOK
    <3>4. Compared \subseteq Files
      BY <3>1, AtHand DEF Compared
    <3>5. pc' \in {"restore", "restored"}
      BY <2>2 DEF Continue
    <3> QED
      BY <3>1, <3>2, <3>3, <3>4, <3>5 DEF StillCompared
  <2> QED
    BY <1>5, <2>1, <2>2 DEF RollbackRestore
<1>6. CASE Foreign
  <2>1. PICK g \in Files : /\ file' = [file EXCEPT ![g] = "foreign"]
                           /\ late' = late \cup ({g} \cap Compared)
    BY <1>6 DEF Foreign
  <2>2. UNCHANGED <<pc, txn, index, package, old>>
    BY <1>6 DEF Foreign
  <2>3. Compared' = Compared
    BY <2>2 DEF Compared, At, FilesOf
  <2>4. \A f \in Compared \ late' : f # g /\ f \notin late
    BY <2>1
  <2>5. pc # "idle" => Compared \subseteq Files
    <3>1. ASSUME pc # "idle" PROVE Compared \subseteq Files
      <4>1. /\ package[txn] \in Packages /\ FilesOf(package[txn]) \subseteq Files
            /\ index \in 1 .. Last /\ At(index) \in Files
        BY <3>1, AtHand DEF TypeOK
      <4>2. \A i \in 1 .. index - 1 : At(i) \in Files
        BY <4>1, OrderCovers DEF At, Last
      <4> QED
        BY <4>1, <4>2 DEF Compared
    <3> QED
      BY <3>1
  <2>6. \A f \in Files : f # g => file'[f] = file[f]
    BY <2>1 DEF TypeOK
  <2>7. pc = "replace" => Compared = {At(index)} /\ At(index)' = At(index)
    BY <2>2 DEF Compared, At
  <2> QED
    BY <2>2, <2>3, <2>4, <2>5, <2>6, <2>7 DEF StillCompared
<1>7. CASE StageReplace \/ StageFinish
  BY <1>1, <1>7 DEF StageReplace, StageFinish, Continue, Exit
<1>8. CASE StagePrepare \/ StageInterrupted \/ RollbackFinish \/ Crash
  BY <1>1, <1>8 DEF StagePrepare, StageInterrupted, RollbackFinish, Crash, Continue, Exit
<1>9. ASSUME NEW j \in Journals, NEW p \in Packages, StageBegin(j, p)
      PROVE  StillCompared'
  BY <1>1, <1>9 DEF StageBegin
<1> QED
  BY <1>2, <1>3, <1>4, <1>5, <1>6, <1>7, <1>8, <1>9 DEF Next, Running

LEMMA WrittenStep ==
  ASSUME TypeOK, Bookkeeping, Written, Next
  PROVE  Written'
<1>. USE DEF Staging, RollingBack
<1>1. ASSUME Done' = {} PROVE Written'
  BY <1>1 DEF Written
<1>2. ASSUME Exit PROVE Written'
  BY <1>1, <1>2 DEF Exit, Done
<1>3. CASE Foreign
  <2>1. PICK g \in Files : file' = [file EXCEPT ![g] = "foreign"]
    BY <1>3 DEF Foreign
  <2>2. UNCHANGED <<pc, txn, index, package, old>> /\ foreigns' > 0
    BY <1>3, BoundsAssumption DEF Foreign, TypeOK
  <2>3. Done' = Done
    BY <2>2 DEF Done, At, FilesOf
  <2>4. \A f \in Files : file'[f] = "foreign" \/ file'[f] = file[f]
    BY <2>1 DEF TypeOK
  <2>5. Done # {} => pc # "idle"
    BY DEF Done
  <2>6. pc # "idle" => Done \subseteq Files
    <3>1. ASSUME pc # "idle" PROVE Done \subseteq Files
      <4>1. /\ package[txn] \in Packages /\ FilesOf(package[txn]) \subseteq Files
            /\ index \in 1 .. Last
        BY <3>1, AtHand DEF TypeOK
      <4>2. \A i \in 1 .. Last : At(i) \in Files
        BY <4>1, OrderCovers DEF At
      <4>3. index - 1 \in 0 .. Last /\ index + 1 \in 1 .. Last + 1
        BY <4>1 DEF Last
      <4> QED
        BY <4>1, <4>2, <4>3 DEF Done, Last
    <3> QED
      BY <3>1
  <2> QED
    BY <2>2, <2>3, <2>4, <2>5, <2>6 DEF Written, Holds, New
<1>4. CASE StageReplace
  <2>1. CASE Continue("interrupt", index)
    BY <1>1, <2>1 DEF Continue, Done
  <2>2. CASE /\ file' = [file EXCEPT ![At(index)] = New(package[txn], At(index))]
             /\ IF index < Last THEN Continue("check", index + 1)
                                ELSE Continue("staged", index)
    <3>1. pc = "replace" /\ UNCHANGED <<package, old, txn, foreigns>>
      BY <1>4, <2>2 DEF StageReplace, Continue
    <3>2. /\ package[txn] \in Packages /\ FilesOf(package[txn]) \subseteq Files
          /\ index \in 1 .. Last /\ At(index) \in Files
      BY <3>1, AtHand DEF TypeOK
    <3>3. \A f \in Files : file'[f] = IF f = At(index) THEN New(package[txn], f) ELSE file[f]
      BY <2>2 DEF TypeOK
    <3>4. Done = {At(i) : i \in 1 .. index - 1}
      BY <3>1 DEF Done
    <3>5. Done' \subseteq Done \cup {At(index)} /\ Done' \subseteq Files
      <4>1. CASE index < Last
        <5>1. Done' = {At(i) : i \in 1 .. index}
          BY <2>2, <3>1, <3>2, <4>1 DEF Continue, Done, At, Last
        <5>2. \A i \in 1 .. index : At(i) \in Files
          BY <3>2, OrderCovers DEF At, Last
        <5> QED
          BY <3>2, <3>4, <5>1, <5>2 DEF Last
      <4>2. CASE index >= Last
        <5>1. Done' = FilesOf(package[txn]) /\ index = Last
          BY <2>2, <3>1, <3>2, <4>2 DEF Continue, Done, FilesOf, Last
        <5>2. \A f \in FilesOf(package[txn]) : \E i \in 1 .. index : f = At(i)
          BY <3>2, <5>1, OrderCovers DEF At
        <5> QED
          BY <3>2, <3>4, <5>1, <5>2 DEF Last
      <4> QED
        BY <3>2, <4>1, <4>2 DEF Last
    <3>6. pc' \in {"check", "staged"}
      BY <2>2 DEF Continue
    <3> QED
      BY <3>1, <3>3, <3>5, <3>6 DEF Written, Holds, New
  <2> QED
    BY <1>4, <2>1, <2>2 DEF StageReplace
<1>5. CASE RollbackRestore
  <2>1. CASE /\ file' = [file EXCEPT ![At(index)] = old[txn][At(index)]]
             /\ IF index > 1 THEN Continue("restore", index - 1)
                             ELSE Continue("restored", index)
    <3>1. pc = "restore" /\ UNCHANGED <<package, old, txn, foreigns>>
      BY <1>5, <2>1 DEF RollbackRestore, Continue
    <3>2. /\ package[txn] \in Packages /\ FilesOf(package[txn]) \subseteq Files
          /\ index \in 1 .. Last /\ At(index) \in Files
      BY <3>1, AtHand DEF TypeOK
    <3>3. \A f \in Files : file'[f] = IF f = At(index) THEN old[txn][f] ELSE file[f]
      BY <2>1 DEF TypeOK
    <3>4. Done = {At(i) : i \in index + 1 .. Last}
      BY <3>1 DEF Done
    <3>5. Done' \subseteq Done \cup {At(index)} /\ Done' \subseteq Files
      <4>1. CASE index > 1
        <5>1. Done' = {At(i) : i \in index .. Last}
          BY <2>1, <3>1, <3>2, <4>1 DEF Continue, Done, At, Last
        <5>2. \A i \in index .. Last : At(i) \in Files
          BY <3>2, OrderCovers DEF At, Last
        <5> QED
          BY <3>2, <3>4, <5>1, <5>2 DEF Last
      <4>2. CASE index <= 1
        <5>1. Done' = FilesOf(package[txn]) /\ index = 1
          BY <2>1, <3>1, <3>2, <4>2 DEF Continue, Done, FilesOf, Last
        <5>2. \A f \in FilesOf(package[txn]) : \E i \in index .. Last : f = At(i)
          BY <3>2, <5>1, OrderCovers DEF At
        <5> QED
          BY <3>2, <3>4, <5>1, <5>2 DEF Last
      <4> QED
        BY <3>2, <4>1, <4>2 DEF Last
    <3>6. pc' \in {"restore", "restored"}
      BY <2>1 DEF Continue
    <3> QED
      BY <3>1, <3>3, <3>5, <3>6 DEF Written, Holds
  <2> QED
    BY <1>2, <1>5, <2>1 DEF RollbackRestore
<1>6. CASE StageCheck
  <2>1. CASE Continue("interrupt", index)
    BY <1>1, <2>1 DEF Continue, Done
  <2>2. CASE Continue("replace", index)
    BY <1>6, <2>2 DEF StageCheck, Continue, Written, Done, At, Holds, New
  <2> QED
    BY <1>6, <2>1, <2>2 DEF StageCheck
<1>7. CASE RollbackAudit
  <2>1. CASE Continue("restore", Last)
    <3>1. Done' = {}
      BY <2>1 DEF Continue, Done, Last
    <3> QED
      BY <1>1, <3>1
  <2>2. CASE Continue("audit", index + 1)
    BY <1>1, <2>2 DEF Continue, Done
  <2> QED
    BY <1>2, <1>7, <2>1, <2>2 DEF RollbackAudit
<1>8. CASE StagePrepare
  <2>1. CASE Continue("check", 1)
    <3>1. Done' = {}
      BY <2>1 DEF Continue, Done
    <3> QED
      BY <1>1, <3>1
  <2> QED
    BY <1>2, <1>8, <2>1 DEF StagePrepare
<1>9. CASE StageFinish
  BY <1>1, <1>2, <1>9 DEF StageFinish, Continue, Done
<1>10. CASE StageInterrupted \/ RollbackFinish \/ Crash
  BY <1>2, <1>10 DEF StageInterrupted, RollbackFinish, Crash
<1>11. ASSUME NEW j \in Journals,
              RollbackBegin(j) \/ \E p \in Packages : StageBegin(j, p)
       PROVE  Written'
  BY <1>1, <1>11 DEF RollbackBegin, StageBegin, Done
<1> QED
  BY <1>3, <1>4, <1>5, <1>6, <1>7, <1>8, <1>9, <1>10, <1>11 DEF Next, Running

-----------------------------------------------------------------------------
(* The stack of active transactions *)

\* No active transaction is above the one a process stages or rolls back.
LEMMA OnTop ==
  ASSUME TypeOK, Bookkeeping, NEW k \in Journals, Active(k),
         \/ pc \in Staging
         \/ pc \in RollingBack /\ lifo
  PROVE  k <= txn
<1>1. txn \in Journals /\ txn \in Nat /\ k \in Nat
  BY DEF TypeOK
<1>2. CASE pc \in Staging
  BY <1>1, <1>2 DEF Bookkeeping, Active, Saved
<1>3. CASE pc \in RollingBack /\ lifo
  BY <1>1, <1>3 DEF Bookkeeping, Active, Latest
<1> QED
  BY <1>2, <1>3

LEMMA TxnActive ==
  ASSUME TypeOK, Bookkeeping,
         \/ pc \in {"check", "replace", "staged"}
         \/ pc \in RollingBack /\ lifo
  PROVE  Active(txn) /\ txn \in Journals /\ txn < End
BY BoundsAssumption DEF Bookkeeping, TypeOK, Active, Saved, Latest, RollingBack, End

\* So its files belong to it.
LEMMA OwnsTop ==
  ASSUME TypeOK, Bookkeeping, NEW i \in Journals, NEW f, f \in FilesOf(package[txn]),
         Owns(i, End, f),
         \/ pc \in {"check", "replace", "staged"}
         \/ pc \in RollingBack /\ lifo
  PROVE  i = txn
<1>1. Active(txn) /\ txn \in Journals /\ txn < End
  BY TxnActive
<1>2. i <= txn
  BY OnTop DEF Owns, Staging
<1>3. ~(i < txn)
  BY <1>1 DEF Owns
<1> QED
  BY <1>1, <1>2, <1>3

\* Nothing changes for the stack when files, snapshots and the set of active
\* transactions stay.
LEMMA OwnsKept ==
  ASSUME UNCHANGED package, \A j \in Journals : Active(j)' <=> Active(j),
         NEW i \in Journals, NEW j, NEW f
  PROVE  Owns(i, j, f)' <=> Owns(i, j, f)
BY DEF Owns, FilesOf

LEMMA StackKept ==
  ASSUME TypeOK, Stacked, Fresh, BundleThere, KernelThere, UNCHANGED <<file, package, old>>,
         \A j \in Journals : Active(j)' <=> Active(j),
         \A j \in Journals : Snapped(j)' => Snapped(j),
         Calm' => Calm, pc' # "prepare"
  PROVE  Stacked' /\ Fresh' /\ BundleThere' /\ KernelThere'
<1>0. End' = End
  BY DEF End
<1>1. \A i \in Journals, j \in Journals \cup {End}, f \in Files : Owns(i, j, f)' <=> Owns(i, j, f)
  BY OwnsKept
<1>2. Stacked'
  BY <1>0, <1>1 DEF Stacked, New, FilesOf
<1>3. Fresh'
  BY DEF Fresh
<1>4. BundleThere'
  BY DEF BundleThere
<1>5. KernelThere'
  BY <1>0, <1>1 DEF KernelThere, Files, Shared
<1> QED
  BY <1>2, <1>3, <1>4, <1>5

\* Bundles are not shared files, and the shared files belong to every package.
LEMMA Names ==
  ASSUME NEW p \in Packages
  PROVE  /\ "unit" \in FilesOf(p) /\ "image" \in FilesOf(p) /\ p \in FilesOf(p)
         /\ "unit" \in Files /\ "image" \in Files /\ p \in Files
         /\ p # "unit" /\ p # "image"
         /\ \A q \in Packages : q \in FilesOf(p) => q = p
         /\ New(p, p) = p /\ New(p, "unit") = p /\ New(p, "image") = p
BY NamesAssumption DEF FilesOf, Files, Shared, New

\* A new transaction finds what the last one found or left.
LEMMA BeginStack ==
  ASSUME TypeOK, Bookkeeping, Stacked, BundleThere, KernelThere,
         NEW j \in Journals, NEW p \in Packages, StageBegin(j, p)
  PROVE  Stacked' /\ Fresh' /\ BundleThere' /\ KernelThere'
<1>1. /\ pc = "idle" /\ status[j] = "none" /\ \A i \in Journals : i > j => status[i] = "none"
      /\ status' = [status EXCEPT ![j] = "opened"]
      /\ package' = [package EXCEPT ![j] = p]
      /\ pc' = "prepare" /\ txn' = j /\ UNCHANGED <<file, history>>
  BY DEF StageBegin, Bookkeeping
<1>2. \A k \in Journals : /\ Active(k) => k < j
                          /\ Active(k)' <=> Active(k)
                          /\ Snapped(k) <=> Active(k)
                          /\ Snapped(k)' <=> Active(k) \/ k = j
  BY <1>1 DEF Active, Saved, Snapped, TypeOK
<1>3. /\ package'[j] = p /\ \A k \in Journals : k # j => package'[k] = package[k]
      /\ \A k \in Journals : k # j => old'[k] = old[k]
      /\ \A f \in FilesOf(p) : old'[j][f] = file[f]
  <2>1. FilesOf(p) \subseteq Files
    BY Orders
  <2> QED
    BY <1>1, <2>1 DEF StageBegin, TypeOK
<1>4. End' = End /\ j < End /\ (Calm' => Calm)
  BY <1>1, BoundsAssumption DEF End, Calm
<1>5. \A i \in Journals, k \in Journals \cup {End}, f \in Files :
        /\ Owns(i, k, f)' => Owns(i, k, f) /\ i # j /\ Active(i)
        /\ Owns(i, j, f) => Owns(i, End, f)
  <2>1. ASSUME NEW i \in Journals, NEW k \in Journals \cup {End}, NEW f \in Files, Owns(i, k, f)'
        PROVE  Owns(i, k, f) /\ i # j /\ Active(i)
    BY <1>2, <1>3, <2>1 DEF Owns, FilesOf
  <2>2. ASSUME NEW i \in Journals, NEW f \in Files, Owns(i, j, f)
        PROVE  Owns(i, End, f)
    BY <1>2, <1>4, <2>2, BoundsAssumption DEF Owns, End
  <2> QED
    BY <2>1, <2>2
<1>6. Stacked'
  <2> SUFFICES ASSUME Calm, NEW i \in Journals, NEW f \in Files
               PROVE  (/\ Owns(i, End, f) => file[f] \in {old[i][f], New(package[i], f)}
                       /\ \A k \in Journals :
                            Owns(i, k, f) /\ Snapped(k) /\ f \in FilesOf(package[k]) =>
                              old[k][f] \in {old[i][f], New(package[i], f)})'
    BY <1>4 DEF Stacked
  <2>1. Owns(i, End, f)' => file'[f] \in {old'[i][f], New(package[i], f)'}
    BY <1>1, <1>3, <1>4, <1>5 DEF Stacked, New
  <2>2. ASSUME NEW k \in Journals, Owns(i, k, f)', Snapped(k)', f \in FilesOf(package[k])'
        PROVE  old'[k][f] \in {old'[i][f], New(package[i], f)'}
    <3>1. Owns(i, k, f) /\ i # j
      BY <1>5, <2>2
    <3>2. CASE k # j
      BY <1>2, <1>3, <2>2, <3>1, <3>2 DEF Stacked, New, FilesOf
    <3>3. CASE k = j
      <4>1. file[f] \in {old[i][f], New(package[i], f)}
        BY <1>5, <3>1, <3>3 DEF Stacked
      <4> QED
        BY <1>3, <2>2, <3>1, <3>3, <4>1 DEF New, FilesOf
    <3> QED
      BY <3>2, <3>3
  <2> QED
    BY <2>1, <2>2
<1>7. Fresh'
  BY <1>1, <1>3 DEF Fresh, FilesOf
<1>8. BundleThere'
  <2> SUFFICES ASSUME Calm PROVE BundleThere'
    BY <1>4 DEF BundleThere
  <2>1. ASSUME NEW k \in Journals, Snapped(k)', old'[k]["unit"] \in Packages
        PROVE  LET q == old'[k]["unit"] IN
               /\ file[q] = q
               /\ \A m \in Journals : m >= k /\ Snapped(m)' /\ package'[m] = q => old'[m][q] = q
    <3> DEFINE q == old'[k]["unit"]
    <3>1. file[q] = q
      <4>1. CASE k = j
        BY <1>3, <2>1, <4>1, Names DEF BundleThere
      <4>2. CASE k # j
        BY <1>2, <1>3, <2>1, <4>2 DEF BundleThere
      <4> QED
        BY <4>1, <4>2
    <3>2. ASSUME NEW m \in Journals, m >= k, Snapped(m)', package'[m] = q
          PROVE  old'[m][q] = q
      <4>1. CASE m = j
        BY <1>3, <3>1, <3>2, <4>1, Names
      <4>2. CASE m # j
        <5>1. Snapped(m) /\ Snapped(k) /\ k # j
          BY <1>2, <2>1, <3>2, <4>2
        <5> QED
          BY <1>3, <2>1, <3>2, <4>2, <5>1 DEF BundleThere
      <4> QED
        BY <4>1, <4>2
    <3> QED
      BY <3>1, <3>2
  <2>2. file'["unit"] \in Packages => file'[file'["unit"]] = file'["unit"]
    BY <1>1 DEF BundleThere
  <2> QED
    BY <1>1, <2>1, <2>2 DEF BundleThere
<1>9. KernelThere'
  <2> SUFFICES ASSUME Calm, NEW i \in Journals, old'[i]["unit"] # package'[i]
               PROVE  (/\ Owns(i, End, "unit") /\ file["unit"] = package[i] =>
                            file["image"] = package[i]
                       /\ \A k \in Journals :
                            Owns(i, k, "unit") /\ Snapped(k) /\ old[k]["unit"] = package[i] =>
                              old[k]["image"] = package[i])'
    BY <1>4 DEF KernelThere
  <2>1. (Owns(i, End, "unit") /\ file["unit"] = package[i] => file["image"] = package[i])'
    BY <1>1, <1>3, <1>4, <1>5, Names DEF KernelThere
  <2>2. ASSUME NEW k \in Journals, Owns(i, k, "unit")', Snapped(k)',
               old'[k]["unit"] = package'[i]
        PROVE  old'[k]["image"] = package'[i]
    <3>1. Owns(i, k, "unit") /\ i # j
      BY <1>5, <2>2, Names
    <3>2. CASE k # j
      BY <1>2, <1>3, <2>2, <3>1, <3>2 DEF KernelThere
    <3>3. CASE k = j
      <4>1. Owns(i, End, "unit")
        BY <1>5, <3>1, <3>3, Names
      <4>2. old'[j]["unit"] = file["unit"] /\ old'[j]["image"] = file["image"]
        BY <1>3, Names
      <4> QED
        BY <1>3, <2>2, <3>1, <3>3, <4>1, <4>2 DEF KernelThere
    <3> QED
      BY <3>2, <3>3
  <2> QED
    BY <2>1, <2>2
<1> QED
  BY <1>6, <1>7, <1>8, <1>9

\* With its journal written a transaction is active; so far nothing changed.
LEMMA PrepareStack ==
  ASSUME TypeOK, Bookkeeping, Stacked, Fresh, BundleThere, KernelThere,
         pc = "prepare", status' = [status EXCEPT ![txn] = "PREPARED"], pc' # "prepare",
         UNCHANGED <<file, package, old, foreigns, lifo>>
  PROVE  Stacked' /\ Fresh' /\ BundleThere' /\ KernelThere'
<1>1. txn \in Journals /\ status[txn] = "opened" /\ package[txn] \in Packages
  BY DEF TypeOK, Bookkeeping
<1>2. \A k \in Journals : /\ Active(k) => k < txn
                          /\ Active(k)' <=> Active(k) \/ k = txn
                          /\ Snapped(k)' => Snapped(k) /\ k <= txn
  <2>1. \A k \in Journals : Active(k) => k <= txn /\ k # txn
    BY <1>1, OnTop DEF Staging, Active, Saved
  <2>2. \A k \in Journals : Active(k)' <=> Active(k) \/ k = txn
    BY <1>1 DEF Active, Saved, TypeOK
  <2> QED
    BY <1>1, <2>1, <2>2 DEF Snapped
<1>3. End' = End /\ (Calm' => Calm)
  BY DEF End, Calm
<1>4. \A i \in Journals : \A k, f : i # txn /\ Owns(i, k, f)' => Owns(i, k, f)
  BY <1>2 DEF Owns, FilesOf
<1>5. ASSUME NEW i \in Journals, i = txn, NEW k \in Journals, NEW f, Snapped(k)'
      PROVE  ~Owns(i, k, f)'
  BY <1>1, <1>2, <1>5 DEF Owns
<1>6. Stacked'
  <2> SUFFICES ASSUME Calm, NEW i \in Journals, NEW f \in Files
               PROVE  (/\ Owns(i, End, f) => file[f] \in {old[i][f], New(package[i], f)}
                       /\ \A k \in Journals :
                            Owns(i, k, f) /\ Snapped(k) /\ f \in FilesOf(package[k]) =>
                              old[k][f] \in {old[i][f], New(package[i], f)})'
    BY <1>3 DEF Stacked
  <2>1. CASE i # txn
    BY <1>2, <1>3, <1>4, <2>1 DEF Stacked, New, FilesOf
  <2>2. CASE i = txn
    <3>1. Owns(i, End, f)' => f \in FilesOf(package[txn])
      BY <2>2 DEF Owns, FilesOf
    <3> QED
      BY <1>5, <2>2, <3>1 DEF Fresh
  <2> QED
    BY <2>1, <2>2
<1>7. BundleThere'
  BY <1>2, <1>3 DEF BundleThere
<1>8. KernelThere'
  <2> SUFFICES ASSUME Calm, NEW i \in Journals, old[i]["unit"] # package[i]
               PROVE  (/\ Owns(i, End, "unit") /\ file["unit"] = package[i] =>
                            file["image"] = package[i]
                       /\ \A k \in Journals :
                            Owns(i, k, "unit") /\ Snapped(k) /\ old[k]["unit"] = package[i] =>
                              old[k]["image"] = package[i])'
    BY <1>3 DEF KernelThere
  <2>1. CASE i # txn
    BY <1>2, <1>3, <1>4, <2>1 DEF KernelThere
  <2>2. CASE i = txn
    <3>1. file["unit"] = old[txn]["unit"]
      BY <1>1, Names DEF Fresh
    <3> QED
      BY <1>5, <2>2, <3>1
  <2> QED
    BY <2>1, <2>2
<1> QED
  BY <1>6, <1>7, <1>8 DEF Fresh

\* Bundle, kernel, unit: each is written when the one before it is there.
LEMMA ReplaceStack ==
  ASSUME TypeOK, Bookkeeping, Written, Stacked, BundleThere, KernelThere,
         pc = "replace", pc' # "prepare",
         file' = [file EXCEPT ![At(index)] = New(package[txn], At(index))],
         UNCHANGED <<status, package, old, foreigns, lifo>>
  PROVE  Stacked' /\ Fresh' /\ BundleThere' /\ KernelThere'
<1> DEFINE p  == package[txn]
           f0 == At(index)
<1>1. /\ p \in Packages /\ FilesOf(p) \subseteq Files /\ f0 \in FilesOf(p) /\ f0 \in Files
      /\ index \in 1 .. Last
  BY AtHand DEF TypeOK
<1>2. \A f \in Files : file'[f] = IF f = f0 THEN New(p, f0) ELSE file[f]
  BY DEF TypeOK
<1>3. \A k \in Journals : (Active(k)' <=> Active(k)) /\ (Snapped(k)' <=> Snapped(k))
  BY DEF Active, Saved, Snapped
<1>4. End' = End /\ (Calm' => Calm) /\ (Calm => foreigns = 0)
  BY DEF End, Calm
<1>5. \A i \in Journals : \A k, f : Owns(i, k, f)' <=> Owns(i, k, f)
  BY <1>3, OwnsKept
<1>6. \A i \in Journals, f \in FilesOf(p) : Owns(i, End, f) => i = txn
  BY OwnsTop
<1>7. f0 = "unit" /\ foreigns = 0 => file[p] = p /\ file["image"] = p
  <2> SUFFICES ASSUME f0 = "unit", foreigns = 0 PROVE file[p] = p /\ file["image"] = p
    OBVIOUS
  <2>1. index = 3
    <3>1. Order(p)[index] = Order(p)[3] /\ 3 \in 1 .. Last
      BY <1>1, Orders DEF At, Last
    <3> QED
      BY <1>1, <3>1, OrderCovers
  <2>2. At(1) = p /\ At(2) = "image"
    BY <1>1, Orders DEF At
  <2>3. p \in Done /\ "image" \in Done
    <3>1. Done = {At(i) : i \in 1 .. 2}
      BY <2>1 DEF Done
    <3> QED
      BY <2>2, <3>1
  <2> QED
    BY <1>1, <2>3, Names DEF Written, Holds, Staging
<1>8. \A q \in Packages : file[q] = q => file'[q] = q
  <2> TAKE q \in Packages
  <2>1. q \in Files /\ (q = f0 => q = p)
    BY <1>1, Names
  <2> QED
    BY <1>1, <1>2, <2>1, Names
<1>9. Stacked'
  <2> SUFFICES ASSUME Calm, NEW i \in Journals, NEW f \in Files
               PROVE  (/\ Owns(i, End, f) => file[f] \in {old[i][f], New(package[i], f)}
                       /\ \A k \in Journals :
                            Owns(i, k, f) /\ Snapped(k) /\ f \in FilesOf(package[k]) =>
                              old[k][f] \in {old[i][f], New(package[i], f)})'
    BY <1>4 DEF Stacked
  <2>1. (\A k \in Journals : Owns(i, k, f) /\ Snapped(k) /\ f \in FilesOf(package[k]) =>
                               old[k][f] \in {old[i][f], New(package[i], f)})'
    BY <1>3, <1>5 DEF Stacked, New, FilesOf
  <2>2. (Owns(i, End, f) => file[f] \in {old[i][f], New(package[i], f)})'
    BY <1>1, <1>2, <1>4, <1>5, <1>6 DEF Stacked, New
  <2> QED
    BY <2>1, <2>2
<1>10. BundleThere'
  <2> SUFFICES ASSUME Calm PROVE BundleThere'
    BY <1>4 DEF BundleThere
  <2>1. file'["unit"] \in Packages => file'[file'["unit"]] = file'["unit"]
    <3>1. CASE f0 = "unit"
      BY <1>1, <1>2, <1>4, <1>7, <3>1, Names
    <3>2. CASE f0 # "unit"
      BY <1>1, <1>2, <1>8, <3>2, Names DEF BundleThere
    <3> QED
      BY <3>1, <3>2
  <2>2. ASSUME NEW j \in Journals, Snapped(j), old[j]["unit"] \in Packages
        PROVE  LET q == old[j]["unit"] IN
               /\ file'[q] = q
               /\ \A k \in Journals : k >= j /\ Snapped(k) /\ package[k] = q => old[k][q] = q
    BY <1>8, <2>2 DEF BundleThere
  <2> QED
    BY <1>3, <2>1, <2>2 DEF BundleThere
<1>11. KernelThere'
  <2> SUFFICES ASSUME Calm, NEW i \in Journals, old[i]["unit"] # package[i]
               PROVE  (/\ Owns(i, End, "unit") /\ file["unit"] = package[i] =>
                            file["image"] = package[i]
                       /\ \A k \in Journals :
                            Owns(i, k, "unit") /\ Snapped(k) /\ old[k]["unit"] = package[i] =>
                              old[k]["image"] = package[i])'
    BY <1>4 DEF KernelThere
  <2>1. (\A k \in Journals :
           Owns(i, k, "unit") /\ Snapped(k) /\ old[k]["unit"] = package[i] =>
             old[k]["image"] = package[i])'
    BY <1>3, <1>5 DEF KernelThere
  <2>2. ASSUME Owns(i, End, "unit"), file'["unit"] = package[i]
        PROVE  file'["image"] = package[i]
    <3>1. i = txn
      BY <1>1, <1>6, <2>2, Names
    <3>2. CASE f0 = "unit"
      BY <1>1, <1>2, <1>4, <1>7, <3>1, <3>2, Names
    <3>3. CASE f0 = "image"
      BY <1>1, <1>2, <3>1, <3>3, Names
    <3>4. CASE f0 \notin {"unit", "image"}
      BY <1>1, <1>2, <2>2, <3>4, Names DEF KernelThere
    <3> QED
      BY <3>2, <3>3, <3>4
  <2> QED
    BY <1>4, <1>5, <2>1, <2>2
<1> QED
  BY <1>9, <1>10, <1>11 DEF Fresh

\* Unit, kernel, bundle: the way back, with the bundle of the unit that comes
\* back in place all along.
LEMMA RestoreStack ==
  ASSUME TypeOK, Bookkeeping, Written, Stacked, BundleThere, KernelThere,
         pc = "restore", pc' # "prepare",
         file' = [file EXCEPT ![At(index)] = old[txn][At(index)]],
         UNCHANGED <<status, package, old, foreigns, lifo>>
  PROVE  Stacked' /\ Fresh' /\ BundleThere' /\ KernelThere'
<1> DEFINE p  == package[txn]
           f0 == At(index)
<1>1. /\ p \in Packages /\ FilesOf(p) \subseteq Files /\ f0 \in FilesOf(p) /\ f0 \in Files
      /\ index \in 1 .. Last /\ txn \in Journals
  BY AtHand DEF TypeOK
<1>2. \A f \in Files : file'[f] = IF f = f0 THEN old[txn][f0] ELSE file[f]
  BY DEF TypeOK
<1>3. \A k \in Journals : /\ Active(k)' <=> Active(k)
                          /\ Snapped(k)' <=> Snapped(k)
                          /\ Snapped(k) <=> Active(k)
  BY DEF Active, Saved, Snapped
<1>4. End' = End /\ (Calm' => Calm) /\ (Calm => foreigns = 0 /\ lifo)
  BY DEF End, Calm
<1>5. \A i \in Journals : \A k, f : Owns(i, k, f)' <=> Owns(i, k, f)
  BY <1>3, OwnsKept
<1>6. lifo => /\ \A i \in Journals, f \in FilesOf(p) : Owns(i, End, f) => i = txn
              /\ \A i \in Journals : Active(i) => i <= txn
              /\ Active(txn)
  BY OwnsTop, OnTop, TxnActive DEF RollingBack
<1>7. f0 \in {p, "image"} /\ foreigns = 0 => file["unit"] = old[txn]["unit"]
  <2> SUFFICES ASSUME f0 \in {p, "image"}, foreigns = 0
               PROVE  file["unit"] = old[txn]["unit"]
    OBVIOUS
  <2>1. index \in {1, 2}
    <3>1. /\ Order(p)[index] = Order(p)[1] \/ Order(p)[index] = Order(p)[2]
          /\ 1 \in 1 .. Last /\ 2 \in 1 .. Last
      BY <1>1, Orders DEF At, Last
    <3> QED
      BY <1>1, <3>1, OrderCovers
  <2>2. At(3) = "unit"
    BY <1>1, Orders DEF At
  <2>3. "unit" \in Done
    <3>1. Done = {At(i) : i \in index + 1 .. Last}
      BY DEF Done
    <3>2. 3 \in index + 1 .. Last
      BY <2>1 DEF Last
    <3> QED
      BY <2>2, <3>1, <3>2
  <2> QED
    BY <1>1, <2>3, Names DEF Written, Holds, RollingBack
<1>8. Stacked'
  <2> SUFFICES ASSUME Calm, NEW i \in Journals, NEW f \in Files
               PROVE  (/\ Owns(i, End, f) => file[f] \in {old[i][f], New(package[i], f)}
                       /\ \A k \in Journals :
                            Owns(i, k, f) /\ Snapped(k) /\ f \in FilesOf(package[k]) =>
                              old[k][f] \in {old[i][f], New(package[i], f)})'
    BY <1>4 DEF Stacked
  <2>1. (\A k \in Journals : Owns(i, k, f) /\ Snapped(k) /\ f \in FilesOf(package[k]) =>
                               old[k][f] \in {old[i][f], New(package[i], f)})'
    BY <1>3, <1>5 DEF Stacked, New, FilesOf
  <2>2. (Owns(i, End, f) => file[f] \in {old[i][f], New(package[i], f)})'
    BY <1>1, <1>2, <1>4, <1>5, <1>6 DEF Stacked, New
  <2> QED
    BY <2>1, <2>2
<1>9. BundleThere'
  <2> SUFFICES ASSUME Calm PROVE BundleThere'
    BY <1>4 DEF BundleThere
  <2>1. file'["unit"] \in Packages => file'[file'["unit"]] = file'["unit"]
    <3> SUFFICES ASSUME file'["unit"] \in Packages
                 PROVE  file'[file'["unit"]] = file'["unit"]
      OBVIOUS
    <3>1. CASE f0 = "unit"
      <4>1. file'["unit"] = old[txn]["unit"]
        BY <1>1, <1>2, <3>1
      <4>2. file[old[txn]["unit"]] = old[txn]["unit"]
        BY <1>1, <1>3, <1>4, <1>6, <4>1 DEF BundleThere
      <4> QED
        BY <1>2, <3>1, <4>1, <4>2, Names
    <3>2. CASE f0 # "unit"
      <4>1. file'["unit"] = file["unit"] /\ file[file["unit"]] = file["unit"]
        BY <1>1, <1>2, <3>2, Names DEF BundleThere
      <4>2. CASE f0 # file["unit"]
        BY <1>2, <4>1, <4>2, Names
      <4>3. CASE f0 = file["unit"]
        <5>1. f0 = p
          BY <1>1, <4>1, <4>3, Names
        <5>2. old[txn]["unit"] = p
          BY <1>4, <1>7, <4>3, <5>1
        <5>3. old[txn][p] = p
          BY <1>1, <1>3, <1>4, <1>6, <5>2 DEF BundleThere
        <5> QED
          BY <1>1, <1>2, <4>1, <4>3, <5>1, <5>3
      <4> QED
        BY <4>2, <4>3
    <3> QED
      BY <3>1, <3>2
  <2>2. ASSUME NEW j \in Journals, Snapped(j), old[j]["unit"] \in Packages
        PROVE  LET q == old[j]["unit"] IN
               /\ file'[q] = q
               /\ \A k \in Journals : k >= j /\ Snapped(k) /\ package[k] = q => old[k][q] = q
    <3> DEFINE q == old[j]["unit"]
    <3>1. file[q] = q /\ \A k \in Journals : k >= j /\ Snapped(k) /\ package[k] = q => old[k][q] = q
      BY <2>2 DEF BundleThere
    <3>2. CASE q # f0
      BY <1>2, <2>2, <3>1, <3>2, Names
    <3>3. CASE q = f0
      <4>1. q = p
        BY <1>1, <2>2, <3>3, Names
      <4>2. j <= txn /\ Snapped(txn)
        BY <1>1, <1>3, <1>4, <1>6, <2>2
      <4>3. old[txn][q] = q
        BY <1>1, <3>1, <4>1, <4>2
      <4> QED
        BY <1>1, <1>2, <3>1, <3>3, <4>3
    <3> QED
      BY <3>2, <3>3
  <2> QED
    BY <1>3, <2>1, <2>2 DEF BundleThere
<1>10. KernelThere'
  <2> SUFFICES ASSUME Calm, NEW i \in Journals, old[i]["unit"] # package[i]
               PROVE  (/\ Owns(i, End, "unit") /\ file["unit"] = package[i] =>
                            file["image"] = package[i]
                       /\ \A k \in Journals :
                            Owns(i, k, "unit") /\ Snapped(k) /\ old[k]["unit"] = package[i] =>
                              old[k]["image"] = package[i])'
    BY <1>4 DEF KernelThere
  <2>1. (\A k \in Journals :
           Owns(i, k, "unit") /\ Snapped(k) /\ old[k]["unit"] = package[i] =>
             old[k]["image"] = package[i])'
    BY <1>3, <1>5 DEF KernelThere
  <2>2. ASSUME Owns(i, End, "unit"), file'["unit"] = package[i]
        PROVE  file'["image"] = package[i]
    <3>1. i = txn
      BY <1>1, <1>4, <1>6, <2>2, Names
    <3>2. f0 \notin {"unit", "image"}
      <4>1. f0 # "unit"
        BY <1>1, <1>2, <2>2, <3>1
      <4>2. f0 # "image"
        BY <1>1, <1>2, <1>4, <1>7, <2>2, <3>1, Names
      <4> QED
        BY <4>1, <4>2
    <3> QED
      BY <1>1, <1>2, <2>2, <3>2, Names DEF KernelThere
  <2> QED
    BY <1>4, <1>5, <2>1, <2>2
<1> QED
  BY <1>8, <1>9, <1>10 DEF Fresh

\* Undone, a transaction leaves what the one below it knows.
LEMMA FinishStack ==
  ASSUME TypeOK, Bookkeeping, Written, Stacked, BundleThere, KernelThere,
         pc = "restored", pc' = "idle",
         status' = [status EXCEPT ![txn] = "ROLLED_BACK"],
         UNCHANGED <<file, package, old, foreigns, lifo>>
  PROVE  Stacked' /\ Fresh' /\ BundleThere' /\ KernelThere'
<1> DEFINE p == package[txn]
<1>1. p \in Packages /\ FilesOf(p) \subseteq Files /\ txn \in Journals
  BY AtHand DEF TypeOK
<1>2. \A k \in Journals : /\ Active(k)' <=> Active(k) /\ k # txn
                          /\ Snapped(k)' <=> Active(k)'
                          /\ Active(k) => Snapped(k)
  BY <1>1 DEF Active, Saved, Snapped, TypeOK
<1>3. End' = End /\ (Calm' => Calm) /\ (Calm => foreigns = 0 /\ lifo)
  BY DEF End, Calm
<1>4. lifo => /\ \A k \in Journals : Active(k) => k <= txn
              /\ Active(txn) /\ txn < End
  BY OnTop, TxnActive DEF RollingBack
<1>5. foreigns = 0 => \A f \in FilesOf(p) : file[f] = old[txn][f]
  BY DEF Written, Holds, Done, RollingBack
<1>6. ASSUME lifo, NEW i \in Journals, NEW f, Owns(i, End, f)'
      PROVE  /\ f \in FilesOf(p) => Owns(i, txn, f)
             /\ f \notin FilesOf(p) => Owns(i, End, f)
  <2>1. Active(i) /\ i < txn /\ i < End /\ f \in FilesOf(package[i])
    BY <1>1, <1>2, <1>3, <1>4, <1>6 DEF Owns, FilesOf
  <2>2. \A k \in Journals : i < k /\ k < End /\ Active(k) /\ k # txn => f \notin FilesOf(package[k])
    BY <1>2, <1>3, <1>6 DEF Owns, FilesOf
  <2>3. \A k \in Journals : k < txn => k < End
    BY <1>4, <1>6, BoundsAssumption DEF End
  <2> QED
    BY <1>1, <2>1, <2>2, <2>3 DEF Owns
<1>7. ASSUME lifo, NEW i \in Journals, NEW j \in Journals, NEW f, Owns(i, j, f)', Active(j)'
      PROVE  Owns(i, j, f)
  <2>1. j < txn
    BY <1>1, <1>2, <1>4, <1>7
  <2> QED
    BY <1>1, <1>2, <1>7, <2>1 DEF Owns, FilesOf
<1>8. Stacked'
  <2> SUFFICES ASSUME Calm, NEW i \in Journals, NEW f \in Files
               PROVE  (/\ Owns(i, End, f) => file[f] \in {old[i][f], New(package[i], f)}
                       /\ \A k \in Journals :
                            Owns(i, k, f) /\ Snapped(k) /\ f \in FilesOf(package[k]) =>
                              old[k][f] \in {old[i][f], New(package[i], f)})'
    BY <1>3 DEF Stacked
  <2>1. ASSUME Owns(i, End, f)'
        PROVE  file[f] \in {old[i][f], New(package[i], f)}
    <3>1. CASE f \in FilesOf(p)
      <4>1. Owns(i, txn, f) /\ Snapped(txn)
        BY <1>1, <1>2, <1>3, <1>4, <1>6, <2>1, <3>1
      <4>2. old[txn][f] \in {old[i][f], New(package[i], f)}
        BY <1>1, <3>1, <4>1 DEF Stacked
      <4> QED
        BY <1>3, <1>5, <3>1, <4>2
    <3>2. CASE f \notin FilesOf(p)
      BY <1>3, <1>6, <2>1, <3>2 DEF Stacked
    <3> QED
      BY <3>1, <3>2
  <2>2. ASSUME NEW k \in Journals, Owns(i, k, f)', Snapped(k)', f \in FilesOf(package[k])
        PROVE  old[k][f] \in {old[i][f], New(package[i], f)}
    BY <1>2, <1>3, <1>7, <2>2 DEF Stacked
  <2> QED
    BY <1>3, <2>1, <2>2 DEF New, FilesOf
<1>9. BundleThere'
  BY <1>2, <1>3 DEF BundleThere
<1>10. KernelThere'
  <2> SUFFICES ASSUME Calm, NEW i \in Journals, old[i]["unit"] # package[i]
               PROVE  (/\ Owns(i, End, "unit") /\ file["unit"] = package[i] =>
                            file["image"] = package[i]
                       /\ \A k \in Journals :
                            Owns(i, k, "unit") /\ Snapped(k) /\ old[k]["unit"] = package[i] =>
                              old[k]["image"] = package[i])'
    BY <1>3 DEF KernelThere
  <2>1. ASSUME Owns(i, End, "unit")', file["unit"] = package[i]
        PROVE  file["image"] = package[i]
    <3>1. Owns(i, txn, "unit") /\ Snapped(txn)
      BY <1>1, <1>2, <1>3, <1>4, <1>6, <2>1, Names
    <3>2. file["unit"] = old[txn]["unit"] /\ file["image"] = old[txn]["image"]
      BY <1>1, <1>3, <1>5, Names
    <3> QED
      BY <1>1, <2>1, <3>1, <3>2 DEF KernelThere
  <2>2. ASSUME NEW k \in Journals, Owns(i, k, "unit")', Snapped(k)', old[k]["unit"] = package[i]
        PROVE  old[k]["image"] = package[i]
    BY <1>2, <1>3, <1>7, <2>2 DEF KernelThere
  <2> QED
    BY <1>3, <2>1, <2>2
<1> QED
  BY <1>8, <1>9, <1>10 DEF Fresh

LEMMA StackStep ==
  ASSUME IInv, Next
  PROVE  Stacked' /\ Fresh' /\ BundleThere' /\ KernelThere'
<1> USE DEF IInv
<1>1. ASSUME NEW j \in Journals, NEW p \in Packages, StageBegin(j, p)
      PROVE  Stacked' /\ Fresh' /\ BundleThere' /\ KernelThere'
  BY <1>1, BeginStack
<1>2. ASSUME UNCHANGED <<file, package, old>>, pc' # "prepare", Calm' => Calm,
             \A j \in Journals : Active(j)' <=> Active(j)
      PROVE  Stacked' /\ Fresh' /\ BundleThere' /\ KernelThere'
  <2>1. \A j \in Journals : Snapped(j)' => Snapped(j)
    BY <1>2 DEF Snapped
  <2> QED
    BY <1>2, <2>1, StackKept
<1>3. ASSUME UNCHANGED status
      PROVE  \A j \in Journals : Active(j)' <=> Active(j)
  BY <1>3 DEF Active, Saved
<1>4. ASSUME UNCHANGED <<foreigns, lifo>>
      PROVE  Calm' => Calm
  BY <1>4 DEF Calm
<1>5. ASSUME status[txn] \in {"PREPARED", "STAGED"},
             \/ status' = [status EXCEPT ![txn] = "STAGED"]
             \/ status' = [status EXCEPT ![txn] = "INTERRUPTED"]
      PROVE  \A j \in Journals : Active(j)' <=> Active(j)
  BY <1>5 DEF Active, Saved, TypeOK
<1>6. CASE StagePrepare
  <2>1. /\ pc = "prepare" /\ pc' # "prepare"
        /\ status' = status \/ status' = [status EXCEPT ![txn] = "PREPARED"]
        /\ UNCHANGED <<file, package, old, foreigns, lifo>>
    BY <1>6 DEF StagePrepare, Exit, Continue
  <2>2. CASE status' = status
    BY <1>2, <1>3, <1>4, <2>1, <2>2
  <2>3. CASE status' = [status EXCEPT ![txn] = "PREPARED"]
    BY <2>1, <2>3, PrepareStack
  <2> QED
    BY <2>1, <2>2, <2>3
<1>7. CASE StageCheck \/ RollbackAudit
  <2>1. pc' # "prepare" /\ UNCHANGED <<file, status, package, old, foreigns, lifo>>
    BY <1>7 DEF StageCheck, RollbackAudit, Exit, Continue
  <2> QED
    BY <1>2, <1>3, <1>4, <2>1
<1>8. CASE StageReplace
  <2>1. /\ pc = "replace" /\ pc' # "prepare"
        /\ \/ file' = file
           \/ file' = [file EXCEPT ![At(index)] = New(package[txn], At(index))]
        /\ UNCHANGED <<status, package, old, foreigns, lifo>>
    BY <1>8 DEF StageReplace, Continue
  <2>2. CASE file' = file
    BY <1>2, <1>3, <1>4, <2>1, <2>2
  <2>3. CASE file' = [file EXCEPT ![At(index)] = New(package[txn], At(index))]
    BY <2>1, <2>3, ReplaceStack
  <2> QED
    BY <2>1, <2>2, <2>3
<1>9. CASE StageFinish
  <2>1. /\ pc = "staged" /\ pc' # "prepare"
        /\ status' = status \/ status' = [status EXCEPT ![txn] = "STAGED"]
        /\ UNCHANGED <<file, package, old, foreigns, lifo>>
    BY <1>9 DEF StageFinish, Exit, Continue
  <2>2. status[txn] = "PREPARED"
    BY <2>1 DEF Bookkeeping
  <2> QED
    BY <1>2, <1>3, <1>4, <1>5, <2>1, <2>2
<1>10. CASE StageInterrupted
  <2>1. /\ pc = "interrupt" /\ pc' # "prepare"
        /\ status' = status \/ status' = [status EXCEPT ![txn] = "INTERRUPTED"]
        /\ UNCHANGED <<file, package, old, foreigns, lifo>>
    BY <1>10 DEF StageInterrupted, Exit
  <2>2. status[txn] \in {"PREPARED", "STAGED"}
    BY <2>1 DEF Bookkeeping
  <2> QED
    BY <1>2, <1>3, <1>4, <1>5, <2>1, <2>2
<1>11. ASSUME NEW j \in Journals, RollbackBegin(j)
       PROVE  Stacked' /\ Fresh' /\ BundleThere' /\ KernelThere'
  <2>1. pc' # "prepare" /\ UNCHANGED <<file, status, package, old>> /\ (Calm' => Calm)
    BY <1>11 DEF RollbackBegin, Calm
  <2> QED
    BY <1>2, <1>3, <2>1
<1>12. CASE RollbackRestore
  <2>1. /\ pc = "restore" /\ pc' # "prepare"
        /\ file' = file \/ file' = [file EXCEPT ![At(index)] = old[txn][At(index)]]
        /\ UNCHANGED <<status, package, old, foreigns, lifo>>
    BY <1>12 DEF RollbackRestore, Exit, Continue
  <2>2. CASE file' = file
    BY <1>2, <1>3, <1>4, <2>1, <2>2
  <2>3. CASE file' = [file EXCEPT ![At(index)] = old[txn][At(index)]]
    BY <2>1, <2>3, RestoreStack
  <2> QED
    BY <2>1, <2>2, <2>3
<1>13. CASE RollbackFinish
  <2>1. /\ pc = "restored" /\ pc' = "idle"
        /\ status' = status \/ status' = [status EXCEPT ![txn] = "ROLLED_BACK"]
        /\ UNCHANGED <<file, package, old, foreigns, lifo>>
    BY <1>13 DEF RollbackFinish, Exit
  <2>2. CASE status' = status
    BY <1>2, <1>3, <1>4, <2>1, <2>2
  <2>3. CASE status' = [status EXCEPT ![txn] = "ROLLED_BACK"]
    BY <2>1, <2>3, FinishStack
  <2> QED
    BY <2>1, <2>2, <2>3
<1>14. CASE Crash
  <2>1. pc' # "prepare" /\ UNCHANGED <<file, status, package, old, foreigns, lifo>>
    BY <1>14 DEF Crash, Exit
  <2> QED
    BY <1>2, <1>3, <1>4, <2>1
<1>15. CASE Foreign
  <2>1. ~Calm'
    BY <1>15, BoundsAssumption DEF Foreign, Calm, TypeOK
  <2> QED
    BY <2>1 DEF Stacked, Fresh, BundleThere, KernelThere
<1> QED
  BY <1>1, <1>6, <1>7, <1>8, <1>9, <1>10, <1>11, <1>12, <1>13, <1>14, <1>15 DEF Next, Running

-----------------------------------------------------------------------------
(* The invariant *)

LEMMA InitIInv ==
  ASSUME Init
  PROVE  IInv
<1>1. 1 \in Journals /\ 1 \in 1 .. Last /\ 0 \in 0 .. MaxCrashes /\ 0 \in 0 .. MaxForeign
  BY BoundsAssumption DEF Last
<1>2. file \in [Files -> Contents] /\ Untouched \in [Files -> Contents]
  BY DEF Init, Untouched, Contents
<1>3. TypeOK
  BY <1>1, <1>2 DEF Init, TypeOK
<1>4. \A j \in Journals : ~Snapped(j) /\ ~Active(j)
  BY DEF Init, Snapped, Active, Saved
<1>5. Bookkeeping /\ StillCompared /\ Written /\ Fresh
  BY DEF Init, Bookkeeping, StillCompared, Written, Done, Fresh, Staging, RollingBack
<1>6. Stacked /\ KernelThere
  BY <1>4 DEF Stacked, KernelThere, Owns
<1>7. file["unit"] \notin Packages
  <2>1. "unit" \in Files
    BY DEF Files, Shared
  <2> QED
    BY <2>1, NamesAssumption DEF Init
<1>8. BundleThere
  BY <1>4, <1>7 DEF BundleThere
<1> QED
  BY <1>3, <1>5, <1>6, <1>8 DEF IInv

LEMMA StepIInv ==
  ASSUME IInv, [Next]_vars
  PROVE  IInv'
<1>1. CASE Next
  BY <1>1, TypeStep, BookkeepingStep, ComparedStep, WrittenStep, StackStep DEF IInv
<1>2. CASE UNCHANGED vars
  <2>1. /\ UNCHANGED <<file, status, package, old, pc, txn, index, late, lifo>>
        /\ UNCHANGED <<crashes, foreigns>>
    BY <1>2 DEF vars
  <2>2. TypeOK' /\ Bookkeeping'
    BY <2>1 DEF IInv, TypeOK, Bookkeeping, Saved, Latest
  <2>3. Compared' = Compared /\ Done' = Done
    BY <2>1 DEF Compared, Done, At, FilesOf
  <2>4. StillCompared' /\ Written'
    BY <2>1, <2>3 DEF IInv, StillCompared, Written, Holds, At, New
  <2>5. \A j \in Journals : (Active(j)' <=> Active(j)) /\ (Snapped(j)' <=> Snapped(j))
    BY <2>1 DEF Snapped, Active, Saved
  <2>6. \A i \in Journals : \A j, f : Owns(i, j, f)' <=> Owns(i, j, f)
    BY <2>1, <2>5, OwnsKept
  <2>7. Stacked' /\ KernelThere'
    BY <2>1, <2>5, <2>6 DEF IInv, Stacked, KernelThere, Calm, End, New, FilesOf
  <2>8. Fresh' /\ BundleThere'
    BY <2>1, <2>5 DEF IInv, Fresh, BundleThere, Calm, FilesOf
  <2> QED
    BY <2>2, <2>4, <2>7, <2>8 DEF IInv
<1> QED
  BY <1>1, <1>2

THEOREM Invariance == Spec => []IInv
BY InitIInv, StepIInv, PTL DEF Spec

-----------------------------------------------------------------------------
(* The properties *)

\* Files, journals and process keep their types.
THEOREM TypeCorrect == Spec => []TypeOK
<1>1. IInv => TypeOK
  BY DEF IInv
<1> QED
  BY <1>1, Invariance, PTL

\* The latest transaction can be rolled back wherever it or its rollback was
\* stopped: it is the last one to own each of its files.
THEOREM LatestCanRollBackHolds == Spec => []LatestCanRollBack
<1>1. IInv => LatestCanRollBack
  <2> SUFFICES ASSUME IInv, Calm, NEW j \in Journals, Latest(j), NEW f \in FilesOf(package[j])
               PROVE  file[f] \in {old[j][f], New(package[j], f)}
    BY DEF LatestCanRollBack, Calm
  <2>1. Active(j) /\ j < End
    BY BoundsAssumption DEF Latest, Active, End
  <2>2. \A k \in Journals : j < k => ~Active(k)
    BY DEF Latest, Active
  <2>3. Owns(j, End, f)
    BY <2>1, <2>2 DEF Owns
  <2>4. package[j] \in Packages
    BY <2>1 DEF IInv, Bookkeeping, Active, Saved
  <2>5. f \in Files
    BY <2>4, Orders
  <2> QED
    BY <2>3, <2>5 DEF IInv, Stacked
<1> QED
  BY <1>1, Invariance, PTL

\* The unit of the next boot names a bundle that is there and, in the transaction
\* that installed it, the kernel it was installed with.
THEOREM ServiceCompleteHolds == Spec => []ServiceComplete
<1>1. IInv => ServiceComplete
  <2> SUFFICES ASSUME IInv, Calm, NEW p \in Packages, file["unit"] = p
               PROVE  /\ file[p] = p
                      /\ \A j \in Journals :
                           Latest(j) /\ package[j] = p /\ old[j]["unit"] # p => file["image"] = p
    BY DEF ServiceComplete, Calm
  <2>1. file[p] = p
    BY DEF IInv, BundleThere
  <2>2. ASSUME NEW j \in Journals, Latest(j), package[j] = p, old[j]["unit"] # p
        PROVE  file["image"] = p
    <3>1. Active(j) /\ j < End /\ \A k \in Journals : j < k => ~Active(k)
      BY <2>2, BoundsAssumption DEF Latest, Active, End
    <3>2. Owns(j, End, "unit")
      BY <2>2, <3>1, Names DEF Owns
    <3> QED
      BY <2>2, <3>2 DEF IInv, KernelThere
  <2> QED
    BY <2>1, <2>2
<1> QED
  BY <1>1, Invariance, PTL

\* A rollback overwrites no change of somebody else that was there when it
\* compared the file.
THEOREM RollbackRefusesForeignHolds == Spec => RollbackRefusesForeign
<1>1. ASSUME IInv, pc = "restore", NEW f \in FilesOf(package[txn]) \ late, file[f] = "foreign"
      PROVE  old[txn][f] = "foreign"
  BY <1>1 DEF IInv, StillCompared, Compared
<1>2. IInv => [pc = "restore" /\ file' # file
                 => \A f \in FilesOf(package[txn]) \ late :
                      file[f] = "foreign" => old[txn][f] = "foreign"]_vars
  BY <1>1
<1> QED
  BY <1>2, Invariance, PTL DEF RollbackRefusesForeign

\* Staging overwrites only what it compared with its snapshot, unless changed since.
THEOREM StageRefusesForeignHolds == Spec => StageRefusesForeign
<1>1. IInv => [pc = "replace" /\ file' # file /\ At(index) \notin late
                 => file[At(index)] = old[txn][At(index)]]_vars
  BY DEF IInv, StillCompared
<1> QED
  BY <1>1, Invariance, PTL DEF StageRefusesForeign

\* STAGED and ROLLED_BACK are written when the files are so.
THEOREM StatusTruthfulHolds == Spec => StatusTruthful
<1> DEFINE Truthful ==
      \A j \in Journals : status'[j] # status[j] => \A f \in FilesOf(package[j]) :
        /\ status'[j] = "STAGED" => file[f] \in {New(package[j], f), "foreign"}
        /\ status'[j] = "ROLLED_BACK" => file[f] \in {old[j][f], "foreign"}
<1>1. ASSUME IInv, Next
      PROVE  Truthful
  <2> SUFFICES ASSUME NEW j \in Journals, status'[j] # status[j], NEW f \in FilesOf(package[j])
               PROVE  /\ status'[j] = "STAGED" => file[f] \in {New(package[j], f), "foreign"}
                      /\ status'[j] = "ROLLED_BACK" => file[f] \in {old[j][f], "foreign"}
    OBVIOUS
  <2>1. ASSUME status'[j] = "STAGED"
        PROVE  pc = "staged" /\ j = txn
    BY <1>1, <2>1 DEF Next, Running, StageBegin, StagePrepare, StageCheck, StageReplace,
       StageFinish, StageInterrupted, RollbackBegin, RollbackAudit, RollbackRestore,
       RollbackFinish, Crash, Foreign, IInv, TypeOK
  <2>2. ASSUME status'[j] = "ROLLED_BACK"
        PROVE  pc = "restored" /\ j = txn
    BY <1>1, <2>2 DEF Next, Running, StageBegin, StagePrepare, StageCheck, StageReplace,
       StageFinish, StageInterrupted, RollbackBegin, RollbackAudit, RollbackRestore,
       RollbackFinish, Crash, Foreign, IInv, TypeOK
  <2> QED
    BY <1>1, <2>1, <2>2 DEF IInv, Written, Done, Holds, Staging, RollingBack
<1>2. ASSUME UNCHANGED vars PROVE Truthful
  BY <1>2 DEF vars
<1>3. IInv /\ [Next]_vars => [Truthful]_vars
  BY <1>1, <1>2
<1> QED
  BY <1>3, Invariance, PTL DEF Spec, StatusTruthful
=============================================================================
