-------------------------- MODULE BootUpdateProofs --------------------------
(***************************************************************************)
(* The properties of BootUpdate, proved for every layout, every image and  *)
(* every number of crashes and foreign writes.                             *)
(*                                                                         *)
(* TypeCorrect is inductive by itself.  Everything else follows from IInv  *)
(* of BootUpdateInvariant: one lemma per part of it says that a step keeps *)
(* the part, with one case per action where the part is about the program  *)
(* counter, and one case per action that writes the state the part is      *)
(* about (Writers, Records) where it is not.                               *)
(***************************************************************************)
EXTENDS BootUpdateInvariant, TLAPS

USE DEF vars, persist, bundle, memory, world

-----------------------------------------------------------------------------
(* Sectors and their order *)

\* Slot A lies in an approved range, so that it can stand for "no sector in
\* hand" in Init and Exit.
LEMMA SlotAApproved == SlotA \in Approved
BY LayoutAssumption DEF Approved, Region, Slots, SlotA, SlotB, Sectors

\* The approved ranges lie in the flash.
LEMMA ApprovedSectors == Approved \subseteq Sectors
BY DEF Approved

\* The loops only ever have approved sectors left to do.
LEMMA PendingApproved == TypeOK => Pending \subseteq Approved
BY DEF TypeOK, Pending, Planned

\* The order of plan_sectors is strict.
LEMMA BeforeStrict ==
  ASSUME NEW s \in Sectors, NEW t \in Sectors, Before(s, t)
  PROVE  s # t /\ ~Before(t, s)
<1>1. Region(s) \in Int /\ Region(t) \in Int
  BY DEF Region
<1>2. s \in Int /\ t \in Int
  BY DEF Sectors
<1> QED
  BY <1>1, <1>2 DEF Before

\* plan_sectors puts every other approved sector before the manifest slots.
LEMMA SlotsLast ==
  ASSUME NEW s \in Approved \ Slots, NEW t \in Slots
  PROVE  t \in Approved /\ Before(s, t)
<1>1. s \in Nat /\ t \in Nat
  BY LayoutAssumption DEF Approved, Sectors, Slots, SlotA, SlotB
<1>2. Region(s) \in {1, 2}
  BY <1>1 DEF Approved, Region
<1>3. Region(t) = 3 /\ t \in Sectors
  BY <1>1, LayoutAssumption DEF Region, Slots, SlotA, SlotB, Sectors
<1> QED
  BY <1>2, <1>3 DEF Approved, Before

-----------------------------------------------------------------------------
(* Types *)

\* A record keeps the journal well typed.
LEMMA JournalTyped ==
  ASSUME TypeOK, NEW e \in Events, NEW s \in Sectors \cup {Whole}
  PROVE  journal \cup {<<e, s>>} \subseteq Events \X (Sectors \cup {Whole})
BY DEF TypeOK

\* Writing one sector keeps the flash well typed.
LEMMA FlashTyped ==
  ASSUME TypeOK, NEW s \in Sectors, NEW c \in Contents
  PROVE  [nor EXCEPT ![s] = c] \in [Sectors -> Contents]
BY DEF TypeOK

\* The initial states are well typed.
LEMMA TypeInit == Init => TypeOK
<1> SUFFICES ASSUME Init PROVE TypeOK
  OBVIOUS
<1>1. nor \in [Sectors -> Contents]
  BY DEF Init, Snapshot, Contents
<1>2. plan \in [bootId : Nat, kernel : {"old", "new"}]
  BY DEF Init
<1>3. crashes \in 0 .. MaxCrashes /\ foreign \in 0 .. MaxForeign
  BY BoundsAssumption DEF Init
<1> QED
  BY <1>1, <1>2, <1>3, SlotAApproved DEF Init, TypeOK, Steps

\* Every step keeps the state well typed.
LEMMA TypeNext == TypeOK /\ [Next]_vars => TypeOK'
<1> SUFFICES ASSUME TypeOK, [Next]_vars PROVE TypeOK'
  OBVIOUS
<1> USE SlotAApproved, ApprovedSectors
<1>p. Pending \subseteq Approved
  BY PendingApproved
<1>a. at \in Sectors
  BY DEF TypeOK
<1>w. Wanted(at) \in Contents
  BY <1>a DEF Wanted, TypeOK, Images, Contents
<1>e. [nor EXCEPT ![at] = "torn"] \in [Sectors -> Contents]
  BY <1>a, FlashTyped DEF Contents
<1>f. [nor EXCEPT ![at] = Wanted(at)] \in [Sectors -> Contents]
  BY <1>a, <1>w, FlashTyped
<1>j. \A e \in Events, s \in Sectors \cup {Whole} :
        journal \cup {<<e, s>>} \subseteq Events \X (Sectors \cup {Whole})
  BY JournalTyped
<1>1. CASE PrepareRead
  BY <1>1 DEF PrepareRead, TypeOK, Steps
<1>2. CASE ApplyCheck
  BY <1>2 DEF ApplyCheck, TypeOK, Steps
<1>3. CASE PrepareSnapshot
  BY <1>3 DEF PrepareSnapshot, Exit, TypeOK, Steps
<1>4. CASE PreparePlan
  BY <1>4 DEF PreparePlan, Exit, TypeOK, Steps
<1>5. CASE PrepareRecheck
  BY <1>5 DEF PrepareRecheck, Exit, TypeOK, Steps
<1>6. CASE ApplyOpen
  BY <1>6 DEF ApplyOpen, Exit, TypeOK, Steps
<1>7. CASE ApplyBegin
  BY <1>7 DEF ApplyBegin, Record, TypeOK, Steps, Events
<1>8. CASE ReadbackFlash
  BY <1>8 DEF ReadbackFlash, TypeOK, Steps
<1>9. CASE ApplyPass
  <2>1. journal' \subseteq Events \X (Sectors \cup {Whole})
    BY <1>9, <1>j DEF ApplyPass, TypeOK, Events
  <2> QED
    BY <1>9, <2>1 DEF ApplyPass, Exit, TypeOK, Steps
<1>10. CASE NextSector
  BY <1>10, <1>p, <1>j DEF NextSector, Record, TypeOK, Steps, Events
<1>11. CASE SectorsFinished
  BY <1>11 DEF SectorsFinished, TypeOK, Steps
<1>12. CASE EraseSector
  <2>1. nor' \in [Sectors -> Contents]
    BY <1>12, <1>e DEF EraseSector, TypeOK
  <2>2. pc' \in Steps /\ done' \subseteq Approved /\ failures' \in BOOLEAN
    BY <1>12 DEF EraseSector, SectorRaised, TypeOK, Steps
  <2> QED
    BY <1>12, <2>1, <2>2 DEF EraseSector, TypeOK
<1>13. CASE ProgramSector
  <2>1. nor' \in [Sectors -> Contents]
    BY <1>13, <1>f DEF ProgramSector, TypeOK
  <2>2. pc' \in Steps /\ done' \subseteq Approved /\ failures' \in BOOLEAN
    BY <1>13 DEF ProgramSector, SectorRaised, TypeOK, Steps
  <2> QED
    BY <1>13, <2>1, <2>2 DEF ProgramSector, TypeOK
<1>14. CASE SectorWritten
  <2>1. journal' \subseteq Events \X (Sectors \cup {Whole})
    BY <1>14, <1>a, <1>j DEF SectorWritten, TypeOK, Events
  <2>2. pc' \in Steps /\ done' \subseteq Approved /\ failures' \in BOOLEAN
    BY <1>14 DEF SectorWritten, SectorRaised, TypeOK, Steps
  <2> QED
    BY <1>14, <2>1, <2>2 DEF SectorWritten, TypeOK
<1>15. CASE ScriptUnchanged
  BY <1>15 DEF ScriptUnchanged, ScriptRaised, TypeOK, Steps
<1>16. CASE StageScript
  BY <1>16 DEF StageScript, ScriptRaised, TypeOK, Steps
<1>17. CASE RenameScript
  BY <1>17 DEF RenameScript, ScriptRaised, WantedScript, TypeOK, Steps
<1>18. CASE ApplyFailed
  <2>1. journal' \subseteq Events \X (Sectors \cup {Whole})
    BY <1>18, <1>j DEF ApplyFailed, TypeOK, Events
  <2> QED
    BY <1>18, <2>1 DEF ApplyFailed, Exit, TypeOK, Steps
<1>19. CASE AuditFlash
  BY <1>19 DEF AuditFlash, TypeOK, Steps
<1>20. CASE ReportRestore
  <2>1. journal' \subseteq Events \X (Sectors \cup {Whole})
    BY <1>20, <1>j DEF ReportRestore, TypeOK, Events
  <2> QED
    BY <1>20, <2>1 DEF ReportRestore, Exit, TypeOK, Steps
<1>21. CASE Crash
  <2>1. crashes' \in 0 .. MaxCrashes /\ bootId' \in Nat
    BY <1>21, BoundsAssumption DEF Crash, TypeOK
  <2> QED
    BY <1>21, <2>1 DEF Crash, Exit, TypeOK, Steps
<1>22. CASE Reboot
  BY <1>22, BoundsAssumption DEF Reboot, TypeOK, Steps
<1>23. CASE ForeignFlash
  BY <1>23, BoundsAssumption DEF ForeignFlash, TypeOK, Steps, Contents, Protected
<1>24. CASE ForeignBootFiles
  BY <1>24, BoundsAssumption DEF ForeignBootFiles, TypeOK, Steps
<1>25. CASE UNCHANGED vars
  BY <1>25 DEF TypeOK
<1> QED
  BY <1>1, <1>2, <1>3, <1>4, <1>5, <1>6, <1>7, <1>8, <1>9, <1>10, <1>11, <1>12,
     <1>13, <1>14, <1>15, <1>16, <1>17, <1>18, <1>19, <1>20, <1>21, <1>22, <1>23,
     <1>24, <1>25 DEF Next, Running, Prepare, Forward, Both, Restore

\* Type correctness of boot_update.py as modelled, for every layout: the sector
\* in hand, the sectors started and the sectors done are always approved ones.
THEOREM TypeCorrect == Spec => []TypeOK
BY TypeInit, TypeNext, PTL DEF Spec

-----------------------------------------------------------------------------
(* What a step can change *)

\* The package on disk is pinned by its digest: no step changes the image, and
\* with it the sectors to write.
LEMMA ImageKept == [Next]_vars => image' = image /\ Planned' = Planned
<1> SUFFICES ASSUME [Next]_vars PROVE image' = image
  BY DEF Planned
<1> QED
  BY DEF Next, PrepareRead, ApplyCheck, Running, Prepare, PrepareSnapshot, PreparePlan,
     PrepareRecheck, Forward, ApplyOpen, ApplyBegin, ReadbackFlash, ApplyPass, Both,
     NextSector, SectorsFinished, EraseSector, ProgramSector, SectorWritten,
     ScriptUnchanged, StageScript, RenameScript, Restore, ApplyFailed, AuditFlash,
     ReportRestore, Crash, Reboot, ForeignFlash, ForeignBootFiles

\* Which actions write the flash, the boot script, the backup and the journal,
\* and which ones start a process.
LEMMA Writers ==
  ASSUME [Next]_vars
  PROVE  /\ image' = image
         /\ nor' = nor \/ EraseSector \/ ProgramSector \/ ForeignFlash
         /\ boot' = boot \/ RenameScript \/ ForeignBootFiles
         /\ backup' = backup \/ PrepareSnapshot \/ PreparePlan
         /\ pc' = "idle" \/ pc # "idle" \/ PrepareRead \/ ApplyCheck
         /\ \/ journal' = journal
            \/ ApplyBegin \/ NextSector \/ SectorWritten
            \/ ApplyPass \/ ApplyFailed \/ ReportRestore
BY DEF Next, Running, Prepare, Forward, Both, Restore, PrepareRead, ApplyCheck,
   PrepareSnapshot, PreparePlan, PrepareRecheck, ApplyOpen, ApplyBegin, Record,
   ReadbackFlash, ApplyPass, NextSector, SectorsFinished, EraseSector, ProgramSector,
   SectorWritten, ScriptUnchanged, StageScript, RenameScript, ApplyFailed, AuditFlash,
   ReportRestore, Crash, Reboot, ForeignFlash, ForeignBootFiles

\* A process that applies has applied before this step, or starts with it.
LEMMA ApplyStarts ==
  ASSUME [Next]_vars, pc' \in Applying
  PROVE  pc \in Applying \/ ApplyCheck
BY DEF Applying, Outside, Steps, Exit, Next, Running, Prepare, Forward, Both, Restore,
   PrepareRead, PrepareSnapshot, PreparePlan, PrepareRecheck, ApplyOpen, ApplyBegin,
   ReadbackFlash, ApplyPass, NextSector, SectorsFinished, EraseSector, ProgramSector,
   SectorWritten, ScriptUnchanged, StageScript, RenameScript, ApplyFailed, AuditFlash,
   ReportRestore, Crash, Reboot, ForeignFlash, ForeignBootFiles

\* The journal is append-only, and the two verdicts have one writer each.
LEMMA Records ==
  ASSUME [Next]_vars
  PROVE  /\ journal \subseteq journal'
         /\ Logged("DEPLOY_PASS", Whole)' => Logged("DEPLOY_PASS", Whole) \/ ApplyPass
         /\ Logged("RESTORE_PASSED", Whole)'
              => Logged("RESTORE_PASSED", Whole) \/ ReportRestore
<1>1. CASE journal' = journal
  BY <1>1 DEF Logged
<1>2. CASE ApplyBegin
  BY <1>2 DEF ApplyBegin, Record, Logged
<1>3. CASE NextSector
  BY <1>3 DEF NextSector, Record, Logged
<1>4. CASE SectorWritten
  BY <1>4 DEF SectorWritten, Logged
<1>5. CASE ApplyPass
  BY <1>5 DEF ApplyPass, Logged
<1>6. CASE ApplyFailed
  BY <1>6 DEF ApplyFailed, Logged
<1>7. CASE ReportRestore
  BY <1>7 DEF ReportRestore, Logged
<1> QED
  BY <1>1, <1>2, <1>3, <1>4, <1>5, <1>6, <1>7, Writers

\* An erase leaves the sector in hand torn or as it was, and no other changed.
LEMMA ErasedSector ==
  ASSUME TypeOK, EraseSector
  PROVE  /\ at \in Approved /\ at \in Sectors
         /\ \A s \in Sectors : s # at => nor'[s] = nor[s]
         /\ nor'[at] \in {nor[at], "torn"}
<1>1. at \in Approved /\ at \in Sectors
  BY ApprovedSectors DEF TypeOK
<1>2. nor' \in {nor, [nor EXCEPT ![at] = "torn"]}
  BY DEF EraseSector
<1> QED
  BY <1>1, <1>2 DEF TypeOK

\* Programming puts the wanted content into the sector in hand, or fails, and
\* changes no other.
LEMMA ProgrammedSector ==
  ASSUME TypeOK, ProgramSector
  PROVE  /\ at \in Approved /\ at \in Sectors
         /\ \A s \in Sectors : s # at => nor'[s] = nor[s]
         /\ nor'[at] \in {nor[at], Wanted(at)}
         /\ pc' = "verified" => nor'[at] = Wanted(at)
<1>1. at \in Approved /\ at \in Sectors
  BY ApprovedSectors DEF TypeOK
<1>2. \/ nor' = nor /\ pc' # "verified"
      \/ nor' = [nor EXCEPT ![at] = Wanted(at)]
  BY DEF ProgramSector, SectorRaised
<1> QED
  BY <1>1, <1>2 DEF TypeOK

\* Another program leaves its own bytes, outside the protected regions only
\* while no process of this tool runs.
LEMMA ForeignSector ==
  ASSUME TypeOK, ForeignFlash
  PROVE  \A s \in Sectors : \/ nor'[s] = nor[s]
                            \/ nor'[s] = "foreign" /\ (pc # "idle" => s \in Protected)
<1>1. PICK f \in Sectors : (pc # "idle" => f \in Protected) /\ nor' = [nor EXCEPT ![f] = "foreign"]
  BY DEF ForeignFlash, Protected
<1> QED
  BY <1>1 DEF TypeOK

-----------------------------------------------------------------------------
(* The initial states satisfy the invariant *)

\* Before the first step the flash is the snapshot and nothing is on record.
LEMMA InvariantInit == Init => IInv
<1> SUFFICES ASSUME Init PROVE IInv
  OBVIOUS
<1>1. TypeOK
  BY TypeInit
<1>2. \A s \in Sectors : nor[s] = "old"
  BY DEF Init, Snapshot
<1>3. \A s \in Slots : s \in Sectors
  BY LayoutAssumption DEF Slots, SlotA, SlotB, Sectors
<1>4. ProtectedKept /\ TornOnce /\ Recoverable /\ MetadataLast
  BY <1>2, <1>3 DEF Init, ProtectedKept, Protected, TornOnce, Recoverable, Touched, MetadataLast
<1>5. Bookkeeping /\ ForwardFlash /\ ForwardScript
  BY DEF Init, Bookkeeping, ForwardFlash, ForwardScript, Outside, Applying, Working,
         Writing, Written, Steps
<1>6. /\ RestoreVerdict /\ ScriptFollowsFlash /\ DeployPassSound /\ RestorePassSound
      /\ Undisturbed
  BY DEF Init, RestoreVerdict, Undisturbed, ScriptFollowsFlash, DeployPassSound, RestorePassSound,
         Applying, Outside, Steps, Logged
<1> QED
  BY <1>1, <1>4, <1>5, <1>6 DEF IInv

-----------------------------------------------------------------------------
(* Each part of the invariant is kept by each step *)

\* The flock is free, the bundle complete or the journal open exactly where the
\* program counter says so, and every sector of started is on record.
LEMMA BookkeepingNext == IInv /\ [Next]_vars => Bookkeeping'
<1> SUFFICES ASSUME IInv, [Next]_vars PROVE Bookkeeping'
  OBVIOUS
<1> USE DEF IInv
<1>i. image' = image /\ Planned' = Planned
  BY ImageKept
<1> USE <1>i
<1>1. CASE PrepareRead
  BY <1>1 DEF PrepareRead, Bookkeeping, Logged, FailureLogged, Applying, Outside,
     Working, Steps
<1>2. CASE ApplyCheck
  BY <1>2 DEF ApplyCheck, Bookkeeping, Logged, FailureLogged, Applying, Outside,
     Working, Steps
<1>3. CASE PrepareSnapshot
  BY <1>3 DEF PrepareSnapshot, Exit, Bookkeeping, Logged, FailureLogged, Applying,
     Outside, Working, Steps
<1>4. CASE PreparePlan
  BY <1>4 DEF PreparePlan, Exit, Bookkeeping, Logged, FailureLogged, Applying,
     Outside, Working, Steps
<1>5. CASE PrepareRecheck
  BY <1>5 DEF PrepareRecheck, Exit, Bookkeeping, Logged, FailureLogged, Applying,
     Outside, Working, Steps
<1>6. CASE ApplyOpen
  <2>1. CASE Exit
    BY <1>6, <2>1 DEF ApplyOpen, Exit, TypeOK, Bookkeeping, Logged, FailureLogged,
       Applying, Outside, Working, Steps
  <2>2. CASE ~opened /\ opened' = TRUE /\ pc' = "begin" /\ UNCHANGED memory
    BY <1>6, <2>2 DEF ApplyOpen, Bookkeeping, Logged, FailureLogged, Applying,
       Outside, Working, Steps
  <2> QED
    BY <1>6, <2>1, <2>2 DEF ApplyOpen
<1>7. CASE ApplyBegin
  BY <1>7 DEF ApplyBegin, Record, Bookkeeping, Logged, FailureLogged, Applying,
     Outside, Working, Steps
<1>8. CASE ReadbackFlash
  BY <1>8 DEF ReadbackFlash, Bookkeeping, Logged, FailureLogged, Applying,
     Outside, Working, Steps
<1>9. CASE ApplyPass
  BY <1>9 DEF ApplyPass, Exit, Bookkeeping, Logged, FailureLogged, Applying,
     Outside, Working, Steps
<1>10. CASE NextSector
  BY <1>10 DEF NextSector, Record, Pending, Bookkeeping, Logged, FailureLogged,
     Applying, Outside, Working, Steps
<1>11. CASE SectorsFinished
  BY <1>11 DEF SectorsFinished, Bookkeeping, Logged, FailureLogged, Applying,
     Outside, Working, Steps
<1>12. CASE EraseSector
  BY <1>12 DEF EraseSector, SectorRaised, Bookkeeping, Logged, FailureLogged,
     Applying, Outside, Working, Steps
<1>13. CASE ProgramSector
  BY <1>13 DEF ProgramSector, SectorRaised, Bookkeeping, Logged, FailureLogged,
     Applying, Outside, Working, Steps
<1>14. CASE SectorWritten
  BY <1>14 DEF SectorWritten, SectorRaised, Bookkeeping, Logged, FailureLogged,
     Applying, Outside, Working, Steps
<1>15. CASE ScriptUnchanged
  BY <1>15 DEF ScriptUnchanged, ScriptRaised, Bookkeeping, Logged, FailureLogged,
     Applying, Outside, Working, Steps
<1>16. CASE StageScript
  BY <1>16 DEF StageScript, ScriptRaised, Bookkeeping, Logged, FailureLogged,
     Applying, Outside, Working, Steps
<1>17. CASE RenameScript
  BY <1>17 DEF RenameScript, ScriptRaised, WantedScript, Bookkeeping, Logged,
     FailureLogged, Applying, Outside, Working, Steps
<1>18. CASE ApplyFailed
  BY <1>18 DEF ApplyFailed, Exit, Bookkeeping, Logged, FailureLogged, Applying,
     Outside, Working, Steps
<1>19. CASE AuditFlash
  BY <1>19 DEF AuditFlash, Bookkeeping, Logged, FailureLogged, Applying, Outside,
     Working, Steps
<1>20. CASE ReportRestore
  BY <1>20 DEF ReportRestore, Exit, Bookkeeping, Logged, FailureLogged, Applying,
     Outside, Working, Steps
<1>21. CASE Crash
  BY <1>21 DEF Crash, Exit, Bookkeeping, Logged, FailureLogged, Applying, Outside,
     Working, Steps
<1>22. CASE Reboot
  BY <1>22 DEF Reboot, Bookkeeping, Logged, FailureLogged, Applying, Outside,
     Working, Steps
<1>23. CASE ForeignFlash
  BY <1>23 DEF ForeignFlash, Bookkeeping, Logged, FailureLogged, Applying,
     Outside, Working, Steps
<1>24. CASE ForeignBootFiles
  BY <1>24 DEF ForeignBootFiles, Bookkeeping, Logged, FailureLogged, Applying,
     Outside, Working, Steps
<1>25. CASE UNCHANGED vars
  BY <1>25 DEF Bookkeeping, Logged, FailureLogged, Applying, Outside, Working, Steps
<1> QED
  BY <1>1, <1>2, <1>3, <1>4, <1>5, <1>6, <1>7, <1>8, <1>9, <1>10, <1>11, <1>12,
     <1>13, <1>14, <1>15, <1>16, <1>17, <1>18, <1>19, <1>20, <1>21, <1>22,
     <1>23, <1>24, <1>25
     DEF Next, Running, Prepare, Forward, Both, Restore

\* The protected sectors stay as they were or become foreign, and no process
\* works for a package that would change them.
LEMMA ProtectedKeptNext == IInv /\ [Next]_vars => ProtectedKept'
<1> SUFFICES ASSUME IInv, [Next]_vars PROVE ProtectedKept'
  OBVIOUS
<1> USE DEF IInv
<1>1. \A s \in Protected : nor'[s] \in {"old", "foreign"}
  <2> SUFFICES ASSUME NEW s \in Protected PROVE nor'[s] \in {"old", "foreign"}
    OBVIOUS
  <2>1. s \in Sectors /\ s \notin Approved /\ nor[s] \in {"old", "foreign"}
    BY DEF Protected, ProtectedKept
  <2>2. CASE nor' = nor
    BY <2>1, <2>2
  <2>3. CASE EraseSector
    BY <2>1, <2>3, ErasedSector
  <2>4. CASE ProgramSector
    BY <2>1, <2>4, ProgrammedSector
  <2>5. CASE ForeignFlash
    BY <2>1, <2>5, ForeignSector
  <2> QED
    BY <2>2, <2>3, <2>4, <2>5, Writers
<1>2. ASSUME pc' # "idle" \/ \E s \in Sectors : Touched(s)'
      PROVE  \A s \in Protected : image[s] = "old"
  <2>1. CASE pc # "idle" \/ \E s \in Sectors : Touched(s)
    BY <2>1 DEF ProtectedKept
  <2>2. CASE PrepareRead \/ ApplyCheck
    BY <2>2 DEF PrepareRead, ApplyCheck, ValidPackage
  <2>3. CASE pc' = "idle" /\ pc = "idle" /\ \A s \in Sectors : ~Touched(s)
    <3>1. nor' = nor \/ ForeignFlash
      BY <2>3, Writers DEF EraseSector, ProgramSector
    <3>2. \A s \in Sectors : ~Touched(s)'
      BY <2>3, <3>1, ForeignSector DEF Touched
    <3> QED
      BY <1>2, <2>3, <3>2
  <2> QED
    BY <2>1, <2>2, <2>3, Writers
<1> QED
  BY <1>1, <1>2, ImageKept DEF ProtectedKept

\* The steps that advance the forward loop or write the flash keep ForwardFlash.
LEMMA ForwardFlashStep ==
  ASSUME IInv, image' = image, Planned' = Planned,
         ApplyCheck \/ NextSector \/ SectorsFinished \/ EraseSector \/ ProgramSector \/ ForeignFlash
  PROVE ForwardFlash'
<1> USE DEF IInv, ForwardFlash, Writing, Working, Written
<1>1. CASE ApplyCheck
  BY <1>1, ApprovedSectors DEF ApplyCheck, Bookkeeping, Outside, Snapshot
<1>2. CASE NextSector
  <2>1. CASE restoring
    BY <1>2, <2>1 DEF NextSector
  <2>2. CASE ~restoring
    <3>1. \A s \in Planned : Before(s, at') => s \in done
      <4> SUFFICES ASSUME NEW s \in Planned, Before(s, at'), s \notin done PROVE FALSE
        OBVIOUS
      <4>1. s \in Pending /\ First(at') /\ at' \in Pending
        BY <1>2, <2>2 DEF NextSector, Pending
      <4>2. at' = s \/ Before(at', s)
        BY <4>1 DEF First
      <4>3. s \in Sectors /\ at' \in Sectors
        BY <4>1, <2>2, ApprovedSectors DEF Pending, Planned
      <4> QED
        BY <4>2, <4>3, BeforeStrict
    <3> QED
      BY <1>2, <2>2, <3>1 DEF NextSector, Record
  <2> QED
    BY <2>1, <2>2
<1>3. CASE SectorsFinished
  BY <1>3 DEF SectorsFinished, Pending, Planned
<1>4. CASE EraseSector
  <2>1. at \notin done /\ done \subseteq Approved
    BY <1>4 DEF EraseSector, Bookkeeping, TypeOK
  <2> QED
  BY <1>4, <2>1, ErasedSector, ApprovedSectors DEF EraseSector, SectorRaised
<1>5. CASE ProgramSector
  <2>1. at \notin done /\ done \subseteq Approved
    BY <1>5 DEF ProgramSector, Bookkeeping, TypeOK
  <2> QED
  BY <1>5, <2>1, ProgrammedSector, ApprovedSectors DEF ProgramSector, SectorRaised, Wanted
<1>6. CASE ForeignFlash
  <2>1. CASE pc = "idle"
    BY <1>6, <2>1 DEF ForeignFlash
  <2>2. CASE pc # "idle"
    <3>1. \A s \in Approved : nor'[s] = nor[s]
      BY <1>6, <2>2, ForeignSector, ApprovedSectors DEF Protected
    <3>2. done \subseteq Approved /\ (pc \in Working => at \in Approved)
      BY DEF TypeOK
    <3> QED
      BY <1>6, <3>1, <3>2 DEF ForeignFlash
  <2> QED
    BY <2>1, <2>2
<1> QED
  BY <1>1, <1>2, <1>3, <1>4, <1>5, <1>6

\* The forward loop has written what is done, in the order of plan_sectors, and
\* nothing else.
LEMMA ForwardFlashNext == IInv /\ [Next]_vars => ForwardFlash'
<1> SUFFICES ASSUME IInv, [Next]_vars PROVE ForwardFlash'
  OBVIOUS
<1> USE DEF IInv
<1>i. image' = image /\ Planned' = Planned
  BY ImageKept
<1> USE <1>i
<1>1. CASE PrepareRead
  BY <1>1 DEF PrepareRead, ForwardFlash, Writing, Working, Written
<1>2. CASE ApplyCheck
  BY <1>2, <1>i, ForwardFlashStep
<1>3. CASE PrepareSnapshot
  BY <1>3 DEF PrepareSnapshot, Exit, ForwardFlash, Writing, Working, Written
<1>4. CASE PreparePlan
  BY <1>4 DEF PreparePlan, Exit, ForwardFlash, Writing, Working, Written
<1>5. CASE PrepareRecheck
  BY <1>5 DEF PrepareRecheck, Exit, ForwardFlash, Writing, Working, Written
<1>6. CASE ApplyOpen
  BY <1>6 DEF ApplyOpen, Exit, TypeOK, ForwardFlash, Writing, Working, Written
<1>7. CASE ApplyBegin
  BY <1>7 DEF ApplyBegin, Record, ForwardFlash, Writing, Working, Written
<1>8. CASE ReadbackFlash
  BY <1>8 DEF ReadbackFlash, ForwardFlash, Writing, Working, Written
<1>9. CASE ApplyPass
  BY <1>9 DEF ApplyPass, Exit, ForwardFlash, Writing, Working, Written
<1>10. CASE NextSector
  BY <1>10, <1>i, ForwardFlashStep
<1>11. CASE SectorsFinished
  BY <1>11, <1>i, ForwardFlashStep
<1>12. CASE EraseSector
  BY <1>12, <1>i, ForwardFlashStep
<1>13. CASE ProgramSector
  BY <1>13, <1>i, ForwardFlashStep
<1>14. CASE SectorWritten
  BY <1>14 DEF SectorWritten, SectorRaised, ForwardFlash, Writing, Working, Written
<1>15. CASE ScriptUnchanged
  BY <1>15 DEF ScriptUnchanged, ScriptRaised, ForwardFlash, Writing, Working, Written
<1>16. CASE StageScript
  BY <1>16 DEF StageScript, ScriptRaised, ForwardFlash, Writing, Working, Written
<1>17. CASE RenameScript
  BY <1>17 DEF RenameScript, ScriptRaised, WantedScript, ForwardFlash, Writing,
     Working, Written
<1>18. CASE ApplyFailed
  BY <1>18 DEF ApplyFailed, Exit, ForwardFlash, Writing, Working, Written
<1>19. CASE AuditFlash
  BY <1>19 DEF AuditFlash, ForwardFlash, Writing, Working, Written
<1>20. CASE ReportRestore
  BY <1>20 DEF ReportRestore, Exit, ForwardFlash, Writing, Working, Written
<1>21. CASE Crash
  BY <1>21 DEF Crash, Exit, ForwardFlash, Writing, Working, Written
<1>22. CASE Reboot
  BY <1>22 DEF Reboot, ForwardFlash, Writing, Working, Written
<1>23. CASE ForeignFlash
  BY <1>23, <1>i, ForwardFlashStep
<1>24. CASE ForeignBootFiles
  BY <1>24 DEF ForeignBootFiles, ForwardFlash, Writing, Working, Written
<1>25. CASE UNCHANGED vars
  BY <1>25 DEF ForwardFlash, Writing, Working, Written
<1> QED
  BY <1>1, <1>2, <1>3, <1>4, <1>5, <1>6, <1>7, <1>8, <1>9, <1>10, <1>11, <1>12,
     <1>13, <1>14, <1>15, <1>16, <1>17, <1>18, <1>19, <1>20, <1>21, <1>22,
     <1>23, <1>24, <1>25
     DEF Next, Running, Prepare, Forward, Both, Restore

\* At most one sector is torn before a failure is on record.
LEMMA TornOnceNext ==
  ASSUME IInv, [Next]_vars
  PROVE  TornOnce'
<1> USE DEF IInv
<1>1. CASE nor' = nor
  BY <1>1, Records DEF TornOnce, FailureLogged, Logged
<1>2. CASE EraseSector
  <2>1. CASE restoring
    BY <2>1, Records DEF Bookkeeping, TornOnce, FailureLogged, Logged
  <2>2. CASE ~restoring
    <3>1. \A s \in Approved : s # at => nor[s] # "torn"
      BY <1>2, <2>2 DEF EraseSector, ForwardFlash, Writing, Working, TypeOK, Images, Approved
    <3>2. \A s \in Sectors : s # at => nor'[s] # "torn"
      BY <1>2, <3>1, ErasedSector DEF ProtectedKept, Protected
    <3> QED
      BY <3>2 DEF TornOnce
  <2> QED
    BY <2>1, <2>2
<1>3. CASE ProgramSector
  <2>1. nor'[at] \in {nor[at], "old", "new"} /\ at \in Sectors
    BY <1>3, ProgrammedSector DEF Wanted, TypeOK, Images
  <2>2. \A s \in Sectors : nor'[s] = "torn" => nor[s] = "torn"
    BY <1>3, <2>1, ProgrammedSector
  <2> QED
    BY <2>2, Records DEF TornOnce, FailureLogged, Logged
<1>4. CASE ForeignFlash
  BY <1>4, ForeignSector, Records DEF TornOnce, FailureLogged, Logged
<1> QED
  BY <1>1, <1>2, <1>3, <1>4, Writers

\* The boot script is still the old one until it is renamed over, and
\* DEPLOY_PASS comes after that.
LEMMA ForwardScriptNext == IInv /\ [Next]_vars => ForwardScript'
<1> SUFFICES ASSUME IInv, [Next]_vars PROVE ForwardScript'
  OBVIOUS
<1> USE DEF IInv
<1>i. image' = image /\ Planned' = Planned
  BY ImageKept
<1> USE <1>i
<1>1. CASE PrepareRead
  BY <1>1 DEF PrepareRead, ForwardScript, Writing, Working, Written, Logged
<1>2. CASE ApplyCheck
  BY <1>2 DEF ApplyCheck, ForwardScript, Writing, Working, Written, Logged
<1>3. CASE PrepareSnapshot
  BY <1>3 DEF PrepareSnapshot, Exit, ForwardScript, Writing, Working, Written, Logged
<1>4. CASE PreparePlan
  BY <1>4 DEF PreparePlan, Exit, ForwardScript, Writing, Working, Written, Logged
<1>5. CASE PrepareRecheck
  BY <1>5 DEF PrepareRecheck, Exit, ForwardScript, Writing, Working, Written, Logged
<1>6. CASE ApplyOpen
  <2>1. CASE Exit
    BY <1>6, <2>1 DEF ApplyOpen, Exit, ForwardScript, Writing, Working, Written, Logged
  <2>2. CASE ~opened /\ opened' = TRUE /\ pc' = "begin" /\ UNCHANGED memory
    BY <1>6, <2>2 DEF ApplyOpen, Bookkeeping, ForwardScript, Writing, Working, Written, Logged
  <2> QED
    BY <1>6, <2>1, <2>2 DEF ApplyOpen
<1>7. CASE ApplyBegin
  BY <1>7 DEF ApplyBegin, Record, ForwardScript, Writing, Working, Written, Logged
<1>8. CASE ReadbackFlash
  BY <1>8 DEF ReadbackFlash, ForwardScript, Writing, Working, Written, Logged
<1>9. CASE ApplyPass
  BY <1>9 DEF ApplyPass, Exit, ForwardScript, Writing, Working, Written, Logged
<1>10. CASE NextSector
  BY <1>10 DEF NextSector, Record, Pending, ForwardScript, Writing, Working,
     Written, Logged
<1>11. CASE SectorsFinished
  BY <1>11 DEF SectorsFinished, ForwardScript, Writing, Working, Written, Logged
<1>12. CASE EraseSector
  BY <1>12 DEF EraseSector, SectorRaised, ForwardScript, Writing, Working,
     Written, Logged
<1>13. CASE ProgramSector
  BY <1>13 DEF ProgramSector, SectorRaised, ForwardScript, Writing, Working,
     Written, Logged
<1>14. CASE SectorWritten
  BY <1>14 DEF SectorWritten, SectorRaised, ForwardScript, Writing, Working,
     Written, Logged
<1>15. CASE ScriptUnchanged
  BY <1>15 DEF ScriptUnchanged, ScriptRaised, ForwardScript, Writing, Working,
     Written, Logged
<1>16. CASE StageScript
  BY <1>16 DEF StageScript, ScriptRaised, ForwardScript, Writing, Working,
     Written, Logged
<1>17. CASE RenameScript
  BY <1>17 DEF RenameScript, ScriptRaised, WantedScript, ForwardScript, Writing,
     Working, Written, Logged
<1>18. CASE ApplyFailed
  BY <1>18 DEF ApplyFailed, Exit, ForwardScript, Writing, Working, Written, Logged
<1>19. CASE AuditFlash
  BY <1>19 DEF AuditFlash, ForwardScript, Writing, Working, Written, Logged
<1>20. CASE ReportRestore
  BY <1>20 DEF ReportRestore, Exit, ForwardScript, Writing, Working, Written, Logged
<1>21. CASE Crash
  BY <1>21 DEF Crash, Exit, ForwardScript, Writing, Working, Written, Logged
<1>22. CASE Reboot
  BY <1>22 DEF Reboot, ForwardScript, Writing, Working, Written, Logged
<1>23. CASE ForeignFlash
  BY <1>23 DEF ForeignFlash, ForwardScript, Writing, Working, Written, Logged
<1>24. CASE ForeignBootFiles
  BY <1>24 DEF ForeignBootFiles, ForwardScript, Writing, Working, Written, Logged
<1>25. CASE UNCHANGED vars
  BY <1>25 DEF ForwardScript, Writing, Working, Written, Logged
<1> QED
  BY <1>1, <1>2, <1>3, <1>4, <1>5, <1>6, <1>7, <1>8, <1>9, <1>10, <1>11, <1>12,
     <1>13, <1>14, <1>15, <1>16, <1>17, <1>18, <1>19, <1>20, <1>21, <1>22,
     <1>23, <1>24, <1>25
     DEF Next, Running, Prepare, Forward, Both, Restore

\* The restoration reports success only for a flash and a boot script that hold
\* nothing of the package.
LEMMA RestoreVerdictNext == IInv /\ [Next]_vars => RestoreVerdict'
<1> SUFFICES ASSUME IInv, [Next]_vars PROVE RestoreVerdict'
  OBVIOUS
<1> USE DEF IInv
<1>i. image' = image /\ Planned' = Planned
  BY ImageKept
<1> USE <1>i
<1>1. CASE PrepareRead
  BY <1>1 DEF PrepareRead, RestoreVerdict, Logged, Touched, Applying, Outside,
     Working, Steps
<1>2. CASE ApplyCheck
  BY <1>2 DEF ApplyCheck, RestoreVerdict, Logged, Touched, Applying, Outside,
     Working, Steps
<1>3. CASE PrepareSnapshot
  BY <1>3 DEF PrepareSnapshot, Exit, RestoreVerdict, Logged, Touched, Applying,
     Outside, Working, Steps
<1>4. CASE PreparePlan
  BY <1>4 DEF PreparePlan, Exit, RestoreVerdict, Logged, Touched, Applying,
     Outside, Working, Steps
<1>5. CASE PrepareRecheck
  BY <1>5 DEF PrepareRecheck, Exit, RestoreVerdict, Logged, Touched, Applying,
     Outside, Working, Steps
<1>6. CASE ApplyOpen
  <2>1. CASE Exit
    BY <1>6, <2>1 DEF ApplyOpen, Exit, RestoreVerdict, Logged, Touched, Applying,
       Outside, Working, Steps
  <2>2. CASE ~opened /\ opened' = TRUE /\ pc' = "begin" /\ UNCHANGED memory
    BY <1>6, <2>2 DEF ApplyOpen, Bookkeeping, RestoreVerdict, Logged, Touched, Applying,
       Outside, Working, Steps
  <2> QED
    BY <1>6, <2>1, <2>2 DEF ApplyOpen
<1>7. CASE ApplyBegin
  BY <1>7 DEF ApplyBegin, Record, RestoreVerdict, Logged, Touched, Applying,
     Outside, Working, Steps
<1>8. CASE ReadbackFlash
  BY <1>8 DEF ReadbackFlash, RestoreVerdict, Logged, Touched, Applying, Outside,
     Working, Steps
<1>9. CASE ApplyPass
  BY <1>9 DEF ApplyPass, Exit, RestoreVerdict, Logged, Touched, Applying, Outside,
     Working, Steps
<1>10. CASE NextSector
  BY <1>10 DEF NextSector, Record, Pending, RestoreVerdict, Logged, Touched,
     Applying, Outside, Working, Steps
<1>11. CASE SectorsFinished
  BY <1>11 DEF SectorsFinished, RestoreVerdict, Logged, Touched, Applying,
     Outside, Working, Steps
<1>12. CASE EraseSector
  BY <1>12 DEF EraseSector, SectorRaised, RestoreVerdict, Logged, Touched,
     Applying, Outside, Working, Steps
<1>13. CASE ProgramSector
  BY <1>13 DEF ProgramSector, SectorRaised, RestoreVerdict, Logged, Touched,
     Applying, Outside, Working, Steps
<1>14. CASE SectorWritten
  BY <1>14 DEF SectorWritten, SectorRaised, RestoreVerdict, Logged, Touched,
     Applying, Outside, Working, Steps
<1>15. CASE ScriptUnchanged
  BY <1>15 DEF ScriptUnchanged, ScriptRaised, RestoreVerdict, Logged, Touched,
     Applying, Outside, Working, Steps
<1>16. CASE StageScript
  BY <1>16 DEF StageScript, ScriptRaised, RestoreVerdict, Logged, Touched,
     Applying, Outside, Working, Steps
<1>17. CASE RenameScript
  BY <1>17 DEF RenameScript, ScriptRaised, WantedScript, RestoreVerdict, Logged,
     Touched, Applying, Outside, Working, Steps
<1>18. CASE ApplyFailed
  BY <1>18 DEF ApplyFailed, Exit, RestoreVerdict, Logged, Touched, Applying,
     Outside, Working, Steps
<1>19. CASE AuditFlash
  <2>1. ASSUME ~failures' PROVE \A s \in Sectors : nor'[s] = "old"
    BY <1>19, <2>1 DEF AuditFlash, Snapshot
  <2> QED
    BY <1>19, <2>1 DEF AuditFlash, RestoreVerdict, Logged, Touched, Applying, Outside, Steps
<1>20. CASE ReportRestore
  BY <1>20 DEF ReportRestore, Exit, RestoreVerdict, Logged, Touched, Applying,
     Outside, Working, Steps
<1>21. CASE Crash
  BY <1>21 DEF Crash, Exit, RestoreVerdict, Logged, Touched, Applying, Outside,
     Working, Steps
<1>22. CASE Reboot
  BY <1>22 DEF Reboot, RestoreVerdict, Logged, Touched, Applying, Outside,
     Working, Steps
<1>23. CASE ForeignFlash
  BY <1>23 DEF ForeignFlash, RestoreVerdict, Logged, Touched, Applying, Outside,
     Working, Steps
<1>24. CASE ForeignBootFiles
  BY <1>24 DEF ForeignBootFiles, RestoreVerdict, Logged, Touched, Applying,
     Outside, Working, Steps
<1>25. CASE UNCHANGED vars
  BY <1>25 DEF RestoreVerdict, Logged, Touched, Applying, Outside, Working, Steps
<1> QED
  BY <1>1, <1>2, <1>3, <1>4, <1>5, <1>6, <1>7, <1>8, <1>9, <1>10, <1>11, <1>12,
     <1>13, <1>14, <1>15, <1>16, <1>17, <1>18, <1>19, <1>20, <1>21, <1>22,
     <1>23, <1>24, <1>25
     DEF Next, Running, Prepare, Forward, Both, Restore

\* What is overwritten is on record and backed up.
LEMMA RecoverableNext ==
  ASSUME IInv, [Next]_vars
  PROVE  Recoverable'
<1> SUFFICES ASSUME NEW s \in Sectors, Touched(s)'
             PROVE  Logged("ERASE_BEGIN", s) /\ backup = "complete"
  <2>1. backup = "complete" => backup' = "complete"
    BY Writers DEF IInv, Bookkeeping, PrepareSnapshot, PreparePlan
  <2> QED
    BY <2>1, Records DEF Recoverable, Logged
<1> USE DEF IInv
<1>1. CASE Touched(s)
  BY <1>1 DEF Recoverable
<1>2. CASE EraseSector \/ ProgramSector
  <2>1. s = at \/ nor'[s] = nor[s]
    BY <1>2, ErasedSector, ProgrammedSector
  <2>2. at \in started /\ backup = "complete"
      BY <1>2 DEF EraseSector, ProgramSector, Bookkeeping, Working, Applying, Outside,
     Steps
  <2>3. Logged("ERASE_BEGIN", at)
    BY <2>2 DEF Bookkeeping
  <2> QED
    BY <1>1, <2>1, <2>2, <2>3 DEF Touched
<1>3. CASE nor' = nor \/ ForeignFlash
  BY <1>1, <1>3, ForeignSector DEF Touched
<1> QED
  BY <1>2, <1>3, Writers

\* While the forward loop works on a slot, or has finished one, every approved
\* sector outside the slots holds the image and is not in hand.
LEMMA PayloadFirst ==
  ASSUME IInv, pc \in Working, ~restoring, NEW t \in Slots,
         t \in done \cup {at}
  PROVE  \A s \in Approved \ Slots : s # at /\ nor[s] = image[s]
<1> SUFFICES ASSUME NEW s \in Approved \ Slots PROVE s # at /\ nor[s] = image[s]
  OBVIOUS
<1>1. at \in Planned /\ at \notin done
  BY DEF IInv, Bookkeeping
<1>2. Before(s, t) /\ s # t /\ s \in Sectors
  BY SlotsLast, ApprovedSectors
<1>3. CASE s \in Planned
  <2>1. s \in done
    BY <1>2, <1>3 DEF IInv, ForwardFlash, Writing, Working
  <2> QED
    BY <1>1, <2>1 DEF IInv, ForwardFlash, Writing
<1>4. CASE s \notin Planned
  <2>1. image[s] = "old" /\ s # at
    BY <1>1, <1>4 DEF Planned
  <2> QED
    BY <2>1 DEF IInv, ForwardFlash, Writing
<1> QED
  BY <1>3, <1>4

\* A manifest is never newer than the payload it describes.
LEMMA MetadataLastNext ==
  ASSUME IInv, [Next]_vars
  PROVE  MetadataLast'
<1> SUFFICES ASSUME ~FailureLogged', NEW t \in Slots, nor'[t] = "new",
                    NEW s \in Approved \ Slots
             PROVE  nor'[s] \in {image[s], "foreign"}
  BY ImageKept DEF MetadataLast
<1> USE DEF IInv
<1>0. ~FailureLogged /\ ~restoring
  BY Records DEF FailureLogged, Logged, Bookkeeping
<1>s. s \in Sectors /\ t \in Sectors /\ t \in Approved
  BY ApprovedSectors, SlotsLast
<1>1. CASE nor[t] = "new" /\ (nor'[s] = nor[s] \/ nor'[s] = "foreign")
  BY <1>0, <1>1 DEF MetadataLast
<1>2. CASE EraseSector \/ ProgramSector
  <2>1. pc \in Working
    BY <1>2 DEF EraseSector, ProgramSector, Working
  <2>2. t = at \/ nor[t] = "new"
    BY <1>2, <1>s, ErasedSector, ProgrammedSector
  <2>3. t \in done \cup {at}
    BY <1>0, <1>s, <2>1, <2>2 DEF ForwardFlash, Writing
  <2>4. s # at /\ nor[s] = image[s]
    BY <1>0, <2>1, <2>3, PayloadFirst
  <2> QED
    BY <1>2, <1>s, <2>4, ErasedSector, ProgrammedSector
<1>3. CASE nor' = nor
  BY <1>1, <1>3
<1>4. CASE ForeignFlash
  BY <1>1, <1>4, <1>s, ForeignSector
<1> QED
  BY <1>2, <1>3, <1>4, Writers

\* The flash is never written, and a new boot script never appears, in a way
\* that would leave the script ahead of the firmware.
LEMMA ScriptFollowsFlashNext ==
  ASSUME IInv, [Next]_vars
  PROVE  ScriptFollowsFlash'
<1> SUFFICES ASSUME ~FailureLogged', boot' = "new", NEW s \in Approved
             PROVE  nor'[s] \in {image[s], "foreign"}
  BY ImageKept DEF ScriptFollowsFlash
<1> USE DEF IInv
<1>0. ~FailureLogged /\ ~restoring /\ s \in Sectors
  BY Records, ApprovedSectors DEF FailureLogged, Logged, Bookkeeping
<1>1. nor[s] \in {image[s], "foreign"}
  <2>1. CASE boot = "new"
    BY <1>0, <2>1 DEF ScriptFollowsFlash
  <2>2. CASE RenameScript
    BY <1>0, <2>2 DEF RenameScript, ForwardFlash, Written
  <2>3. CASE ForeignBootFiles /\ boot # "new"
    BY <2>3 DEF ForeignBootFiles
  <2> QED
    BY <2>1, <2>2, <2>3, Writers
<1>2. ~EraseSector /\ ~ProgramSector
  BY <1>0 DEF EraseSector, ProgramSector, ForwardScript, Writing, Working
<1>3. nor'[s] = nor[s] \/ nor'[s] = "foreign"
  BY <1>0, <1>2, ForeignSector, Writers
<1> QED
  BY <1>1, <1>3

\* DEPLOY_PASS is recorded when it is true, and afterwards only somebody else
\* writes the flash or the boot script.
LEMMA DeployPassSoundNext ==
  ASSUME IInv, [Next]_vars
  PROVE  DeployPassSound'
<1> SUFFICES ASSUME ~FailureLogged', Logged("DEPLOY_PASS", Whole)'
             PROVE  /\ \A s \in Approved : nor'[s] \in {image[s], "foreign"}
                    /\ boot' \in {"new", "foreign"}
  BY ImageKept DEF DeployPassSound
<1> USE DEF IInv
<1>0. ~FailureLogged /\ ~restoring
  BY Records DEF FailureLogged, Logged, Bookkeeping
<1>1. CASE ApplyPass
  BY <1>0, <1>1 DEF ApplyPass, ForwardFlash, ForwardScript, Written
<1>2. CASE Logged("DEPLOY_PASS", Whole)
  <2>1. ~EraseSector /\ ~ProgramSector /\ ~RenameScript
    BY <1>0, <1>2 DEF EraseSector, ProgramSector, RenameScript, ForwardScript, Writing,
       Working, Written
  <2>2. \A s \in Approved : nor'[s] = nor[s] \/ nor'[s] = "foreign"
    BY <2>1, ForeignSector, ApprovedSectors, Writers
  <2>3. boot' = boot \/ boot' = "foreign"
    BY <2>1, Writers DEF ForeignBootFiles
  <2> QED
    BY <1>0, <1>2, <2>2, <2>3 DEF DeployPassSound
<1> QED
  BY <1>1, <1>2, Records

\* A passed restoration is recorded when it is true, and nothing of the package
\* is written afterwards.
LEMMA RestorePassSoundNext ==
  ASSUME IInv, [Next]_vars
  PROVE  RestorePassSound'
<1> SUFFICES ASSUME Logged("RESTORE_PASSED", Whole)'
             PROVE  (\A s \in Sectors : ~Touched(s)') /\ boot' # "new"
  BY DEF RestorePassSound
<1> USE DEF IInv
<1>1. CASE Logged("RESTORE_PASSED", Whole)
  <2>1. ~EraseSector /\ ~ProgramSector /\ ~RenameScript
    BY <1>1 DEF EraseSector, ProgramSector, RenameScript, RestoreVerdict, Applying,
       Outside, Steps
  <2>2. \A s \in Sectors : nor'[s] = nor[s] \/ nor'[s] = "foreign"
    BY <2>1, ForeignSector, Writers
  <2>3. boot' = boot \/ boot' = "foreign"
    BY <2>1, Writers DEF ForeignBootFiles
  <2> QED
    BY <1>1, <2>2, <2>3 DEF RestorePassSound, Touched
<1>2. CASE ReportRestore /\ ~Logged("RESTORE_PASSED", Whole)
  <2>1. pc = "report" /\ ~failures
    BY <1>2 DEF ReportRestore, Logged
  <2> QED
    BY <1>2, <2>1 DEF ReportRestore, RestoreVerdict, Touched
<1> QED
  BY <1>1, <1>2, Records

\* Only apply goes on from a comparison with the backup, it never writes what
\* is foreign, and nobody else writes the approved ranges while it runs.
LEMMA UndisturbedNext ==
  ASSUME IInv, [Next]_vars
  PROVE  Undisturbed'
<1> SUFFICES ASSUME pc' \in Applying
             PROVE  (\A s \in Approved : nor'[s] # "foreign") /\ boot' # "foreign"
  BY DEF Undisturbed
<1> USE DEF IInv
<1>1. CASE ApplyCheck
  BY <1>1, ApprovedSectors DEF ApplyCheck, Snapshot
<1>2. CASE pc \in Applying
  <2>1. pc # "idle" /\ ~ForeignBootFiles
    BY <1>2 DEF Applying, Outside, ForeignBootFiles
  <2>2. ASSUME NEW s \in Approved PROVE nor'[s] # "foreign"
    <3>1. s \in Sectors /\ s \notin Protected /\ nor[s] # "foreign"
      BY <1>2, <2>2, ApprovedSectors DEF Undisturbed, Protected
    <3>2. CASE EraseSector
      BY <3>1, <3>2, ErasedSector
    <3>3. CASE ProgramSector
      <4>1. Wanted(at) # "foreign"
        BY ApprovedSectors DEF Wanted, TypeOK, Images
      <4> QED
        BY <3>1, <3>3, <4>1, ProgrammedSector
    <3>4. CASE nor' = nor \/ ForeignFlash
      BY <2>1, <3>1, <3>4, ForeignSector
    <3> QED
      BY <3>2, <3>3, <3>4, Writers
  <2>3. boot' # "foreign"
    BY <1>2, <2>1, Writers DEF Undisturbed, RenameScript, WantedScript
  <2> QED
    BY <2>2, <2>3
<1>3. pc \in Applying \/ ApplyCheck
  BY ApplyStarts
<1> QED
  BY <1>1, <1>2, <1>3

-----------------------------------------------------------------------------
(* The theorems *)

\* Every step keeps the whole invariant.
LEMMA InvariantNext == IInv /\ [Next]_vars => IInv'
<1> SUFFICES ASSUME IInv, [Next]_vars PROVE IInv'
  OBVIOUS
<1>1. TypeOK' /\ Bookkeeping' /\ ProtectedKept'
  BY TypeNext, BookkeepingNext, ProtectedKeptNext DEF IInv
<1>2. ForwardFlash' /\ TornOnce' /\ ForwardScript' /\ RestoreVerdict'
  BY ForwardFlashNext, TornOnceNext, ForwardScriptNext, RestoreVerdictNext
<1>u. Undisturbed'
  BY UndisturbedNext
<1>3. Recoverable' /\ MetadataLast' /\ ScriptFollowsFlash'
  BY RecoverableNext, MetadataLastNext, ScriptFollowsFlashNext
<1>4. DeployPassSound' /\ RestorePassSound'
  BY DeployPassSoundNext, RestorePassSoundNext
<1> QED
  BY <1>1, <1>2, <1>u, <1>3, <1>4 DEF IInv

\* The inductive invariant holds in every reachable state of boot_update.py as
\* modelled.
THEOREM Invariance == Spec => []IInv
BY InvariantInit, InvariantNext, PTL DEF Spec

\* At every moment, also after a kill or a power loss, the journal names every
\* sector this transaction has overwritten and the backup holds its bytes.
THEOREM RecoverableHolds == Spec => []Recoverable
<1>1. IInv => Recoverable
  BY DEF IInv
<1> QED
  BY <1>1, Invariance, PTL

\* Until a failure is on record, a new manifest in the flash means that the
\* whole payload is new: the manifests are committed last.
THEOREM MetadataLastHolds == Spec => []MetadataLast
<1>1. IInv => MetadataLast
  BY DEF IInv
<1> QED
  BY <1>1, Invariance, PTL

\* Until a failure is on record, a new boot script means new firmware.
THEOREM ScriptFollowsFlashHolds == Spec => []ScriptFollowsFlash
<1>1. IInv => ScriptFollowsFlash
  BY DEF IInv
<1> QED
  BY <1>1, Invariance, PTL

\* DEPLOY_PASS without APPLY_FAILED stays true until somebody else writes.
THEOREM DeployPassSoundHolds == Spec => []DeployPassSound
<1>1. IInv => DeployPassSound
  BY DEF IInv
<1> QED
  BY <1>1, Invariance, PTL

\* TRANSACTION_RESTORE passed=true stays true: nothing of the package is left.
THEOREM RestorePassSoundHolds == Spec => []RestorePassSound
<1>1. IInv => RestorePassSound
  BY DEF IInv
<1> QED
  BY <1>1, Invariance, PTL

\* Until a failure is on record one of the two manifest slots is valid: the
\* slots are two sectors and at most one sector is torn.
THEOREM ManifestRedundancyHolds == Spec => []ManifestRedundancy
<1>1. IInv => ManifestRedundancy
  <2> SUFFICES ASSUME IInv, ~FailureLogged, \A s \in Slots : nor[s] # "foreign"
               PROVE  SomeSlotValid(nor)
    BY DEF ManifestRedundancy
  <2>1. SlotA \in Sectors /\ SlotB \in Sectors /\ SlotA # SlotB
    BY LayoutAssumption DEF SlotA, SlotB, Sectors
  <2>2. ~(nor[SlotA] = "torn" /\ nor[SlotB] = "torn")
    BY <2>1 DEF IInv, TornOnce
  <2>3. \A s \in Slots : nor[s] \in {"old", "new", "torn"}
    BY <2>1 DEF IInv, TypeOK, Slots, Contents
  <2> QED
    BY <2>2, <2>3 DEF SomeSlotValid, ValidSlot, Slots
<1> QED
  BY <1>1, Invariance, PTL

\* From the moment slot A is programmed on U-Boot verifies and selects the new
\* composition, whatever slot B holds, unless somebody else wrote the flash.
THEOREM CommitPointHolds == Spec => []CommitPoint
<1>1. IInv => CommitPoint
  <2> SUFFICES ASSUME IInv, ~FailureLogged, nor[SlotA] = "new",
                      \A s \in Sectors : nor[s] # "foreign",
                      NEW seq \in [{"old", "new"} -> 0 .. 1], seq["new"] >= seq["old"]
               PROVE  UBootAccepts(nor, image, seq) /\ Selected(nor, seq) = "new"
    BY DEF CommitPoint
  <2>1. ValidSlot(nor, SlotA) /\ SlotA \in Slots
    BY DEF ValidSlot, Slots
  <2>2. ChoosesA(nor, seq)
    <3>1. seq["new"] \in Int /\ seq["old"] \in Int
      OBVIOUS
    <3>2. ValidSlot(nor, SlotB) => nor[SlotB] \in {"old", "new"}
      BY DEF ValidSlot
    <3> QED
      BY <2>1, <3>1, <3>2 DEF ChoosesA
  <2>3. Selected(nor, seq) = "new"
    BY <2>2 DEF Selected
  <2>4. \A s \in Approved \ Slots : nor[s] = image[s]
    BY <2>1, ApprovedSectors DEF IInv, MetadataLast
  <2>5. \A s \in Protected : nor[s] = "old" /\ image[s] = "old"
    <3>1. SlotA \in Sectors
      BY SlotAApproved, ApprovedSectors
    <3> QED
      BY <3>1 DEF IInv, ProtectedKept, Touched, Protected
  <2>6. \A s \in Covered : nor[s] = image[s]
    BY <2>4, <2>5, CoveredAssumption DEF Protected
  <2> QED
    BY <2>1, <2>3, <2>6 DEF UBootAccepts, SomeSlotValid, Pinned
<1> QED
  BY <1>1, Invariance, PTL

\* What the layout keeps for the environment, the journal and the identity lies
\* outside the approved ranges.
LEMMA ReservedNotApproved == Reserved \cap Approved = {}
BY LayoutAssumption DEF Reserved, Approved, Region, Slots, SlotA, SlotB, Sectors

\* No step of the tool changes a sector that the layout keeps for others, or
\* overwrites what others have written since prepare has read it.
THEOREM OthersPreservedHolds == Spec => OthersPreserved
<1>1. ASSUME IInv, [Next]_vars, NEW s \in Sectors, nor'[s] # nor[s], nor'[s] # "foreign"
      PROVE  s \notin Reserved /\ nor[s] # "foreign"
  <2>1. TypeOK /\ (EraseSector \/ ProgramSector)
    BY <1>1, ForeignSector, Writers DEF IInv
  <2>2. s = at /\ at \in Approved
    BY <1>1, <2>1, ErasedSector, ProgrammedSector
  <2>3. pc \in Applying
    BY <2>1 DEF EraseSector, ProgramSector, Applying, Outside, Steps
  <2> QED
    BY <1>1, <2>2, <2>3, ReservedNotApproved DEF IInv, Undisturbed
<1>2. ASSUME IInv, [Next]_vars, boot = "foreign" PROVE boot' = "foreign"
  <2>1. ~RenameScript
    BY <1>2 DEF RenameScript, IInv, Undisturbed, Applying, Outside, Steps
  <2> QED
    BY <1>2, <2>1, Writers DEF ForeignBootFiles
<1>3. IInv /\ [Next]_vars
        => /\ \A s \in Sectors : nor'[s] # nor[s] /\ nor'[s] # "foreign"
                                 => s \notin Reserved /\ nor[s] # "foreign"
           /\ boot = "foreign" => boot' = "foreign"
  BY <1>1, <1>2
<1> QED
  BY <1>3, Invariance, PTL DEF Spec, OthersPreserved
=============================================================================
