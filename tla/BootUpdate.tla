----------------------------- MODULE BootUpdate -----------------------------
(***************************************************************************)
(* bringup/boot_update.py: the transaction that replaces the firmware in   *)
(* the NOR of the running card and then stages the matching boot script.   *)
(*                                                                         *)
(* One process at a time runs "prepare" or "apply" (main takes a           *)
(* non-blocking flock, so pc = "idle" is the free lock).  Every step may   *)
(* raise, the process may be killed at any point, the card may reboot, and *)
(* other programs write the regions this tool protects while it runs, and  *)
(* anything while it does not.  What survives is nor, boot, temporary,     *)
(* kernel, backup, plan and the journal; the rest is the memory of the     *)
(* process and is reset when it ends.                                      *)
(***************************************************************************)
EXTENDS NorFlash

CONSTANTS
  MaxCrashes,  \* bound: kills of the process and reboots of the card
  MaxForeign   \* bound: writes by other programs

ASSUME BoundsAssumption == MaxCrashes \in Nat /\ MaxForeign \in Nat

VARIABLES
  image,      \* firmware.bin of the package, pinned by its digest
  nor,        \* the flash: a content per sector
  boot,       \* /boot boot.scr
  temporary,  \* a *.x200-native-txn file is left beside boot.scr
  kernel,     \* /boot/Image: "old" or "new"
  bootId,     \* which boot of the card this is
  backup,     \* the "before" directory: "absent", "partial" or "complete"
  plan,       \* what plan.json pins: boot id and kernel at prepare
  opened,     \* apply-journal.jsonl exists
  journal,    \* its records, <<event, sector or Whole>>
  pc,         \* where the process is
  restoring,  \* it is in the except branch of apply
  started,    \* sectors whose erase it has announced
  done,       \* sectors finished in the current direction
  at,         \* the sector in hand
  failures,   \* a restoration step failed
  crashes, foreign  \* used up of MaxCrashes and MaxForeign

persist   == <<boot, temporary, kernel>>
bundle    == <<backup, plan, opened>>
memory    == <<restoring, started, done, at, failures>>
world     == <<bootId, crashes, foreign>>
vars      == <<image, nor, persist, bundle, journal, pc, memory, world>>

-----------------------------------------------------------------------------
Whole  == -1   \* the record is about the transaction, not about a sector
Events == {"APPLY_BEGIN", "ERASE_BEGIN", "SECTOR_VERIFIED", "DEPLOY_PASS",
           "APPLY_FAILED", "RESTORED_SECTOR", "RESTORE_PASSED", "RESTORE_FAILED"}
Steps  == {"idle", "snapshot", "plan", "recheck", "open", "begin", "next",
           "erase", "program", "verified", "readback", "script", "rename",
           "pass", "failed", "audit", "report"}

\* plan_sectors: the approved sectors in which the image differs.
Planned == {s \in Approved : image[s] # "old"}

\* The bytes write_sector is given for s in the current direction.
Wanted(s) == IF restoring THEN "old" ELSE image[s]

\* The loops over sectors (forward) and over started (in the same order).
Pending == (IF restoring THEN started ELSE Planned) \ done
First(s) == s \in Pending /\ \A t \in Pending : t = s \/ Before(s, t)

Snapshot == [s \in Sectors |-> "old"]

TypeOK ==
  /\ image \in Images
  /\ nor \in [Sectors -> Contents]
  /\ boot \in {"old", "new", "foreign"} /\ temporary \in BOOLEAN
  /\ kernel \in {"old", "new"} /\ bootId \in Nat
  /\ backup \in {"absent", "partial", "complete"}
  /\ plan \in [bootId : Nat, kernel : {"old", "new"}]
  /\ opened \in BOOLEAN /\ journal \subseteq Events \X (Sectors \cup {Whole})
  /\ pc \in Steps /\ restoring \in BOOLEAN
  /\ started \subseteq Approved /\ done \subseteq Approved
  /\ at \in Approved /\ failures \in BOOLEAN
  /\ crashes \in 0 .. MaxCrashes /\ foreign \in 0 .. MaxForeign

Init ==
  /\ image \in Images
  /\ nor = Snapshot /\ boot = "old" /\ kernel = "old" /\ bootId = 0
  /\ temporary \in BOOLEAN  \* an earlier bundle may have left its file
  /\ backup = "absent" /\ plan = [bootId |-> 0, kernel |-> "old"]
  /\ opened = FALSE /\ journal = {}
  /\ pc = "idle" /\ restoring = FALSE /\ failures = FALSE
  /\ started = {} /\ done = {} /\ at = SlotA
  /\ crashes = 0 /\ foreign = 0

\* The process ends and its memory is gone.
Exit ==
  /\ pc' = "idle" /\ restoring' = FALSE /\ failures' = FALSE
  /\ started' = {} /\ done' = {} /\ at' = SlotA

\* record(): the line is written and synced, then emit prints it.  Either may
\* raise, so a record that raised may or may not be in the journal.
Record(event, s, onOk, onRaise) ==
  \/ journal' = journal \cup {<<event, s>>} /\ pc' = onOk
  \/ journal' \in {journal, journal \cup {<<event, s>>}} /\ pc' = onRaise

-----------------------------------------------------------------------------
(* prepare *)

\* inputs() and validated_plan(): the package is a composition that changes
\* nothing outside the approved ranges.
ValidPackage ==
  /\ Composition(image, image)
  /\ \A s \in Protected : image[s] = "old"

\* All reads and checks; they change nothing when they fail.  With an existing
\* backup BACKUP.mkdir raises, again before anything changed.
PrepareRead ==
  /\ pc = "idle" /\ backup = "absent"
  /\ ValidPackage
  /\ nor = Snapshot /\ boot = "old"
  /\ Planned # {}
  /\ plan' = [bootId |-> bootId, kernel |-> kernel]
  /\ pc' = "snapshot"
  /\ UNCHANGED <<image, nor, persist, backup, opened, journal, memory, world>>

PrepareSnapshot ==
  /\ pc = "snapshot"
  /\ \/ pc' = "plan" /\ backup' = "partial" /\ UNCHANGED memory
     \/ Exit /\ backup' \in {backup, "partial"}
  /\ UNCHANGED <<image, nor, persist, plan, opened, journal, world>>

PreparePlan ==
  /\ pc = "plan"
  /\ \/ pc' = "recheck" /\ backup' = "complete" /\ UNCHANGED memory
     \/ Exit /\ backup' \in {backup, "complete"}
  /\ UNCHANGED <<image, nor, persist, plan, opened, journal, world>>

\* The flash is compared once more; the plan stays even when it has changed.
PrepareRecheck ==
  /\ pc = "recheck"
  /\ Exit
  /\ UNCHANGED <<image, nor, persist, bundle, journal, world>>

-----------------------------------------------------------------------------
(* apply, forward *)

\* Mutant: apply trusts the comparison that prepare has made.
ApplyCheckStale ==
  /\ pc = "idle" /\ backup = "complete"
  /\ plan = [bootId |-> bootId, kernel |-> kernel]
  /\ ValidPackage
  /\ pc' = "open"
  /\ UNCHANGED <<image, nor, persist, bundle, journal, memory, world>>

\* Everything apply requires before it opens the journal.
ApplyCheck ==
  /\ pc = "idle" /\ backup = "complete"
  /\ plan = [bootId |-> bootId, kernel |-> kernel]
  /\ nor = Snapshot /\ boot = "old"
  /\ ValidPackage
  /\ pc' = "open"
  /\ UNCHANGED <<image, nor, persist, bundle, journal, memory, world>>

\* open(..., 'x') refuses an existing journal; the device open may raise too.
ApplyOpen ==
  /\ pc = "open"
  /\ \/ ~opened /\ opened' = TRUE /\ pc' = "begin" /\ UNCHANGED memory
     \/ Exit /\ opened' \in {opened, TRUE}
  /\ UNCHANGED <<image, nor, persist, backup, plan, journal, world>>

ApplyBegin ==
  /\ pc = "begin"
  /\ Record("APPLY_BEGIN", Whole, "next", "failed")
  /\ UNCHANGED <<image, nor, persist, bundle, memory, world>>

\* Mutant: failures are collected in both directions.
SectorRaisedCollected == pc' = "next" /\ failures' = TRUE /\ done' = done \cup {at}

\* Mutant: the restoration tries the same sector again until it works.
SectorRaisedRetried ==
  IF restoring
    THEN pc' = "next" /\ failures' = TRUE /\ UNCHANGED done
    ELSE pc' = "failed" /\ UNCHANGED <<failures, done>>

\* The sector in hand raised: forward that fails the apply, in the restoration
\* it is collected and the loop goes on.
SectorRaised ==
  IF restoring
    THEN pc' = "next" /\ failures' = TRUE /\ done' = done \cup {at}
    ELSE pc' = "failed" /\ UNCHANGED <<failures, done>>

\* Mutant: the erase is recorded with the verification only.
NextSectorUnrecorded ==
  /\ pc = "next"
  /\ \E s \in Pending : First(s) /\ at' = s /\ started' = started \cup {s}
  /\ pc' = "erase"
  /\ UNCHANGED <<image, nor, persist, bundle, journal, restoring, done, failures, world>>

\* Head of both loops.  Forward, ERASE_BEGIN is on disk before the sector joins
\* started and is erased; the restoration announces nothing.
NextSector ==
  /\ pc = "next"
  /\ \E s \in Pending :
       /\ First(s) /\ at' = s
       /\ IF restoring
            THEN pc' = "erase" /\ UNCHANGED <<journal, started>>
            ELSE /\ Record("ERASE_BEGIN", s, "erase", "failed")
                 /\ started' = IF pc' = "erase" THEN started \cup {s} ELSE started
  /\ UNCHANGED <<image, nor, persist, bundle, restoring, done, failures, world>>

SectorsFinished ==
  /\ pc = "next" /\ Pending = {}
  /\ pc' = IF restoring THEN "script" ELSE "readback"
  /\ UNCHANGED <<image, nor, persist, bundle, journal, memory, world>>

\* write_sector, first half: flash_erase and its readback.
EraseSector ==
  /\ pc = "erase"
  /\ \/ /\ nor' = [nor EXCEPT ![at] = "torn"] /\ pc' = "program"
        /\ UNCHANGED <<failures, done>>
     \/ /\ nor' \in {nor, [nor EXCEPT ![at] = "torn"]}
        /\ SectorRaised
  /\ UNCHANGED <<image, persist, bundle, journal, restoring, started, at, world>>

\* write_sector, second half: program and compare.
ProgramSector ==
  /\ pc = "program"
  /\ \/ /\ nor' = [nor EXCEPT ![at] = Wanted(at)] /\ pc' = "verified"
        /\ UNCHANGED <<failures, done>>
     \/ /\ nor' \in {nor, [nor EXCEPT ![at] = Wanted(at)]}
        /\ SectorRaised
  /\ UNCHANGED <<image, persist, bundle, journal, restoring, started, at, world>>

SectorWritten ==
  /\ pc = "verified"
  /\ \/ /\ journal' = journal \cup
             {<<IF restoring THEN "RESTORED_SECTOR" ELSE "SECTOR_VERIFIED", at>>}
        /\ pc' = "next" /\ done' = done \cup {at} /\ UNCHANGED failures
     \/ /\ journal' \in {journal, journal \cup
             {<<IF restoring THEN "RESTORED_SECTOR" ELSE "SECTOR_VERIFIED", at>>}}
        /\ SectorRaised
  /\ UNCHANGED <<image, nor, persist, bundle, restoring, started, at, world>>

\* Mutant: DEPLOY_PASS is recorded without staging the boot script.
ReadbackFlashThenPass ==
  /\ pc = "readback"
  /\ \/ nor = image /\ pc' = "pass"
     \/ pc' = "failed"
  /\ UNCHANGED <<image, nor, persist, bundle, journal, memory, world>>

\* The whole flash, protected regions included, must now be the image.
ReadbackFlash ==
  /\ pc = "readback"
  /\ \/ nor = image /\ pc' = "script"
     \/ pc' = "failed"
  /\ UNCHANGED <<image, nor, persist, bundle, journal, memory, world>>

-----------------------------------------------------------------------------
(* replace_file on boot.scr, forward with the new script, in the restoration *)
(* with the old one and only when the file differs.                          *)

ScriptRaised ==
  IF restoring THEN pc' = "report" /\ failures' = TRUE
               ELSE pc' = "failed" /\ UNCHANGED failures

WantedScript == IF restoring THEN "old" ELSE "new"

\* Mutant: the restoration forgets the boot script.
ScriptForgotten ==
  /\ pc = "script" /\ restoring
  /\ pc' = "audit"
  /\ UNCHANGED <<image, nor, persist, bundle, journal, memory, world>>

\* The restoration finds the old script in place; the read may raise as well.
ScriptUnchanged ==
  /\ pc = "script" /\ restoring /\ boot = "old"
  /\ \/ pc' = "audit" /\ UNCHANGED failures
     \/ ScriptRaised
  /\ UNCHANGED <<image, nor, persist, bundle, journal,
                 restoring, started, done, at, world>>

\* save_new creates the temporary file exclusively and verifies it.
StageScript ==
  /\ pc = "script" /\ (restoring => boot # "old")
  /\ \/ ~temporary /\ temporary' = TRUE /\ pc' = "rename" /\ UNCHANGED failures
     \/ temporary' \in {temporary, TRUE} /\ ScriptRaised
  /\ UNCHANGED <<image, nor, boot, kernel, bundle, journal,
                 restoring, started, done, at, world>>

\* os.replace, the directory sync and the comparison after it.
RenameScript ==
  /\ pc = "rename"
  /\ \/ /\ boot' = WantedScript /\ temporary' = FALSE
        /\ pc' = (IF restoring THEN "audit" ELSE "pass") /\ UNCHANGED failures
     \/ /\ \/ boot' = WantedScript /\ temporary' = FALSE
           \/ UNCHANGED <<boot, temporary>>
        /\ ScriptRaised
  /\ UNCHANGED <<image, nor, kernel, bundle, journal,
                 restoring, started, done, at, world>>

\* DEPLOY_PASS, and the process ends.
ApplyPass ==
  /\ pc = "pass"
  /\ \/ journal' = journal \cup {<<"DEPLOY_PASS", Whole>>} /\ Exit
     \/ /\ journal' \in {journal, journal \cup {<<"DEPLOY_PASS", Whole>>}}
        /\ pc' = "failed" /\ UNCHANGED memory
  /\ UNCHANGED <<image, nor, persist, bundle, world>>

-----------------------------------------------------------------------------
(* apply, the except branch *)

\* Mutant: the failure is not on record before the restoration starts.
ApplyFailedUnrecorded ==
  /\ pc = "failed"
  /\ pc' = "next" /\ restoring' = TRUE /\ done' = {}
  /\ UNCHANGED <<image, nor, persist, bundle, journal, started, at, failures, world>>

\* The first statement of the handler is a record: when it raises, nothing
\* below it runs.
ApplyFailed ==
  /\ pc = "failed"
  /\ \/ /\ journal' = journal \cup {<<"APPLY_FAILED", Whole>>}
        /\ pc' = "next" /\ restoring' = TRUE /\ done' = {}
        /\ UNCHANGED <<started, at, failures>>
     \/ /\ journal' \in {journal, journal \cup {<<"APPLY_FAILED", Whole>>}}
        /\ Exit
  /\ UNCHANGED <<image, nor, persist, bundle, world>>

\* require(read_flash() == original): the read itself may raise as well.
AuditFlash ==
  /\ pc = "audit" /\ pc' = "report"
  /\ failures' \in (IF nor = Snapshot THEN {failures, TRUE} ELSE {TRUE})
  /\ UNCHANGED <<image, nor, persist, bundle, journal,
                 restoring, started, done, at, world>>

\* TRANSACTION_RESTORE(passed = not failures), written or not, and re-raise.
ReportRestore ==
  /\ pc = "report"
  /\ journal' \in {journal, journal \cup
       {<<IF failures THEN "RESTORE_FAILED" ELSE "RESTORE_PASSED", Whole>>}}
  /\ Exit
  /\ UNCHANGED <<image, nor, persist, bundle, world>>

-----------------------------------------------------------------------------
(* The world *)

\* The process is killed, or the card loses power and boots again.
Crash ==
  /\ crashes < MaxCrashes /\ crashes' = crashes + 1
  /\ pc # "idle"
  /\ Exit
  /\ bootId' \in {bootId, bootId + 1}
  /\ UNCHANGED <<image, nor, persist, bundle, journal, foreign>>

Reboot ==
  /\ crashes < MaxCrashes /\ crashes' = crashes + 1
  /\ pc = "idle"
  /\ bootId' = bootId + 1
  /\ UNCHANGED <<image, nor, persist, bundle, journal, pc, memory, foreign>>

\* fw_setenv and the identity tools write the protected sectors whenever they
\* like; another flashing tool writes the rest only while this one is not run.
ForeignFlash ==
  /\ foreign < MaxForeign /\ foreign' = foreign + 1
  /\ \E s \in (IF pc = "idle" THEN Sectors ELSE Protected) :
       nor' = [nor EXCEPT ![s] = "foreign"]
  /\ UNCHANGED <<image, persist, bundle, journal, pc, memory, bootId, crashes>>

ForeignBootFiles ==
  /\ foreign < MaxForeign /\ foreign' = foreign + 1
  /\ pc = "idle"
  /\ \/ boot' = "foreign" /\ UNCHANGED kernel
     \/ kernel' = "new" /\ UNCHANGED boot
  /\ UNCHANGED <<image, nor, temporary, bundle, journal, pc, memory, bootId, crashes>>

-----------------------------------------------------------------------------
Prepare == PrepareSnapshot \/ PreparePlan \/ PrepareRecheck

Forward == \/ ApplyOpen \/ ApplyBegin \/ ReadbackFlash \/ ApplyPass

Both == \/ NextSector \/ SectorsFinished
        \/ EraseSector \/ ProgramSector \/ SectorWritten
        \/ ScriptUnchanged \/ StageScript \/ RenameScript

Restore == ApplyFailed \/ AuditFlash \/ ReportRestore

\* The steps of a process that has been started.
Running == Prepare \/ Forward \/ Both \/ Restore

Next == \/ PrepareRead \/ ApplyCheck
        \/ Running
        \/ Crash \/ Reboot \/ ForeignFlash \/ ForeignBootFiles

Spec == Init /\ [][Next]_vars

\* A started process keeps running: flash_erase has a timeout, a program call
\* that makes no progress raises, everything else is straight-line code.
FairSpec == Spec /\ WF_vars(Running)

-----------------------------------------------------------------------------
(* Properties *)

Logged(event, s) == <<event, s>> \in journal
FailureLogged    == Logged("APPLY_FAILED", Whole)

\* Bytes this transaction has put into the flash.
Touched(s) == nor[s] \in {"new", "torn"}

\* No sector is overwritten before its erase is on record in the journal and
\* the whole snapshot is on disk: whatever the moment of a crash, the journal
\* names every sector to look at and the backup holds its bytes.
Recoverable == \A s \in Sectors :
  Touched(s) => Logged("ERASE_BEGIN", s) /\ backup = "complete"

\* "metadata is committed after all other payloads": until a failure is on
\* record, a new manifest in either slot means that every approved sector
\* outside the slots already holds the new image.
MetadataLast ==
  ~FailureLogged /\ (\E s \in Slots : nor[s] = "new")
    => \A s \in Approved \ Slots : nor[s] \in {image[s], "foreign"}

\* Until a failure is on record one manifest slot always survives: the update
\* never has both slots erased or half written at once.
ManifestRedundancy ==
  ~FailureLogged /\ (\A s \in Slots : nor[s] # "foreign") => SomeSlotValid(nor)

\* From the moment slot A is programmed on, U-Boot accepts the new composition,
\* also with slot B old or torn, when the package is no older than what it
\* replaces: a crash while slot B is rewritten leaves a card that boots.
CommitPoint ==
  /\ ~FailureLogged /\ nor[SlotA] = "new"
  /\ \A s \in Sectors : nor[s] # "foreign"
  => \A seq \in [{"old", "new"} -> 0 .. 1] : seq["new"] >= seq["old"]
       => UBootAccepts(nor, image, seq) /\ Selected(nor, seq) = "new"

\* The staged boot script never runs ahead of the firmware: until a failure is
\* on record, a new boot script means that every approved sector is new.
ScriptFollowsFlash ==
  ~FailureLogged /\ boot = "new"
    => \A s \in Approved : nor[s] \in {image[s], "foreign"}

\* DEPLOY_PASS in a journal without APPLY_FAILED speaks the truth for good: the
\* approved sectors and the boot script are the new ones, or were changed since
\* by somebody else.
DeployPassSound ==
  ~FailureLogged /\ Logged("DEPLOY_PASS", Whole)
    => /\ \A s \in Approved : nor[s] \in {image[s], "foreign"}
       /\ boot \in {"new", "foreign"}

\* TRANSACTION_RESTORE passed=true speaks the truth for good: no byte of the
\* package is left in the flash or in the boot directory.
RestorePassSound ==
  Logged("RESTORE_PASSED", Whole)
    => (\A s \in Sectors : ~Touched(s)) /\ boot # "new"

\* What belongs to others is left alone: no step of the tool changes a sector
\* that the layout keeps for them, and none overwrites what another program put
\* into a sector or into the boot script between two runs of the tool (before
\* prepare, or between prepare and apply), which the backup does not hold.
OthersPreserved ==
  [][/\ \A s \in Sectors : nor'[s] # nor[s] /\ nor'[s] # "foreign"
                           => s \notin Reserved /\ nor[s] # "foreign"
     /\ boot = "foreign" => boot' = "foreign"]_vars

\* Every started prepare or apply comes to an end, failures included.
Terminates == pc # "idle" ~> pc = "idle"

\* "Best-effort repair of this transaction": an apply that fails after it has
\* started to erase goes on to restore what it erased.
FailedApplyIsRepaired == (pc = "failed" /\ started # {}) ~> restoring

=============================================================================
