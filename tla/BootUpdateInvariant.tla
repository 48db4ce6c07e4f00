------------------------ MODULE BootUpdateInvariant -------------------------
(***************************************************************************)
(* The inductive invariant of BootUpdate: what the properties of a         *)
(* transaction need to know about every point of the program, so that each *)
(* of them is preserved by each step.                                      *)
(***************************************************************************)
EXTENDS BootUpdate

\* Where no apply is running; where one is; where it holds a sector in hand;
\* where the forward loop is still going; where it has finished.
Outside  == {"idle", "snapshot", "plan", "recheck"}
Applying == Steps \ Outside
Working  == {"erase", "program", "verified"}
Writing  == {"open", "begin", "next"} \cup Working
Written  == {"readback", "script", "rename", "pass"}

\* Where the process can be, with which memory, and what it has on record.
Bookkeeping ==
  /\ ~opened => journal = {}
  /\ pc = "snapshot" => backup = "absent"
  /\ pc = "plan" => backup = "partial"
  /\ pc \in Applying => backup = "complete"
  /\ pc \in Applying \ {"open"} => opened
  /\ pc \in Outside \cup {"open", "begin"}
       => started = {} /\ done = {} /\ ~restoring /\ ~failures
  /\ pc \in {"readback", "pass", "failed"} => ~restoring
  /\ pc \in {"audit", "report"} => restoring
  /\ restoring => FailureLogged
  /\ \A s \in started : Logged("ERASE_BEGIN", s)
  /\ started \subseteq Planned
  /\ pc \in Working => at \in started \ done

\* The protected sectors: nobody but another program writes them, and a package
\* that has got past the checks does not change them.
ProtectedKept ==
  /\ \A s \in Protected : nor[s] \in {"old", "foreign"}
  /\ pc # "idle" \/ (\E s \in Sectors : Touched(s))
       => \A s \in Protected : image[s] = "old"

\* The forward loop: the sectors in done hold the image and are closed under
\* Before, the sector in hand is the next one, all others are still old.
ForwardFlash ==
  ~restoring =>
    /\ pc \in Writing =>
         /\ \A s \in done : nor[s] = image[s]
         /\ \A s \in Approved \ done : nor[s] = "old" \/ (s = at /\ pc \in Working)
         /\ \A t \in done, s \in Planned : Before(s, t) => s \in done
    /\ pc \in Working => \A s \in Planned : Before(s, at) => s \in done
    /\ pc = "verified" => nor[at] = image[at]
    /\ pc \in Written => \A s \in Approved : nor[s] = image[s]

\* Until a failure is on record at most one sector is torn.
TornOnce ==
  ~FailureLogged => \A s, t \in Sectors : nor[s] = "torn" /\ nor[t] = "torn" => s = t

\* The boot script is replaced between the last sector and DEPLOY_PASS.
ForwardScript ==
  ~restoring =>
    /\ pc \in Writing \cup {"readback", "script", "rename"} => boot = "old"
    /\ pc = "pass" => boot = "new"
    /\ pc \in (Writing \cup Written) \ {"open"} => ~Logged("DEPLOY_PASS", Whole)

\* What the restoration has established when it is about to report.
RestoreVerdict ==
  /\ pc \in Applying \ {"open"} => ~Logged("RESTORE_PASSED", Whole)
  /\ pc = "audit" => boot = "old"
  /\ pc = "report" /\ ~failures => (\A s \in Sectors : ~Touched(s)) /\ boot = "old"

\* From the comparison in apply on, nobody else has written what apply writes:
\* not before it, and the other programs stay away while it runs.
Undisturbed ==
  pc \in Applying => (\A s \in Approved : nor[s] # "foreign") /\ boot # "foreign"

\* The inductive invariant: every reachable state of a transaction satisfies it,
\* and every step of boot_update.py, of a crash or of another program keeps it.
IInv == /\ TypeOK /\ Bookkeeping /\ ProtectedKept /\ ForwardFlash /\ TornOnce
        /\ ForwardScript /\ RestoreVerdict /\ Undisturbed
        /\ Recoverable /\ MetadataLast /\ ScriptFollowsFlash
        /\ DeployPassSound /\ RestorePassSound
=============================================================================
