------------------------------ MODULE EnvSlots ------------------------------
(***************************************************************************)
(* The U-Boot environment in its two NOR slots: uboot_env.py, which adapts *)
(* the redundant save and load of env/sf.c; environment/inspect_env.py,    *)
(* which reads the slots offline; and bringup/uboot_env_accept.py, which   *)
(* accepts a board on two saves of one boot.  The parts of U-Boot that are *)
(* not in the repository (marked external) are as the adapter quotes them. *)
(*                                                                         *)
(* A slot is written whole under a CRC that leaves out its flags byte.     *)
(* Power may go, and a flash command may fail or lie, at every step.       *)
(***************************************************************************)
EXTENDS Integers, Sequences

CONSTANTS
  Values,   \* the environments a user may save
  Serials,  \* flags bytes another tool may have left
  Default   \* the compiled-in environment

ASSUME EnvAssumption == Serials \subseteq 0 .. 255 /\ {0, 1, 255} \subseteq Serials
                        /\ Default \notin Values

VARIABLES
  slot,     \* the primary (1) and the redundant (2) slot of the NOR
  valid,    \* gd->env_valid: 0 ENV_INVALID, 1 ENV_VALID, 2 ENV_REDUND
  step,     \* of env_sf_save; "off" before the first boot
  want,     \* the environment being saved
  kept, tried,  \* history: what a boot must find, what was tried since
  blind,        \* history: a slot could not be read and nothing was saved since
  reports       \* the last "Valid environment" lines of this boot

vars == <<slot, valid, step, want, kept, tried, blind, reports>>

Slots   == {1, 2}
Blank   == [state |-> "blank", flags |-> 255, value |-> Default]
Corrupt == {[state |-> "corrupt", flags |-> f, value |-> Default] : f \in {0, 1, 255}}
Sound(f, v) == [state |-> "valid", flags |-> f, value |-> v]
Contents    == {Blank} \cup Corrupt \cup {Sound(f, v) : f \in Serials, v \in Values}

TypeOK ==
  /\ slot \in [Slots -> Contents] /\ valid \in 0 .. 2
  /\ step \in {"off", "idle", "erase", "write", "verify", "obsolete", "check"}
  /\ want \in Values \cup {Default} /\ kept \in Values \cup {Default}
  /\ tried \subseteq Values /\ blind \in BOOLEAN
  /\ reports \in Seq(Slots \X Values) /\ Len(reports) <= 2

-----------------------------------------------------------------------------
\* env_check_redund: the slot that is used, of those that could be read.
Chosen(good) ==
  LET a == slot[1].flags  b == slot[2].flags IN
  IF good = {} THEN 0
  ELSE IF good # Slots THEN CHOOSE s \in good : TRUE
  ELSE IF \/ a = 255 /\ b = 0
          \/ a < b /\ ~(a = 0 /\ b = 255) THEN 2 ELSE 1

Good == {s \in Slots : slot[s].state = "valid"}
Holds(s) == IF s = 0 THEN Default ELSE slot[s].value

\* Mutant: the wrap is looked for in one direction only.
SelectOneWay ==
  LET a == slot[1]  b == slot[2] IN
  IF a.state # "valid" THEN IF b.state = "valid" THEN 2 ELSE 0
  ELSE IF b.state # "valid" THEN 1
  ELSE IF a.flags = 255 /\ b.flags = 0 THEN 2
  ELSE IF b.flags > a.flags THEN 2 ELSE 1

\* select_slot of the offline inspector.
SelectSlot ==
  LET a == slot[1]  b == slot[2] IN
  IF a.state # "valid" THEN IF b.state = "valid" THEN 2 ELSE 0
  ELSE IF b.state # "valid" THEN 1
  ELSE IF a.flags = 255 /\ b.flags = 0 THEN 2
  ELSE IF b.flags = 255 /\ a.flags = 0 THEN 1
  ELSE IF b.flags > a.flags THEN 2 ELSE 1

-----------------------------------------------------------------------------
Init ==
  /\ slot \in [Slots -> Contents]
  /\ valid = 0 /\ step = "off" /\ want = Default
  /\ kept = Default /\ tried = {} /\ blind = TRUE /\ reports = <<>>

\* Power-on, reset or power loss at any moment: env_sf_load, x200_env_import.
\* Two blank slots, or none that is valid, leave ENV_INVALID and the defaults.
Boot ==
  /\ \E unread \in SUBSET Slots :
       /\ valid' = Chosen(Good \ unread)
       /\ blind' = (unread # {})
       /\ kept' = Holds(valid')
  /\ step' = "idle" /\ tried' = {} /\ reports' = <<>>
  /\ UNCHANGED <<slot, want>>

New == IF valid = 1 THEN 2 ELSE 1
Old == 3 - New

\* Another environment each time, so that the copies can be told apart.
Save(v) ==
  /\ step = "idle" /\ v # kept /\ v \notin tried
  /\ want' = v /\ tried' = tried \cup {v} /\ step' = "erase"
  /\ UNCHANGED <<slot, valid, kept, blind, reports>>

Becomes(s, contents) == slot' = [slot EXCEPT ![s] = contents]
Fails == step' = "idle" /\ reports' = <<>>   \* the acceptance stops here
Goes(l) == step' = l /\ UNCHANGED reports
Pending == UNCHANGED <<valid, want, kept, tried, blind>>

\* The flash may say that it did what it did not, or did in part.
Erase ==
  /\ step = "erase" /\ Pending
  /\ \E c \in Corrupt \cup {slot[New], Blank} : Becomes(New, c)
  /\ Goes("write") \/ Fails

\* Only an erased slot takes the copy.
Write ==
  /\ step = "write" /\ Pending
  /\ \E c \in Corrupt \cup {slot[New]} \cup IF slot[New] = Blank THEN {Sound(1, want)} ELSE {} :
       Becomes(New, c)
  /\ Goes("verify") \/ Fails

\* Mutant: upstream; the old copy is retired without a look at the new one.
VerifyUnread ==
  /\ step = "verify" /\ Goes("obsolete") /\ UNCHANGED slot /\ Pending

\* x200_env_verify of the new copy, every byte.
Verify ==
  /\ step = "verify" /\ UNCHANGED slot /\ Pending
  /\ \/ slot[New] = Sound(1, want) /\ Goes("obsolete")
     \/ Fails

\* One byte is programmed; bits only go from 1 to 0.
Retired(c) == IF c.state = "blank" THEN [c EXCEPT !.state = "corrupt", !.flags = 0]
              ELSE [c EXCEPT !.flags = 0]

Obsolete ==
  /\ step = "obsolete" /\ Pending
  /\ \E c \in {slot[Old], Retired(slot[Old])} : Becomes(Old, c)
  /\ Goes("check") \/ Fails

\* Mutant: upstream; a save out of ENV_INVALID is taken for one to slot 2.
SavedToggle == IF valid = 2 THEN 1 ELSE 2

\* The slot that gd->env_valid and the report name after a save.
Saved == New

Last(s) == IF Len(s) < 2 THEN s ELSE Tail(s)

\* Mutant: the old copy is taken for retired once the command was given.
CheckUnread ==
  /\ step = "check" /\ UNCHANGED <<slot, want>>
  /\ valid' = Saved /\ step' = "idle"
  /\ reports' = Append(Last(reports), <<Saved, want>>)
  /\ kept' = want /\ tried' = {} /\ blind' = FALSE

Check ==
  /\ step = "check" /\ UNCHANGED <<slot, want>>
  /\ \/ /\ slot[Old].flags = 0
        /\ valid' = Saved /\ step' = "idle"
        /\ reports' = Append(Last(reports), <<Saved, want>>)
        /\ kept' = want /\ tried' = {} /\ blind' = FALSE
     \/ Fails /\ UNCHANGED <<valid, kept, tried, blind>>

\* verify of the acceptance tool: two saves of one boot that were done.
Accepted == step = "idle" /\ Len(reports) = 2

Next == \/ Boot \/ Erase \/ Write \/ Verify \/ Obsolete \/ Check
        \/ \E v \in Values : Save(v)

Spec == Init /\ [][Next]_vars

-----------------------------------------------------------------------------
(* Whatever fails and wherever power goes, the next boot that can read     *)
(* both slots finds what was last saved or found, or what was tried since: *)
(* the new copy is verified before the old one is retired, and the slot    *)
(* that is erased is never the one in use.  After a boot that could not    *)
(* read a slot this holds from the first save that is reported as done:    *)
(* until then the save may erase the newer copy, which it never saw.       *)
Durable == ~blind => Holds(Chosen(Good)) \in {kept} \cup tried

(* What the acceptance tool concludes is so: two saves of one boot that    *)
(* report success report different slots, and leave both valid, the first  *)
(* retired and the second the one a boot selects.                          *)
AcceptedIsRedundant ==
  Accepted =>
    LET first == reports[1]  second == reports[2] IN
    /\ first[1] # second[1] /\ Chosen(Good) = second[1]
    /\ slot[second[1]] = Sound(1, second[2])
    /\ slot[first[1]] = Sound(0, first[2])

(* The offline inspector names the slot that U-Boot will use, for slots    *)
(* left by any tool at any serial number, the wrap from 255 to 0 included, *)
(* and at every moment of a save that power may end.                       *)
InspectorAgrees == SelectSlot = Chosen(Good)

(* Steps of a save, faults and losses of power implement EnvStore: what a  *)
(* boot finds goes from the environment that was kept to the one that is   *)
(* saved, perhaps back, and never to an earlier attempt; and a success is  *)
(* reported only of what a boot finds (uboot_env.py:84-149).               *)
Store == INSTANCE EnvStore WITH
           found <- Holds(Chosen(Good)), busy <- step \notin {"off", "idle"}
ImplementsEnvStore == Store!Init /\ [][Store!Next]_(Store!vars)
=============================================================================
