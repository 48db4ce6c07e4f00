------------------------------ MODULE NorFlash ------------------------------
(***************************************************************************)
(* The 16 MiB SPI NOR of the card as bringup/boot_update.py writes it and  *)
(* as U-Boot (board/rhinelab/lx2160x200/manifest.c) reads it at boot.      *)
(*                                                                         *)
(* A sector holds one of four contents: the bytes of the snapshot ("old"), *)
(* the bytes of the package ("new"), an erased or half-programmed sector   *)
(* ("torn"), or what somebody else wrote ("foreign").  A package image is  *)
(* a function from sectors to {"old", "new"}: "old" where it repeats the   *)
(* snapshot.                                                               *)
(***************************************************************************)
EXTENDS Integers

CONSTANTS
  LowEnd,     \* end of the first approved range (0x500000)
  MetaStart,  \* manifest slot A (0x9c0000); slot B is the next sector
  HighStart,  \* start of the high approved range (0xd00000)
  Size,       \* number of erase sectors (SIZE / ERASE)
  Covered     \* sectors whose bytes a manifest digest pins

ASSUME LayoutAssumption ==
  /\ {LowEnd, MetaStart, HighStart, Size} \subseteq Nat
  /\ 0 < LowEnd /\ LowEnd <= MetaStart
  /\ MetaStart + 2 <= HighStart /\ HighStart < Size

Sectors == 0 .. Size - 1

SlotA == MetaStart
SlotB == MetaStart + 1
Slots == {SlotA, SlotB}

ASSUME CoveredAssumption == Covered \subseteq Sectors \ Slots

Contents == {"old", "new", "torn", "foreign"}
Images   == [Sectors -> {"old", "new"}]

(***************************************************************************)
(* RANGES of boot_update.py, in the order of the tuple: the low firmware   *)
(* range, the high firmware range, then the two manifest slots.  Range 0   *)
(* is everything a transaction must leave alone (environment, identity).   *)
(***************************************************************************)
Region(s) == IF s < LowEnd THEN 1
             ELSE IF HighStart <= s THEN 2
             ELSE IF s \in Slots THEN 3
             ELSE 0

Approved  == {s \in Sectors : Region(s) # 0}
Protected == Sectors \ Approved

\* What the layout keeps for others: from the environment up to the manifests,
\* and from the update journal up to the end of the MC firmware.
Reserved == (LowEnd .. MetaStart - 1) \cup (MetaStart + 2 .. HighStart - 1)

\* Mutant: the sectors are sorted by address, the slots before the high range.
BeforeByAddress(s, t) == s < t

\* plan_sectors walks RANGES in order and each range upwards.
Before(s, t) == \/ Region(s) < Region(t)
                \/ Region(s) = Region(t) /\ s < t

-----------------------------------------------------------------------------
(***************************************************************************)
(* U-Boot.  A slot is valid when header, digest and decoding are good: a   *)
(* torn or foreign sector is not.  The sequence numbers of the two         *)
(* manifests are seq["old"] and seq["new"].                                *)
(***************************************************************************)
ValidSlot(nor, s) == nor[s] \in {"old", "new"}

\* Mutant: a tie goes to slot B.
ChoosesAOnlyIfNewer(nor, seq) ==
  /\ ValidSlot(nor, SlotA)
  /\ ~ValidSlot(nor, SlotB) \/ seq[nor[SlotA]] > seq[nor[SlotB]]

\* select_manifest: slot A when it is valid and slot B is not or is not newer.
ChoosesA(nor, seq) ==
  /\ ValidSlot(nor, SlotA)
  /\ ~ValidSlot(nor, SlotB) \/ seq[nor[SlotA]] >= seq[nor[SlotB]]

SomeSlotValid(nor) == \E s \in Slots : ValidSlot(nor, s)

Selected(nor, seq) == IF ChoosesA(nor, seq) THEN nor[SlotA] ELSE nor[SlotB]

\* The bytes that a manifest ("old" or "new") pins at sector s.
Pinned(m, image, s) == IF m = "new" THEN image[s] ELSE "old"

\* x200_flash_verify: every container and component matches the selected slot.
UBootAccepts(nor, image, seq) ==
  /\ SomeSlotValid(nor)
  /\ \A s \in Covered : nor[s] = Pinned(Selected(nor, seq), image, s)

\* composition(): both copies equal, and every payload digest matches.
Composition(nor, image) ==
  /\ ValidSlot(nor, SlotA) /\ nor[SlotA] = nor[SlotB]
  /\ \A s \in Covered : nor[s] = Pinned(nor[SlotA], image, s)
=============================================================================
