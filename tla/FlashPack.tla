------------------------------ MODULE FlashPack -----------------------------
(***************************************************************************)
(* The producers of what U-Boot boots and boot_update.py installs:         *)
(*   flash-layout/validate-layout.py  the layout, checked before a release *)
(*   flash-layout/pack_flash.py       an image of one NOR bank             *)
(*   bringup/package_boot_update.py   an update out of a snapshot and one  *)
(* and the reader of the image, board/rhinelab/lx2160x200/manifest.c, in   *)
(* another language with its own table of offsets and limits and its own   *)
(* idea of how a number is written.                                        *)
(*                                                                         *)
(* The NOR is counted in erase sectors.  A file is a sequence of cells     *)
(* <<what, version, index>>, one to a sector; its digest is the file.      *)
(***************************************************************************)
EXTENDS Integers, Sequences, FiniteSets

CONSTANTS
  Table,      \* manifest.c: offset and limit of every region it reads
  Anchors,    \* validate-layout.py: UPSTREAM_ANCHORS and the four manifest_names
  Capacity,   \* sectors of one bank
  Layouts,    \* the layout files the tools may be given
  Builds,     \* what a build may leave behind: files by name
  Snapshots,  \* NOR contents read back from a card
  LowEnd, MetaStart, HighStart  \* RANGES of boot_update.py, as in NorFlash

VARIABLES
  layout, built,  \* the layout in use; the files the receipts were written for
  file,           \* the files as the packer finds them
  long,           \* the manifest: "fits", "fills" its slot, or is too "long"
  pc, put,        \* where the packer is; regions written
  image,          \* the image; then what is packaged
  snapshot        \* the NOR contents the package is made for

vars == <<layout, built, file, long, pc, put, image, snapshot>>

Cells == 0 .. Capacity - 1
FF    == <<"ff", "", 0>>
Blank == [c \in Cells |-> FF]
Files == {"rcw", "pbl", "bl2", "fip", "bl31", "uboot", "ddr", "mc", "dpl", "dpc", "dtb"}

\* payloads of build_image, in its order, and the region of each.
Payloads == <<"pbl", "fip", "ddr", "mc", "dpl", "dpc", "dtb">>
RegionOf == [pbl |-> "boot-pbl", fip |-> "fip", ddr |-> "ddr-phy-fip", mc |-> "mc-firmware",
             dpl |-> "dpl", dpc |-> "dpc", dtb |-> "linux-dtb"]
Bl2Offset == 1
Components == {"rcw", "bl2", "bl31", "uboot", "ddr", "mc", "dpl", "dpc", "dtb"}
Inside  == [c \in {"rcw", "bl2", "bl31", "uboot"} |-> IF c \in {"rcw", "bl2"} THEN "pbl" ELSE "fip"]
Holder(c) == RegionOf[IF c \in DOMAIN Inside THEN Inside[c] ELSE c]

\* erased_regions: what the image leaves to others.
Erased == {"env-primary", "env-redundant", "env-reserved", "secure-headers",
           "fuse-provisioning-capsule", "cpld-firmware", "platform-reserved-a",
           "platform-reserved-b", "update-journal", "manifest-future"}

Regions == {RegionOf[n] : n \in DOMAIN RegionOf}

\* The two tables agree on what both name.  The PBL comes first; where the
\* firmware's limit of a payload ends there is, at the latest, another anchor or
\* the end of the bank; no anchor is right behind the primary environment.
ASSUME TableAssumption ==
  /\ Capacity \in Nat
  /\ Regions \cup {"manifest-a", "manifest-b"} \subseteq DOMAIN Table \cap DOMAIN Anchors
  /\ {"env-primary", "update-journal", "manifest-future"} \subseteq DOMAIN Anchors
  /\ \A n \in DOMAIN Table : Table[n].offset \in Nat /\ Table[n].limit \in Nat
  /\ \A n \in DOMAIN Anchors : Anchors[n] \in Nat
  /\ \A n \in DOMAIN Table \cap DOMAIN Anchors : Table[n].offset = Anchors[n]
  /\ Table["boot-pbl"].offset = 0
  /\ \A n \in Regions : LET end == Table[n].offset + Table[n].limit IN
       end >= Capacity \/ \E m \in DOMAIN Anchors : Anchors[m] \in Table[n].offset + 1 .. end
  /\ LET next == Anchors["env-primary"] + 1 IN
       next < Capacity /\ \A n \in DOMAIN Anchors : Anchors[n] # next

IsSequence(f) == f \in Seq({f[i] : i \in DOMAIN f})

\* How an offset may be written so that both tools read it: a string as manifest.c
\* takes it, "hex"; one that differs in case, "upper"; a string of decimal digits;
\* or a JSON number.
Forms == {"hex", "upper", "decimal", "number"}

\* A layout file is a list of regions and environment_policy, its numbers whole and
\* not negative; its internal_layout puts BL2 at Bl2Offset.
ASSUME LayoutsAssumption ==
  \A l \in Layouts :
    /\ IsSequence(l.regions)
    /\ \A i \in DOMAIN l.regions : LET r == l.regions[i] IN
         r.offset \in Nat /\ r.size \in Nat /\ r.form \in Forms
    /\ DOMAIN l.env = {"env-primary", "env-redundant"}

\* RANGES of boot_update.py are in order and end in the bank.
ASSUME RangesAssumption ==
  /\ {LowEnd, MetaStart, HighStart} \subseteq Nat
  /\ 0 < LowEnd /\ LowEnd <= MetaStart
  /\ MetaStart + 2 <= HighStart /\ HighStart < Capacity

\* A build leaves whole files that are not empty; the FIP starts with its table.
ASSUME BuildsAssumption ==
  \A b \in Builds :
    /\ \A n \in Files : IsSequence(b[n]) /\ b[n] # <<>>
    /\ \A k \in 1 .. 2 : b["fip"][1][2].entry[k].offset \in Nat

-----------------------------------------------------------------------------
(* validate-layout.py *)

Has(l, n)   == \E i \in DOMAIN l.regions : l.regions[i].name = n
Named(l, n) == l.regions[CHOOSE i \in DOMAIN l.regions : l.regions[i].name = n]
Ends(l, i)  == IF i = 0 THEN 0 ELSE l.regions[i].offset + l.regions[i].size
NamesUnique(l) == Cardinality({l.regions[i].name : i \in DOMAIN l.regions}) = Len(l.regions)

\* Mutant: regions may stand anywhere, as long as they do not overlap.
LayoutContiguous(l) ==
  /\ NamesUnique(l)
  /\ \A i \in DOMAIN l.regions : LET r == l.regions[i] IN
       r.offset = Ends(l, i - 1) /\ r.max \in 0 .. r.size
  /\ Ends(l, Len(l.regions)) = Capacity

\* Numbers are compared by value, however they are written.
LayoutPasses(l) ==
  /\ NamesUnique(l)
  /\ \A i \in DOMAIN l.regions : LET r == l.regions[i] IN
       r.offset = Ends(l, i - 1) /\ r.size > 0 /\ r.max \in 0 .. r.size /\ Ends(l, i) <= Capacity
  /\ Ends(l, Len(l.regions)) = Capacity
  /\ \A n \in DOMAIN Anchors : Has(l, n) /\ Named(l, n).offset = Anchors[n]
  /\ \A n \in DOMAIN l.env :
       Has(l, n) /\ Named(l, n).offset = l.env[n] /\ Named(l, n).size = 1
  /\ \A n \in {"manifest-a", "manifest-b", "update-journal", "manifest-future"} :
       Named(l, n).size = 1
  /\ Named(l, "linux-dtb").size = Table["linux-dtb"].limit

-----------------------------------------------------------------------------
(* pack_flash.py *)

\* verify_input_receipts and the pinned MC firmware: every file is the one
\* that was built, and the PBL holds its RCW with the PBI length updated.
VerifyInputReceipts ==
  /\ \A n \in Files : file[n] = built[n]
  /\ file["pbl"][1] = [file["rcw"][1] EXCEPT ![3] = @ + 6]

Slice(f, off, n) == SubSeq(f, off + 1, off + n)
Toc(f) == f[1][2]
Start(e) == e.offset
End(e)   == e.offset + e.size

\* Mutant: leaves are looked at one by one.
LeavesApart ==
  LET f == file["fip"]  t == Toc(f) IN
  /\ {t.entry[1].id, t.entry[2].id} = {"bl31", "uboot"}
  /\ \A k \in 1 .. 2 : LET e == t.entry[k] IN
       /\ e.size = Len(file[e.id]) /\ Start(e) >= 1 /\ End(e) <= Len(f)
       /\ Slice(f, Start(e), e.size) = file[e.id]
  /\ t.end = Len(f)

\* verify_fip_leaves: both leaves, once each, in bounds, as supplied, apart.
VerifyFipLeaves ==
  LET f == file["fip"]  t == Toc(f) IN
  /\ {t.entry[1].id, t.entry[2].id} = {"bl31", "uboot"}
  /\ \A k \in 1 .. 2 : LET e == t.entry[k] IN
       /\ e.size = Len(file[e.id]) /\ Start(e) >= 1 /\ End(e) <= Len(f)
       /\ Slice(f, Start(e), e.size) = file[e.id]
  /\ t.end = Len(f)
  /\ End(t.entry[1]) <= Start(t.entry[2]) \/ End(t.entry[2]) <= Start(t.entry[1])

Init ==
  /\ layout \in Layouts /\ built \in Builds
  /\ \E changed \in {{}} \cup {{n} : n \in Files} :    \* since the receipts
       file = [n \in Files |-> IF n \in changed THEN <<<<n, "later", 1>>>> ELSE built[n]]
  /\ long \in {"fits", "fills", "long"}
  /\ pc = "check" /\ put = 0 /\ image = Blank /\ snapshot = Blank

Given == UNCHANGED <<layout, built, file, long>>
Refuse == pc' = "refused" /\ UNCHANGED <<put, image, snapshot>>

\* Everything build_image asks of its inputs before it writes.
CheckInputs ==
  /\ pc = "check" /\ Given
  /\ IF /\ NamesUnique(layout)
        /\ VerifyInputReceipts /\ VerifyFipLeaves
        /\ Slice(file["pbl"], Bl2Offset, Len(file["pbl"]) - Bl2Offset) = file["bl2"]
     THEN pc' = "put" /\ UNCHANGED <<put, image, snapshot>>
     ELSE Refuse

\* put_region: into a region there is, within its limits and erased, or it raises.
Room(img, n, f) ==
  /\ Has(layout, n)
  /\ LET r == Named(layout, n) IN
       /\ Len(f) <= r.size /\ Len(f) <= r.max
       /\ \A c \in r.offset .. r.offset + r.size - 1 : c \in Cells => img[c] = FF
Over(img, off, f) == [c \in Cells |-> IF c \in off .. off + Len(f) - 1 THEN f[c - off + 1] ELSE img[c]]

PutRegion ==
  /\ pc = "put" /\ put < Len(Payloads) /\ Given
  /\ LET n == Payloads[put + 1]  r == RegionOf[n] IN
       IF Room(image, r, file[n])
       THEN /\ image' = Over(image, Named(layout, r).offset, file[n]) /\ put' = put + 1
            /\ UNCHANGED <<pc, snapshot>>
       ELSE Refuse

Record(f, off, form) == [offset |-> off, form |-> form, size |-> Len(f), digest |-> f]

\* component() formats its offset; a container has the one of the layout file as
\* it is written there.
Manifest ==
  LET region(n) == Named(layout, Holder(n)) IN
  [component |-> [c \in Components |->
     CASE c = "rcw" -> Record(<<file["pbl"][1]>>, 0, "hex")
       [] c = "bl2" -> Record(file["bl2"], Bl2Offset, "hex")
       [] OTHER     -> Record(file[c], region(c).offset, "hex")],
   container |-> [c \in {"pbl", "fip"} |-> Record(file[c], region(c).offset, region(c).form)],
   length |-> long]

\* encode_manifest_slot, the same slot twice.
PutManifests ==
  /\ pc = "put" /\ put = Len(Payloads) /\ Given
  /\ LET slot == <<<<"manifest", Manifest, 0>>>>
         at(n) == Named(layout, n).offset
         img == Over(image, at("manifest-a"), slot) IN
       IF /\ long # "long" /\ Room(image, "manifest-a", slot)
          /\ Room(img, "manifest-b", slot)
       THEN /\ image' = Over(img, at("manifest-b"), slot) /\ pc' = "verify"
            /\ UNCHANGED <<put, snapshot>>
       ELSE Refuse

At(img, off, n) == [i \in 1 .. n |-> img[off + i - 1]]

\* The regions of others are erased, and what was put is there; then the
\* image and its receipt are written.
Emit ==
  /\ pc = "verify" /\ Given
  /\ IF /\ \A n \in Erased : Has(layout, n) /\ LET r == Named(layout, n) IN
            \A c \in r.offset .. r.offset + r.size - 1 : c \in Cells => image[c] = FF
        /\ \A k \in DOMAIN Payloads : LET f == file[Payloads[k]] IN
            At(image, Named(layout, RegionOf[Payloads[k]]).offset, Len(f)) = f
     THEN pc' = "emitted" /\ UNCHANGED <<put, image, snapshot>>
     ELSE Refuse

-----------------------------------------------------------------------------
(* package_boot_update.py *)

Approved == (0 .. LowEnd - 1) \cup {MetaStart, MetaStart + 1} \cup (HighStart .. Capacity - 1)
Environment == {Anchors["env-primary"], Anchors["env-primary"] + 1}

Merged(old, new) == [c \in Cells |-> IF c \in Environment THEN old[c] ELSE new[c]]

\* Mutant: what changes outside the update ranges is left to the installer.
PreservesSome(old, new) == \E c \in Approved : old[c] # new[c]

\* preserve_environment: only the update ranges differ, and something does.
Preserves(old, new) ==
  /\ \A c \in Cells \ Approved : old[c] = new[c]
  /\ \E c \in Approved : old[c] # new[c]

\* The records that composition looks at; a component inside a container is
\* hashed with it, but for the RCW.
Items(m) == {m.container[c] : c \in {"pbl", "fip"}}
            \cup {m.component[c] : c \in (Components \ DOMAIN Inside) \cup {"rcw"}}
Span(r)  == r.offset .. r.offset + r.size - 1

\* int(offset, 16) of boot_update.py: it raises for a number, and takes decimal
\* digits for another place, with other bytes; only zero is the same.
Base16(r) == r.form \in {"hex", "upper"} \/ (r.form = "decimal" /\ r.offset = 0)

\* composition of boot_update.py.
Composes(img) ==
  LET a == img[MetaStart]  b == img[MetaStart + 1] IN
  /\ a = b /\ a[1] = "manifest" /\ a[2].length = "fits"
  /\ \A r \in Items(a[2]) :
       /\ Base16(r) /\ r.offset \in Nat /\ r.size \in 1 .. Capacity - r.offset
       /\ At(img, r.offset, r.size) = r.digest

Package ==
  /\ pc = "emitted" /\ Given
  /\ \E old \in Snapshots :
       IF /\ Preserves(old, Merged(old, image))
          /\ Composes(old) /\ Composes(Merged(old, image))
       THEN /\ pc' = "packaged" /\ image' = Merged(old, image) /\ snapshot' = old
            /\ UNCHANGED put
       ELSE Refuse

Next == CheckInputs \/ PutRegion \/ PutManifests \/ Emit \/ Package

Spec == Init /\ [][Next]_vars

-----------------------------------------------------------------------------
(* manifest.c *)

\* integer, record and decode: the reader's own numbers, offsets and limits.
Decodes(m) ==
  /\ \A r \in {m.component[c] : c \in Components} \cup {m.container[c] : c \in {"pbl", "fip"}} :
       r.form = "hex"
  /\ \A c \in Components : LET r == m.component[c] IN
       /\ r.offset = IF c = "bl2" THEN Bl2Offset ELSE Table[Holder(c)].offset
       /\ r.size \in 1 .. IF c = "rcw" THEN 1
                          ELSE Table[Holder(c)].limit - IF c = "bl2" THEN Bl2Offset ELSE 0
  /\ \A c \in {"pbl", "fip"} : LET r == m.container[c] IN
       r.offset = Table[RegionOf[c]].offset /\ r.size \in 1 .. Table[RegionOf[c]].limit
  /\ m.container["pbl"].size >= Bl2Offset + m.component["bl2"].size

\* read_slot: header, length, padding, digest (a whole cell) and decode.
ReadSlot(img, off) == img[off][1] = "manifest" /\ Decodes(img[off][2])

\* hash_region.
Hashes(img, r) == At(img, r.offset, r.size) = r.digest

VerifyFip(img, m) ==
  LET fip == m.container["fip"]  t == img[fip.offset][2]  e == t.entry IN
  /\ \A k \in 1 .. 2 :
       /\ e[k].id \in {"bl31", "uboot"} /\ Start(e[k]) >= 1 /\ e[k].size > 0
       /\ End(e[k]) <= fip.size /\ e[k].size = m.component[e[k].id].size
  /\ e[1].id # e[2].id /\ t.end = fip.size
  /\ End(e[1]) <= Start(e[2]) \/ End(e[2]) <= Start(e[1])
  /\ \A k \in 1 .. 2 :
       At(img, fip.offset + Start(e[k]), e[k].size) = m.component[e[k].id].digest

\* x200_flash_verify on the selected manifest; the slots are equal here.
FlashVerifies(img) ==
  LET a == Table["manifest-a"].offset  m == img[a][2] IN
  /\ ReadSlot(img, a) /\ ReadSlot(img, Table["manifest-b"].offset)
  /\ \A c \in {"pbl", "fip"} : Hashes(img, m.container[c])
  /\ \A c \in Components \ {"bl31", "uboot"} : Hashes(img, m.component[c])
  /\ VerifyFip(img, m)

-----------------------------------------------------------------------------
\* The tracked layout writes these two as manifest.c reads them; nothing asks it to.
HexContainers(l) == \A n \in {"boot-pbl", "fip"} : Named(l, n).form = "hex"

(* The packer and U-Boot agree: an image that is written under a layout    *)
(* that passes holds the files that were built where the firmware looks    *)
(* for them, and nothing in the two environments, where firmware and       *)
(* packaging tool put them wherever the layout does, nor in the journal.   *)
(* If that layout writes the offsets of the two containers as the tracked  *)
(* one does, the image is selected and verified with both slots.  The same *)
(* holds for it as an update.                                              *)
EmittedBoots ==
  pc \in {"emitted", "packaged"} /\ LayoutPasses(layout) =>
    /\ HexContainers(layout) => FlashVerifies(image)
    /\ \A k \in DOMAIN Payloads : LET f == built[Payloads[k]] IN
         At(image, Table[RegionOf[Payloads[k]]].offset, Len(f)) = f
    /\ pc = "emitted" =>
         \A c \in Environment \cup {Anchors["update-journal"]} : image[c] = FF

\* What a digest in one of the two manifests pins, besides the manifests.
PinnedCells == UNION {Span(r) : r \in Items(image[MetaStart][2]) \cup Items(snapshot[MetaStart][2])}
               \ {MetaStart, MetaStart + 1}

Nor == INSTANCE NorFlash WITH Size <- Capacity, Covered <- PinnedCells
Difference == [c \in Cells |-> IF image[c] = snapshot[c] THEN "old" ELSE "new"]

(* What is packaged is what the update transaction takes for granted of a  *)
(* package (ValidPackage of BootUpdate): one whole composition, different  *)
(* from the snapshot, and nowhere but in the ranges that it writes.        *)
PackagedIsValid ==
  pc = "packaged" =>
    /\ Nor!Composition(Difference, Difference)
    /\ \A s \in Nor!Protected : Difference[s] = "old"
    /\ \E s \in Nor!Approved : Difference[s] = "new"
=============================================================================
