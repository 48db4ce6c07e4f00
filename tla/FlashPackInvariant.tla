------------------------- MODULE FlashPackInvariant -------------------------
(***************************************************************************)
(* The inductive invariant of FlashPack, in parts: what was checked of the *)
(* inputs, what fits, and what the image holds at which offset.            *)
(***************************************************************************)
EXTENDS FlashPack

Inputs == layout \in Layouts /\ built \in Builds

\* From the first region written on, the inputs are the checked ones.
Checked ==
  pc \in {"put", "verify", "emitted", "packaged"} =>
    /\ VerifyInputReceipts /\ VerifyFipLeaves
    /\ Slice(file["pbl"], Bl2Offset, Len(file["pbl"]) - Bl2Offset) = file["bl2"]

Written == pc \in {"verify", "emitted", "packaged"}

\* What was put is no longer than its region.
Fits ==
  /\ put \in 0 .. Len(Payloads)
  /\ \A k \in 1 .. put : LET n == Payloads[k] IN
       Len(file[n]) <= Named(layout, RegionOf[n]).size
  /\ Written => put = Len(Payloads)

\* Under a layout that passes, U-Boot finds the manifest where it looks for it,
\* twice,
SlotsWritten ==
  Written /\ LayoutPasses(layout) =>
    \A n \in {"manifest-a", "manifest-b"} :
      image[Table[n].offset] = <<"manifest", Manifest, 0>>

\* the payloads where it looks for them,
PayloadsPlaced ==
  pc \in {"emitted", "packaged"} /\ LayoutPasses(layout) =>
    \A n \in DOMAIN RegionOf :
      At(image, Table[RegionOf[n]].offset, Len(file[n])) = file[n]

\* and nothing is written but payloads and manifests into their regions.
OnlyRegions(img) ==
  \A c \in Cells : img[c] # FF =>
    \E n \in Regions \cup {"manifest-a", "manifest-b"} :
      Has(layout, n) /\ c \in Span(Named(layout, n))
Untouched == pc # "packaged" => OnlyRegions(image)

\* What is packaged passed the checks against the snapshot it is made for.
Packaged ==
  pc = "packaged" =>
    Composes(snapshot) /\ Composes(image) /\ Preserves(snapshot, image)

IInv == /\ Inputs /\ Checked /\ Fits /\ SlotsWritten /\ PayloadsPlaced /\ Untouched
        /\ Packaged
=============================================================================
