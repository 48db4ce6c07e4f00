-------------------------- MODULE FlashPackProofs ---------------------------
(***************************************************************************)
(* Packer and firmware agree, proved for every layout, build and table of  *)
(* offsets: U-Boot accepts each image that is written under a layout that  *)
(* passes and spells its containers as U-Boot reads them, and each update  *)
(* made of one.                                                            *)
(***************************************************************************)
EXTENDS FlashPackInvariant, FiniteSetTheorems, WellFoundedInduction, TLAPS

-----------------------------------------------------------------------------
(* Layouts *)

\* Induction over the regions needs no more than this.
LEMMA Least ==
  ASSUME NEW T, T \subseteq Nat, T # {}
  PROVE  \E x \in T : \A y \in T : x <= y
<1> DEFINE R == {ss \in Nat \X Nat : ss[1] < ss[2]}
<1>1. IsWellFoundedOn(R, Nat)
  BY NatLessThanWellFounded DEF OpToRel
<1>2. \E x \in T : \A y \in T : ~(<<y, x>> \in R)
  BY <1>1, WFMin
<1>3. \A x, y \in Nat : <<y, x>> \in R <=> y < x
  OBVIOUS
<1> HIDE DEF R
<1>4. PICK x \in T : \A y \in T : ~(<<y, x>> \in R)
  BY <1>2
<1>5. ASSUME NEW y \in T PROVE x <= y
  <2>1. x \in Nat /\ y \in Nat
    OBVIOUS
  <2>2. ~(y < x)
    BY <1>3, <1>4, <2>1
  <2> QED
    BY <2>1, <2>2
<1> QED
  BY <1>4, <1>5

LEMMA SequenceShape ==
  ASSUME NEW f, IsSequence(f)
  PROVE  /\ Len(f) \in Nat /\ DOMAIN f = 1 .. Len(f) /\ f = [i \in 1 .. Len(f) |-> f[i]]
         /\ f # <<>> => Len(f) > 0
<1> DEFINE S == {f[i] : i \in DOMAIN f}
<1>1. f \in Seq(S)
  BY DEF IsSequence
<1> HIDE DEF S
<1> QED
  BY <1>1

LEMMA LayoutShape ==
  ASSUME NEW l \in Layouts
  PROVE  /\ Len(l.regions) \in Nat /\ DOMAIN l.regions = 1 .. Len(l.regions)
         /\ \A i \in DOMAIN l.regions : l.regions[i].offset \in Nat /\ l.regions[i].size \in Nat
<1>1. IsSequence(l.regions)
  BY LayoutsAssumption
<1>2. Len(l.regions) \in Nat /\ DOMAIN l.regions = 1 .. Len(l.regions)
  BY <1>1, SequenceShape
<1> QED
  BY <1>2, LayoutsAssumption

LEMMA UpTo ==
  ASSUME NEW n \in Nat
  PROVE  IsFiniteSet(1 .. n) /\ Cardinality(1 .. n) = n
<1>1. 1 \in Int /\ n \in Int
  OBVIOUS
<1>2. IsFiniteSet(1 .. n) /\ Cardinality(1 .. n) = IF 1 > n THEN 0 ELSE n - 1 + 1
  BY <1>1, FS_Interval
<1> QED
  BY <1>2

\* As many names as regions: a name stands for one region.
LEMMA NamesOnce ==
  ASSUME NEW l \in Layouts, NamesUnique(l),
         NEW i \in DOMAIN l.regions, NEW j \in DOMAIN l.regions, l.regions[i].name = l.regions[j].name
  PROVE  i = j
<1> DEFINE D == 1 .. Len(l.regions)
           N == {l.regions[k].name : k \in D}
           f == [k \in D |-> l.regions[k].name]
<1>1. DOMAIN l.regions = D /\ Len(l.regions) \in Nat
  BY LayoutShape
<1>2. IsFiniteSet(D) /\ Cardinality(D) = Len(l.regions)
  BY <1>1, UpTo
<1>3. f \in Surjection(D, N)
  BY DEF Surjection
<1>4. Cardinality(N) = Cardinality(D)
  BY <1>1, <1>2 DEF NamesUnique
<1>5. f \in Injection(D, N)
  <2> HIDE DEF D, N, f
  <2> QED
    BY <1>2, <1>3, <1>4, FS_Surjection
<1>6. i \in D /\ j \in D
  BY <1>1
<1>7. f[i] = f[j]
  BY <1>6
<1> HIDE DEF f, D, N
<1> QED
  BY <1>5, <1>6, <1>7 DEF Injection, IsInjective

\* Regions follow each other.
LEMMA Ordered ==
  ASSUME NEW l \in Layouts, LayoutPasses(l), NEW i \in DOMAIN l.regions, NEW j \in DOMAIN l.regions, i < j
  PROVE  l.regions[i].offset + l.regions[i].size <= l.regions[j].offset
<1> DEFINE T == {k \in DOMAIN l.regions : i < k /\ ~(l.regions[i].offset + l.regions[i].size <= l.regions[k].offset)}
<1>1. Len(l.regions) \in Nat /\ DOMAIN l.regions = 1 .. Len(l.regions)
  BY LayoutShape
<1>2. \A k \in DOMAIN l.regions : l.regions[k].offset \in Nat /\ l.regions[k].size \in Nat
  BY LayoutShape
<1>3. \A k \in DOMAIN l.regions : k > 1 => k - 1 \in DOMAIN l.regions /\ l.regions[k].offset = l.regions[k - 1].offset + l.regions[k - 1].size
  <2>1. \A k \in DOMAIN l.regions : l.regions[k].offset = Ends(l, k - 1)
    BY DEF LayoutPasses
  <2>2. \A k \in DOMAIN l.regions : k > 1 => k - 1 \in DOMAIN l.regions /\ k - 1 # 0
    BY <1>1
  <2> QED
    BY <2>1, <2>2 DEF Ends
<1>4. SUFFICES ASSUME T # {} PROVE FALSE
  BY <1>4
<1>5. T \subseteq Nat
  BY <1>1
<1>6. PICK k \in T : \A m \in T : k <= m
  <2> HIDE DEF T
  <2> QED
    BY <1>4, <1>5, Least
<1>7. k \in DOMAIN l.regions /\ i < k /\ ~(l.regions[i].offset + l.regions[i].size <= l.regions[k].offset)
  OBVIOUS
<1>8. k > 1 /\ k - 1 \in DOMAIN l.regions /\ l.regions[k].offset = l.regions[k - 1].offset + l.regions[k - 1].size
  BY <1>1, <1>3, <1>7
<1>9. CASE k - 1 = i
  BY <1>2, <1>7, <1>8, <1>9
<1>10. CASE k - 1 # i
  <2>1. k - 1 \notin T
    BY <1>1, <1>6, <1>7
  <2>2. l.regions[i].offset + l.regions[i].size <= l.regions[k - 1].offset
    BY <1>1, <1>7, <1>8, <1>10, <2>1
  <2> QED
    BY <1>2, <1>7, <1>8, <2>2
<1> QED
  BY <1>9, <1>10

\* Under a layout that passes a region is where the firmware looks for it,
LEMMA NamedRegion ==
  ASSUME NEW l \in Layouts, LayoutPasses(l), NEW n \in DOMAIN Anchors
  PROVE  /\ \E i \in DOMAIN l.regions : Named(l, n) = l.regions[i] /\ l.regions[i].name = n
         /\ Named(l, n).offset = Anchors[n]
         /\ n \in Regions \cup {"manifest-a", "manifest-b"} => Named(l, n).offset = Table[n].offset
         /\ Named(l, n).size \in Nat \ {0}
         /\ Named(l, n).offset + Named(l, n).size <= Capacity
<1>1. PICK i \in DOMAIN l.regions : l.regions[i].name = n
  BY DEF LayoutPasses, Has
<1> DEFINE j == CHOOSE k \in DOMAIN l.regions : l.regions[k].name = n
<1>2. j \in DOMAIN l.regions /\ l.regions[j].name = n
  BY <1>1
<1>3. j = i
  <2> HIDE DEF j
  <2>1. NamesUnique(l)
    BY DEF LayoutPasses
  <2> QED
    BY <1>1, <1>2, <2>1, NamesOnce
<1>4. Named(l, n) = l.regions[i]
  BY <1>3 DEF Named
<1>5. l.regions[i].size > 0 /\ l.regions[i].offset + l.regions[i].size <= Capacity
  <2>1. i # 0
    BY LayoutShape
  <2> QED
    BY <2>1 DEF LayoutPasses, Ends
<1>6. Named(l, n).offset = Anchors[n]
  BY DEF LayoutPasses
<1>7. n \in Regions \cup {"manifest-a", "manifest-b"} => Table[n].offset = Anchors[n]
  BY TableAssumption
<1> QED
  BY <1>1, <1>4, <1>5, <1>6, <1>7, LayoutShape

\* apart from every other,
LEMMA RegionsApart ==
  ASSUME NEW l \in Layouts, LayoutPasses(l), NEW n \in DOMAIN Anchors, NEW m \in DOMAIN Anchors,
         n # m
  PROVE  \/ Anchors[n] + Named(l, n).size <= Anchors[m]
         \/ Anchors[m] + Named(l, m).size <= Anchors[n]
<1>1. PICK i \in DOMAIN l.regions : Named(l, n) = l.regions[i] /\ l.regions[i].name = n
  BY NamedRegion
<1>2. PICK j \in DOMAIN l.regions : Named(l, m) = l.regions[j] /\ l.regions[j].name = m
  BY NamedRegion
<1>3. i \in Nat /\ j \in Nat /\ i # j
  BY <1>1, <1>2, LayoutShape
<1>4. l.regions[i].offset = Anchors[n] /\ l.regions[j].offset = Anchors[m]
  BY <1>1, <1>2, NamedRegion
<1>5. CASE i < j
  BY <1>1, <1>4, <1>5, Ordered
<1>6. CASE j < i
  BY <1>2, <1>4, <1>6, Ordered
<1> QED
  BY <1>3, <1>5, <1>6

\* and no larger than the firmware takes.
LEMMA WithinLimit ==
  ASSUME NEW l \in Layouts, LayoutPasses(l), NEW n \in Regions
  PROVE  Named(l, n).size <= Table[n].limit
<1>1. /\ n \in DOMAIN Anchors /\ Table[n].offset \in Nat /\ Table[n].limit \in Nat
      /\ Capacity \in Nat /\ Table[n].offset = Anchors[n]
  BY TableAssumption
<1>2. /\ Named(l, n).offset = Table[n].offset
      /\ Named(l, n).size \in Nat \ {0}
      /\ Named(l, n).offset + Named(l, n).size <= Capacity
  BY <1>1, NamedRegion
<1>3. CASE Table[n].offset + Table[n].limit >= Capacity
  BY <1>1, <1>2, <1>3
<1>4. CASE \E m \in DOMAIN Anchors :
             Anchors[m] \in Table[n].offset + 1 .. Table[n].offset + Table[n].limit
  <2>1. PICK m \in DOMAIN Anchors :
          Anchors[m] \in Table[n].offset + 1 .. Table[n].offset + Table[n].limit
    BY <1>4
  <2>2. m # n /\ Anchors[m] \in Nat /\ Named(l, m).size \in Nat
    BY <1>1, <2>1, NamedRegion, TableAssumption
  <2>3. \/ Table[n].offset + Named(l, n).size <= Anchors[m]
        \/ Anchors[m] + Named(l, m).size <= Table[n].offset
    BY <1>1, <2>2, RegionsApart
  <2> QED
    BY <1>1, <1>2, <2>1, <2>2, <2>3
<1> QED
  BY <1>3, <1>4, TableAssumption

-----------------------------------------------------------------------------
(* Files and images *)

LEMMA PayloadNames ==
  /\ Len(Payloads) = 7 /\ DOMAIN Payloads = 1 .. 7
  /\ \A k \in 1 .. 7 : Payloads[k] \in DOMAIN RegionOf
  /\ \A n \in DOMAIN RegionOf : \E k \in 1 .. 7 : n = Payloads[k]
  /\ DOMAIN RegionOf \subseteq Files
  /\ \A n \in DOMAIN RegionOf : RegionOf[n] \in Regions
BY DEF Payloads, RegionOf, Files, Regions

LEMMA FilesAreBuilt ==
  ASSUME Inputs, VerifyInputReceipts, NEW n \in Files
  PROVE  file[n] = built[n] /\ IsSequence(file[n]) /\ Len(file[n]) \in Nat \ {0}
<1>1. file[n] = built[n]
  BY DEF VerifyInputReceipts
<1>2. built[n] # <<>> /\ IsSequence(built[n])
  BY BuildsAssumption DEF Inputs
<1> QED
  BY <1>1, <1>2, SequenceShape

\* Reading a file back is reading its cells.
LEMMA ReadBack ==
  ASSUME NEW img, NEW off \in Nat, NEW f, IsSequence(f)
  PROVE  At(img, off, Len(f)) = f <=> \A i \in 1 .. Len(f) : img[off + i - 1] = f[i]
<1> DEFINE g == [i \in 1 .. Len(f) |-> img[off + i - 1]]
<1>1. Len(f) \in Nat /\ f = [i \in 1 .. Len(f) |-> f[i]]
  BY SequenceShape
<1>2. At(img, off, Len(f)) = g
  BY DEF At
<1>3. ASSUME g = f, NEW i \in 1 .. Len(f) PROVE img[off + i - 1] = f[i]
  <2>1. g[i] = img[off + i - 1]
    OBVIOUS
  <2> HIDE DEF g
  <2> QED
    BY <1>3, <2>1
<1>4. ASSUME \A i \in 1 .. Len(f) : img[off + i - 1] = f[i] PROVE g = f
  <2>1. g = [i \in 1 .. Len(f) |-> f[i]]
    BY <1>4
  <2> HIDE DEF g
  <2> QED
    BY <1>1, <2>1
<1> HIDE DEF g
<1> QED
  BY <1>2, <1>3, <1>4

LEMMA OverOne ==
  ASSUME NEW img, NEW off \in Nat, NEW f, Len(f) = 1, NEW c \in Cells
  PROVE  /\ c = off => Over(img, off, f)[c] = f[1]
         /\ c # off => Over(img, off, f)[c] = img[c]
<1>1. c \in off .. off + Len(f) - 1 <=> c = off
  BY TableAssumption DEF Cells
<1>2. Over(img, off, f)[c] = IF c \in off .. off + Len(f) - 1 THEN f[c - off + 1] ELSE img[c]
  BY DEF Over
<1>3. c = off => c - off + 1 = 1
  BY TableAssumption DEF Cells
<1> QED
  BY <1>1, <1>2, <1>3

LEMMA TableNames ==
  /\ \A n \in Regions \cup {"manifest-a", "manifest-b"} :
       /\ n \in DOMAIN Anchors /\ Table[n].offset = Anchors[n]
       /\ Table[n].offset \in Nat /\ Table[n].limit \in Nat
       /\ n # "env-primary" /\ n # "update-journal"
  /\ "env-primary" \in DOMAIN Anchors /\ "update-journal" \in DOMAIN Anchors
BY TableAssumption DEF Regions, RegionOf

\* No payload and no manifest reaches the environments or the journal: the second
\* environment lies behind the first, where nothing that is anchored begins.
LEMMA OfOthers ==
  ASSUME NEW l \in Layouts, LayoutPasses(l), NEW n \in Regions \cup {"manifest-a", "manifest-b"},
         NEW c \in Environment \cup {Anchors["update-journal"]}
  PROVE  c \notin Span(Named(l, n))
<1> DEFINE a == Anchors[n]  s == Named(l, n).size  e == Anchors["env-primary"]
<1>1. n \in DOMAIN Anchors /\ a \in Nat /\ s \in Nat \ {0} /\ Named(l, n).offset = a
  BY TableNames, NamedRegion
<1>2. ASSUME NEW m \in {"env-primary", "update-journal"} PROVE a + s <= Anchors[m] \/ Anchors[m] + 1 <= a
  <2>1. m \in DOMAIN Anchors /\ m # n /\ Anchors[m] \in Nat
    BY TableNames, TableAssumption
  <2>2. Named(l, m).size \in Nat \ {0}
    BY <2>1, NamedRegion
  <2>3. a + s <= Anchors[m] \/ Anchors[m] + Named(l, m).size <= a
    BY <1>1, <2>1, RegionsApart
  <2> QED
    BY <1>1, <2>1, <2>2, <2>3
<1>3. e \in Nat /\ a # e + 1 /\ Anchors["update-journal"] \in Nat
  BY <1>1, TableAssumption
<1>4. c \in {e, e + 1, Anchors["update-journal"]}
  BY DEF Environment
<1>5. Span(Named(l, n)) = a .. a + s - 1
  BY <1>1 DEF Span
<1> HIDE DEF a, s, e
<1>6. a + s <= e \/ e + 1 <= a
  BY <1>2 DEF e
<1>7. a + s <= Anchors["update-journal"] \/ Anchors["update-journal"] + 1 <= a
  BY <1>2
<1> QED
  BY <1>1, <1>3, <1>4, <1>5, <1>6, <1>7

\* What a layout that passes puts elsewhere the environment does not overwrite.
LEMMA MergedElsewhere ==
  ASSUME NEW l \in Layouts, LayoutPasses(l), NEW old, NEW new,
         NEW n \in Regions \cup {"manifest-a", "manifest-b"},
         NEW c \in Table[n].offset .. Table[n].offset + Named(l, n).size - 1
  PROVE  Merged(old, new)[c] = new[c]
<1>1. n \in DOMAIN Anchors /\ Table[n].offset \in Nat /\ Named(l, n).offset = Table[n].offset
  BY TableNames, NamedRegion
<1>2. Named(l, n).size \in Nat /\ Table[n].offset + Named(l, n).size <= Capacity
  BY <1>1, NamedRegion
<1>3. c \in Cells
  BY <1>1, <1>2, TableAssumption DEF Cells
<1>4. c \in Span(Named(l, n))
  BY <1>1 DEF Span
<1>5. c \notin Environment
  BY <1>4, OfOthers
<1> QED
  BY <1>3, <1>5 DEF Merged

-----------------------------------------------------------------------------
(* The packer *)

LEMMA InitInvariant == Init => IInv
BY PayloadNames DEF Init, Blank, OnlyRegions, IInv, Inputs, Checked, Fits, Written, SlotsWritten, PayloadsPlaced, Untouched,
                    Packaged

\* What a step is given it leaves alone, and with it what is said of it.
LEMMA GivenStays ==
  ASSUME Given
  PROVE  /\ Inputs' = Inputs /\ LayoutPasses(layout)' = LayoutPasses(layout)
         /\ VerifyInputReceipts' = VerifyInputReceipts /\ VerifyFipLeaves' = VerifyFipLeaves
         /\ Manifest' = Manifest /\ file' = file /\ layout' = layout
BY DEF Given, Inputs, LayoutPasses, NamesUnique, Has, Ends, Named, VerifyInputReceipts, VerifyFipLeaves, Toc, Slice,
       Start, End, Manifest, Record, Holder

\* The image has only what its regions hold, as long as it stays.
LEMMA OnlyRegionsStays ==
  ASSUME Given, OnlyRegions(image), image' = image
  PROVE  OnlyRegions(image)'
BY DEF Given, OnlyRegions, Has, Named, Span

\* What fits its region touches no other cell.
LEMMA OnlyRegionsOver ==
  ASSUME layout \in Layouts, NEW img, OnlyRegions(img),
         NEW n \in Regions \cup {"manifest-a", "manifest-b"}, Has(layout, n),
         NEW f, Len(f) \in Nat, Len(f) <= Named(layout, n).size
  PROVE  OnlyRegions(Over(img, Named(layout, n).offset, f))
<1> DEFINE off == Named(layout, n).offset  size == Named(layout, n).size
           new == Over(img, off, f)
<1>1. off \in Nat /\ size \in Nat
  <2>1. \E i \in DOMAIN layout.regions : layout.regions[i].name = n
    BY DEF Has
  <2>2. \E i \in DOMAIN layout.regions : Named(layout, n) = layout.regions[i]
    BY <2>1 DEF Named
  <2> QED
    BY <2>2, LayoutShape
<1>2. ASSUME NEW c \in Cells, new[c] # FF, img[c] = FF PROVE c \in Span(Named(layout, n))
  <2>1. new[c] = IF c \in off .. off + Len(f) - 1 THEN f[c - off + 1] ELSE img[c]
    BY DEF Over
  <2>2. c \in off .. off + Len(f) - 1
    <3> HIDE DEF new
    <3> QED
      BY <1>2, <2>1
  <2>3. c \in off .. off + size - 1
    BY <1>1, <2>2
  <2> QED
    BY <2>3 DEF Span
<1> HIDE DEF new
<1>3. OnlyRegions(new)
  BY <1>2 DEF OnlyRegions
<1> QED
  BY <1>3 DEF new

LEMMA OnlyRegionsNext ==
  ASSUME layout' = layout, NEW img, OnlyRegions(img), image' = img
  PROVE  OnlyRegions(image)'
BY DEF OnlyRegions, Has, Named, Span

LEMMA RefuseInvariant ==
  ASSUME IInv, Given, Refuse, pc # "packaged"
  PROVE  IInv'
<1>1. Untouched'
  BY OnlyRegionsStays DEF Refuse, IInv, Untouched
<1> QED
  BY <1>1, GivenStays
     DEF Refuse, IInv, Checked, Fits, Written, SlotsWritten, PayloadsPlaced, Packaged

LEMMA CheckInputsInvariant ==
  ASSUME IInv, CheckInputs
  PROVE  IInv'
<1>1. Given /\ pc = "check"
  BY DEF CheckInputs
<1>2. CASE Refuse
  BY <1>1, <1>2, RefuseInvariant
<1>3. CASE /\ VerifyInputReceipts /\ VerifyFipLeaves
           /\ Slice(file["pbl"], Bl2Offset, Len(file["pbl"]) - Bl2Offset) = file["bl2"]
           /\ pc' = "put" /\ UNCHANGED <<put, image, snapshot>>
  BY <1>1, <1>3, GivenStays, OnlyRegionsStays
     DEF IInv, Checked, Fits, Written, SlotsWritten, PayloadsPlaced, Untouched, Packaged
<1> QED
  BY <1>2, <1>3 DEF CheckInputs

LEMMA PutRegionInvariant ==
  ASSUME IInv, PutRegion
  PROVE  IInv'
<1> DEFINE n == Payloads[put + 1]
           r == Named(layout, RegionOf[n])
           new == Over(image, r.offset, file[n])
<1>1. Given /\ pc = "put" /\ put < Len(Payloads)
  BY DEF PutRegion
<1>2. CASE Refuse
  BY <1>1, <1>2, RefuseInvariant
<1>3. CASE Room(image, RegionOf[n], file[n]) /\ image' = new /\ put' = put + 1 /\ pc' = pc
  <2>1. Inputs' /\ Checked'
    BY <1>1, <1>3, GivenStays DEF IInv, Checked
  <2>2. Len(file[n]) <= r.size /\ Has(layout, RegionOf[n])
    BY <1>3 DEF Room
  <2>3. put \in Nat /\ Len(Payloads) = 7
    BY PayloadNames DEF IInv, Fits
  <2>4. put' \in 0 .. Len(Payloads)
    BY <1>1, <1>3, <2>3
  <2>5. ASSUME NEW k \in 1 .. put'
        PROVE  Len(file[Payloads[k]]) <= Named(layout, RegionOf[Payloads[k]]).size
    <3>1. CASE k = put + 1
      BY <2>2, <3>1
    <3>2. CASE k # put + 1
      <4>1. k \in 1 .. put
        BY <1>3, <2>3, <3>2
      <4> QED
        BY <4>1 DEF IInv, Fits
    <3> QED
      BY <3>1, <3>2
  <2>6. Fits'
    BY <1>1, <1>3, <2>4, <2>5, GivenStays DEF Fits, Written
  <2>7. OnlyRegions(new)
    <3>1. put + 1 \in 1 .. 7
      BY <1>1, <2>3
    <3>2. n \in DOMAIN RegionOf /\ n \in Files /\ RegionOf[n] \in Regions
      BY <3>1, PayloadNames
    <3>3. Len(file[n]) \in Nat
      BY <1>1, <3>2, FilesAreBuilt DEF IInv, Checked
    <3>4. layout \in Layouts /\ OnlyRegions(image)
      BY <1>1 DEF IInv, Inputs, Untouched
    <3> DEFINE x == RegionOf[n]  g == file[n]
    <3>5. /\ x \in Regions \cup {"manifest-a", "manifest-b"} /\ Has(layout, x)
          /\ Len(g) \in Nat /\ Len(g) <= Named(layout, x).size
      BY <2>2, <3>2, <3>3
    <3> HIDE DEF x, g
    <3>6. OnlyRegions(Over(image, Named(layout, x).offset, g))
      BY <3>4, <3>5, OnlyRegionsOver
    <3> QED
      BY <3>6 DEF x, g
  <2>8. Untouched'
    <3>1. layout' = layout /\ image' = new
      BY <1>1, <1>3 DEF Given
    <3> HIDE DEF new
    <3> QED
      BY <2>7, <3>1, OnlyRegionsNext DEF Untouched
  <2> QED
    BY <1>1, <1>3, <2>1, <2>6, <2>8 DEF IInv, Written, SlotsWritten, PayloadsPlaced, Packaged
<1> QED
  BY <1>2, <1>3 DEF PutRegion

LEMMA PutManifestsInvariant ==
  ASSUME IInv, PutManifests
  PROVE  IInv'
<1> DEFINE slot == <<"manifest", Manifest, 0>>
           a == Named(layout, "manifest-a")
           b == Named(layout, "manifest-b")
<1>1. Given /\ pc = "put" /\ put = Len(Payloads)
  BY DEF PutManifests
<1>2. CASE Refuse
  BY <1>1, <1>2, RefuseInvariant
<1>3. CASE /\ image' = Over(Over(image, a.offset, <<slot>>), b.offset, <<slot>>)
           /\ Room(image, "manifest-a", <<slot>>)
           /\ Room(Over(image, a.offset, <<slot>>), "manifest-b", <<slot>>)
           /\ pc' = "verify" /\ UNCHANGED <<put, snapshot>>
  <2>1. Inputs' /\ Checked' /\ Fits'
    BY <1>1, <1>3, GivenStays DEF IInv, Checked, Fits, Written
  <2>2. SlotsWritten'
    <3> SUFFICES ASSUME LayoutPasses(layout), NEW n \in {"manifest-a", "manifest-b"}
                 PROVE  image'[Table[n].offset] = slot
      BY <1>1, GivenStays DEF SlotsWritten
    <3>1. layout \in Layouts
      BY DEF IInv, Inputs
    <3>2. a.offset = Table["manifest-a"].offset /\ b.offset = Table["manifest-b"].offset
      BY <3>1, NamedRegion, TableNames
    <3>3. \A m \in {"manifest-a", "manifest-b"} : Table[m].offset \in Nat /\ Table[m].offset \in Cells
      BY <3>1, NamedRegion, TableNames, TableAssumption DEF Cells
    <3> DEFINE f == <<slot>>
    <3>4. Len(f) = 1 /\ f[1] = slot /\ image' = Over(Over(image, a.offset, f), b.offset, f)
      BY <1>3
    <3> HIDE DEF slot, a, b, f
    <3>5. PICK oa \in Nat, ob \in Nat, c \in Cells :
            oa = a.offset /\ ob = b.offset /\ c = Table[n].offset /\ (c = oa \/ c = ob)
      BY <3>2, <3>3
    <3> DEFINE first == Over(image, oa, f)
    <3>6. \A img : \A o \in Nat :
            (c = o => Over(img, o, f)[c] = f[1]) /\ (c # o => Over(img, o, f)[c] = img[c])
      BY <3>4, OverOne
    <3> HIDE DEF first
    <3>7. (c = ob => Over(first, ob, f)[c] = f[1]) /\ (c # ob => Over(first, ob, f)[c] = first[c])
      BY <3>6
    <3>8. image' = Over(first, ob, f) /\ (c = oa => first[c] = f[1])
      BY <3>4, <3>5, <3>6 DEF first
    <3> QED
      BY <3>4, <3>5, <3>7, <3>8
  <2>3. Untouched'
    <3> DEFINE f == <<slot>>  first == Over(image, a.offset, f)
    <3>1. /\ Len(f) = 1 /\ image' = Over(first, b.offset, f)
          /\ Has(layout, "manifest-a") /\ Len(f) <= a.size
          /\ Has(layout, "manifest-b") /\ Len(f) <= b.size
      BY <1>3 DEF Room
    <3>2. layout \in Layouts /\ OnlyRegions(image) /\ layout' = layout
      BY <1>1 DEF IInv, Inputs, Untouched, Given
    <3> HIDE DEF f, slot
    <3>3. OnlyRegions(first)
      <4>1. "manifest-a" \in Regions \cup {"manifest-a", "manifest-b"} /\ Len(f) \in Nat
        BY <3>1
      <4> QED
        BY <3>1, <3>2, <4>1, OnlyRegionsOver
    <3> HIDE DEF first
    <3>4. OnlyRegions(Over(first, b.offset, f))
      <4>1. "manifest-b" \in Regions \cup {"manifest-a", "manifest-b"} /\ Len(f) \in Nat
        BY <3>1
      <4> QED
        BY <3>1, <3>2, <3>3, <4>1, OnlyRegionsOver
    <3>5. OnlyRegions(image)'
      BY <3>1, <3>2, <3>4, OnlyRegionsNext
    <3> QED
      BY <3>5 DEF Untouched
  <2> QED
    BY <1>3, <2>1, <2>2, <2>3 DEF IInv, PayloadsPlaced, Packaged
<1> QED
  BY <1>2, <1>3 DEF PutManifests

LEMMA EmitInvariant ==
  ASSUME IInv, Emit
  PROVE  IInv'
<1>1. Given /\ pc = "verify"
  BY DEF Emit
<1>2. CASE Refuse
  BY <1>1, <1>2, RefuseInvariant
<1>3. CASE /\ \A k \in DOMAIN Payloads : LET f == file[Payloads[k]] IN
                At(image, Named(layout, RegionOf[Payloads[k]]).offset, Len(f)) = f
           /\ pc' = "emitted" /\ UNCHANGED <<put, image, snapshot>>
  <2>1. Inputs' /\ Checked' /\ Fits' /\ SlotsWritten'
    BY <1>1, <1>3, GivenStays DEF IInv, Checked, Fits, Written, SlotsWritten
  <2>2. layout \in Layouts
    BY DEF IInv, Inputs
  <2>3. ASSUME LayoutPasses(layout), NEW n \in DOMAIN RegionOf
        PROVE  At(image, Table[RegionOf[n]].offset, Len(file[n])) = file[n]
    <3>1. PICK k \in DOMAIN Payloads : n = Payloads[k]
      BY PayloadNames
    <3>2. Named(layout, RegionOf[n]).offset = Table[RegionOf[n]].offset
      BY <2>2, <2>3, NamedRegion, PayloadNames, TableNames
    <3> QED
      BY <1>3, <3>1, <3>2
  <2>4. PayloadsPlaced'
    BY <1>1, <1>3, <2>3, GivenStays DEF PayloadsPlaced, At
  <2>6. Untouched'
    BY <1>1, <1>3, OnlyRegionsStays DEF IInv, Untouched
  <2>7. Packaged'
    BY <1>3 DEF Packaged
  <2> QED
    BY <2>1, <2>4, <2>6, <2>7 DEF IInv
<1> QED
  BY <1>2, <1>3 DEF Emit

LEMMA PackageInvariant ==
  ASSUME IInv, Package
  PROVE  IInv'
<1>1. Given /\ pc = "emitted"
  BY DEF Package
<1>2. CASE Refuse
  BY <1>1, <1>2, RefuseInvariant
<1>3. ASSUME NEW old \in Snapshots, pc' = "packaged", image' = Merged(old, image), put' = put,
             snapshot' = old, Preserves(old, Merged(old, image)), Composes(old),
             Composes(Merged(old, image))
      PROVE  IInv'
  <2>1. Inputs' /\ Checked' /\ Fits'
    BY <1>1, <1>3, GivenStays DEF IInv, Checked, Fits, Written
  <2>2. layout \in Layouts
    BY DEF IInv, Inputs
  <2>3. ASSUME LayoutPasses(layout), NEW n \in {"manifest-a", "manifest-b"}
        PROVE  image'[Table[n].offset] = image[Table[n].offset]
    <3>1. Named(layout, n).size \in Nat \ {0} /\ Table[n].offset \in Nat
      BY <2>2, <2>3, NamedRegion, TableNames
    <3>2. Table[n].offset \in Table[n].offset .. Table[n].offset + Named(layout, n).size - 1
      BY <3>1
    <3>3. n \in Regions \cup {"manifest-a", "manifest-b"}
      OBVIOUS
    <3>4. PICK c \in Table[n].offset .. Table[n].offset + Named(layout, n).size - 1 : c = Table[n].offset
      BY <3>2
    <3>5. Merged(old, image)[c] = image[c]
      BY <2>2, <2>3, <3>3, MergedElsewhere
    <3> QED
      BY <1>3, <3>4, <3>5
  <2>4. SlotsWritten'
    BY <1>1, <1>3, <2>3, GivenStays DEF IInv, SlotsWritten, Written
  <2>5. ASSUME LayoutPasses(layout), NEW n \in DOMAIN RegionOf
        PROVE  At(image', Table[RegionOf[n]].offset, Len(file[n])) = file[n]
    <3> DEFINE f == file[n]  off == Table[RegionOf[n]].offset
    <3>1. n \in Files /\ RegionOf[n] \in Regions /\ off \in Nat
      BY PayloadNames, TableNames
    <3>2. Len(f) \in Nat /\ IsSequence(f)
      BY <1>1, <3>1, FilesAreBuilt DEF IInv, Checked
    <3>3. \A i \in 1 .. Len(f) : image[off + i - 1] = f[i]
      <4>1. At(image, off, Len(f)) = f
        BY <1>1, <2>5 DEF IInv, PayloadsPlaced
      <4> HIDE DEF f, off
      <4>2. At(image, off, Len(f)) = f <=> \A i \in 1 .. Len(f) : image[off + i - 1] = f[i]
        BY <3>1, <3>2, ReadBack
      <4> QED
        BY <4>1, <4>2
    <3>4. Len(f) <= Named(layout, RegionOf[n]).size /\ Named(layout, RegionOf[n]).size \in Nat
      <4>1. PICK k \in 1 .. 7 : n = Payloads[k]
        BY PayloadNames
      <4>2. put = 7
        BY <1>1, PayloadNames DEF IInv, Fits, Written
      <4>3. Len(f) <= Named(layout, RegionOf[n]).size
        BY <4>1, <4>2 DEF IInv, Fits
      <4> QED
        BY <2>2, <2>5, <3>1, <4>3, NamedRegion, TableNames
    <3>5. ASSUME NEW i \in 1 .. Len(f) PROVE image'[off + i - 1] = f[i]
      <4>1. off + i - 1 \in off .. off + Named(layout, RegionOf[n]).size - 1
        BY <3>1, <3>2, <3>4
      <4>2. PICK c \in off .. off + Named(layout, RegionOf[n]).size - 1 : c = off + i - 1
        BY <4>1
      <4>3. Merged(old, image)[c] = image[c]
        BY <2>2, <2>5, <3>1, MergedElsewhere
      <4> QED
        BY <1>3, <3>3, <4>2, <4>3
    <3> HIDE DEF f, off
    <3>6. At(image', off, Len(f)) = f
      BY <3>1, <3>2, <3>5, ReadBack
    <3> QED
      BY <3>6 DEF f, off
  <2>6. PayloadsPlaced'
    BY <1>1, <1>3, <2>5, GivenStays DEF PayloadsPlaced, At
  <2>7. Untouched'
    BY <1>3 DEF Untouched
  <2>8. Packaged'
    BY <1>3 DEF Packaged, Composes, Preserves
  <2> QED
    BY <2>1, <2>4, <2>6, <2>7, <2>8 DEF IInv
<1> QED
  BY <1>2, <1>3 DEF Package

THEOREM Invariance == Spec => []IInv
<1>1. IInv /\ [Next]_vars => IInv'
  <2> SUFFICES ASSUME IInv, [Next]_vars PROVE IInv'
    OBVIOUS
  <2>1. CASE UNCHANGED vars
    <3>1. Given
      BY <2>1 DEF vars, Given
    <3>2. pc' = pc /\ put' = put /\ image' = image /\ snapshot' = snapshot
      BY <2>1 DEF vars
    <3> QED
      BY <3>1, <3>2, GivenStays, OnlyRegionsStays
         DEF IInv, Checked, Fits, Written, SlotsWritten, PayloadsPlaced, Untouched, Packaged
  <2> QED
    BY <2>1, CheckInputsInvariant, PutRegionInvariant, PutManifestsInvariant, EmitInvariant,
       PackageInvariant DEF Next
<1> QED
  BY InitInvariant, <1>1, PTL DEF Spec

-----------------------------------------------------------------------------
(* The firmware *)

LEMMA RecordFields ==
  ASSUME NEW f, NEW off, NEW form
  PROVE  LET r == Record(f, off, form) IN
           r.offset = off /\ r.form = form /\ r.size = Len(f) /\ r.digest = f
BY DEF Record

LEMMA SliceShape ==
  ASSUME NEW f, IsSequence(f), NEW off \in Nat, NEW n \in Nat, off + n <= Len(f)
  PROVE  Len(Slice(f, off, n)) = n /\ \A i \in 1 .. n : Slice(f, off, n)[i] = f[off + i]
<1> DEFINE S == {f[i] : i \in DOMAIN f}
<1>1. f \in Seq(S)
  BY DEF IsSequence
<1> HIDE DEF S
<1> QED
  BY <1>1 DEF Slice

\* A part of a file that was placed is found at its place.
LEMMA ReadPart ==
  ASSUME NEW img, NEW base \in Nat, NEW f, IsSequence(f), At(img, base, Len(f)) = f,
         NEW part, IsSequence(part), NEW at \in Nat, base <= at,
         at - base + Len(part) <= Len(f), Slice(f, at - base, Len(part)) = part
  PROVE  At(img, at, Len(part)) = part
<1> DEFINE off == at - base
<1>1. off \in Nat /\ at = base + off
  OBVIOUS
<1>2. off + Len(part) <= Len(f) /\ Slice(f, off, Len(part)) = part
  OBVIOUS
<1> HIDE DEF off
<1>3. Len(f) \in Nat /\ Len(part) \in Nat
  BY SequenceShape
<1>4. \A i \in 1 .. Len(f) : img[base + i - 1] = f[i]
  BY ReadBack
<1>5. \A i \in 1 .. Len(part) : part[i] = f[off + i]
  BY <1>1, <1>3, <1>2, SliceShape
<1>6. ASSUME NEW i \in 1 .. Len(part) PROVE img[at + i - 1] = part[i]
  <2>1. off + i \in 1 .. Len(f) /\ base + (off + i) - 1 = at + i - 1
    BY <1>1, <1>3, <1>2
  <2>2. img[base + (off + i) - 1] = f[off + i]
    BY <1>4, <2>1
  <2> QED
    BY <1>5, <2>1, <2>2
<1> QED
  BY <1>6, ReadBack

\* What is known of the image once it is written, in the terms of the reader.
Emitted == IInv /\ pc \in {"emitted", "packaged"} /\ LayoutPasses(layout)

LEMMA InputsOfEmitted ==
  ASSUME Emitted
  PROVE  /\ layout \in Layouts /\ VerifyInputReceipts /\ VerifyFipLeaves
         /\ Slice(file["pbl"], Bl2Offset, Len(file["pbl"]) - Bl2Offset) = file["bl2"]
         /\ \A n \in Files : file[n] = built[n] /\ IsSequence(file[n]) /\ Len(file[n]) \in Nat \ {0}
BY FilesAreBuilt DEF Emitted, IInv, Inputs, Checked

LEMMA PlacedOfEmitted ==
  ASSUME Emitted, NEW n \in DOMAIN RegionOf
  PROVE  /\ Len(file[n]) \in 1 .. Table[RegionOf[n]].limit
         /\ At(image, Table[RegionOf[n]].offset, Len(file[n])) = file[n]
<1>1. n \in Files /\ RegionOf[n] \in Regions /\ layout \in Layouts
  BY PayloadNames, InputsOfEmitted
<1>2. PICK k \in 1 .. 7 : n = Payloads[k]
  BY PayloadNames
<1>3. put = 7
  BY PayloadNames DEF Emitted, IInv, Fits, Written
<1>4. Len(file[n]) <= Named(layout, RegionOf[n]).size
  BY <1>2, <1>3 DEF Emitted, IInv, Fits
<1>5. /\ Named(layout, RegionOf[n]).size <= Table[RegionOf[n]].limit
      /\ Table[RegionOf[n]].limit \in Nat
  BY <1>1, WithinLimit, TableNames DEF Emitted
<1>6. Named(layout, RegionOf[n]).size \in Nat
  BY <1>1, NamedRegion, TableNames DEF Emitted
<1>7. Len(file[n]) \in Nat \ {0}
  BY <1>1, InputsOfEmitted
<1>8. Len(file[n]) \in 1 .. Table[RegionOf[n]].limit
  BY <1>4, <1>5, <1>6, <1>7
<1> QED
  BY <1>8 DEF Emitted, IInv, PayloadsPlaced

LEMMA Bl2InPbl ==
  ASSUME Emitted
  PROVE  /\ Len(file["pbl"]) = 1 + Len(file["bl2"])
         /\ Slice(file["pbl"], 1, Len(file["bl2"])) = file["bl2"]
<1>1. \A n \in {"pbl", "bl2"} : IsSequence(file[n]) /\ Len(file[n]) \in Nat \ {0}
  BY InputsOfEmitted DEF Files
<1>2. Slice(file["pbl"], 1, Len(file["pbl"]) - 1) = file["bl2"]
  BY InputsOfEmitted DEF Bl2Offset
<1> DEFINE n == Len(file["pbl"]) - 1
<1>3. n \in Nat /\ 1 + n <= Len(file["pbl"])
  BY <1>1
<1>4. Len(file["bl2"]) = n
  <2> HIDE DEF n
  <2>1. Len(Slice(file["pbl"], 1, n)) = n
    BY <1>1, <1>3, SliceShape
  <2> QED
    BY <1>2, <2>1 DEF n
<1> QED
  BY <1>1, <1>2, <1>4

\* The entries of the table of the FIP.
LEMMA LeafEntries ==
  ASSUME Emitted, NEW k \in 1 .. 2
  PROVE  LET e == Toc(file["fip"]).entry[k] IN
           /\ e.id \in {"bl31", "uboot"} /\ e.size = Len(file[e.id]) /\ e.size > 0
           /\ Start(e) \in Nat /\ Start(e) >= 1 /\ End(e) <= Len(file["fip"])
           /\ End(e) = Start(e) + Len(file[e.id])
           /\ IsSequence(file[e.id]) /\ Slice(file["fip"], Start(e), e.size) = file[e.id]
<1> DEFINE t == Toc(file["fip"])  e == t.entry[k]
<1>1. {t.entry[1].id, t.entry[2].id} = {"bl31", "uboot"}
  BY InputsOfEmitted DEF VerifyFipLeaves
<1>2. e.id \in {"bl31", "uboot"}
  <2>1. k = 1 \/ k = 2
    OBVIOUS
  <2> QED
    BY <1>1, <2>1
<1>3. /\ e.size = Len(file[e.id]) /\ Start(e) >= 1 /\ End(e) <= Len(file["fip"])
      /\ Slice(file["fip"], Start(e), e.size) = file[e.id]
  BY InputsOfEmitted DEF VerifyFipLeaves
<1>4. IsSequence(file[e.id]) /\ Len(file[e.id]) \in Nat \ {0}
  BY <1>2, InputsOfEmitted DEF Files
<1>5. e.offset \in Nat
  <2>1. file["fip"] = built["fip"] /\ built \in Builds
    BY InputsOfEmitted DEF Files, Emitted, IInv, Inputs
  <2> QED
    BY <2>1, BuildsAssumption DEF Toc
<1> QED
  BY <1>2, <1>3, <1>4, <1>5 DEF Start, End

LEMMA LeavesInFip ==
  ASSUME Emitted, NEW c \in {"bl31", "uboot"}
  PROVE  Len(file[c]) \in Nat \ {0} /\ Len(file[c]) <= Len(file["fip"])
<1>1. Len(file[c]) \in Nat \ {0} /\ Len(file["fip"]) \in Nat
  BY InputsOfEmitted DEF Files
<1>2. PICK k \in 1 .. 2 : Toc(file["fip"]).entry[k].id = c
  <2>1. c \in {Toc(file["fip"]).entry[1].id, Toc(file["fip"]).entry[2].id}
    BY InputsOfEmitted DEF VerifyFipLeaves
  <2> QED
    BY <2>1
<1>3. LET e == Toc(file["fip"]).entry[k] IN
        Start(e) \in Nat /\ End(e) <= Len(file["fip"]) /\ End(e) = Start(e) + Len(file[c])
  BY <1>2, LeafEntries
<1> QED
  BY <1>1, <1>3

Rcw == <<file["pbl"][1]>>

LEMMA RcwShape == IsSequence(Rcw) /\ Len(Rcw) = 1 /\ Rcw[1] = file["pbl"][1]
BY DEF Rcw, IsSequence

\* The records of the manifest, where the firmware expects them.
LEMMA ManifestRecords ==
  ASSUME Emitted
  PROVE  /\ Manifest.component["rcw"] = Record(Rcw, 0, "hex")
         /\ Manifest.component["bl2"] = Record(file["bl2"], 1, "hex")
         /\ \A c \in Components \ {"rcw", "bl2"} :
              Manifest.component[c] = Record(file[c], Table[Holder(c)].offset, "hex")
         /\ \A c \in {"pbl", "fip"} : LET form == Named(layout, RegionOf[c]).form IN
              Manifest.container[c] = Record(file[c], Table[RegionOf[c]].offset, form)
<1>1. layout \in Layouts /\ LayoutPasses(layout)
  BY InputsOfEmitted DEF Emitted
<1>2. ASSUME NEW c \in Components \cup {"pbl", "fip"}
      PROVE  Named(layout, Holder(c)).offset = Table[Holder(c)].offset
  <2>1. Holder(c) \in Regions
    BY DEF Components, Holder, Inside, RegionOf, Regions
  <2> QED
    BY <1>1, <2>1, NamedRegion, TableNames
<1>3. \A c \in {"pbl", "fip"} : Holder(c) = RegionOf[c]
  BY DEF Holder, Inside
<1> QED
  BY <1>2, <1>3 DEF Manifest, Components, Bl2Offset, Rcw

LEMMA ManifestDecodes ==
  ASSUME Emitted, HexContainers(layout)
  PROVE  Decodes(Manifest)
<1>0. \A r \in {Manifest.component[c] : c \in Components}
            \cup {Manifest.container[c] : c \in {"pbl", "fip"}} : r.form = "hex"
  <2>1. ASSUME NEW c \in Components PROVE Manifest.component[c].form = "hex"
    <3>1. c = "rcw" \/ c = "bl2" \/ c \in Components \ {"rcw", "bl2"}
      OBVIOUS
    <3> QED
      BY <3>1, ManifestRecords, RecordFields
  <2>2. \A c \in {"pbl", "fip"} : Manifest.container[c].form = "hex"
    BY ManifestRecords, RecordFields DEF HexContainers, RegionOf
  <2> QED
    BY <2>1, <2>2
<1>1. \A c \in {"pbl", "fip"} : LET r == Manifest.container[c] IN
        /\ r.offset = Table[RegionOf[c]].offset /\ r.size = Len(file[c])
        /\ r.size \in 1 .. Table[RegionOf[c]].limit
  BY ManifestRecords, RecordFields, PlacedOfEmitted DEF RegionOf
<1>2. Len(file["pbl"]) = 1 + Len(file["bl2"]) /\ Len(file["bl2"]) \in Nat \ {0}
  BY Bl2InPbl, InputsOfEmitted DEF Files
<1>3. Table[RegionOf["pbl"]].offset = 0 /\ Table[RegionOf["pbl"]].limit \in Nat
  BY TableAssumption, TableNames DEF RegionOf, Regions
<1> DEFINE limit(c) == IF c = "rcw" THEN 1
                       ELSE Table[Holder(c)].limit - IF c = "bl2" THEN Bl2Offset ELSE 0
<1>4. ASSUME NEW c \in Components
      PROVE  LET r == Manifest.component[c] IN
               /\ r.offset = IF c = "bl2" THEN Bl2Offset ELSE Table[Holder(c)].offset
               /\ r.size \in 1 .. limit(c)
  <2>1. CASE c = "rcw"
    <3>1. Manifest.component[c].offset = 0 /\ Manifest.component[c].size = 1
      <4>1. Manifest.component[c] = Record(Rcw, 0, "hex")
        BY <2>1, ManifestRecords
      <4>2. Record(Rcw, 0, "hex").offset = 0 /\ Record(Rcw, 0, "hex").size = Len(Rcw)
        BY RecordFields
      <4> QED
        BY <4>1, <4>2, RcwShape
    <3>2. Holder(c) = RegionOf["pbl"]
      BY <2>1 DEF Holder, Inside
    <3> QED
      BY <1>3, <2>1, <3>1, <3>2
  <2>2. CASE c = "bl2"
    <3>1. Manifest.component[c].offset = 1 /\ Manifest.component[c].size = Len(file["bl2"])
      BY <2>2, ManifestRecords, RecordFields
    <3>2. Holder(c) = RegionOf["pbl"]
      BY <2>2 DEF Holder, Inside
    <3>3. Len(file["pbl"]) \in 1 .. Table[RegionOf["pbl"]].limit
      BY PlacedOfEmitted DEF RegionOf
    <3>4. Len(file["bl2"]) \in 1 .. Table[RegionOf["pbl"]].limit - 1
      BY <1>2, <1>3, <3>3
    <3> QED
      BY <2>2, <3>1, <3>2, <3>4 DEF Bl2Offset
  <2>3. CASE c \notin {"rcw", "bl2"}
    <3>1. Manifest.component[c].offset = Table[Holder(c)].offset /\ Manifest.component[c].size = Len(file[c])
      BY <2>3, ManifestRecords, RecordFields
    <3>2. Table[Holder(c)].limit \in Nat
      BY <2>3, TableNames DEF Components, Holder, Inside, RegionOf, Regions
    <3>3. Len(file[c]) \in 1 .. Table[Holder(c)].limit
      <4>1. CASE c \in {"bl31", "uboot"}
        <5>1. Holder(c) = RegionOf["fip"] /\ Len(file["fip"]) \in 1 .. Table[RegionOf["fip"]].limit
          BY <4>1, PlacedOfEmitted DEF Holder, Inside, RegionOf
        <5>2. Len(file[c]) \in Nat \ {0} /\ Len(file[c]) <= Len(file["fip"])
          BY <4>1, LeavesInFip
        <5> QED
          BY <3>2, <5>1, <5>2
      <4>2. CASE c \notin {"bl31", "uboot"}
        <5>1. c \in DOMAIN RegionOf /\ Holder(c) = RegionOf[c]
          BY <2>3, <4>2 DEF Components, Holder, Inside, RegionOf
        <5> QED
          BY <5>1, PlacedOfEmitted
      <4> QED
        BY <4>1, <4>2
    <3> QED
      BY <2>3, <3>1, <3>2, <3>3
  <2> QED
    BY <2>1, <2>2, <2>3
<1>5. Manifest.container["pbl"].size >= Bl2Offset + Manifest.component["bl2"].size
  BY <1>1, <1>2, ManifestRecords, RecordFields DEF Bl2Offset
<1> QED
  BY <1>0, <1>1, <1>4, <1>5 DEF Decodes

LEMMA Digests ==
  ASSUME Emitted
  PROVE  /\ \A c \in {"pbl", "fip"} : Hashes(image, Manifest.container[c])
         /\ \A c \in Components \ {"bl31", "uboot"} : Hashes(image, Manifest.component[c])
<1>1. ASSUME NEW c \in {"pbl", "fip"} PROVE Hashes(image, Manifest.container[c])
  <2>1. At(image, Table[RegionOf[c]].offset, Len(file[c])) = file[c]
    BY PlacedOfEmitted DEF RegionOf
  <2> QED
    BY <2>1, ManifestRecords, RecordFields DEF Hashes
<1>2. Table[RegionOf["pbl"]].offset = 0
  BY TableAssumption DEF RegionOf
<1>3. IsSequence(file["pbl"]) /\ Len(file["pbl"]) \in Nat \ {0}
      /\ At(image, 0, Len(file["pbl"])) = file["pbl"]
  BY <1>2, InputsOfEmitted, PlacedOfEmitted DEF Files, RegionOf
<1>4. ASSUME NEW c \in Components \ {"bl31", "uboot"} PROVE Hashes(image, Manifest.component[c])
  <2>1. CASE c = "rcw"
    <3>1. image[0] = file["pbl"][1]
      <4>1. \A i \in 1 .. Len(file["pbl"]) : image[0 + i - 1] = file["pbl"][i]
        BY <1>3, ReadBack
      <4> QED
        BY <1>3, <4>1
    <3>2. At(image, 0, Len(Rcw)) = Rcw
      <4>1. \A i \in 1 .. Len(Rcw) : image[0 + i - 1] = Rcw[i]
        BY <3>1, RcwShape
      <4> QED
        BY <4>1, RcwShape, ReadBack
    <3> QED
      BY <2>1, <3>2, ManifestRecords, RecordFields DEF Hashes
  <2>2. CASE c = "bl2"
    <3>1. IsSequence(file["bl2"]) /\ Len(file["bl2"]) \in Nat \ {0}
      BY InputsOfEmitted DEF Files
    <3>2. /\ 1 - 0 + Len(file["bl2"]) <= Len(file["pbl"])
          /\ Slice(file["pbl"], 1 - 0, Len(file["bl2"])) = file["bl2"]
      BY <1>3, Bl2InPbl
    <3>3. At(image, 1, Len(file["bl2"])) = file["bl2"]
      <4> DEFINE pbl == file["pbl"]  bl2 == file["bl2"]
      <4>1. PICK base \in Nat, at \in Nat : base = 0 /\ at = 1
        OBVIOUS
      <4>2. /\ base <= at /\ IsSequence(pbl) /\ At(image, base, Len(pbl)) = pbl /\ IsSequence(bl2)
            /\ at - base + Len(bl2) <= Len(pbl) /\ Slice(pbl, at - base, Len(bl2)) = bl2
        BY <1>3, <3>1, <3>2, <4>1
      <4> HIDE DEF pbl, bl2
      <4>3. At(image, at, Len(bl2)) = bl2
        BY <4>2, ReadPart
      <4> QED
        BY <4>1, <4>3 DEF bl2
    <3> QED
      BY <2>2, <3>3, ManifestRecords, RecordFields DEF Hashes
  <2>3. CASE c \notin {"rcw", "bl2"}
    <3>1. c \in DOMAIN RegionOf /\ Holder(c) = RegionOf[c]
      BY <2>3 DEF Components, Holder, Inside, RegionOf
    <3> QED
      BY <2>3, <3>1, PlacedOfEmitted, ManifestRecords, RecordFields DEF Hashes
  <2> QED
    BY <2>1, <2>2, <2>3
<1> QED
  BY <1>1, <1>4

LEMMA FipVerifies ==
  ASSUME Emitted
  PROVE  VerifyFip(image, Manifest)
<1> DEFINE f == file["fip"]  t == Toc(f)  fip == Manifest.container["fip"]
           base == Table[RegionOf["fip"]].offset
<1>1. fip.offset = base /\ fip.size = Len(f) /\ base \in Nat
  BY ManifestRecords, RecordFields, TableNames DEF RegionOf, Regions
<1>2. IsSequence(f) /\ Len(f) \in Nat \ {0} /\ At(image, base, Len(f)) = f
  BY InputsOfEmitted, PlacedOfEmitted DEF Files, RegionOf
<1>3. image[base][2] = t
  <2>1. \A i \in 1 .. Len(f) : image[base + i - 1] = f[i]
    <3> HIDE DEF f, base
    <3> QED
      BY <1>1, <1>2, ReadBack
  <2>2. 1 \in 1 .. Len(f) /\ base + 1 - 1 = base
    BY <1>1, <1>2
  <2>3. image[base] = f[1]
    BY <2>1, <2>2
  <2> QED
    BY <2>3 DEF Toc
<1>4. \A k \in 1 .. 2 : LET e == t.entry[k] IN
        /\ e.id \in {"bl31", "uboot"} /\ e.size = Len(file[e.id]) /\ e.size > 0
        /\ Start(e) \in Nat /\ Start(e) >= 1 /\ End(e) <= Len(f)
        /\ End(e) = Start(e) + Len(file[e.id])
        /\ IsSequence(file[e.id]) /\ Slice(f, Start(e), e.size) = file[e.id]
  BY LeafEntries
<1>5. ASSUME NEW k \in 1 .. 2
      PROVE  /\ t.entry[k].size = Manifest.component[t.entry[k].id].size
             /\ At(image, base + Start(t.entry[k]), t.entry[k].size)
                  = Manifest.component[t.entry[k].id].digest
  <2> DEFINE c == t.entry[k].id  off == Start(t.entry[k])
  <2>1. Manifest.component[c].size = Len(file[c]) /\ Manifest.component[c].digest = file[c]
    <3>1. c \in Components \ {"rcw", "bl2"}
      BY <1>4 DEF Components
    <3> HIDE DEF c
    <3>2. Manifest.component[c] = Record(file[c], Table[Holder(c)].offset, "hex")
      BY <3>1, ManifestRecords
    <3> QED
      BY <3>2, RecordFields
  <2>2. At(image, base + off, Len(file[c])) = file[c]
    <3>1. IsSequence(file[c]) /\ off \in Nat /\ off + Len(file[c]) <= Len(f)
          /\ Slice(f, off, Len(file[c])) = file[c]
      BY <1>4
    <3> DEFINE at == base + off  part == file[c]
    <3>2. at \in Nat /\ base <= at /\ at - base = off
      BY <1>1, <3>1
    <3>3. IsSequence(part) /\ at - base + Len(part) <= Len(f) /\ Slice(f, at - base, Len(part)) = part
      BY <3>1, <3>2
    <3> HIDE DEF f, base, c, off, at, part
    <3>4. At(image, at, Len(part)) = part
      BY <1>1, <1>2, <3>2, <3>3, ReadPart
    <3> QED
      BY <3>4 DEF at, part
  <2> QED
    BY <1>4, <2>1, <2>2
<1>6. /\ t.entry[1].id # t.entry[2].id /\ t.end = Len(f)
      /\ End(t.entry[1]) <= Start(t.entry[2]) \/ End(t.entry[2]) <= Start(t.entry[1])
  <2>1. /\ {t.entry[1].id, t.entry[2].id} = {"bl31", "uboot"} /\ t.end = Len(f)
        /\ End(t.entry[1]) <= Start(t.entry[2]) \/ End(t.entry[2]) <= Start(t.entry[1])
    BY InputsOfEmitted DEF VerifyFipLeaves
  <2>2. t.entry[1].id # t.entry[2].id
    <3> DEFINE x == t.entry[1].id  y == t.entry[2].id
    <3>1. "bl31" \in {x, y} /\ "uboot" \in {x, y}
      BY <2>1
    <3> HIDE DEF x, y
    <3>2. x # y
      BY <3>1
    <3> QED
      BY <3>2 DEF x, y
  <2> QED
    BY <2>1, <2>2
<1> HIDE DEF f, t, base
<1> QED
  BY <1>1, <1>3, <1>4, <1>5, <1>6 DEF VerifyFip

LEMMA Boots == IInv => EmittedBoots
<1> SUFFICES ASSUME Emitted
             PROVE  /\ HexContainers(layout) => FlashVerifies(image)
                    /\ \A k \in DOMAIN Payloads : LET f == built[Payloads[k]] IN
                         At(image, Table[RegionOf[Payloads[k]]].offset, Len(f)) = f
                    /\ pc = "emitted" =>
                         \A c \in Environment \cup {Anchors["update-journal"]} : image[c] = FF
  BY DEF Emitted, EmittedBoots
<1>1. \A n \in {"manifest-a", "manifest-b"} : image[Table[n].offset] = <<"manifest", Manifest, 0>>
  BY DEF Emitted, IInv, SlotsWritten, Written
<1>2. HexContainers(layout) => FlashVerifies(image)
  BY <1>1, ManifestDecodes, Digests, FipVerifies DEF FlashVerifies, ReadSlot
<1>3. \A k \in DOMAIN Payloads : LET f == built[Payloads[k]] IN
        At(image, Table[RegionOf[Payloads[k]]].offset, Len(f)) = f
  BY PayloadNames, InputsOfEmitted, PlacedOfEmitted
<1>4. ASSUME pc = "emitted", NEW c \in Environment \cup {Anchors["update-journal"]}
      PROVE  image[c] = FF
  <2>1. layout \in Layouts /\ LayoutPasses(layout) /\ OnlyRegions(image)
    BY <1>4, InputsOfEmitted DEF Emitted, IInv, Untouched
  <2>2. c \in Cells
    <3>1. Anchors["update-journal"] \in Cells
      <4>1. /\ "update-journal" \in DOMAIN Anchors
            /\ Named(layout, "update-journal").offset = Anchors["update-journal"]
            /\ Named(layout, "update-journal").size \in Nat \ {0}
            /\ Named(layout, "update-journal").offset + Named(layout, "update-journal").size <= Capacity
        BY <2>1, NamedRegion, TableNames
      <4> QED
        BY <4>1, TableAssumption DEF Cells
    <3>2. Environment \subseteq Cells
      BY TableAssumption DEF Environment, Cells
    <3> QED
      BY <3>1, <3>2
  <2> QED
    BY <2>1, <2>2, OfOthers DEF OnlyRegions
<1> QED
  BY <1>2, <1>3, <1>4

\* The packer and U-Boot agree, for every layout, build and table: an image
\* that is written under a layout that passes holds the files that were built and
\* leaves environments and journal erased; and if that layout writes the offsets of
\* the containers as the tracked one does, the image and the update that is made
\* of it are verified by the firmware.
THEOREM EmittedImagesBoot == Spec => []EmittedBoots
BY Invariance, Boots, PTL

-----------------------------------------------------------------------------
(* The package *)

\* The transaction and the packaging tool mean the same ranges.
LEMMA SameRanges ==
  /\ Nor!Sectors = Cells /\ Nor!Approved = Approved /\ Nor!Protected = Cells \ Approved
  /\ MetaStart \in Cells /\ MetaStart + 1 \in Cells
<1>1. Nor!Sectors = Cells
  BY DEF Nor!Sectors, Cells
<1>2. ASSUME NEW c \in Cells PROVE c \in Nor!Approved <=> c \in Approved
  BY <1>1, <1>2, RangesAssumption, TableAssumption
     DEF Nor!Approved, Nor!Region, Nor!Slots, Nor!SlotA, Nor!SlotB, Approved, Cells
<1>3. Approved \subseteq Cells
  BY RangesAssumption, TableAssumption DEF Approved, Cells
<1>4. Nor!Approved \subseteq Cells
  BY <1>1 DEF Nor!Approved
<1>5. MetaStart \in Cells /\ MetaStart + 1 \in Cells
  BY RangesAssumption, TableAssumption DEF Cells
<1> QED
  BY <1>1, <1>2, <1>3, <1>4, <1>5 DEF Nor!Protected

\* Two images that compose by the same manifest agree wherever it looks.
LEMMA PinnedAgree ==
  ASSUME NEW img, NEW other, Composes(img), Composes(other), img[MetaStart] = other[MetaStart],
         NEW r \in Items(img[MetaStart][2]), NEW c \in Span(r)
  PROVE  c \in Cells /\ img[c] = other[c]
<1>1. /\ r.offset \in Nat /\ r.size \in 1 .. Capacity - r.offset
      /\ At(img, r.offset, r.size) = r.digest /\ At(other, r.offset, r.size) = r.digest
  BY DEF Composes
<1> DEFINE i == c - r.offset + 1
<1>2. r.size \in Nat /\ r.offset + r.size <= Capacity
  BY <1>1, TableAssumption
<1>3. c \in Nat /\ c \in Cells /\ i \in 1 .. r.size /\ r.offset + i - 1 = c
  BY <1>1, <1>2, TableAssumption DEF Span, Cells
<1>4. At(img, r.offset, r.size)[i] = img[c] /\ At(other, r.offset, r.size)[i] = other[c]
  BY <1>3 DEF At
<1> QED
  BY <1>1, <1>3, <1>4

LEMMA Packages == IInv => PackagedIsValid
<1> SUFFICES ASSUME Composes(snapshot), Composes(image), Preserves(snapshot, image)
             PROVE  /\ Nor!Composition(Difference, Difference)
                    /\ \A s \in Nor!Protected : Difference[s] = "old"
                    /\ \E s \in Nor!Approved : Difference[s] = "new"
  BY DEF IInv, Packaged, PackagedIsValid
<1>1. \A c \in Cells : Difference[c] = IF image[c] = snapshot[c] THEN "old" ELSE "new"
  BY DEF Difference
<1>2. \A s \in Nor!Protected : Difference[s] = "old"
  BY <1>1, SameRanges DEF Preserves
<1>3. \E s \in Nor!Approved : Difference[s] = "new"
  <2>1. PICK c \in Approved : snapshot[c] # image[c]
    BY DEF Preserves
  <2>2. c \in Cells
    BY <2>1, SameRanges DEF Nor!Approved
  <2> QED
    BY <1>1, <2>1, <2>2, SameRanges
<1>4. image[MetaStart] = image[MetaStart + 1] /\ snapshot[MetaStart] = snapshot[MetaStart + 1]
  BY DEF Composes
<1>5. Difference[Nor!SlotA] = Difference[Nor!SlotB]
  BY <1>1, <1>4, SameRanges DEF Nor!SlotA, Nor!SlotB
<1>6. Nor!ValidSlot(Difference, Nor!SlotA)
  BY <1>1, SameRanges DEF Nor!ValidSlot, Nor!SlotA
<1>7. ASSUME NEW s \in PinnedCells
      PROVE  Difference[s] = Nor!Pinned(Difference[Nor!SlotA], Difference, s)
  <2>1. CASE image[MetaStart] # snapshot[MetaStart]
    BY <1>1, <2>1, SameRanges DEF Nor!Pinned, Nor!SlotA
  <2>2. CASE image[MetaStart] = snapshot[MetaStart]
    <3>1. PICK r \in Items(image[MetaStart][2]) : s \in Span(r)
      BY <2>2 DEF PinnedCells
    <3>2. s \in Cells /\ image[s] = snapshot[s]
      BY <2>2, <3>1, PinnedAgree
    <3>3. Difference[s] = "old"
      BY <1>1, <3>2
    <3>4. Difference[Nor!SlotA] = "old"
      BY <1>1, <2>2, SameRanges DEF Nor!SlotA
    <3> QED
      BY <3>3, <3>4 DEF Nor!Pinned
  <2> QED
    BY <2>1, <2>2
<1> QED
  BY <1>2, <1>3, <1>5, <1>6, <1>7 DEF Nor!Composition

\* What is packaged the update transaction may take for granted: one whole
\* composition, different from the snapshot, and only in the ranges it writes.
THEOREM PackagesAreValid == Spec => []PackagedIsValid
BY Invariance, Packages, PTL
=============================================================================
