---------------------------- MODULE MCFlashPack -----------------------------
(***************************************************************************)
(* FlashPack on 26 sectors: the tracked layout to scale, four others that   *)
(* pass and seven that do not, eleven builds, four snapshots, and any one   *)
(* file exchanged since the receipts.                                       *)
(***************************************************************************)
EXTENDS FlashPackInvariant

MCTable ==
  LET at(o, n) == [offset |-> o, limit |-> n] IN
  [n \in {"boot-pbl", "fip", "ddr-phy-fip", "manifest-a", "manifest-b", "mc-firmware", "dpl",
          "dpc", "linux-dtb"} |->
   CASE n = "boot-pbl" -> at(0, 2)       [] n = "fip" -> at(2, 5)
     [] n = "ddr-phy-fip" -> at(11, 1)   [] n = "manifest-a" -> at(16, 1)
     [] n = "manifest-b" -> at(17, 1)    [] n = "mc-firmware" -> at(20, 2)
     [] n = "dpl" -> at(22, 1)           [] n = "dpc" -> at(23, 2)
     [] n = "linux-dtb" -> at(25, 1)]

Region(n, o, s, m) == [name |-> n, offset |-> o, size |-> s, max |-> m, form |-> "hex"]
Plain(n, o, s) == Region(n, o, s, s)
TrackedRegions ==
  <<Plain("boot-pbl", 0, 2), Plain("fip", 2, 5), Plain("env-primary", 7, 1),
    Plain("env-redundant", 8, 1), Plain("env-reserved", 9, 1), Plain("secure-headers", 10, 1),
    Plain("ddr-phy-fip", 11, 1), Plain("fuse-provisioning-capsule", 12, 1),
    Plain("cpld-firmware", 13, 1), Plain("platform-reserved-a", 14, 1),
    Plain("platform-reserved-b", 15, 1), Plain("manifest-a", 16, 1), Plain("manifest-b", 17, 1),
    Plain("update-journal", 18, 1), Plain("manifest-future", 19, 1), Plain("mc-firmware", 20, 2),
    Plain("dpl", 22, 1), Plain("dpc", 23, 2), Plain("linux-dtb", 25, 1)>>

\* All but the redundant environment and what is reserved behind it.
MCAnchors ==
  [n \in {TrackedRegions[i].name : i \in DOMAIN TrackedRegions} \ {"env-redundant", "env-reserved"} |->
     TrackedRegions[CHOOSE i \in DOMAIN TrackedRegions : TrackedRegions[i].name = n].offset]

Policy(o)  == [n \in {"env-primary", "env-redundant"} |-> IF n = "env-primary" THEN 7 ELSE o]
File(rs)   == [regions |-> rs, env |-> Policy(8)]
Moved      == [TrackedRegions EXCEPT ![4] = Plain("env-reserved", 8, 1), ![5] = Plain("env-redundant", 9, 1)]
MCLayouts ==
  {File(TrackedRegions),
   File([TrackedRegions EXCEPT ![2].form = "number"]), File([TrackedRegions EXCEPT ![2].form = "upper"]),
   File([TrackedRegions EXCEPT ![1].form = "decimal"]),
   [regions |-> Moved, env |-> Policy(9)],
   File(Moved),                                                             \* not by its policy
   File([TrackedRegions EXCEPT ![5] = Plain("spare", 9, 1)]),                    \* passes, not packed
   File([TrackedRegions EXCEPT ![17] = Plain("dpc", 22, 2), ![18] = Plain("dpl", 24, 1)]),
   File([TrackedRegions EXCEPT ![17] = Region("dpl", 21, 2, 1)]),                \* overlap
   File([TrackedRegions EXCEPT ![16] = Plain("mc-firmware", 20, 1)]),            \* gap
   File([TrackedRegions EXCEPT ![19] = Region("linux-dtb", 25, 1, 2)]),
   File([TrackedRegions EXCEPT ![2] = Plain("fip", 2, 4), ![3] = Region("env-primary", 6, 2, 1)])}

Cell(n, v, i) == <<n, v, i>>
Entry(id, o, n) == [id |-> id, offset |-> o, size |-> n]
Fip(body, e1, e2, end) == <<Cell("toc", [entry |-> <<e1, e2>>, end |-> end], 0)>> \o body

P(v) == Cell("leaf", v, 1)
Q(v) == Cell("leaf", v, 2)
R(v) == Cell("leaf", v, 3)
Fips(v) ==
  {Fip(<<P(v), Q(v), Q(v), R(v)>>, Entry("bl31", 1, 2), Entry("uboot", 3, 2), 5),
   Fip(<<Q(v), R(v), P(v), Q(v)>>, Entry("uboot", 1, 2), Entry("bl31", 3, 2), 5),
   Fip(<<P(v), Q(v), R(v)>>, Entry("bl31", 1, 2), Entry("uboot", 2, 2), 4),     \* shared
   Fip(<<P(v), Q(v), Q(v), R(v)>>, Entry("bl31", 1, 2), Entry("uboot", 4, 2), 5),
   Fip(<<P(v), Q(v), Q(v), R(v)>>, Entry("bl31", 1, 2), Entry("bl31", 1, 2), 5),
   Fip(<<P(v), Q(v), Q(v), R(v)>>, Entry("bl31", 1, 2), Entry("uboot", 3, 2), 4)}

Build(v, fip, mc) ==
  [n \in Files |->
   CASE n = "rcw" -> <<Cell("rcw", v, 0)>>
     [] n = "pbl" -> <<Cell("rcw", v, 6), Cell("bl2", v, 1)>>
     [] n = "bl2" -> <<Cell("bl2", v, 1)>>
     [] n = "fip" -> fip
     [] n = "bl31" -> <<P(v), Q(v)>>
     [] n = "uboot" -> <<Q(v), R(v)>>
     [] n = "mc" -> [i \in 1 .. mc |-> Cell("mc", "both", i)]
     [] n = "ddr" -> <<Cell("ddr", "both", 1)>>
     [] OTHER -> <<Cell(n, v, 1)>>]

Usual(v) == Build(v, CHOOSE f \in Fips(v) : Toc(f).entry[1].id = "bl31"
                                           /\ Toc(f).entry[2] = Entry("uboot", 3, 2) /\ Toc(f).end = 5, 1)
MCBuilds ==
  {Build("new", f, 1) : f \in Fips("new")}
  \cup {[Usual("new") EXCEPT !["pbl"] = <<Cell("rcw", "new", 0), Cell("bl2", "new", 1)>>],
        [Usual("new") EXCEPT !["pbl"] = <<Cell("rcw", "new", 6), Cell("bl2", "old", 1)>>],
        [Usual("new") EXCEPT !["mc"] = [i \in 1 .. 3 |-> Cell("mc", "both", i)]],
        [Usual("new") EXCEPT !["ddr"] = <<Cell("ddr", "new", 1)>>], Usual("old")}

\* The image of an earlier release, its environment saved; and three that drifted: in the
\* journal, in a payload, and behind one, where no digest looks.
Card ==
  LET b == Usual("old")
      rec(n, o) == Record(b[n], o, "hex")
      m == [component |-> [c \in Components |->
              CASE c = "rcw" -> Record(<<b["pbl"][1]>>, 0, "hex")
                [] c = "bl2" -> rec("bl2", 1)
                [] OTHER -> rec(c, MCTable[Holder(c)].offset)],
            container |-> [c \in {"pbl", "fip"} |-> rec(c, MCTable[RegionOf[c]].offset)],
            length |-> "fits"] IN
  [c \in Cells |->
   IF c \in {7, 8} THEN Cell("env", "user", c)
   ELSE IF c \in {16, 17} THEN Cell("manifest", m, 0)
   ELSE LET ns == {n \in {"pbl", "fip", "ddr", "mc", "dpl", "dpc", "dtb"} :
                     c - MCTable[RegionOf[n]].offset \in 0 .. Len(b[n]) - 1} IN
        IF ns = {} THEN FF
        ELSE LET n == CHOOSE k \in ns : TRUE IN b[n][c - MCTable[RegionOf[n]].offset + 1]]
MCSnapshots == {Card, [Card EXCEPT ![18] = Cell("journal", "user", 0)],
                [Card EXCEPT ![23] = Cell("dpc", "user", 1)],
                [Card EXCEPT ![24] = Cell("dpc", "user", 2)]}
=============================================================================
