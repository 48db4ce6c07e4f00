---------------------------- MODULE InstallerProofs ----------------------------
(***************************************************************************)
(* The properties of the two installers, proved: of BoardLayer for every   *)
(* tree it may be given and every number of killed runs, of ServiceInstall *)
(* for every number of bundles.                                            *)
(*                                                                         *)
(* What the steps of the source installer have in common is Shaped; it is  *)
(* all that the proof knows of them, but for which files the clock and the *)
(* appended line are in.  A run that is at a step has done those before    *)
(* it, and no later step undoes them: it puts in what is missing and       *)
(* leaves the rest of the file.  A file that was cut short before the last *)
(* of what the rules look for has an edit that is stuck, so no later run   *)
(* goes past it.                                                           *)
(*                                                                         *)
(* A unit is backed because of the order of the steps of card-install: the *)
(* bundle and the configuration are there before the unit is, and stay.    *)
(* Nothing that it leaves behind is in its own way because no bundle is    *)
(* ever seen in part.  IInv says both.                                     *)
(***************************************************************************)
EXTENDS BoardLayerInvariant, ServiceInstall, TLAPS

-----------------------------------------------------------------------------
(* BoardLayer: what the steps have in common *)

\* The files of a step are those of its edits, and every edit has its rule; only
\* the clocks write the files of the clocks, and only dts/Makefile is appended to.
IsSequence(f) == f \in Seq({f[i] : i \in DOMAIN f})

ClockFiles == {"atf/dcfg.h", "atf/dcfg.c", "immap.h", "speed.c"}

IsClock(s, pair) ==
  s.files = pair /\ s.on = {pair[1], pair[2]} \X {"MEM", "MEM2"} \X {"clock"}

Shaped(s) ==
  /\ IsSequence(s.files)
  /\ \A e \in s.on : e[3] = s.rule /\ \E j \in DOMAIN s.files : s.files[j] = e[1]
  /\ \A j \in DOMAIN s.files : \E e \in s.on : e[1] = s.files[j]
  /\ s.rule = "clock" => \E pair \in ClockPairs : IsClock(s, pair)
  /\ s.rule # "clock" => \A j \in DOMAIN s.files : s.files[j] \notin ClockFiles
  /\ s.rule = "append" => \A j \in DOMAIN s.files : s.files[j] = "dts/Makefile"

Within(s, q)   == \E i \in 1 .. Len(q) : q[i] = s
ShapedSteps(q) == \E S : q \in Seq(S) /\ \A s \in S : Shaped(s)

\* The three kinds of steps.
LEMMA StepShaped ==
  ASSUME NEW rule, rule # "clock", NEW file, file \notin ClockFiles, NEW passage,
         rule = "append" => file = "dts/Makefile"
  PROVE  Shaped(Step(rule, file, passage))
<1> DEFINE s == Step(rule, file, passage)
<1>1. s.rule = rule /\ s.files = <<file>> /\ s.on = {<<file, passage, rule>>}
  BY DEF Step
<1>2. IsSequence(s.files)
  BY <1>1 DEF IsSequence
<1> QED
  BY <1>1, <1>2 DEF Shaped

LEMMA GateShaped ==
  ASSUME NEW name, name \notin {"clock", "append"}
  PROVE  Shaped(Gate(name))
<1> DEFINE s == Gate(name)
<1>1. s.rule = name /\ s.files = <<>> /\ s.on = {}
  BY DEF Gate
<1>2. IsSequence(s.files)
  BY <1>1 DEF IsSequence
<1> QED
  BY <1>1, <1>2 DEF Shaped

LEMMA ClockShaped ==
  /\ Shaped(Clock("atf/dcfg.h", "atf/dcfg.c"))
  /\ Shaped(Clock("immap.h", "speed.c"))
<1>1. ASSUME NEW h, NEW c, <<h, c>> \in ClockPairs
      PROVE  Shaped(Clock(h, c))
  <2> DEFINE s == Clock(h, c)
  <2>1. s.rule = "clock" /\ s.files = <<h, c>> /\ s.on = {h, c} \X {"MEM", "MEM2"} \X {"clock"}
    BY DEF Clock
  <2>2. IsSequence(s.files)
    BY <2>1 DEF IsSequence
  <2>3. \A e \in s.on : e[3] = s.rule /\ \E j \in DOMAIN s.files : s.files[j] = e[1]
    BY <2>1
  <2>4. \A j \in DOMAIN s.files : \E e \in s.on : e[1] = s.files[j]
    <3>1. <<h, "MEM", "clock">> \in s.on /\ <<c, "MEM", "clock">> \in s.on
      BY <2>1
    <3> QED
      BY <2>1, <3>1
  <2>5. IsClock(s, <<h, c>>)
    BY <2>1 DEF IsClock
  <2> QED
    BY <1>1, <2>1, <2>2, <2>3, <2>4, <2>5 DEF Shaped
<1>2. <<"atf/dcfg.h", "atf/dcfg.c">> \in ClockPairs /\ <<"immap.h", "speed.c">> \in ClockPairs
  BY DEF ClockPairs
<1> QED
  BY <1>1, <1>2

\* And the sequences that are made of them.
LEMMA JoinShaped ==
  ASSUME NEW q, NEW r, ShapedSteps(q), ShapedSteps(r)
  PROVE  ShapedSteps(q \o r)
<1>1. PICK S : q \in Seq(S) /\ \A s \in S : Shaped(s)
  BY DEF ShapedSteps
<1>2. PICK T : r \in Seq(T) /\ \A s \in T : Shaped(s)
  BY DEF ShapedSteps
<1> DEFINE U == S \cup T
<1>3. \A s \in U : Shaped(s)
  BY <1>1, <1>2
<1>4. q \in Seq(U) /\ r \in Seq(U)
  BY <1>1, <1>2
<1> HIDE DEF U
<1>5. q \o r \in Seq(U)
  BY <1>4
<1> QED
  BY <1>3, <1>5 DEF ShapedSteps

LEMMA JoinWithin ==
  ASSUME NEW q, NEW r, ShapedSteps(q), ShapedSteps(r), NEW s, Within(s, q) \/ Within(s, r)
  PROVE  Within(s, q \o r)
<1>1. PICK S : q \in Seq(S)
  BY DEF ShapedSteps
<1>2. PICK T : r \in Seq(T)
  BY DEF ShapedSteps
<1> DEFINE U == S \cup T
<1>3. q \in Seq(U) /\ r \in Seq(U)
  BY <1>1, <1>2
<1> HIDE DEF U
<1>4. Len(q) \in Nat /\ Len(r) \in Nat /\ Len(q \o r) = Len(q) + Len(r)
  BY <1>3
<1>5. \A i \in 1 .. Len(q) : (q \o r)[i] = q[i]
  BY <1>3
<1>6. \A i \in 1 .. Len(r) : (q \o r)[Len(q) + i] = r[i]
  BY <1>3
<1>7. CASE Within(s, q)
  <2>1. PICK i \in 1 .. Len(q) : q[i] = s
    BY <1>7 DEF Within
  <2>2. i \in 1 .. Len(q \o r) /\ (q \o r)[i] = s
    BY <1>4, <1>5, <2>1
  <2> QED
    BY <2>2 DEF Within
<1>8. CASE Within(s, r)
  <2>1. PICK i \in 1 .. Len(r) : r[i] = s
    BY <1>8 DEF Within
  <2>2. Len(q) + i \in 1 .. Len(q \o r) /\ (q \o r)[Len(q) + i] = s
    BY <1>4, <1>6, <2>1
  <2> QED
    BY <2>2 DEF Within
<1> QED
  BY <1>7, <1>8

LEMMA OneShaped ==
  ASSUME NEW a, Shaped(a)
  PROVE  ShapedSteps(<<a>>)
<1> DEFINE S == {a}
<1>1. <<a>> \in Seq(S) /\ \A s \in S : Shaped(s)
  OBVIOUS
<1> HIDE DEF S
<1> QED
  BY <1>1 DEF ShapedSteps

LEMMA TwoShaped ==
  ASSUME NEW a, NEW b, Shaped(a), Shaped(b)
  PROVE  ShapedSteps(<<a, b>>)
<1> DEFINE S == {a, b}
<1>1. <<a, b>> \in Seq(S) /\ \A s \in S : Shaped(s)
  OBVIOUS
<1> HIDE DEF S
<1> QED
  BY <1>1 DEF ShapedSteps

LEMMA ThreeShaped ==
  ASSUME NEW a, NEW b, NEW c, Shaped(a), Shaped(b), Shaped(c)
  PROVE  ShapedSteps(<<a, b, c>>)
<1> DEFINE S == {a, b, c}
<1>1. <<a, b, c>> \in Seq(S) /\ \A s \in S : Shaped(s)
  OBVIOUS
<1> HIDE DEF S
<1> QED
  BY <1>1 DEF ShapedSteps

LEMMA FourShaped ==
  ASSUME NEW a, NEW b, NEW c, NEW d, Shaped(a), Shaped(b), Shaped(c), Shaped(d)
  PROVE  ShapedSteps(<<a, b, c, d>>)
<1> DEFINE S == {a, b, c, d}
<1>1. <<a, b, c, d>> \in Seq(S) /\ \A s \in S : Shaped(s)
  OBVIOUS
<1> HIDE DEF S
<1> QED
  BY <1>1 DEF ShapedSteps

LEMMA AtfShaped ==
  ShapedSteps(install_atf) /\ Within(Clock("atf/dcfg.h", "atf/dcfg.c"), install_atf)
<1> USE DEF ClockFiles
<1> DEFINE clock == Clock("atf/dcfg.h", "atf/dcfg.c")
<1>1. ShapedSteps(<<Own("atf/banner.h"), Gate("atf layout")>>)
  BY StepShaped, GateShaped, TwoShaped DEF Own
<1>2. ShapedSteps(install_atf_ddr_clock) /\ Within(clock, install_atf_ddr_clock)
  BY ClockShaped, OneShaped DEF install_atf_ddr_clock, Within
<1>3. ShapedSteps(install_atf_ddr_training)
  BY StepShaped, FourShaped DEF install_atf_ddr_training
<1>4. ShapedSteps(install_atf_boot_banner)
  BY StepShaped, ThreeShaped DEF install_atf_boot_banner
<1>5. ShapedSteps(<< Own("atf/lx2160x200"), Step("geometry", "atf/flash_info.h", "W25Q128"),
                     Step("hook", "atf/psci_utils.S", "reset"),
                     Step("hook", "atf/console_pl011.c", "scope") >>)
  BY StepShaped, FourShaped DEF Own
<1> QED
  BY <1>1, <1>2, <1>3, <1>4, <1>5, JoinShaped, JoinWithin DEF install_atf

LEMMA IdentityShaped == ShapedSteps(identity_install)
<1> USE DEF ClockFiles
<1> DEFINE o == Own("x200_identity.h")
           h(p) == Step("hook", "eth-uclass.c", p)
           k(p) == Step("hook", "mc.c", p)
           S == {o, h("include"), h("hwaddr"), h("change"), h("start"), h("probe"),
                 k("include"), k("fixup"), k("memory"), k("dpl")}
<1>1. Shaped(o) /\ (\A p : Shaped(h(p))) /\ (\A p : Shaped(k(p)))
  BY StepShaped DEF Own
<1>2. \A s \in S : Shaped(s)
  BY <1>1
<1>3. identity_install \in Seq(S)
  BY DEF identity_install
<1> HIDE DEF S
<1> QED
  BY <1>2, <1>3 DEF ShapedSteps

LEMMA UbootShaped ==
  ShapedSteps(install_uboot) /\ Within(Clock("immap.h", "speed.c"), install_uboot)
<1> USE DEF ClockFiles
<1> DEFINE clock == Clock("immap.h", "speed.c")
<1>1. ShapedSteps(<<Own("banner.h"), Gate("profile"), Gate("uboot layout"), Own("layer")>>)
  BY StepShaped, GateShaped, FourShaped DEF Own
<1>2. ShapedSteps(install_uboot_ddr_clock) /\ Within(clock, install_uboot_ddr_clock)
  BY ClockShaped, OneShaped DEF install_uboot_ddr_clock, Within
<1>3. ShapedSteps(install_uboot_platform_fixes)
  BY StepShaped, ThreeShaped DEF install_uboot_platform_fixes
<1>4. ShapedSteps(install_uboot_pcie_fixes)
  BY StepShaped, OneShaped DEF install_uboot_pcie_fixes
<1>5. ShapedSteps(env_adapter)
  BY StepShaped, OneShaped DEF env_adapter
<1>6. ShapedSteps(<< Step("before", "arch/arm/Kconfig", "target"),
                     Step("insert", "arch/arm/Kconfig", "source"),
                     Step("append", "dts/Makefile", "dtb") >>)
  BY StepShaped, ThreeShaped
<1> QED
  BY <1>1, <1>2, <1>3, <1>4, <1>5, <1>6, IdentityShaped, JoinShaped, JoinWithin DEF install_uboot

\* Both programs are made of such steps, and so is one after the other.
LEMMA StepsShaped ==
  /\ ShapedSteps(Steps)
  /\ Within(Clock("atf/dcfg.h", "atf/dcfg.c"), Steps) /\ Within(Clock("immap.h", "speed.c"), Steps)
BY AtfShaped, UbootShaped, JoinShaped, JoinWithin DEF Steps

LEMMA StepShape ==
  /\ Last \in Nat /\ \A i \in 1 .. Last : Shaped(Steps[i])
<1>1. PICK S : Steps \in Seq(S) /\ \A s \in S : Shaped(s)
  BY StepsShaped DEF ShapedSteps
<1>2. Len(Steps) \in Nat /\ \A i \in 1 .. Len(Steps) : Steps[i] \in S
  BY <1>1
<1> QED
  BY <1>1, <1>2 DEF Last

\* Both clocks are among the steps.
LEMMA ClockStep ==
  ASSUME NEW pair \in ClockPairs
  PROVE  \E i \in 1 .. Last : IsClock(Steps[i], pair)
<1>1. ASSUME NEW h, NEW c, Within(Clock(h, c), Steps)
      PROVE  \E i \in 1 .. Last : IsClock(Steps[i], <<h, c>>)
  BY <1>1 DEF Within, Last, IsClock, Clock
<1> QED
  BY <1>1, StepsShaped DEF ClockPairs

-----------------------------------------------------------------------------
(* The edits and the files *)

LEMMA EditOf ==
  ASSUME NEW i \in 1 .. Last, NEW e \in Steps[i].on
  PROVE  /\ e \in Edits /\ Rule(e) = Steps[i].rule /\ e[1] \in Files
         /\ \E j \in DOMAIN Steps[i].files : Steps[i].files[j] = e[1]
<1>1. e \in Edits
  BY DEF Edits
<1> QED
  BY <1>1, StepShape DEF Shaped, Rule, Files

LEMMA StepOf ==
  ASSUME NEW e \in Edits
  PROVE  \E i \in 1 .. Last : e \in Steps[i].on
BY DEF Edits

LEMMA FilesOf ==
  ASSUME NEW i \in 1 .. Last
  PROVE  /\ Steps[i].files \in Seq(Files)
         /\ Steps[i].files = <<>> => Steps[i].rule \in Gates
<1> DEFINE fs == Steps[i].files
           S  == {fs[j] : j \in DOMAIN fs}
<1>1. fs \in Seq(S)
  BY StepShape DEF Shaped, IsSequence
<1>2. S \subseteq Files
  <2>1. ASSUME NEW j \in DOMAIN fs PROVE fs[j] \in Files
    <3>1. PICK e \in Steps[i].on : e[1] = fs[j]
      BY StepShape DEF Shaped
    <3> QED
      BY <3>1, EditOf
  <2> QED
    BY <2>1
<1> HIDE DEF S, fs
<1>3. fs \in Seq(Files)
  BY <1>1, <1>2
<1> QED
  BY <1>3 DEF fs, Gates

\* The fields of the clocks are edits, in files that are no one's own.
LEMMA ClockEdits ==
  ASSUME NEW pair \in ClockPairs, NEW m \in {"MEM", "MEM2"}
  PROVE  /\ <<pair[1], m, "clock">> \in Edits /\ <<pair[2], m, "clock">> \in Edits
         /\ pair[1] # pair[2] /\ pair = <<pair[1], pair[2]>>
         /\ pair[1] \in ClockFiles /\ pair[2] \in ClockFiles
<1>1. PICK i \in 1 .. Last : IsClock(Steps[i], pair)
  BY ClockStep
<1>2. <<pair[1], m, "clock">> \in Steps[i].on /\ <<pair[2], m, "clock">> \in Steps[i].on
  BY <1>1 DEF IsClock
<1>3. <<pair[1], m, "clock">> \in Edits /\ <<pair[2], m, "clock">> \in Edits
  BY <1>2 DEF Edits
<1> QED
  BY <1>3 DEF ClockPairs, ClockFiles

LEMMA OursApart == ClockFiles \cap Ours = {}
<1>1. ASSUME NEW e \in Edits, Rule(e) = "own" PROVE e[1] \notin ClockFiles
  <2>1. PICK i \in 1 .. Last : e \in Steps[i].on
    BY StepOf
  <2>2. Steps[i].rule = "own" /\ \E j \in DOMAIN Steps[i].files : Steps[i].files[j] = e[1]
    BY <1>1, <2>1, EditOf
  <2> QED
    BY <2>2, StepShape DEF Shaped
<1> QED
  BY <1>1 DEF Ours

LEMMA AppendFile ==
  ASSUME NEW e \in Edits, Rule(e) = "append"
  PROVE  e[1] = "dts/Makefile"
<1>1. PICK i \in 1 .. Last : e \in Steps[i].on
  BY StepOf
<1>2. Steps[i].rule = "append" /\ \E j \in DOMAIN Steps[i].files : Steps[i].files[j] = e[1]
  BY <1>1, EditOf
<1> QED
  BY <1>2, StepShape DEF Shaped

-----------------------------------------------------------------------------
(* What a rule finds, and what it does *)

LEMMA InstalledDone ==
  ASSUME NEW e, NEW p \in Pieces, Installed(Rule(e), p)
  PROVE  Done(e, p)
BY DEF Installed, Done

\* What is done is in once, or more often where the rule does not count.
LEMMA DoneCopies ==
  ASSUME NEW e, NEW p \in Pieces, Done(e, p)
  PROVE  p.copy = 1 \/ (Rule(e) = "hook" /\ p.copy > 1)
BY DEF Done, Installed, Pieces

LEMMA ApplyDone ==
  ASSUME NEW e, NEW p \in Pieces, Applicable(Rule(e), p)
  PROVE  Apply(e, p) \in Pieces /\ Done(e, Apply(e, p))
<1>1. CASE Rule(e) = "own"
  BY <1>1 DEF Apply, Done, Pieces, Absent
<1>2. CASE Rule(e) = "append"
  BY <1>2 DEF Apply, Done, Installed, Pieces, Applicable, Keeps
<1>3. CASE Rule(e) \notin {"own", "append"}
  <2>1. p.anchor >= 1
    BY <1>3 DEF Applicable
  <2>2. Apply(e, p) = [p EXCEPT !.copy = 1, !.anchor = IF Keeps(e) THEN @ ELSE @ - 1]
    BY <1>3, <2>1 DEF Apply, Pieces
  <2> HIDE DEF Rule
  <2>3. p.anchor - 1 \in Nat /\ p.anchor \in Nat
    BY <2>1 DEF Pieces
  <2> DEFINE n == IF Keeps(e) THEN p.anchor ELSE p.anchor - 1
  <2>4. n \in Nat
    BY <2>3
  <2>5. Apply(e, p) = [p EXCEPT !.copy = 1, !.anchor = n]
    BY <2>2
  <2> HIDE DEF n
  <2> DEFINE q == [p EXCEPT !.copy = 1, !.anchor = n]
  <2>6. q \in Pieces /\ q.copy = 1 /\ q.anchor = n /\ q.marked = p.marked
    BY <2>4 DEF Pieces
  <2>7. Rule(e) = "clock" => p.anchor = 1 /\ ~p.marked /\ n = 1
    BY DEF Applicable, Keeps, n
  <2>8. Rule(e) = "geometry" => ~p.marked
    BY DEF Applicable
  <2> HIDE DEF q
  <2>9. Done(e, q)
    BY <1>3, <2>6, <2>7, <2>8 DEF Done, Installed
  <2> QED
    BY <2>5, <2>6, <2>9 DEF q
<1> QED
  BY <1>1, <1>2, <1>3

\* No step goes past an edit that is stuck, and none is done.
LEMMA StuckStays ==
  ASSUME NEW e, NEW p \in Pieces, Stuck(e, p)
  PROVE  ~Done(e, p)
BY DEF Stuck, Done, Applicable

-----------------------------------------------------------------------------
(* The types *)

LEMMA ApplyTyped ==
  ASSUME LayerTypeOK, NEW i \in 1 .. Last, ~Refuses(Steps[i])
  PROVE  /\ \A e \in Steps[i].on :
              LET q == IF e \in Missing(Steps[i]) THEN Apply(e, piece[e]) ELSE piece[e]
              IN  q \in Pieces /\ Done(e, q)
         /\ \A e \in Missing(Steps[i]) : e \in Steps[i].on /\ Applicable(Rule(e), piece[e])
<1>1. ASSUME NEW e \in Steps[i].on
      PROVE  piece[e] \in Pieces /\ Rule(e) = Steps[i].rule
  BY <1>1, EditOf DEF LayerTypeOK
<1>2. ASSUME NEW e \in Missing(Steps[i])
      PROVE  e \in Steps[i].on /\ Applicable(Rule(e), piece[e])
  BY <1>1, <1>2 DEF Missing, Refuses
<1>3. ASSUME NEW e \in Missing(Steps[i])
      PROVE  Apply(e, piece[e]) \in Pieces /\ Done(e, Apply(e, piece[e]))
  BY <1>1, <1>2, <1>3, ApplyDone
<1>4. ASSUME NEW e \in Steps[i].on, e \notin Missing(Steps[i])
      PROVE  Done(e, piece[e])
  <2>1. Installed(Rule(e), piece[e])
    BY <1>1, <1>4 DEF Missing
  <2> QED
    BY <1>1, <1>4, <2>1, InstalledDone
<1> QED
  BY <1>1, <1>2, <1>3, <1>4

LEMMA NothingTyped == Nothing \in [Edits -> Pieces] /\ \A e \in Edits : Nothing[e] = Absent
<1>1. Absent \in Pieces
  BY DEF Absent, Pieces
<1> QED
  BY <1>1 DEF Nothing

LEMMA PutTyped ==
  ASSUME LayerTypeOK, NEW f, NEW content \in [Edits -> Pieces], Put(f, content)
  PROVE  /\ piece' \in [Edits -> Pieces]
         /\ \A e \in Edits : piece'[e] = IF e[1] = f THEN content[e] ELSE piece[e]
BY DEF Put, LayerTypeOK

\* What is left of a file that is cut short is a file again.
LEMMA CutTyped ==
  ASSUME LayerTypeOK, NEW f, Cut(f)
  PROVE  \E content \in [Edits -> Pieces] :
           /\ Put(f, content)
           /\ lost' = lost \cup ({f} \ Ours)
           /\ unseen' = IF Passable(f, content) THEN unseen \cup {f} ELSE unseen \ {f}
<1>1. PICK cutAt \in {e \in Edits : e[1] = f} : \E rest \in Remains(cutAt, text[cutAt]) :
        /\ Put(f, Prefix(cutAt, rest)) /\ lost' = lost \cup ({f} \ Ours)
        /\ unseen' = IF Passable(f, Prefix(cutAt, rest)) THEN unseen \cup {f} ELSE unseen \ {f}
  BY DEF Cut
<1>2. PICK rest \in Remains(cutAt, text[cutAt]) :
        /\ Put(f, Prefix(cutAt, rest)) /\ lost' = lost \cup ({f} \ Ours)
        /\ unseen' = IF Passable(f, Prefix(cutAt, rest)) THEN unseen \cup {f} ELSE unseen \ {f}
  BY <1>1
<1>3. Absent \in Pieces
  BY DEF Absent, Pieces
<1>4. rest \in Pieces
  <2>1. text[cutAt].anchor \in Nat /\ text[cutAt].copy \in Nat
    BY <1>1 DEF LayerTypeOK, Pieces
  <2>2. CASE rest = Absent
    BY <1>3, <2>2
  <2>3. CASE rest \in [anchor : 0 .. text[cutAt].anchor, copy : 0 .. text[cutAt].copy, marked : BOOLEAN]
    BY <2>1, <2>3 DEF Pieces
  <2> QED
    BY <1>2, <2>2, <2>3 DEF Remains
<1>5. Prefix(cutAt, rest) \in [Edits -> Pieces]
  BY <1>3, <1>4 DEF Prefix, LayerTypeOK
<1> QED
  BY <1>2, <1>5

\* Wherever it is cut, it has no more copies of a passage.
LEMMA CutCopies ==
  ASSUME LayerTypeOK, NEW f, Cut(f)
  PROVE  \A e \in Edits : piece'[e].copy > 0 => piece[e].copy > 0 \/ (e[1] = f /\ text[e].copy > 0)
<1> SUFFICES ASSUME NEW e \in Edits, e[1] = f, piece'[e].copy > 0 PROVE text[e].copy > 0
  <2>1. \A e \in Edits : e[1] # f => piece'[e] = piece[e]
    BY CutTyped, PutTyped
  <2> QED
    BY <2>1
<1>1. PICK cutAt \in {x \in Edits : x[1] = f} : \E rest \in Remains(cutAt, text[cutAt]) : Put(f, Prefix(cutAt, rest))
  BY DEF Cut
<1>2. PICK rest \in Remains(cutAt, text[cutAt]) : Put(f, Prefix(cutAt, rest))
  BY <1>1
<1>3. piece'[e] = IF Place[e] < Place[cutAt] THEN text[e] ELSE IF e = cutAt THEN rest ELSE Absent
  BY <1>2 DEF Put, Prefix
<1>4. Absent.copy = 0
  BY DEF Absent
<1>5. rest.copy > 0 => text[cutAt].copy > 0
  <2>1. text[cutAt].copy \in Nat
    BY <1>1 DEF LayerTypeOK, Pieces
  <2>2. rest = Absent \/ rest.copy \in 0 .. text[cutAt].copy
    BY <1>2 DEF Remains
  <2> QED
    BY <1>4, <2>1, <2>2
<1> QED
  BY <1>3, <1>4, <1>5

LEMMA LayerTypeNext == LayerTypeOK /\ InHand /\ [LayerNext]_layerVars => LayerTypeOK'
<1> SUFFICES ASSUME LayerTypeOK, InHand, [LayerNext]_layerVars PROVE LayerTypeOK'
  OBVIOUS
<1> USE StepShape
<1>1. CASE Start
  BY <1>1 DEF Start, LayerTypeOK
<1>2. CASE Read
  <2>1. stage \in 1 .. Last /\ stage + 1 \in 1 .. Last + 1
    BY <1>2 DEF Read, LayerTypeOK
  <2>2. CASE UNCHANGED <<todo, text>>
    BY <1>2, <2>1, <2>2 DEF Read, LayerTypeOK
  <2>3. CASE ~UNCHANGED <<todo, text>>
    <3>1. /\ todo' = Steps[stage].files
          /\ text' = [e \in Edits |-> IF e \in Missing(Steps[stage])
                                        THEN Apply(e, piece[e]) ELSE piece[e]]
      BY <1>2, <2>3 DEF Read
    <3>2. \A e \in Missing(Steps[stage]) : Apply(e, piece[e]) \in Pieces
      BY <1>2, <2>1, ApplyTyped DEF Read
    <3>3. text' \in [Edits -> Pieces]
      BY <3>1, <3>2 DEF LayerTypeOK
    <3>4. todo' \in Seq(Files)
      BY <2>1, <3>1, FilesOf
    <3> QED
      BY <1>2, <2>1, <3>1, <3>3, <3>4 DEF Read, LayerTypeOK
  <2> QED
    BY <2>2, <2>3
<1>3. CASE Refuse
  BY <1>3 DEF Refuse, LayerTypeOK
<1>4. CASE Write
  <2>1. todo \in Seq(Files) /\ todo # <<>> /\ Put(Head(todo), text)
    BY <1>4 DEF Write, LayerTypeOK
  <2>2. piece' \in [Edits -> Pieces]
    BY <2>1, PutTyped DEF LayerTypeOK
  <2>3. lost' \subseteq Files /\ unseen' \subseteq Files
    BY <1>4 DEF Write, LayerTypeOK
  <2>4. todo' \in Seq(Files)
    <3>1. todo' = <<>> \/ todo' = Tail(todo)
      BY <1>4 DEF Write, Forget
    <3>2. Tail(todo) \in Seq(Files)
      BY <2>1
    <3>3. <<>> \in Seq(Files)
      OBVIOUS
    <3> QED
      BY <3>1, <3>2, <3>3
  <2>5. text' \in [Edits -> Pieces]
    BY <1>4, NothingTyped DEF Write, Forget, LayerTypeOK
  <2>6. stage \in 1 .. Last /\ stage' \in {stage, stage + 1} /\ UNCHANGED <<wrong, run, kills>>
    BY <1>4 DEF Write, InHand, LayerTypeOK
  <2>7. stage' \in 1 .. Last + 1
    BY <2>6
  <2> QED
    BY <2>2, <2>3, <2>4, <2>5, <2>6, <2>7 DEF LayerTypeOK
<1>5. CASE Kill
  <2>1. piece' \in [Edits -> Pieces] /\ lost' \subseteq Files /\ unseen' \subseteq Files
    <3>1. CASE UNCHANGED <<piece, lost, unseen>>
      BY <3>1 DEF LayerTypeOK
    <3>2. CASE todo # <<>> /\ Cut(Head(todo))
      <4>1. Head(todo) \in Files
        BY <3>2 DEF LayerTypeOK
      <4>2. PICK content \in [Edits -> Pieces] :
              /\ Put(Head(todo), content) /\ lost' = lost \cup ({Head(todo)} \ Ours)
              /\ unseen' = IF Passable(Head(todo), content)
                             THEN unseen \cup {Head(todo)} ELSE unseen \ {Head(todo)}
        BY <3>2, CutTyped
      <4> QED
        BY <4>1, <4>2, PutTyped DEF LayerTypeOK
    <3> QED
      BY <1>5, <3>1, <3>2 DEF Kill
  <2>2. kills' \in 0 .. MaxKills
    BY <1>5, InputsAssumption DEF Kill, LayerTypeOK
  <2> QED
    BY <1>5, <2>1, <2>2, NothingTyped DEF Kill, Forget, LayerTypeOK
<1>6. CASE Finish
  BY <1>6 DEF Finish, LayerTypeOK
<1>7. CASE UNCHANGED layerVars
  BY <1>7 DEF layerVars, LayerTypeOK
<1> QED
  BY <1>1, <1>2, <1>3, <1>4, <1>5, <1>6, <1>7 DEF LayerNext

-----------------------------------------------------------------------------
(* One write *)

LEMMA Writes ==
  ASSUME LayerTypeOK, InHand, Write
  PROVE  /\ todo \in Seq(Files) /\ todo # <<>> /\ 1 \in DOMAIN todo /\ stage \in 1 .. Last
         /\ UNCHANGED <<wrong, run, kills, lost, unseen>>
         /\ \A e \in Edits : piece'[e] = IF e[1] = todo[1] THEN text[e] ELSE piece[e]
<1>1. todo \in Seq(Files) /\ todo # <<>> /\ Head(todo) = todo[1] /\ 1 \in DOMAIN todo
  BY DEF Write, LayerTypeOK
<1>2. stage \in 1 .. Last
  BY StepShape DEF Write, InHand, LayerTypeOK
<1>3. \A e \in Edits : piece'[e] = IF e[1] = todo[1] THEN text[e] ELSE piece[e]
  BY <1>1, PutTyped DEF Write, LayerTypeOK
<1>4. UNCHANGED <<wrong, run, kills, lost, unseen>>
  BY DEF Write
<1> QED
  BY <1>1, <1>2, <1>3, <1>4

\* The step is done with the last file, or goes on to the next.
LEMMA WritesOn ==
  ASSUME LayerTypeOK, InHand, Write
  PROVE  \/ Len(todo) = 1 /\ stage' = stage + 1 /\ todo' = <<>> /\ text' = Nothing
         \/ /\ UNCHANGED <<stage, text>> /\ todo' = Tail(todo)
            /\ \A i \in DOMAIN todo' : i + 1 \in DOMAIN todo /\ todo'[i] = todo[i + 1]
            /\ \A i \in DOMAIN todo : i # 1 => i - 1 \in DOMAIN todo' /\ todo'[i - 1] = todo[i]
<1>1. todo \in Seq(Files) /\ todo # <<>>
  BY Writes
<1>2. CASE Len(todo) = 1
  BY <1>2 DEF Write, Forget
<1>3. CASE Len(todo) # 1
  <2>1. UNCHANGED <<stage, text>> /\ todo' = Tail(todo)
    BY <1>3 DEF Write
  <2> DEFINE rest == Tail(todo)
  <2>2. DOMAIN todo = 1 .. Len(todo) /\ DOMAIN rest = 1 .. Len(rest) /\ Len(rest) = Len(todo) - 1
    BY <1>1
  <2>3. Len(todo) \in Nat /\ \A i \in 1 .. Len(rest) : rest[i] = todo[i + 1]
    BY <1>1
  <2> HIDE DEF rest
  <2>4. \A i \in DOMAIN rest : i + 1 \in DOMAIN todo /\ rest[i] = todo[i + 1]
    BY <2>2, <2>3
  <2>5. \A i \in DOMAIN todo : i # 1 => i - 1 \in DOMAIN rest /\ rest[i - 1] = todo[i]
    BY <2>2, <2>3
  <2> QED
    BY <2>1, <2>4, <2>5 DEF rest
<1> QED
  BY <1>2, <1>3

-----------------------------------------------------------------------------
(* What is done stays done *)

LEMMA StepsDoneNext == LayerTypeOK /\ StepsDone /\ InHand /\ [LayerNext]_layerVars => StepsDone'
<1> SUFFICES ASSUME LayerTypeOK, StepsDone, InHand, [LayerNext]_layerVars PROVE StepsDone'
  OBVIOUS
<1> USE StepShape
<1>1. CASE Start
  BY <1>1 DEF Start, StepsDone
<1>2. CASE Read
  <2>1. stage \in 1 .. Last /\ UNCHANGED <<piece, wrong, run>> /\ run = "running"
    BY <1>2 DEF Read, LayerTypeOK
  <2>2. CASE UNCHANGED stage
    BY <2>1, <2>2 DEF StepsDone
  <2>3. CASE stage' = stage + 1 /\ Missing(Steps[stage]) = {}
    <3>1. Steps[stage].rule # wrong
      BY <1>2 DEF Read, Refuses
    <3>2. ASSUME NEW e \in Steps[stage].on PROVE Done(e, piece[e])
      BY <1>2, <2>1, <2>3, ApplyTyped DEF Read
    <3>3. ASSUME NEW i \in 1 .. stage' - 1
          PROVE  Steps[i].rule # wrong /\ \A e \in Steps[i].on : Done(e, piece[e])
      <4>1. i = stage \/ i \in 1 .. stage - 1
        BY <2>1, <2>3
      <4> QED
        BY <2>1, <3>1, <3>2, <4>1 DEF StepsDone
    <3> QED
      BY <2>1, <3>3 DEF StepsDone
  <2> QED
    BY <1>2, <2>2, <2>3 DEF Read
<1>3. CASE Refuse
  BY <1>3 DEF Refuse, StepsDone
<1>4. CASE Write
  <2>1. ASSUME NEW i \in 1 .. Last, NEW e \in Steps[i].on,
               Done(e, piece[e]) \/ (i = stage /\ e[1] = todo[1])
        PROVE  Done(e, piece'[e])
    <3>1. e \in Edits
      BY <2>1, EditOf
    <3>2. piece'[e] = IF e[1] = todo[1] THEN text[e] ELSE piece[e]
      BY <1>4, <3>1, Writes
    <3>3. todo # <<>>
      BY <1>4, Writes
    <3>4. CASE e \in Steps[stage].on
      BY <2>1, <3>2, <3>3, <3>4 DEF InHand
    <3>5. CASE e \notin Steps[stage].on
      BY <2>1, <3>1, <3>2, <3>3, <3>5 DEF InHand
    <3> QED
      BY <3>4, <3>5
  <2>2. run = "running" /\ stage \in 1 .. Last /\ Steps[stage].rule # wrong /\ UNCHANGED <<wrong, run>>
    BY <1>4, Writes DEF Write, InHand
  <2>3. ASSUME NEW i \in 1 .. stage - 1
        PROVE  Steps[i].rule # wrong /\ \A e \in Steps[i].on : Done(e, piece'[e])
    <3>1. i \in 1 .. Last
      BY <2>2
    <3> QED
      BY <2>1, <2>2, <3>1 DEF StepsDone
  <2>4. CASE UNCHANGED stage
    BY <2>2, <2>3, <2>4 DEF StepsDone
  <2>5. CASE Len(todo) = 1 /\ stage' = stage + 1
    <3>1. ASSUME NEW e \in Steps[stage].on PROVE Done(e, piece'[e])
      <4>1. e[1] = todo[1] \/ ~Pending(e[1])
        BY <1>4, <2>5, Writes DEF Pending
      <4>2. Done(e, piece[e]) \/ e[1] = todo[1]
        BY <1>4, <4>1, Writes DEF InHand
      <4> QED
        BY <2>1, <2>2, <4>2
    <3>2. ASSUME NEW i \in 1 .. stage' - 1
          PROVE  Steps[i].rule # wrong /\ \A e \in Steps[i].on : Done(e, piece'[e])
      <4>1. i = stage \/ i \in 1 .. stage - 1
        BY <2>2, <2>5
      <4> QED
        BY <2>2, <2>3, <3>1, <4>1
    <3> QED
      BY <2>2, <3>2 DEF StepsDone
  <2> QED
    BY <1>4, <2>4, <2>5, WritesOn
<1>5. CASE Kill
  BY <1>5 DEF Kill, StepsDone
<1>6. CASE Finish
  BY <1>6 DEF Finish, StepsDone, LayerTypeOK
<1>7. CASE UNCHANGED layerVars
  BY <1>7 DEF layerVars, StepsDone
<1> QED
  BY <1>1, <1>2, <1>3, <1>4, <1>5, <1>6, <1>7 DEF LayerNext

-----------------------------------------------------------------------------
(* What is in hand *)

\* What Read leaves in hand, when it leaves anything.
LEMMA Reads ==
  ASSUME LayerTypeOK, Read, todo' # <<>>
  PROVE  /\ stage \in 1 .. Last /\ run = "running" /\ todo = <<>> /\ ~Refuses(Steps[stage])
         /\ UNCHANGED <<piece, lost, unseen, wrong, run, stage, kills>>
         /\ todo' = Steps[stage].files
         /\ \A e \in Edits : text'[e] = IF e \in Missing(Steps[stage])
                                          THEN Apply(e, piece[e]) ELSE piece[e]
<1>1. stage \in 1 .. Last /\ run = "running" /\ ~Refuses(Steps[stage]) /\ todo = <<>>
  BY StepShape DEF Read, LayerTypeOK
<1>2. /\ UNCHANGED <<piece, lost, unseen, wrong, run, stage, kills>>
      /\ todo' = Steps[stage].files
      /\ text' = [e \in Edits |-> IF e \in Missing(Steps[stage])
                                    THEN Apply(e, piece[e]) ELSE piece[e]]
  BY <1>1 DEF Read
<1> QED
  BY <1>1, <1>2

LEMMA InHandNext == LayerTypeOK /\ InHand /\ [LayerNext]_layerVars => InHand'
<1> SUFFICES ASSUME LayerTypeOK, InHand, [LayerNext]_layerVars, todo' # <<>> PROVE InHand'
  BY DEF InHand
<1>1. CASE Start
  BY <1>1 DEF Start, InHand
<1>2. CASE Read
  <2> DEFINE s == Steps[stage]
  <2>1. /\ stage \in 1 .. Last /\ run = "running" /\ todo = <<>> /\ ~Refuses(s)
        /\ UNCHANGED <<piece, lost, wrong, run, stage>>
        /\ todo' = s.files
        /\ \A e \in Edits : text'[e] = IF e \in Missing(s) THEN Apply(e, piece[e]) ELSE piece[e]
    BY <1>2, Reads
  <2>2. s.rule # wrong /\ stage <= Last
    BY <2>1, StepShape DEF Refuses
  <2>3. ASSUME NEW e \in Edits \ s.on PROVE text'[e] = piece[e]
    BY <2>1 DEF Missing
  <2>4. ASSUME NEW e \in s.on
        PROVE  Done(e, text'[e]) /\ \E i \in DOMAIN s.files : s.files[i] = e[1]
    <3>1. e \in Edits /\ \E i \in DOMAIN s.files : s.files[i] = e[1]
      BY <2>1, EditOf
    <3>2. Done(e, text'[e])
      BY <2>1, <3>1, ApplyTyped
    <3> QED
      BY <3>1, <3>2
  <2> HIDE DEF s
  <2>5. Steps[stage'] = s
    BY <2>1 DEF s
  <2> QED
    BY <2>1, <2>2, <2>3, <2>4, <2>5 DEF InHand, Pending
<1>3. CASE Write
  <2> DEFINE s == Steps[stage]
  <2>1. /\ UNCHANGED <<stage, text, lost, wrong, run>>
        /\ \A i \in DOMAIN todo' : i + 1 \in DOMAIN todo /\ todo'[i] = todo[i + 1]
        /\ \A i \in DOMAIN todo : i # 1 => i - 1 \in DOMAIN todo' /\ todo'[i - 1] = todo[i]
    BY <1>3, Writes, WritesOn
  <2>2. \A e \in Edits : piece'[e] = IF e[1] = todo[1] THEN text[e] ELSE piece[e]
    BY <1>3, Writes
  <2>3. /\ run = "running" /\ stage <= Last /\ s.rule # wrong
        /\ \A i \in DOMAIN todo : \E j \in DOMAIN s.files : todo[i] = s.files[j]
        /\ \A e \in Edits \ s.on : text[e] = piece[e]
        /\ \A e \in s.on : Done(e, text[e]) /\ (Pending(e[1]) \/ piece[e] = text[e])
    BY <1>3, Writes DEF InHand
  <2>4. s.on \subseteq Edits
    BY <1>3, Writes, EditOf
  <2> HIDE DEF s
  <2>5. \A i \in DOMAIN todo' : \E j \in DOMAIN s.files : todo'[i] = s.files[j]
    BY <2>1, <2>3
  <2>6. \A e \in Edits \ s.on : text[e] = piece'[e]
    BY <2>2, <2>3
  <2>7. ASSUME NEW e \in s.on PROVE Pending(e[1])' \/ piece'[e] = text[e]
    <3>1. CASE piece[e] = text[e]
      BY <2>2, <2>4, <3>1
    <3>2. CASE Pending(e[1])
      <4>1. PICK i \in DOMAIN todo : todo[i] = e[1]
        BY <3>2 DEF Pending
      <4>2. CASE i = 1
        BY <2>2, <2>4, <4>1, <4>2
      <4>3. CASE i # 1
        BY <2>1, <4>1, <4>3 DEF Pending
      <4> QED
        BY <4>2, <4>3
    <3> QED
      BY <2>3, <3>1, <3>2
  <2>8. Steps[stage'] = s
    BY <2>1 DEF s
  <2> QED
    BY <2>1, <2>3, <2>5, <2>6, <2>7, <2>8 DEF InHand
<1>4. CASE ~Start /\ ~Read /\ ~Write
  <2>1. CASE Kill
    BY <2>1 DEF Kill, Forget
  <2>2. CASE Refuse
    BY <2>2 DEF Refuse
  <2>4. CASE Finish
    <3>1. todo = <<>>
      BY <2>4, StepShape DEF Finish, InHand, LayerTypeOK
    <3> QED
      BY <2>4, <3>1 DEF Finish
  <2>3. CASE UNCHANGED layerVars
    BY <2>3 DEF layerVars, InHand, Pending
  <2> QED
    BY <1>4, <2>1, <2>2, <2>3, <2>4 DEF LayerNext
<1> QED
  BY <1>1, <1>2, <1>3, <1>4

LEMMA ClockInHandNext ==
  LayerTypeOK /\ InHand /\ ClockInHand /\ [LayerNext]_layerVars => ClockInHand'
<1> SUFFICES ASSUME LayerTypeOK, InHand, ClockInHand, [LayerNext]_layerVars,
                    todo' # <<>>, Steps[stage'].rule = "clock"
             PROVE  ClockInHand'
  BY DEF ClockInHand
<1>1. CASE Read
  <2>1. stage \in 1 .. Last /\ UNCHANGED stage /\ todo' = Steps[stage].files
    BY <1>1, Reads
  <2>2. \E pair \in ClockPairs : Steps[stage].files = pair
    BY <2>1, StepShape DEF Shaped, IsClock
  <2> QED
    BY <2>1, <2>2 DEF ClockInHand
<1>2. CASE Write
  <2>1. UNCHANGED stage /\ todo' = Tail(todo)
    BY <1>2, WritesOn
  <2>2. PICK pair \in ClockPairs : Steps[stage].files = pair /\ (todo = pair \/ todo = <<pair[2]>>)
    BY <1>2, <2>1, Writes DEF ClockInHand
  <2>3. Tail(<<pair[2]>>) = <<>>
    OBVIOUS
  <2>4. todo = pair
    BY <2>1, <2>2, <2>3
  <2>5. \A a, b : Tail(<<a, b>>) = <<b>>
    OBVIOUS
  <2>6. todo' = <<pair[2]>>
    BY <2>1, <2>4, <2>5, ClockEdits
  <2> QED
    BY <2>1, <2>2, <2>6 DEF ClockInHand
<1>3. CASE ~Read /\ ~Write
  <2>1. CASE Kill
    BY <2>1 DEF Kill, Forget
  <2>2. CASE Start
    BY <2>2 DEF Start, InHand
  <2>3. CASE Refuse \/ Finish \/ UNCHANGED layerVars
    BY <2>3 DEF Refuse, Finish, layerVars, ClockInHand
  <2> QED
    BY <1>3, <2>1, <2>2, <2>3 DEF LayerNext
<1> QED
  BY <1>1, <1>2, <1>3

-----------------------------------------------------------------------------
(* What was cut short too early is not passed *)

LEMMA LostStuckNext ==
  LayerTypeOK /\ InHand /\ LostStuck /\ [LayerNext]_layerVars => LostStuck'
<1> SUFFICES ASSUME LayerTypeOK, InHand, LostStuck, [LayerNext]_layerVars,
                    NEW f \in lost', f \notin unseen'
             PROVE  (\E e \in Edits : e[1] = f /\ Stuck(e, piece[e]) /\ (todo # <<>> => text[e] = piece[e]))'
  BY DEF LostStuck
<1>0. \A e \in Edits : Stuck(e, piece[e])' <=> Stuck(e, piece'[e])
  BY DEF Stuck, Installed, Applicable
<1>1. f \in lost /\ f \notin unseen =>
        \E e \in Edits : e[1] = f /\ Stuck(e, piece[e]) /\ (todo # <<>> => text[e] = piece[e])
  BY DEF LostStuck
<1>2. CASE Read
  <2>1. UNCHANGED <<piece, lost, unseen>>
    BY <1>2 DEF Read
  <2>2. f \in lost /\ f \notin unseen
    BY <2>1
  <2>3. PICK e \in Edits : e[1] = f /\ Stuck(e, piece[e])
    BY <1>1, <2>2
  <2>4. ASSUME todo' # <<>> PROVE text'[e] = piece[e]
    <3>1. e \notin Missing(Steps[stage])
      BY <1>2, <2>3, <2>4, Reads, ApplyTyped DEF Stuck
    <3> QED
      BY <1>2, <2>4, <3>1, Reads
  <2>5. Stuck(e, piece[e])'
    BY <1>0, <2>1, <2>3
  <2> QED
    BY <2>1, <2>3, <2>4, <2>5
<1>3. CASE Write
  <2>1. todo # <<>> /\ UNCHANGED <<lost, unseen>>
    BY <1>3, Writes
  <2>2. f \in lost /\ f \notin unseen
    BY <2>1
  <2>3. PICK e \in Edits : e[1] = f /\ Stuck(e, piece[e]) /\ text[e] = piece[e]
    BY <1>1, <2>1, <2>2
  <2>4. piece'[e] = piece[e]
    BY <1>3, <2>3, Writes
  <2>5. todo' # <<>> => UNCHANGED text
    BY <1>3, WritesOn
  <2>6. Stuck(e, piece[e])'
    BY <1>0, <2>3, <2>4
  <2> QED
    BY <2>3, <2>4, <2>5, <2>6
<1>4. CASE Kill
  <2>1. todo' = <<>>
    BY <1>4 DEF Kill, Forget
  <2>2. CASE UNCHANGED <<piece, lost, unseen>>
    <3>1. f \in lost /\ f \notin unseen
      BY <2>2
    <3>2. PICK e \in Edits : e[1] = f /\ Stuck(e, piece[e])
      BY <1>1, <3>1
    <3>3. Stuck(e, piece[e])'
      BY <1>0, <2>2, <3>2
    <3> QED
      BY <2>1, <3>2, <3>3
  <2>3. CASE todo # <<>> /\ Cut(Head(todo))
    <3> DEFINE g == Head(todo)
    <3>1. PICK content \in [Edits -> Pieces] :
            /\ Put(g, content) /\ lost' = lost \cup ({g} \ Ours)
            /\ unseen' = IF Passable(g, content) THEN unseen \cup {g} ELSE unseen \ {g}
      BY <2>3, CutTyped
    <3> HIDE DEF g
    <3>2. \A e \in Edits : piece'[e] = IF e[1] = g THEN content[e] ELSE piece[e]
      BY <3>1, PutTyped
    <3>3. CASE f = g
      <4>1. ~Passable(g, content)
        BY <3>1, <3>3
      <4>2. PICK e \in Edits : e[1] = g /\ Stuck(e, content[e])
        BY <4>1 DEF Passable, Stuck
      <4>3. Stuck(e, piece[e])'
        BY <1>0, <3>2, <4>2
      <4> QED
        BY <2>1, <3>3, <4>2, <4>3
    <3>4. CASE f # g
      <4>1. f \in lost /\ f \notin unseen
        BY <3>1, <3>4
      <4>2. PICK e \in Edits : e[1] = f /\ Stuck(e, piece[e])
        BY <1>1, <4>1
      <4>3. Stuck(e, piece[e])'
        BY <1>0, <3>2, <3>4, <4>2
      <4> QED
        BY <2>1, <4>2, <4>3
    <3> QED
      BY <3>3, <3>4
  <2> QED
    BY <1>4, <2>2, <2>3 DEF Kill
<1>5. CASE ~Read /\ ~Write /\ ~Kill
  <2>1. UNCHANGED <<piece, lost, unseen, todo, text>>
    BY <1>5 DEF LayerNext, Start, Refuse, Finish, layerVars
  <2>2. f \in lost /\ f \notin unseen
    BY <2>1
  <2>3. PICK e \in Edits : e[1] = f /\ Stuck(e, piece[e]) /\ (todo # <<>> => text[e] = piece[e])
    BY <1>1, <2>2
  <2>4. Stuck(e, piece[e])'
    BY <1>0, <2>1, <2>3
  <2> QED
    BY <2>1, <2>3, <2>4
<1> QED
  BY <1>2, <1>3, <1>4, <1>5

-----------------------------------------------------------------------------
(* The two files of the clock *)

LEMMA ClockWritten ==
  ASSUME LayerTypeOK, InHand, ClockInHand, ClockKept, Write, NEW pair \in ClockPairs,
         NEW m \in {"MEM", "MEM2"}, Steps[stage].rule = "clock", Steps[stage].files = pair
  PROVE  /\ Defined(piece, pair, m)' = 1
         /\ todo' = <<pair[2]>> \/ Used(piece, pair, m)' = 1
<1> DEFINE h == <<pair[1], m, "clock">>
           c == <<pair[2], m, "clock">>
<1>1. h \in Edits /\ c \in Edits /\ pair[1] # pair[2] /\ pair = <<pair[1], pair[2]>>
  BY ClockEdits
<1>2. stage \in 1 .. Last /\ todo # <<>>
  BY Writes
<1>3. h \in Steps[stage].on /\ c \in Steps[stage].on
  BY <1>2, StepShape DEF Shaped, IsClock
<1>4. Rule(h) = "clock" /\ Rule(c) = "clock"
  BY DEF Rule
<1>5. text[h].copy = 1 /\ text[c].copy = 1
  BY <1>2, <1>3, <1>4 DEF InHand, Done, Installed
<1>6. h[1] = pair[1] /\ c[1] = pair[2]
  OBVIOUS
<1> HIDE DEF h, c
<1>7. /\ piece'[h] = IF pair[1] = todo[1] THEN text[h] ELSE piece[h]
      /\ piece'[c] = IF pair[2] = todo[1] THEN text[c] ELSE piece[c]
  BY <1>1, <1>6, Writes
<1>8. CASE todo = pair
  <2>1. \A a, b : Len(<<a, b>>) = 2 /\ Tail(<<a, b>>) = <<b>>
    OBVIOUS
  <2>2. Len(todo) = 2 /\ Tail(todo) = <<pair[2]>>
    BY <1>1, <1>8, <2>1
  <2>3. Len(todo) # 1
    BY <2>2
  <2>4. todo' = Tail(todo)
    BY <2>3, WritesOn
  <2>5. todo' = <<pair[2]>>
    BY <2>2, <2>4
  <2> QED
    BY <1>5, <1>7, <1>8, <2>5 DEF Defined, h
<1>9. CASE todo = <<pair[2]>>
  <2>1. ~Pending(pair[1])
    BY <1>1, <1>9 DEF Pending
  <2>2. piece[h] = text[h]
    BY <1>2, <1>3, <1>6, <2>1 DEF InHand
  <2>3. todo[1] = pair[2]
    BY <1>9
  <2> QED
    BY <1>1, <1>5, <1>7, <2>2, <2>3 DEF Defined, Used, h, c
<1>10. todo = pair \/ todo = <<pair[2]>>
  BY <1>2 DEF ClockInHand
<1> QED
  BY <1>8, <1>9, <1>10

\* Only their own step touches them.
LEMMA ClockOnly ==
  ASSUME LayerTypeOK, InHand, ClockInHand, todo # <<>>, NEW pair \in ClockPairs,
         todo[1] = pair[1] \/ todo[1] = pair[2]
  PROVE  Steps[stage].rule = "clock" /\ Steps[stage].files = pair
<1>1. 1 \in DOMAIN todo /\ stage \in 1 .. Last
  <2>1. todo \in Seq(Files)
    BY DEF LayerTypeOK
  <2> QED
    BY <2>1, StepShape DEF InHand, LayerTypeOK
<1>2. CASE Steps[stage].rule # "clock"
  <2>1. PICK j \in DOMAIN Steps[stage].files : todo[1] = Steps[stage].files[j]
    BY <1>1 DEF InHand
  <2>2. todo[1] \notin ClockFiles
    BY <1>1, <1>2, <2>1, StepShape DEF Shaped
  <2> QED
    BY <2>2 DEF ClockPairs, ClockFiles
<1>3. CASE Steps[stage].rule = "clock"
  <2>1. PICK other \in ClockPairs :
          Steps[stage].files = other /\ (todo = other \/ todo = <<other[2]>>)
    BY <1>3 DEF ClockInHand
  <2>2. todo[1] \in {other[1], other[2]}
    BY <2>1
  <2>3. other = pair
    BY <2>2 DEF ClockPairs
  <2> QED
    BY <1>3, <2>1, <2>3
<1> QED
  BY <1>2, <1>3

LEMMA ClockApart ==
  ASSUME LayerTypeOK, InHand, ClockInHand, Write, NEW pair \in ClockPairs,
         ~(Steps[stage].rule = "clock" /\ Steps[stage].files = pair)
  PROVE  todo[1] # pair[1] /\ todo[1] # pair[2]
BY Writes, ClockOnly

\* Who writes the source has written its header.
LEMMA ClockHeader ==
  ASSUME LayerTypeOK, InHand, ClockInHand, todo # <<>>, NEW pair \in ClockPairs,
         NEW m \in {"MEM", "MEM2"},
         Steps[stage].rule = "clock", Steps[stage].files = pair, todo[1] = pair[2]
  PROVE  Defined(piece, pair, m) = 1
<1> DEFINE h == <<pair[1], m, "clock">>
<1>1. h \in Edits /\ h[1] = pair[1] /\ pair[1] # pair[2] /\ Rule(h) = "clock"
  BY ClockEdits DEF Rule
<1>2. todo = <<pair[2]>>
  BY <1>1 DEF ClockInHand
<1>3. stage \in 1 .. Last
  BY StepShape DEF InHand, LayerTypeOK
<1>4. h \in Steps[stage].on
  BY <1>3, StepShape DEF Shaped, IsClock
<1> HIDE DEF h
<1>5. ~Pending(h[1])
  BY <1>1, <1>2 DEF Pending
<1>6. piece[h] = text[h] /\ text[h].copy = 1
  BY <1>1, <1>4, <1>5 DEF InHand, Done, Installed
<1> QED
  BY <1>6 DEF Defined, h

LEMMA ClockKeptNext ==
  /\ LayerTypeOK /\ InHand /\ ClockInHand /\ ClockKept
  /\ [LayerNext]_layerVars
  => ClockKept'
<1> SUFFICES ASSUME LayerTypeOK, InHand, ClockInHand, ClockKept, [LayerNext]_layerVars,
                    NEW pair \in ClockPairs, NEW m \in {"MEM", "MEM2"},
                    ~Alien(piece, pair, m)'
             PROVE  /\ Used(piece, pair, m)' > 0 => Defined(piece, pair, m)' > 0 \/ pair[1] \in lost'
                    /\ \/ kills' > 0 \/ todo' = <<pair[2]>>
                       \/ Defined(piece, pair, m)' > 0 => Used(piece, pair, m)' > 0
  BY DEF ClockKept
<1> DEFINE h == <<pair[1], m, "clock">>
           c == <<pair[2], m, "clock">>
<1>1. /\ h \in Edits /\ c \in Edits /\ h[1] = pair[1] /\ c[1] = pair[2]
      /\ pair[1] \in ClockFiles /\ pair[2] \in ClockFiles
  BY ClockEdits
<1> HIDE DEF h, c
<1>2. ASSUME piece'[h] = piece[h], piece'[c] = piece[c], lost \subseteq lost',
             kills' > 0 \/ (kills' = kills /\ (todo # <<pair[2]>> \/ todo' = todo))
      PROVE  /\ Used(piece, pair, m)' > 0 => Defined(piece, pair, m)' > 0 \/ pair[1] \in lost'
             /\ \/ kills' > 0 \/ todo' = <<pair[2]>>
                \/ Defined(piece, pair, m)' > 0 => Used(piece, pair, m)' > 0
  BY <1>2 DEF ClockKept, Used, Defined, Alien, h, c
<1>3. CASE Write
  <2>1. CASE Steps[stage].rule = "clock" /\ Steps[stage].files = pair
    <3>1. Defined(piece, pair, m)' = 1 /\ (todo' = <<pair[2]>> \/ Used(piece, pair, m)' = 1)
      BY <1>3, <2>1, ClockWritten
    <3> QED
      BY <3>1
  <2>2. CASE ~(Steps[stage].rule = "clock" /\ Steps[stage].files = pair)
    <3>1. todo[1] # pair[1] /\ todo[1] # pair[2]
      BY <1>3, <2>2, ClockApart
    <3>2. piece'[h] = piece[h] /\ piece'[c] = piece[c] /\ UNCHANGED <<lost, kills>>
      BY <1>1, <1>3, <3>1, Writes
    <3>3. todo # <<pair[2]>>
      BY <3>1
    <3> QED
      BY <1>2, <3>2, <3>3
  <2> QED
    BY <2>1, <2>2
<1>4. CASE Kill
  <2>1. kills' > 0
    BY <1>4, InputsAssumption DEF Kill, LayerTypeOK
  <2>2. CASE UNCHANGED <<piece, lost, unseen>>
    BY <1>2, <2>1, <2>2
  <2>3. CASE todo # <<>> /\ Cut(Head(todo))
    <3> DEFINE f == Head(todo)
    <3>1. PICK content \in [Edits -> Pieces] : Put(f, content) /\ lost' = lost \cup ({f} \ Ours)
      BY <2>3, CutTyped
    <3>2. \A e \in Edits : piece'[e].copy > 0 => piece[e].copy > 0 \/ (e[1] = f /\ text[e].copy > 0)
      BY <2>3, CutCopies
    <3>3. f = todo[1] /\ todo # <<>>
      BY <2>3
    <3> HIDE DEF f
    <3>4. \A e \in Edits : e[1] # f => piece'[e] = piece[e]
      BY <3>1, PutTyped
    <3>5. CASE f = pair[1]
      <4>1. pair[1] \in lost'
        BY <1>1, <3>1, <3>5, OursApart
      <4> QED
        BY <2>1, <4>1
    <3>6. CASE f = pair[2]
      <4>1. Steps[stage].rule = "clock" /\ Steps[stage].files = pair
        BY <3>3, <3>6, ClockOnly
      <4>2. Defined(piece, pair, m) = 1
        BY <3>3, <3>6, <4>1, ClockHeader
      <4>3. piece'[h] = piece[h]
        BY <1>1, <3>4, <3>6, ClockEdits
      <4>4. Defined(piece, pair, m)' = 1
        BY <4>2, <4>3 DEF Defined, h
      <4> QED
        BY <2>1, <4>4
    <3>7. CASE f # pair[1] /\ f # pair[2]
      BY <1>1, <1>2, <2>1, <3>1, <3>4, <3>7
    <3> QED
      BY <3>5, <3>6, <3>7
  <2> QED
    BY <1>4, <2>2, <2>3 DEF Kill
<1>5. CASE ~Write /\ ~Kill
  <2>1. UNCHANGED <<piece, lost, kills>> /\ (UNCHANGED todo \/ todo = <<>>)
    BY <1>5 DEF LayerNext, Start, Read, Refuse, Finish, layerVars
  <2> QED
    BY <1>2, <2>1
<1> QED
  BY <1>3, <1>4, <1>5

-----------------------------------------------------------------------------
(* The theorems *)

LEMMA LayerInitial == LayerInit => LayerIInv
<1> SUFFICES ASSUME LayerInit PROVE LayerIInv
  OBVIOUS
<1>1. PICK input \in Inputs : piece = input.tree /\ wrong = input.fails
  BY DEF LayerInit
<1>2. LayerTypeOK
  <2>1. piece \in [Edits -> Pieces] /\ wrong \in Gates \cup {"none"} /\ kills \in 0 .. MaxKills
    BY <1>1, InputsAssumption DEF LayerInit
  <2>2. stage \in 1 .. Last + 1
    BY StepShape DEF LayerInit
  <2>3. todo \in Seq(Files)
    BY DEF LayerInit
  <2> QED
    BY <2>1, <2>2, <2>3, NothingTyped DEF LayerInit, LayerTypeOK
<1>3. StepsDone /\ InHand /\ ClockInHand /\ LostStuck
  BY DEF LayerInit, StepsDone, InHand, ClockInHand, LostStuck
<1>4. ClockKept
  <2>1. \A pair \in ClockPairs, m \in {"MEM", "MEM2"} :
          Alien(piece, pair, m) \/ Defined(piece, pair, m) = Used(piece, pair, m)
    BY <1>1, InputsAssumption
  <2> QED
    BY <2>1 DEF ClockKept
<1> QED
  BY <1>2, <1>3, <1>4 DEF LayerIInv

\* The inductive invariant of the source installer, on every tree that it may
\* be given and for every number of killed runs.
THEOREM LayerInvariance == LayerSpec => []LayerIInv
<1>1. LayerIInv /\ [LayerNext]_layerVars => LayerIInv'
  BY LayerTypeNext, StepsDoneNext, InHandNext, ClockInHandNext, LostStuckNext, ClockKeptNext
     DEF LayerIInv
<1> QED
  BY LayerInitial, <1>1, PTL DEF LayerSpec

\* Every variable keeps its type.
THEOREM LayerTypeCorrect == LayerSpec => []LayerTypeOK
BY LayerInvariance, PTL DEF LayerIInv

\* A run that is done has done every step.
LEMMA AllDone ==
  ASSUME LayerIInv, run = "done"
  PROVE  wrong = "none" /\ \A e \in Edits : Done(e, piece[e])
<1>1. stage = Last + 1 /\ Last \in Nat
  BY StepShape DEF LayerIInv, StepsDone
<1>2. \A i \in 1 .. Last : Steps[i].rule # wrong /\ \A e \in Steps[i].on : Done(e, piece[e])
  BY <1>1 DEF LayerIInv, StepsDone
<1>3. wrong = "none"
  BY <1>2 DEF LayerIInv, LayerTypeOK, Gates
<1>4. \A e \in Edits : Done(e, piece[e])
  BY <1>2, StepOf
<1> QED
  BY <1>3, <1>4

\* An installation that ends well has put every passage in once, whatever tree it
\* was given and whatever killed runs had left, and of the files that these had
\* cut short it has passed none that lacked a passage and the place for it.
THEOREM InstalledOnceHolds == LayerSpec => []InstalledOnce
<1>1. ASSUME LayerIInv, run = "done" PROVE InstalledOnce
  <2>1. wrong = "none" /\ \A e \in Edits : Done(e, piece[e]) /\ piece[e] \in Pieces
    BY <1>1, AllDone DEF LayerIInv, LayerTypeOK
  <2>2. ASSUME NEW f \in lost \ unseen PROVE FALSE
    <3>1. PICK e \in Edits : Stuck(e, piece[e])
      BY <1>1, <2>2 DEF LayerIInv, LostStuck
    <3> QED
      BY <2>1, <3>1, StuckStays
  <2> QED
    BY <2>1, <2>2, DoneCopies DEF InstalledOnce
<1>2. LayerIInv => InstalledOnce
  BY <1>1 DEF InstalledOnce
<1> QED
  BY LayerInvariance, <1>2, PTL

\* No source uses divider fields that its header lacks, unless that was cut short
\* and no later run has ended well; and unless a run was killed, none is left that
\* does not use those its header has.
THEOREM ClockTogetherHolds == LayerSpec => []ClockTogether
<1>1. ASSUME LayerIInv, run = "done", NEW pair \in ClockPairs, NEW m \in {"MEM", "MEM2"}
      PROVE  Defined(piece, pair, m) > 0
  <2> DEFINE h == <<pair[1], m, "clock">>
  <2>1. h \in Edits /\ Rule(h) = "clock"
    BY ClockEdits DEF Rule
  <2>2. Done(h, piece[h])
    BY <1>1, <2>1, AllDone
  <2>3. piece[h].copy = 1
    BY <2>1, <2>2 DEF Done, Installed
  <2> QED
    BY <2>3 DEF Defined
<1>2. LayerIInv => ClockTogether
  <2> SUFFICES ASSUME LayerIInv, NEW pair \in ClockPairs, NEW m \in {"MEM", "MEM2"},
                      todo = <<>>, ~Alien(piece, pair, m)
               PROVE  /\ Used(piece, pair, m) > 0 =>
                           Defined(piece, pair, m) > 0 \/ (pair[1] \in lost /\ run # "done")
                      /\ kills > 0 \/ (Defined(piece, pair, m) > 0 => Used(piece, pair, m) > 0)
    BY DEF ClockTogether
  <2>1. /\ Used(piece, pair, m) > 0 => Defined(piece, pair, m) > 0 \/ pair[1] \in lost
        /\ \/ kills > 0 \/ todo = <<pair[2]>>
           \/ Defined(piece, pair, m) > 0 => Used(piece, pair, m) > 0
    BY DEF LayerIInv, ClockKept
  <2>2. todo # <<pair[2]>>
    OBVIOUS
  <2> QED
    BY <1>1, <2>1, <2>2
<1> QED
  BY LayerInvariance, <1>2, PTL

-----------------------------------------------------------------------------
(* ServiceInstall *)

\* No bundle of the card is seen in part.
Complete == \A b \in Bundles : bundle[b] # "part"

\* What the steps that were made have put in place.
Ordered ==
  /\ pc = "copy" => at = 1
  /\ pc \in {"conf", "unit", "enable"} => bundle[ver] \in {"whole", "altered"}
  /\ pc = "conf" => \A i \in DOMAIN CONFIGS : i < at => conf[CONFIGS[i]] # "absent"
  /\ pc \in {"unit", "enable"} => \A f \in ConfFiles : conf[f] # "absent"
  /\ hpc \in HostSet => target = "whole"

IInv == TypeOK /\ Complete /\ Ordered /\ UnitBacked

-----------------------------------------------------------------------------
(* The files *)

LEMMA ConfigFiles ==
  /\ DOMAIN CONFIGS = {1, 2} /\ Len(CONFIGS) = 2
  /\ CONFIGS[1] = "unmanaged" /\ CONFIGS[2] = "modprobe"
  /\ ConfFiles = {CONFIGS[1], CONFIGS[2]}
<1>1. DOMAIN CONFIGS = {1, 2} /\ Len(CONFIGS) = 2
  BY DEF CONFIGS
<1>2. CONFIGS[1] = "unmanaged" /\ CONFIGS[2] = "modprobe"
  BY DEF CONFIGS
<1>3. ConfFiles = {CONFIGS[1], CONFIGS[2]}
  BY <1>1 DEF ConfFiles
<1> QED
  BY <1>1, <1>2, <1>3

LEMMA HostNames ==
  /\ DOMAIN HostFiles = 1 .. 6 /\ Len(HostFiles) = 6
  /\ \A i \in 1 .. 6 : HostFiles[i] \in HostSet
  /\ "service" \in HostSet /\ HAt(1) \in HostSet
  /\ {"idle", "bundle", "done"} \cap HostSet = {}
<1>1. DOMAIN HostFiles = 1 .. 6 /\ Len(HostFiles) = 6
  BY DEF HostFiles
<1>2. \A i \in 1 .. 6 : HostFiles[i] \in HostSet
  BY <1>1 DEF HostSet
<1>3. HostFiles[1] = "service"
  BY DEF HostFiles
<1>4. ASSUME NEW i \in 1 .. 6 PROVE HostFiles[i] \notin {"idle", "bundle", "done"}
  BY <1>4 DEF HostFiles
<1>5. {"idle", "bundle", "done"} \cap HostSet = {}
  BY <1>1, <1>4 DEF HostSet
<1> QED
  BY <1>1, <1>2, <1>3, <1>5 DEF HAt

-----------------------------------------------------------------------------
(* The types *)

LEMMA TypeNext == TypeOK /\ [Next]_vars => TypeOK'
<1> SUFFICES ASSUME TypeOK, [Next]_vars PROVE TypeOK'
  OBVIOUS
<1> USE DEF cardVars, hostVars
<1>1. CASE \E b \in Bundles : Install(b)
  BY <1>1, ConfigFiles DEF Install, TypeOK
<1>2. CASE Copy
  BY <1>2 DEF Copy, TypeOK
<1>3. CASE InstallConf
  <2>1. CONFIGS[at] \in ConfFiles /\ (at < 2 => at + 1 \in DOMAIN CONFIGS)
    BY ConfigFiles DEF TypeOK
  <2> QED
    BY <1>3, <2>1, ConfigFiles DEF InstallConf, TypeOK
<1>4. CASE InstallUnit
  BY <1>4 DEF InstallUnit, TypeOK
<1>5. CASE Enable
  BY <1>5, ConfigFiles DEF Enable, Exit, TypeOK
<1>6. CASE Stop
  BY <1>6, ConfigFiles DEF Stop, Exit, TypeOK
<1>7. CASE HostInstall
  BY <1>7 DEF HostInstall, TypeOK
<1>8. CASE HostBundle
  BY <1>8, HostNames DEF HostBundle, TypeOK
<1>9. CASE HostCopy
  <2>1. PICK i \in DOMAIN HostFiles :
          /\ hpc = HAt(i)
          /\ \/ copied[HAt(i)] = "absent" /\ copied' = [copied EXCEPT ![HAt(i)] = "part"]
                /\ UNCHANGED hpc
             \/ copied[HAt(i)] = "part" /\ copied' = [copied EXCEPT ![HAt(i)] = "ours"]
                /\ hpc' = IF i = Len(HostFiles) THEN "done" ELSE HAt(i + 1)
          /\ UNCHANGED <<cardVars, target, end>>
    BY <1>9 DEF HostCopy
  <2>2. i = 6 \/ HAt(i + 1) \in HostSet
    BY HostNames DEF HAt
  <2> QED
    BY <2>1, <2>2, HostNames DEF TypeOK
<1>10. CASE HostStop
  BY <1>10 DEF HostStop, TypeOK
<1>11. CASE Reboot
  BY <1>11, ConfigFiles DEF Reboot, TypeOK
<1>12. CASE Meddle
  BY <1>12 DEF Meddle, TypeOK
<1>13. CASE UNCHANGED vars
  BY <1>13 DEF vars, TypeOK
<1> QED
  BY <1>1, <1>2, <1>3, <1>4, <1>5, <1>6, <1>7, <1>8, <1>9, <1>10, <1>11, <1>12, <1>13 DEF Next

-----------------------------------------------------------------------------
(* The order of the steps *)

\* A bundle that is there stays, altered or not, and none is seen in part.
LEMMA BundlesStay ==
  ASSUME TypeOK, Complete, [Next]_vars
  PROVE  /\ Complete'
         /\ \A b \in Bundles : bundle[b] \in {"whole", "altered"} => bundle'[b] \in {"whole", "altered"}
<1>1. CASE Copy
  BY <1>1 DEF Copy, TypeOK, Complete
<1>2. CASE Meddle
  BY <1>2 DEF Meddle, TypeOK, Complete
<1>3. CASE UNCHANGED bundle
  BY <1>3 DEF Complete
<1>4. CASE ~Copy /\ ~Meddle
  <2>1. UNCHANGED bundle
    BY <1>4 DEF Next, Install, InstallConf, InstallUnit, Enable, Stop, HostInstall, HostBundle,
                HostCopy, HostStop, Reboot, vars, cardVars
  <2> QED
    BY <1>3, <2>1
<1> QED
  BY <1>1, <1>2, <1>4

\* So does a configuration file.
LEMMA ConfStays ==
  ASSUME TypeOK, [Next]_vars
  PROVE  \A f \in ConfFiles : conf[f] # "absent" => conf'[f] # "absent"
<1>1. CASE InstallConf
  BY <1>1 DEF InstallConf, TypeOK
<1>2. CASE Meddle
  BY <1>2 DEF Meddle, TypeOK
<1>3. CASE ~InstallConf /\ ~Meddle
  <2>1. UNCHANGED conf
    BY <1>3 DEF Next, Install, Copy, InstallUnit, Enable, Stop, HostInstall, HostBundle,
                HostCopy, HostStop, Reboot, vars, cardVars
  <2> QED
    BY <2>1
<1> QED
  BY <1>1, <1>2, <1>3

\* And the bundle of the host.
LEMMA TargetStays ==
  ASSUME [Next]_vars
  PROVE  target = "whole" => target' = "whole"
<1>1. CASE HostInstall
  BY <1>1 DEF HostInstall
<1>2. CASE ~HostInstall
  BY <1>2 DEF Next, Install, Copy, InstallConf, InstallUnit, Enable, Stop, HostBundle,
              HostCopy, HostStop, Reboot, Meddle, vars, cardVars, hostVars
<1> QED
  BY <1>1, <1>2

LEMMA OrderedNext == TypeOK /\ Complete /\ Ordered /\ [Next]_vars => Ordered'
<1> SUFFICES ASSUME TypeOK, Complete, Ordered, [Next]_vars PROVE Ordered'
  OBVIOUS
<1> DEFINE Card == /\ pc = "copy" => at = 1
                   /\ pc \in {"conf", "unit", "enable"} => bundle[ver] \in {"whole", "altered"}
                   /\ pc = "conf" => \A i \in DOMAIN CONFIGS : i < at => conf[CONFIGS[i]] # "absent"
                   /\ pc \in {"unit", "enable"} => \A f \in ConfFiles : conf[f] # "absent"
           Host == hpc \in HostSet => target = "whole"
<1>1. Card /\ Host
  BY DEF Ordered
<1>2. \A b \in Bundles : bundle[b] \in {"whole", "altered"} => bundle'[b] \in {"whole", "altered"}
  BY BundlesStay
<1>3. \A f \in ConfFiles : conf[f] # "absent" => conf'[f] # "absent"
  BY ConfStays
<1>4. ver \in Bundles /\ \A i \in DOMAIN CONFIGS : CONFIGS[i] \in ConfFiles
  BY DEF TypeOK, ConfFiles
<1>5. Card'
  <2>1. CASE UNCHANGED <<pc, ver, at>>
    BY <1>1, <1>2, <1>3, <1>4, <2>1
  <2>2. CASE pc' = "idle" \/ (pc' = "copy" /\ at' = 1)
    BY <2>2
  <2>3. CASE Copy
    <3>1. bundle'[ver] = "whole" \/ bundle'[ver] = bundle[ver]
      BY <2>3, <1>4 DEF Copy, TypeOK
    <3>2. bundle'[ver'] \in {"whole", "altered"} /\ pc' = "conf"
      BY <2>3, <1>4, <3>1 DEF Copy, TypeOK, Complete
    <3>3. UNCHANGED <<at, conf>> /\ at = 1
      BY <1>1, <2>3 DEF Copy
    <3> QED
      BY <3>2, <3>3, ConfigFiles
  <2>4. CASE InstallConf
    <3>1. conf'[CONFIGS[at]] = "ours" /\ pc = "conf" /\ UNCHANGED ver
      BY <2>4, <1>4 DEF InstallConf, TypeOK
    <3>2. \A i \in DOMAIN CONFIGS : i <= at => conf'[CONFIGS[i]] # "absent"
      BY <1>1, <1>3, <1>4, <3>1, ConfigFiles DEF TypeOK
    <3>3. CASE at < 2
      BY <1>1, <1>2, <1>4, <2>4, <3>1, <3>2, <3>3, ConfigFiles DEF InstallConf, TypeOK
    <3>4. CASE at = 2
      BY <1>1, <1>2, <1>4, <2>4, <3>1, <3>2, <3>4, ConfigFiles DEF InstallConf, TypeOK
    <3> QED
      BY <3>3, <3>4, ConfigFiles DEF TypeOK
  <2>5. CASE InstallUnit
    BY <1>1, <1>2, <1>3, <1>4, <2>5 DEF InstallUnit
  <2>6. CASE ~Copy /\ ~InstallConf /\ ~InstallUnit
    <3>1. (\E b \in Bundles : Install(b)) => pc' = "copy" /\ at' = 1
      BY DEF Install
    <3>2. Enable \/ Stop \/ Reboot => pc' = "idle"
      BY DEF Enable, Stop, Exit, Reboot
    <3>3. HostInstall \/ HostBundle \/ HostCopy \/ HostStop \/ Meddle \/ UNCHANGED vars
            => UNCHANGED <<pc, ver, at>>
      BY DEF HostInstall, HostBundle, HostCopy, HostStop, Meddle, vars, cardVars
    <3> QED
      BY <2>1, <2>2, <2>6, <3>1, <3>2, <3>3 DEF Next
  <2> QED
    BY <2>3, <2>4, <2>5, <2>6
<1>6. Host'
  <2>1. target = "whole" => target' = "whole"
    BY TargetStays
  <2>2. CASE HostBundle
    BY <2>2 DEF HostBundle
  <2>3. CASE HostCopy
    BY <1>1, <2>1, <2>3, HostNames DEF HostCopy, HAt
  <2>4. CASE ~HostBundle /\ ~HostCopy
    <3>1. UNCHANGED hpc \/ hpc' \in {"idle", "bundle", "done"}
      BY <2>4 DEF Next, Install, Copy, InstallConf, InstallUnit, Enable, Stop, HostInstall,
                  HostStop, Reboot, Meddle, vars, cardVars, hostVars
    <3> QED
      BY <1>1, <2>1, <3>1, HostNames
  <2> QED
    BY <2>2, <2>3, <2>4
<1> QED
  BY <1>5, <1>6 DEF Ordered

-----------------------------------------------------------------------------
(* The theorems *)

\* Only InstallUnit renders a unit of a bundle, and only HostCopy the host's.
LEMMA BackedNext == IInv /\ [Next]_vars => UnitBacked'
<1> SUFFICES ASSUME IInv, [Next]_vars PROVE UnitBacked'
  OBVIOUS
<1> USE DEF IInv
<1>1. \A b \in Bundles : bundle[b] \in {"whole", "altered"} => bundle'[b] \in {"whole", "altered"}
  BY BundlesStay
<1>2. \A f \in ConfFiles : conf[f] # "absent" => conf'[f] # "absent"
  BY ConfStays
<1>3. target = "whole" => target' = "whole"
  BY TargetStays
<1>4. unit' \in Bundles => /\ bundle'[unit'] \in {"whole", "altered"}
                           /\ \A f \in ConfFiles : conf'[f] # "absent"
  <2>1. CASE UNCHANGED unit
    BY <1>1, <1>2, <2>1 DEF UnitBacked
  <2>2. CASE InstallUnit
    BY <1>1, <1>2, <2>2 DEF InstallUnit, Ordered, TypeOK
  <2>3. CASE unit' = "foreign"
    BY <2>3, BundlesAssumption
  <2>4. CASE ~InstallUnit
    <3>1. UNCHANGED unit \/ unit' = "foreign"
      BY <2>4 DEF Next, Install, Copy, InstallConf, Enable, Stop, HostInstall, HostBundle,
                  HostCopy, HostStop, Reboot, Meddle, vars, cardVars
    <3> QED
      BY <2>1, <2>3, <3>1
  <2> QED
    BY <2>2, <2>4
<1>5. copied'["service"] \in {"part", "ours"} => target' = "whole"
  <2>1. CASE UNCHANGED copied
    BY <1>3, <2>1 DEF UnitBacked
  <2>2. CASE HostCopy
    BY <1>3, <2>2, HostNames DEF HostCopy, Ordered, HAt
  <2>3. CASE ~HostCopy
    <3>1. UNCHANGED copied
      BY <2>3 DEF Next, Install, Copy, InstallConf, InstallUnit, Enable, Stop, HostInstall,
                  HostBundle, HostStop, Reboot, Meddle, vars, cardVars, hostVars
    <3> QED
      BY <2>1, <3>1
  <2> QED
    BY <2>2, <2>3
<1> QED
  BY <1>4, <1>5 DEF UnitBacked

LEMMA InvariantInit == Init => IInv
<1> SUFFICES ASSUME Init PROVE IInv
  OBVIOUS
<1>1. TypeOK
  BY ConfigFiles, HostNames DEF Init, TypeOK
<1>2. Complete
  BY DEF Init, Complete
<1>3. Ordered
  BY HostNames DEF Init, Ordered
<1>4. UnitBacked
  <2>1. unit \notin Bundles
    BY BundlesAssumption DEF Init
  <2>2. copied["service"] \in {"foreign", "absent"}
    BY HostNames DEF Init
  <2> QED
    BY <2>1, <2>2 DEF UnitBacked
<1> QED
  BY <1>1, <1>2, <1>3, <1>4 DEF IInv

\* The inductive invariant holds of every behaviour of installations, stops,
\* reboots and changes by others.
THEOREM Invariance == Spec => []IInv
<1>1. IInv /\ [Next]_vars => IInv'
  BY TypeNext, BundlesStay, OrderedNext, BackedNext DEF IInv
<1> QED
  BY InvariantInit, <1>1, PTL DEF Spec

\* Every variable keeps its type.
THEOREM TypeCorrect == Spec => []TypeOK
BY Invariance, PTL DEF IInv

\* The unit that is started at the next boot names a bundle that is complete
\* and has its configuration, whatever card-install was stopped at.
THEOREM UnitBackedHolds == Spec => []UnitBacked
BY Invariance, PTL DEF IInv

\* card-install can be run again wherever it was stopped: the preflight takes
\* what it has left behind.
THEOREM RepeatableHolds == Spec => []Repeatable
<1>1. IInv => Repeatable
  <2> SUFFICES ASSUME TypeOK, Complete, UnitBacked, unit # "foreign",
                      \A f \in ConfFiles : conf[f] # "foreign",
                      \A b \in Bundles : bundle[b] # "altered"
               PROVE  Accepts(kernel)
    BY DEF IInv, Repeatable
  <2>1. kernel \in Bundles /\ bundle[kernel] \in {"absent", "whole"}
    BY DEF TypeOK, Complete
  <2>2. Owned(kernel)
    BY DEF TypeOK, UnitBacked, Owned
  <2> QED
    BY <2>1, <2>2 DEF Accepts
<1> QED
  BY Invariance, <1>1, PTL
=============================================================================
