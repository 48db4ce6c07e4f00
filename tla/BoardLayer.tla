------------------------------ MODULE BoardLayer ------------------------------
(***************************************************************************)
(* flexbuild/board-layer: install_profile.py, with boot_banner.py,         *)
(* uboot_identity.py and uboot_env.py.  firmware/build.py lays the board's *)
(* sources over a TF-A and a U-Boot tree: some files are ours, others are  *)
(* upstream's, with passages put in at anchors.                            *)
(*                                                                         *)
(* An edit is <<file, passage, rule>>.  A tree counts, per edit, the       *)
(* anchors and the copies of the passage in the file, and says whether the *)
(* marker of the edit is there in another form.  A file is rewritten in    *)
(* place: what is killed in a write leaves a prefix of the new text, and   *)
(* where that ends among the edits of the file is upstream's affair.  The  *)
(* installer may be run again on any tree it left.                         *)
(***************************************************************************)
EXTENDS Naturals, Sequences

CONSTANTS
  Inputs,    \* what the installer may be given: a tree and the gate it fails
  Place,     \* per edit: its place in its file, counted from the top
  MaxKills   \* bound: runs killed

VARIABLES
  piece,    \* per edit: the anchors, copies and foreign marker in its file
  lost,     \* upstream's files that a write left as a prefix of the new text
  unseen,   \* those that were left with all the rules look for
  wrong,    \* the gate this input fails, or "none"
  run, stage, \* the installer: "idle", "running", "done", "refused"; its step
  todo,     \* the files this step has still to write
  text,     \* what it writes into them
  kills     \* how many runs have been killed

layerVars == <<piece, lost, unseen, wrong, run, stage, todo, text, kills>>

-----------------------------------------------------------------------------
(* The steps, in order: a rule, the files it writes, the edits it makes *)

Step(rule, file, passage) == [rule |-> rule, files |-> <<file>>, on |-> {<<file, passage, rule>>}]
Gate(name)                == [rule |-> name, files |-> <<>>, on |-> {}]
Own(file)                 == Step("own", file, "ours")
Clock(header, source)     == [rule |-> "clock", files |-> <<header, source>>,
                              on |-> {header, source} \X {"MEM", "MEM2"} \X {"clock"}]

\* Mutant: each file is checked when its turn comes.
install_atf_ddr_clock_by_file ==
  << [rule |-> "clock", files |-> <<"atf/dcfg.h">>,
      on |-> {"atf/dcfg.h"} \X {"MEM", "MEM2"} \X {"clock"}],
     [rule |-> "clock", files |-> <<"atf/dcfg.c">>,
      on |-> {"atf/dcfg.c"} \X {"MEM", "MEM2"} \X {"clock"}] >>

install_atf_ddr_clock   == <<Clock("atf/dcfg.h", "atf/dcfg.c")>>
install_uboot_ddr_clock == <<Clock("immap.h", "speed.c")>>

install_atf_ddr_training ==
  << Step("once", "atf/phy.c", "training"), Step("once", "atf/phy.c", "execution"),
     Step("once", "atf/phy.c", "mail"), Step("once", "atf/ddr.c", "registers") >>

install_atf_boot_banner ==
  << Step("once", "atf/soc.c", "declaration"), Step("once", "atf/soc.c", "BL2"),
     Step("once", "atf/soc.c", "BL31") >>

install_atf ==
  <<Own("atf/banner.h"), Gate("atf layout")>>
  \o install_atf_ddr_clock \o install_atf_ddr_training \o install_atf_boot_banner
  \o << Own("atf/lx2160x200"), Step("geometry", "atf/flash_info.h", "W25Q128"),
        Step("hook", "atf/psci_utils.S", "reset"),
        Step("hook", "atf/console_pl011.c", "scope") >>

install_uboot_platform_fixes ==
  << Step("once", "soc.c", "a050204"), Step("once", "fdt.c", "kaslr"),
     Step("once", "rng.c", "status") >>

install_uboot_pcie_fixes == <<Step("once", "pci/Makefile", "endpoint")>>

identity_install ==
  << Own("x200_identity.h"),
     Step("hook", "eth-uclass.c", "include"), Step("hook", "eth-uclass.c", "hwaddr"),
     Step("hook", "eth-uclass.c", "change"), Step("hook", "eth-uclass.c", "start"),
     Step("hook", "eth-uclass.c", "probe"),
     Step("hook", "mc.c", "include"), Step("hook", "mc.c", "fixup"),
     Step("hook", "mc.c", "memory"), Step("hook", "mc.c", "dpl") >>

env_adapter == <<Step("pinned", "env/sf.c", "adapter")>>

\* The unlink of a header that earlier layers had is left out.
install_uboot ==
  <<Own("banner.h"), Gate("profile"), Gate("uboot layout"), Own("layer")>>
  \o install_uboot_ddr_clock \o install_uboot_platform_fixes \o install_uboot_pcie_fixes
  \o identity_install \o env_adapter
  \o << Step("before", "arch/arm/Kconfig", "target"),
        Step("insert", "arch/arm/Kconfig", "source"),
        Step("append", "dts/Makefile", "dtb") >>

\* firmware/build.py calls the one, then the other.
Steps == install_atf \o install_uboot
Last  == Len(Steps)

Edits == UNION {Steps[i].on : i \in 1 .. Last}
Rule(e) == e[3]
Files == {e[1] : e \in Edits}
Ours  == {e[1] : e \in {x \in Edits : Rule(x) = "own"}}
Gates == {Steps[i].rule : i \in {j \in 1 .. Last : Steps[j].files = <<>>}}

\* The edits whose replacement has the anchor in it.
Keeps(e) == \/ Rule(e) \in {"clock", "geometry", "before", "insert", "append"}
            \/ e[1] \in {"atf/soc.c", "fdt.c", "atf/console_pl011.c"}
            \/ e[1] = "eth-uclass.c" /\ e[2] # "change"
            \/ e[1] = "mc.c" /\ e[2] # "fixup"

\* Of these, those whose rule looks for the passage together with the anchor,
Spans(e) == Keeps(e) /\ Rule(e) \in {"once", "hook", "clock"}

\* and those that have the anchor at the end.
Leads(e) == \/ Rule(e) \in {"geometry", "insert"}
            \/ Rule(e) = "clock" /\ e[1] \in {"atf/dcfg.h", "immap.h"}
            \/ e[1] = "eth-uclass.c" /\ e[2] \in {"hwaddr", "start", "probe"}
            \/ e[1] = "mc.c" /\ e[2] \in {"memory", "dpl"}

Pieces  == [anchor : Nat, copy : Nat, marked : BOOLEAN]
Absent  == [anchor |-> 0, copy |-> 0, marked |-> FALSE]
Nothing == [e \in Edits |-> Absent]

\* The fields a header defines and those its source uses.
ClockPairs == {<<"atf/dcfg.h", "atf/dcfg.c">>, <<"immap.h", "speed.c">>}
Defined(p, pair, m) == p[<<pair[1], m, "clock">>].copy
Used(p, pair, m)    == p[<<pair[2], m, "clock">>].copy
Alien(p, pair, m)   == Defined(p, pair, m) > 1 \/ Used(p, pair, m) > 1

\* Upstream has both files of the clock or neither; the rest of a tree may have
\* moved in any way.
ASSUME InputsAssumption ==
  /\ MaxKills \in Nat /\ Place \in [Edits -> Nat]
  /\ \A input \in Inputs :
       /\ input.tree \in [Edits -> Pieces] /\ input.fails \in Gates \cup {"none"}
       /\ \A pair \in ClockPairs, m \in {"MEM", "MEM2"} :
            \/ Alien(input.tree, pair, m)
            \/ Defined(input.tree, pair, m) = Used(input.tree, pair, m)

LayerTypeOK ==
  /\ piece \in [Edits -> Pieces] /\ text \in [Edits -> Pieces]
  /\ lost \subseteq Files /\ unseen \subseteq Files
  /\ wrong \in Gates \cup {"none"}
  /\ run \in {"idle", "running", "done", "refused"} /\ stage \in 1 .. Last + 1
  /\ todo \in Seq(Files) /\ kills \in 0 .. MaxKills

LayerInit ==
  /\ \E input \in Inputs : piece = input.tree /\ wrong = input.fails
  /\ lost = {} /\ unseen = {} /\ run = "idle" /\ stage = 1
  /\ todo = <<>> /\ text = Nothing /\ kills = 0

-----------------------------------------------------------------------------
(* What a rule finds in a file *)

\* The edit is there: nothing is to be done for it.
Installed(rule, p) ==
  CASE rule = "own"      -> FALSE
    [] rule = "hook"     -> p.copy >= 1
    [] rule = "clock"    -> p.copy = 1 /\ p.anchor = 1 /\ ~p.marked
    [] rule = "geometry" -> p.copy = 1 /\ ~p.marked
    [] OTHER             -> p.copy = 1

\* Mutant: nobody counts the anchors.
ApplicableBlindly(rule, p) == p.copy = 0

\* The edit is missing, and there is one place to put it.
Applicable(rule, p) ==
  \/ rule = "own"
  \/ rule = "append" /\ p.copy = 0
  \/ rule = "before" /\ p.copy = 0 /\ p.anchor >= 1
  \/ rule \in {"once", "hook", "insert"} /\ p.copy = 0 /\ p.anchor = 1
  \/ rule \in {"clock", "geometry", "pinned"} /\ p.copy = 0 /\ p.anchor = 1 /\ ~p.marked

\* str.replace(anchor, replacement, 1), or the text put in or written anew.
Apply(e, p) ==
  IF Rule(e) = "own" THEN [Absent EXCEPT !.copy = 1]
  ELSE IF Rule(e) # "append" /\ p.anchor = 0 THEN p
  ELSE [p EXCEPT !.copy = 1, !.anchor = IF Keeps(e) THEN @ ELSE @ - 1]

Missing(s) == {e \in s.on : ~Installed(s.rule, piece[e])}
Refuses(s) == s.rule = wrong \/ \E e \in Missing(s) : ~Applicable(s.rule, piece[e])

-----------------------------------------------------------------------------
Start ==
  /\ run # "running"
  /\ run' = "running" /\ stage' = 1
  /\ UNCHANGED <<piece, lost, unseen, wrong, todo, text, kills>>

\* The step's files are read and checked before one of them is written.
Read ==
  /\ run = "running" /\ todo = <<>> /\ stage <= Last
  /\ ~Refuses(Steps[stage])
  /\ IF Missing(Steps[stage]) = {} /\ Steps[stage].rule # "clock"
       THEN stage' = stage + 1 /\ UNCHANGED <<todo, text>>
       ELSE /\ todo' = Steps[stage].files
            /\ text' = [e \in Edits |-> IF e \in Missing(Steps[stage])
                                          THEN Apply(e, piece[e]) ELSE piece[e]]
            /\ UNCHANGED stage
  /\ UNCHANGED <<piece, lost, unseen, wrong, run, kills>>

Refuse ==
  /\ run = "running" /\ todo = <<>> /\ stage <= Last
  /\ Refuses(Steps[stage])
  /\ run' = "refused"
  /\ UNCHANGED <<piece, lost, unseen, wrong, stage, todo, text, kills>>

Forget == todo' = <<>> /\ text' = Nothing

Put(f, content) == piece' = [e \in Edits |-> IF e[1] = f THEN content[e] ELSE piece[e]]

Write ==
  /\ run = "running" /\ todo # <<>>
  /\ Put(Head(todo), text)
  /\ IF Len(todo) = 1 THEN stage' = stage + 1 /\ Forget
                      ELSE todo' = Tail(todo) /\ UNCHANGED <<stage, text>>
  /\ UNCHANGED <<lost, unseen, wrong, run, kills>>

\* What a cut inside an edit leaves of it.  The marker is in the passage; a file
\* that is ours or known by its digest is not there in part; the line that is
\* appended is the last.
Remains(e, p) ==
  IF Rule(e) \in {"own", "pinned", "append"} THEN {Absent}
  ELSE {q \in [anchor : 0 .. p.anchor, copy : 0 .. p.copy, marked : BOOLEAN] :
          /\ q.marked => p.marked \/ (Rule(e) \in {"clock", "geometry"} /\ q.copy < p.copy)
          /\ Spans(e) => q.copy <= q.anchor
          /\ Leads(e) => q.anchor = 0 \/ q.copy = p.copy}

\* The prefix of a text that ends in an edit, or before it, or behind it.
Prefix(end, rest) ==
  [e \in Edits |-> IF Place[e] < Place[end] THEN text[e] ELSE IF e = end THEN rest ELSE Absent]

\* The rules find all they look for in what is left of a file.
Passable(f, content) ==
  \A e \in Edits : e[1] = f =>
    Installed(Rule(e), content[e]) \/ Applicable(Rule(e), content[e])

\* Killed, or the disk is full: in a write,
Cut(f) ==
  \E end \in {e \in Edits : e[1] = f} : \E rest \in Remains(end, text[end]) :
    /\ Put(f, Prefix(end, rest))
    /\ lost' = lost \cup ({f} \ Ours)
    /\ unseen' = IF Passable(f, Prefix(end, rest)) THEN unseen \cup {f} ELSE unseen \ {f}

\* or before it.
Kill ==
  /\ run = "running" /\ kills < MaxKills
  /\ \/ UNCHANGED <<piece, lost, unseen>>
     \/ todo # <<>> /\ Cut(Head(todo))
  /\ run' = "idle" /\ stage' = 1 /\ Forget /\ kills' = kills + 1
  /\ UNCHANGED wrong

Finish ==
  /\ run = "running" /\ stage > Last
  /\ run' = "done"
  /\ UNCHANGED <<piece, lost, unseen, wrong, stage, todo, text, kills>>

LayerNext == Start \/ Read \/ Refuse \/ Write \/ Kill \/ Finish

LayerSpec == LayerInit /\ [][LayerNext]_layerVars

-----------------------------------------------------------------------------
(* Properties *)

\* An installation that ends well, the first or a later one, on an upstream
\* tree, a drifted one or what a killed run has left, has put every passage in
\* once; a second copy of a passage that is only searched, a hook, is not looked
\* for.  Upstream's text is around them, with one exception: the installer reads
\* a file for anchors and passages only, so one that a write was cut short in
\* passes for complete if the prefix shows, of every edit, the passage or the
\* place for it, and what stood behind is missing.  A prefix that lacks one of
\* them never passes, whatever is done to the file before the run comes to it
\* (install_profile.py:64-93, 167-174, 284-299, 410-418).
InstalledOnce ==
  run = "done" =>
    /\ wrong = "none" /\ lost \subseteq unseen
    /\ \A e \in Edits : \/ piece[e].copy = 1
                        \/ Rule(e) = "hook" /\ piece[e].copy > 1

\* No run leaves a source that computes the DDR clock with divider fields that
\* its header does not define, unless the header itself was cut short in a write
\* (a repeated run rewrites it although nothing is missing) and no later run has
\* ended well; a source that is cut short makes no exception.  Unless a run was
\* killed, none leaves a header that defines them for a source that does not use
\* them: a refusal of either file comes before the other is written
\* (install_profile.py:141, 164-174, 386-396).
ClockTogether ==
  \A pair \in ClockPairs, m \in {"MEM", "MEM2"} :
    LET defined == Defined(piece, pair, m) > 0
        used    == Used(piece, pair, m) > 0
    IN  todo = <<>> /\ ~Alien(piece, pair, m) =>
          /\ used => defined \/ (pair[1] \in lost /\ run # "done")
          /\ kills > 0 \/ (defined => used)
=============================================================================
