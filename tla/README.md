# Verification of the LX2160A SmartNIC platform software

TLA+ models of the parts of this repository that change state which must
survive failures or is shared between processors, TLC configurations that check
them on small instances, and TLAPS proofs, for every instance, of all safety
properties that the runs check. All paths are relative to the repository root; `BSP` stands for
`src/bsp/lx2160-x200`.

## 1. Inventory

| Component | Source | State it keeps | Operations | Hard behaviour |
|---|---|---|---|---|
| NOR boot update | `BSP/bringup/boot_update.py` | flash sectors, boot script, backup directory, `plan.json`, append-only journal | `prepare`, `apply` (forward and its restoration) | any step may raise, kill or power loss anywhere, other programs writing the environment meanwhile |
| U-Boot manifest selection | `BSP/flexbuild/.../lx2160x200/manifest.c` | two manifest slots in NOR | read slot, select, verify, fix up the device tree | two slots of two releases after an interrupted update |
| Update packaging | `BSP/bringup/package_boot_update.py`, `BSP/flash-layout/*.py` | files, an image of the bank | validate, pack, merge | two programs in two languages with their own tables of offsets and limits; files exchanged after their receipts |
| vNTB card driver | `BSP/linux/patches/0003-vntb.patch` | control page, doorbell word, memory window, delayed work | command and doorbell handler, mask/clear, unbind/bind | memory shared with another computer, a work item that re-queues itself while it is cancelled |
| vNTB host driver | `BSP/pcie-management/vntb-host.patch` | `cmd_lock`, `command_failed` latch | `send_command`, `mw_set_trans`, `mw_clear_trans`, doorbell | time-outs with a late answer, card disappearing |
| NTB transport / network device | kernel, `BSP/linux/patches/0004-ntb-transport.patch` | receive ring, tasklet | open, close, receive | lost wake-ups |
| Kernel and card bundle upgrade | `BSP/pcie-management/kernel-upgrade/install.py` | `/boot/Image`, bundle, unit, configuration, a journal per transaction | `stage`, `rollback` | kill at any step, several journals, other programs |
| Card PCIe service | `BSP/pcie-management/persistent/card-runtime.py`, `vntb-card-dns.py` | configfs endpoint, modules, link parameters, `resolv.conf` | cold start, adopt, publish, DNS take and give back | partial state, publication as commit point |
| Host PCIe service | `BSP/pcie-management/persistent/host_service.py` | driver binding, interface, readiness | discover, gate, bind, address, monitor | restart loop (exit 75) against a card that publishes at any time |
| vNTB quiesce | `BSP/pcie-management/vntb-quiesce.py` | both ends | card teardown over serial line, then host teardown | lost acknowledgement |
| Card and host service installers | `.../persistent/card-install.py`, `host_install.py` | bundles, configuration, units | install, supersede | partial failure, repetition over what it left |
| Board layer, source installer | `BSP/flexbuild/board-layer/install_profile.py` and its helpers | two source trees rewritten in place | `install_atf`, `install_uboot` | a run stopped between two files of one change, trees that have drifted, repeated runs |
| Rate switch, kernel module | `BSP/dual-rate/manual-rate/x200_manual_rate.c` | device tree change set, ambiguity flag, module pin | set, revert, exit | partially applied change set |
| Rate switch, transaction | `BSP/dual-rate/manual-rate/port_rate.py` | driver bindings, pending record | unbind, set, bind, observe, restore | worker that times out but still writes |
| U-Boot environment | `uboot_env.py`, `inspect_env.py`, `uboot_env_accept.py` | two slots, each with a flags byte | save, load, select | power loss between the slots, a flash that lies, the wrap of the flags |
| PCIe endpoint driver, board code | `pcie_layerscape_x200_ep.c`, `identity.c`, `rx_gain.c` | registers, capability chain | capability edits, MAC derivation, receiver reset | failure of the second lane |
| Serial tools, checks, builds, profiles, probes, ATF platform code | see `PROJECT.json` | none or hardware | read-only or one-shot | - |

How they interact. `boot_update.py` writes what `manifest.c` reads at the next
power-on: their shared state is the flash, and the order of the writes is the
only protocol between them. The boot script it stages last loads the kernel and
service which `kernel-upgrade/install.py` puts on the same SATA root. The two
vNTB drivers meet in the card's memory, through BAR0 (command page), BAR2
(doorbell word) and the memory window; both are used by the NTB transport, and
are bound and unbound by the card service, the host service and the quiesce
tool. The packer produces the image whose manifests `manifest.c` reads and out
of which `package_boot_update.py` makes what `boot_update.py` installs. The
card installer puts in place the bundle and the unit that run
`card-runtime.py`. The rate switch is two parts, a kernel module and a script,
that meet in a proc file, the device tree and the pin on the module.

What makes the modelled components correct:

* *Boot update*: whatever is interrupted, the journal and the backup suffice to
  repair; the manifests are the commit point, so before it the old firmware is
  described and after it the new one boots; the two verdicts in the journal are
  true; sectors of others are never written; every run ends.
* *Virtual NTB*: an answer belongs to its own call; nothing is executed after a
  time-out except the abandoned call itself; both ends agree on the memory
  window; no doorbell is lost; nothing runs on freed memory after unbind.
* *Kernel upgrade*: a change by somebody else that can be seen stops the tool;
  the latest transaction can always be undone; the unit never names files that
  are missing.
* *PCIe service*: the host keeps the memory behind its window while the card's
  queue is up; only whole endpoints are published; a card that serves is found.
* *Rate switch*: a port ends at the old or the new rate, no other port moves,
  and never more than one worker can still write (with one exception, section
  6); a change that may be in the tree pins the module that can revert it.
* *Environment*: no environment is lost to a failure or a power loss, and the
  tools that read the slots choose the one U-Boot chooses.
* *Packaging*: what the packer emits is where the firmware looks for it, and
  boots if the layout writes its offsets as the firmware reads them; what is
  packaged is what the update transaction takes for granted.
* *Installers*: what is started after an installation that was stopped anywhere
  is complete, and the installation can be repeated; source trees get every
  passage once, whatever was in them.

The full list of components is in `PROJECT.json` under `components`, the
hazards with the line at which each one bites under `hazards`.

## 2. Modules

| Module | Models | Extended or used by |
|---|---|---|
| `NorFlash` | flash layout, ranges and order of `boot_update.py`; slot selection and verification of `manifest.c` | `BootUpdate` |
| `BootUpdate` | `prepare` and `apply` step by step, crashes, reboots, other programs | `BootUpdateInvariant` |
| `BootUpdateInvariant` | the inductive invariant | `MCBootUpdate`, `BootUpdateProofs` |
| `BootUpdateProofs` | theorems and proofs | - |
| `MailboxRpc` | abstract: what a command mailbox promises to its callers | `Vntb` (`INSTANCE`) |
| `Vntb` | both drivers, their shared memory, the transport's use of them | `VntbInvariant` |
| `VntbInvariant` | the inductive invariant | `MCVntb`, `VntbProofs` |
| `KernelUpgrade` | `stage` and `rollback` over several journals | `KernelUpgradeInvariant` |
| `KernelUpgradeInvariant` | the inductive invariant | `MCKernelUpgrade`, `KernelUpgradeProofs` |
| `ManualRate` | the kernel module `x200_manual_rate.c`, and the drivers it works beside | `PortRate` |
| `PortRate` | `port_rate.py set`: the script, its workers, kills, a person at the proc file | `PortRateInvariant` |
| `PortRateInvariant` | the inductive invariant | `MCPortRate`, `PortRateProofs` |
| `RateSwitch` | abstract: what a rate switch promises | `PortRate` (`INSTANCE ... WITH`) |
| `PcieService` | `card-runtime.py`, `vntb-card-dns.py`, `host_service.py`, `vntb-quiesce.py` and its serial line, composed | `PcieServiceInvariant` |
| `PcieServiceInvariant` | the inductive invariant | `MCPcieService`, `PcieServiceProofs` |
| `EnvStore` | abstract: what saving the environment promises | `EnvSlots` (`INSTANCE ... WITH`) |
| `EnvSlots` | save and load of the environment as `uboot_env.py` adapts them, the inspector, the acceptance tool | `MCEnvSlots`, `EnvSlotsProofs` |
| `FlashPack` | `validate-layout.py`, `pack_flash.py`, `package_boot_update.py`, and the reader in `manifest.c` | `FlashPackInvariant` |
| `FlashPackInvariant` | the inductive invariant | `MCFlashPack`, `FlashPackProofs` |
| `BoardLayer` | `install_profile.py`, `boot_banner.py`, `uboot_identity.py`, `uboot_env.py` on a source tree | `BoardLayerInvariant` |
| `BoardLayerInvariant` | the inductive invariant | `MCBoardLayer`, `InstallerProofs` |
| `ServiceInstall` | `card-install.py`, `host_install.py` | `MCServiceInstall`, `InstallerProofs` |
| `VntbProofs`, `KernelUpgradeProofs`, `PortRateProofs`, `EnvSlotsProofs`, `PcieServiceProofs`, `FlashPackProofs`, `InstallerProofs` (of both installers) | theorems and proofs | - |

### BootUpdate

One action is one durable effect of the program or one check that decides which
way it goes. `pc` names the place in `prepare` or `apply`; `pc = "idle"` is the
free `flock` of `main`. `restoring`, `started`, `done`, `at` and `failures` are
Python locals and disappear with the process (`Exit`); `nor`, `boot`,
`temporary`, `kernel`, `backup`, `plan`, `opened` and `journal` survive.

* A sector is `old`, `new`, `torn` (erased or half written) or `foreign`. The
  image of the package is a function from sectors to `old`/`new`, so every
  subset of differing sectors is considered. Digests are modelled by what they
  establish: equality with the pinned content (`ValidPackage`, `Composition`).
* `Record` is the nested function `record`: write, sync, then print. It may
  raise before or after the line is durable. Hence a journal may hold
  `DEPLOY_PASS` and `APPLY_FAILED` both, and the properties that speak of the
  forward direction are conditional on `~FailureLogged`.
* `write_sector` is `EraseSector` and `ProgramSector`; each may raise with or
  without its effect.
* The read-only gates (mounts, identity, digests of the kernel and the package)
  are guards of `PrepareRead` and `ApplyCheck`; failing one changes nothing.
* The environment: `Crash` (kill or power loss, at every `pc`), `Reboot`,
  `ForeignFlash` (the sectors outside the approved ranges at any time, since
  `fw_setenv` takes no lock of this tool; any sector while it is not running)
  and `ForeignBootFiles` (while it is not running).

### Vntb

Each access to shared memory is an action, because host and card are two
computers: the handler reads the doorbell word, clears it, sets the bit, raises
the event, reads the command, the argument, takes the command, serves it and
writes the status in separate steps, as `epf_ntb_cmd_handler` does. A host
thread takes `cmd_lock`, writes the address in two halves and the size
(`mw_set_trans`), looks at the latch, clears the status, writes the argument
and the command, polls, and unlocks. The time-out may happen at every poll that
reads no status; a status read together with an expired clock wins, as in the
code. `tag` in the command word and `served`/`answer` are history for
`MailboxRpc`: the code has no tag.
`BeginUnbind`, `CancelWork`, `RemoveBus` and `FreeBars` are the statements of
`epf_ntb_unbind` and its cleanup. The transport on either side is kernel code
outside the repository; `WritePacket`, `OpenQueue`, `CloseQueue` and
`RunTasklet` model how it calls the driver, in the order
(open: clear, unmask; receive: drain, then read and clear the bit, run again if
it was set) that the driver's level-triggered event relies on.

### KernelUpgrade

A package is a model value; the content `p` of a file is what package `p`
installs. `status[j]` is the `status` field of journal `j`'s
`transaction.json`. `file` survives, `pc`, `txn` and `index` are the process.
`replace` is atomic (temporary file, `os.replace`) and may raise with or
without its effect. `late` and `lifo` are history variables naming what the
code does not protect: a change made by somebody else between the comparison of
a file and its replacement, and rollbacks out of order.

### ManualRate, PortRate and RateSwitch

`ManualRate` has the fields of `struct port` per port, and of the device tree
only what its `phy-mode` property is: the one found at boot or the one the
module made, which is always for the other rate. A command holds
`control_lock` and both device locks, hence is one action; applying and
reverting a change set may fail in its notifiers with the property replaced or
not. The drivers that own a port (`netdev`, `lane`) are kernel code outside the
repository.

`PortRate` adds the script: one `pc` per stage of `apply` and `change`, with
`undo` for the restoration, the pending file (which survives a kill, not a
reboot) and the worker processes. `own` is the worker the script waits for;
when the 15 seconds are over, or the script is killed, it becomes a `stray` and
writes later or never. The receipt is saved while a worker is pending, and such a
save may raise (`Abandon`): the handler of all other errors then begins the
restoration beside that worker. The port is `loose` from then on (a history
variable, until the reboot); its workers and its rate are unknown, which
`RateSwitch` has the step `Lose` for. Carriers are no state: a carrier in the
wrong state is one more reason for `Verify` to fail, which it may do anyhow.
`ImplementsRateSwitch` maps a port's rate to what it had
before the transaction as long as one is pending, and to what it really runs at
otherwise: the stages of a run are stutters, and the obligation falls due when
the pending file is removed.

### PcieService

Each end is the set of what is in place there (modules, function, link
parameters, interface, DNS configuration and route; on the host modules,
functions and interface). `ColdStart`, `Order`, `Teardown` and `Unbinding` are
the orders of the code, `Needs` what a command needs to succeed. A step may
raise with or without its effect. `serial` is the payload that was typed at the
card's shell, `sat` its next command: it runs later, one command at a time
(`Quiescing`, `Unbinding`), to its end or to the first one that fails, and the
status may be lost. Between two commands, and after a failure, the card is in
any state in between: interface down and its module still loaded, for instance.
`host_service.py` is restarted on exit status 75 only
(`hpc = "retry"`).

### EnvSlots

A slot is blank, corrupt or sound, with its flags byte and the environment it
holds; the flash may do what it is told, nothing, or a part of it, and report
either. `Boot` is possible in every state. `kept` and `tried` are history: what
the next boot must find, and what was tried since. `blind` marks that a slot
could not be read at boot: U-Boot then does not know the newer copy and may
erase it, so nothing is promised until a save is reported as done. `reports`
holds the last two success lines of a boot, which the acceptance tool reads.

`EnvStore` is the abstract specification: one value that a boot finds (`found`),
the one that was kept, the one that is being saved. It is mapped by
`found <- Holds(Chosen(Good))`, what a boot that can read everything finds in
the two slots, and `busy <- step \notin {"off", "idle"}`. Its steps say that an
attempt leaves `found` as it is, or makes it the kept or the wanted value, that
a save is reported only when `found` is what was wanted, and that a power loss
changes nothing.

### FlashPack

The bank is counted in erase sectors and a file is a sequence of cells; the
digest of a file is the file. Two tables of offsets and limits exist, the
layout file on the build machine and the constants of the firmware (`Table`),
as in the code; where the environments and manifests belong is a third (`Anchors`,
`validate-layout.py`). An offset has a value and the form it is written in
(`Forms`): the layout check and the packer take any JSON number or string that
Python reads, `manifest.c` only a string of lowercase hexadecimal digits,
`boot_update.py` reads every string as hexadecimal. The packer formats all
offsets itself but those of the two containers, which it copies from the layout.
The refusals of the layout check, the packer, the packaging tool and the reader
that concern offsets, sizes, names and contents are there; JSON syntax, receipts
and version strings are folded into comparisons of files. The internal offset of
BL2, the addressing and the identity policy of the layout are taken as fixed.

### BoardLayer

A tree is, for each edit, the number of its anchors and of the copies of its
passage, and whether the marker by which the code recognises it is there in
another form. A file is rewritten in place, so a kill or a full disk leaves a
prefix of the new text (`Cut`): the edits in front of the cut are whole, of the
one that is cut there remains any part its text allows (`Remains`), and those
behind it have neither anchor nor passage. `Place` says in which order the edits
stand in a file. The next run reads such a prefix like any other file, and may
pass it; `unseen` is history and names those that show it all it looks for.
A step has the rule of the function that the code calls (`replace_once`,
`append_once`, `insert_before_last_once`, `insert_once`, the two files of the
clock patch, a gate, a file of ours). What the installer may be given is the
constant `Inputs`: a tree, and the gate it fails if any. Its names begin with
`Layer` (`LayerSpec`, `LayerTypeOK`) so that one module can prove about both
installers.

### ServiceInstall

A bundle is named by the digest of its manifest, a unit by the bundle it was
rendered from. `card-install.py` replaces each file atomically: one action per
file, with `Stop` (an error or a kill) possible between any two. The preflight
is one guard (`Accepts`). `host_install.py` copies in place into an offline
root, and a file that is there already stops it.

## 3. Runs

| Run | Instance | Shows | Size |
|---|---|---|---|
| `boot_update` | five sectors, one of each kind; 2 crashes or reboots, 1 foreign write | all safety properties of the transaction, termination | 1.0 M states, about 75 s |
| `boot_update_failure` | the same, no crash, no foreign write | *violated*: see section 6 | - |
| `vntb_mailbox` | 2 threads, 2 buffers, 4 calls, 1 unbind | `Vntb` implements `MailboxRpc`; `MwAgreement`; every call returns | 0.26 M states, about 35 s |
| `vntb_doorbell` | 3 packets, 2 openings of the queue, 1 call, 1 unbind | no ring lost, packets arrive, quiet after unbind | 0.27 M states, about 45 s |
| `kernel_upgrade` | 2 packages, 2 journals, all failures, 1 kill, 1 foreign change | the latest transaction can be undone; the unit is complete; foreign changes refused, status true | 1.0 M states, about 20 s |
| `port_rate` | two ports of different boot rates, one save that fails beside a worker between two boots, everything else any number of times | one writer, a change pins the module, `RateSwitch` is implemented, every run ends | 0.10 M states, about 20 s |
| `port_rate_rollback` | the same | *violated*: see section 6 | - |
| `pcie_service` | one card, one host, everything any number of times | memory outlives the queue, whole endpoints, fresh cold starts, owned DNS route, no tag in use, a serving card is found | 0.50 M states, about 45 s |
| `env_slots` | three environments, flags 0, 1, 2, 128, 254 and 255 | no environment lost, accepted boards redundant, inspector agrees, `EnvStore` is implemented | 54 k states, 5 s |
| `flash_pack` | 26 sectors, 12 layouts, 11 builds, 4 snapshots, one file exchanged | emitted images boot, packages are valid | 11 k states, 5 s |
| `board_layer` | both trees, one drift of any edit, 1 kill anywhere in a write or between two | every passage once, cut files refused but for the named ones; header and source of the clock together | 0.46 M states, about 35 s |
| `service_install` | three bundles, everything any number of times | unit backed, installation repeatable | 18 k states, 2 s |

Why the bounds are enough:

* Five sectors give each kind its representative: a low-range sector no digest
  covers, a sector the tool must not write, both slots, and a high-range sector
  pinned by the manifests. `Before` is decided by range and address, and the
  low, high and slot ranges are all present in an order that differs from
  address order. The proofs remove the bound.
* Two crashes allow a crash in an apply and another in what follows; the tool
  refuses to continue after the first, so more add nothing new. One foreign
  write can be placed between any two steps.
* Four calls in the mailbox are the mandatory doorbell configuration, the call
  that times out and two later ones of other threads; two buffers tell a mixed
  address from a whole one. Three packets give a ring during the handler's read
  and clear and one after it. One unbind with a rebind shows both orders of
  unbind against every step of the handler.
* Two packages are needed for a unit that names a bundle another transaction
  removes, or that two transactions of one package install; with two journals
  one transaction lies on another, and the lower one is the latest again after
  the upper one was undone. Higher stacks are the proof's (any number).
* `pcie_service` has no bound at all, and `port_rate` only one: `MaxLoose`, on
  how many ports, once each, a failing save begins a restoration beside its
  worker between two boots. After the first nothing is promised of that port;
  the other one shows what it may do to a neighbour. Two ports let one be the
  neighbour of the other, and different boot rates make each rate the initial
  one of some port. The proofs hold for every `MaxLoose`.
* Three environments tell the one kept, the one tried and a later one apart.
  The flags bytes include both sides of the wrap and both of the values that
  U-Boot itself writes; the proofs remove the bound.
* In `flash_pack` 26 sectors keep the order of the tracked layout, every
  region with room to spare or none. Each of the wrong layouts and builds fails
  another check of the packer or of the firmware; layouts that pass write a
  container offset in each of the four forms.
* One killed run leaves one file cut at any place, which any number of later
  runs meets. In `MCPlace` the edits stand in a file in the order in which they
  are made; two kills, other places and more drift are left to the proof, which
  holds for all. One drifted edit is enough, because the rules of different
  edits share no state but the file they write.
* Three bundles are the one that runs, the one installed and one installed
  over both.

Symmetry is used for `Packages` only, in runs without liveness: no constant or
operator tells two packages apart.

`CHECK_DEADLOCK FALSE` stands where the system really may stop: in
`BootUpdate` and `KernelUpgrade` a bundle and a journal name are used once, so
when both are spent and the bounds on crashes are reached nothing is left to
do; the packer of `FlashPack` and the installers of `ServiceInstall` end. `Vntb`,
`PortRate`, `PcieService`, `EnvSlots` and `BoardLayer` (whose installer may
always be run again) never stop, and are checked for deadlock.

### Fairness

* `BootUpdate`: `WF_vars(Running)`, the steps of a process that was started.
  `flash_erase` is run with a time-out, the program loop raises when a write
  makes no progress, the loops run over finite sets. No fairness is assumed for
  starting a process, for crashes or for other programs, and none that favours
  success over failure.
* `Vntb`: `WF` for each host thread inside a call (the poll has a deadline),
  for the pending half of a doorbell ring, for the handler (delayed work that is
  queued runs), for a scheduled tasklet, for an unbind that has begun, and for
  the transport closing its queue when its device is removed. No fairness for
  making calls, sending packets, binding or unbinding, nor for an answer
  arriving before the time-out.
* `PortRate`: `WF_vars(Step)`, the steps of a script that runs: every wait in it
  has a time-out. Nothing is assumed of workers, the network manager or the
  link; `TransactionEnds` holds although they may do nothing.
* `PcieService`: the host service runs to its end (its commands have time-outs),
  systemd restarts it after status 75, and the two transports find each other
  when both are up. Nothing is assumed of the card or of what is run by hand.
* The other modules have safety properties only.

## 4. Properties that need a word

* `CommitPoint` is stated for packages whose sequence number is not lower than
  the one in the flash. With a lower one U-Boot prefers slot B until it is
  rewritten, and refuses the flash if the old payload it pins has changed.
* `DeployPassSound` says nothing of `protected_regions_unchanged=True` in the
  same record: the flash is read back before the script is replaced, and the
  environment may be written in between.
* `MwAgreement` pins the exact mapping only while the function has never been
  unbound: an unbind removes the mapping without the host being told. That an
  acknowledged teardown leaves no mapping holds always.
* `LatestCanRollBack` and `ServiceComplete` hold while transactions are undone
  latest first (`lifo`); the code leaves that order to the operator.
* `PublishedIsWhole` says two things. As long as an endpoint is published its
  modules, function, link and transport are there; at the moment of publication
  interface and DNS are too. A published endpoint without its interface is
  therefore allowed later: `vntb-quiesce.py` takes the interface down before the
  module, and may fail in between. The first does not speak of starts beside
  which the serial payload changed the card, the second of those beside which
  either tool did (`overlap`), since neither takes the lock of that service;
  `RouteOwned` excepts a `vntb-card-dns.py remove` beside a start.
* `NoTagInUse` is about the 10-bit tag bit that the kernel restores on every
  resume of the port: the service must find it clear or clear it before a
  driver is bound, and may not clear it once something lives below.
* `OneWriter` is what `Ambiguous` buys: a script that goes on to its restoration
  beside a worker that has not returned has two. It counts the workers of all
  ports that are not `loose`; the code makes a port loose in one way only, a save
  of the receipt that fails while a worker is pending, and `RollbackAlone` says
  that it should not (section 6).
* `EmittedBoots` asks U-Boot to accept an image if the layout writes the offsets
  of the two containers as strings of lowercase hexadecimal digits
  (`HexContainers`). The tracked layout does; `validate-layout.py` also passes one
  that does not, and its image is refused at boot. That payloads lie where the
  firmware looks for them, and that environments and journal are erased, is
  asked under every layout that passes.
* `InstalledOnce` leaves two things out that the code does not look for: a
  second copy of a hook it only searches, and upstream's text behind the last
  passage or anchor of a file. A file that a write left as a prefix with all of
  these is taken for complete by every later run (`unseen`); `dts/Makefile`, to
  which a line is appended without an anchor, always is. What the property
  promises is that no other prefix ever passes.
* `ClockTogether` promises less after a kill. The two files of the clock patch
  are written one after the other, the header first, so a killed run may leave
  fields that are defined and not yet used. The reverse occurs in one way: a
  repeated run writes both files again although nothing is missing, and when it
  is stopped inside the header (`install_profile.py:174`), fields that the source
  uses are undefined until a run ends well. The property excepts that header and
  nothing else.

## 5. Proofs

### BootUpdateProofs

This module proves, for every layout that satisfies `LayoutAssumption`
and `CoveredAssumption` (`NorFlash`) and every bound in `BoundsAssumption`
(`BootUpdate`), for images and flashes of any size:

| Theorem | Statement |
|---|---|
| `TypeCorrect` | `Spec => []TypeOK` |
| `Invariance` | `Spec => []IInv` |
| `RecoverableHolds`, `MetadataLastHolds`, `ScriptFollowsFlashHolds`, `DeployPassSoundHolds`, `RestorePassSoundHolds` | `Spec => []P` for the property of that name |
| `ManifestRedundancyHolds`, `CommitPointHolds` | consequences of `IInv` |
| `OthersPreservedHolds` | action property |

None of the safety properties is inductive alone: that the manifests come last,
for instance, follows from where the loop is and not from what is in the flash.
`IInv` adds

* `Bookkeeping`: what every program point knows of backup, journal, `started`
  and `restoring`;
* `ProtectedKept`: protected sectors are `old` or `foreign`, and any image that
  got past the checks leaves them alone;
* `ForwardFlash`: the heart of the argument. In the forward direction the
  sectors in `done` hold the image and are closed under `Before`, all others
  except the one in hand are still old. With `SlotsLast` (every other approved
  sector comes before a slot) this gives `PayloadFirst`, hence `MetadataLast`;
* `TornOnce`: at most one sector is torn before a failure is recorded, hence
  `ManifestRedundancy`;
* `ForwardScript` and `RestoreVerdict`: what is known when the script is
  renamed and when either verdict is recorded;
* `Undisturbed`: from the comparison in `apply` on, nothing that apply writes
  was written by others, hence `OthersPreserved`. A `prepare` whose last
  comparison fails leaves a complete backup, so this rests on `apply` alone.

`CommitPoint` follows from `MetadataLast`, `ProtectedKept` and the assumption
that digests cover no manifest slot. The step lemmas have one case per action
for the parts about `pc`; for the parts about one piece of persistent state,
`Writers` and `Records` first reduce a step to the few actions that write it.
For TLC, add `INVARIANT IInv` to `MCBootUpdate.cfg`.

### VntbProofs

For every set of threads and buffers and every bound, with the assumption that
`None` is no thread, buffer or mapping (`NoneAssumption`): `TypeCorrect`,
`Invariance`, `MwAgreementHolds`, `NoLostRingHolds`, `QuietAfterUnbindHolds`,
and `RpcRefined`: every step of `Vntb` is a step of `MailboxRpc` or leaves its
variables alone. The parts of `IInv`:

* `OneCall`: the threads between lock and unlock are one, and `cmd_lock` says so;
  `Locals` says what that thread knows of page and latch at each of its lines;
* `Latched`: at most one call has ever been given up, and since then nobody
  passes the latch, so no later command can meet the late answer;
* `OneCommand`, `OneAnswer`: the word on the page and the one the handler took
  are at most one command, which belongs to an open call that has not been
  served; a status on the page is the verdict on the call that is polled. These
  two are what the tagless protocol rests on, and they carry `RpcRefined`;
* `WindowKnown`, `WindowDone`: the two ends agree on the window but for the
  command under way, and for mappings after a call was given up;
* `LifeCycle`: which of the handler, its work item, the bus and the BARs exist
  at each statement of bind and unbind, hence `QuietAfterUnbind`;
* `RingKept`: a packet in an open queue has a ring half, a set bit or a tasklet
  before it, whichever the handler has read and not yet delivered.

The module proves first which actions write each group of variables (the frame
lemmas), so that every part of `IInv` is shown for its writers only. To let TLC
look at the invariant, add `INVARIANT IInv` to either configuration of `MCVntb`,
which extends `VntbInvariant`.

### KernelUpgradeProofs

For every set of packages (`NamesAssumption`: they are none of the other names)
and every number of transactions, kills and changes by others
(`BoundsAssumption`): `TypeCorrect`, `Invariance`, `LatestCanRollBackHolds`,
`ServiceCompleteHolds`, and the action properties
`RollbackRefusesForeignHolds`, `StageRefusesForeignHolds`,
`StatusTruthfulHolds`. The action properties need only what the running process
knows of the files it has compared (`StillCompared`) and written (`Written`).
The state properties speak of the latest transaction, and are not inductive: the
rollback of one makes the one below it the latest. `IInv` therefore adds

* `Stacked`: every file is as the last active transaction that stages it found
  it or as that one leaves it (`Owns`), and so was it when the next one took
  its snapshot;
* `Fresh`: nothing changes while a transaction is prepared, so its snapshot is
  the present state at the moment it becomes active;
* `BundleThere`: a bundle that a unit names, now or in the snapshot of a
  transaction that may bring the unit back, is in place, and no rollback above
  it takes it away. Two transactions of the same package are the hard case;
* `KernelThere`: the same for the kernel a new unit was installed with.

One lemma per writing step (`BeginStack`, `PrepareStack`, `ReplaceStack`,
`RestoreStack`, `FinishStack`) carries these parts over it; `StackKept` covers
all other steps. The order of the files enters in `ReplaceStack` (bundle and
kernel are done when the unit is written) and `RestoreStack` (the unit is done
when they are restored). `MCKernelUpgrade` extends the module of the invariant,
for `INVARIANT IInv` in its configuration.

### PortRateProofs

For every finite set of ports and all their boot rates (`RateAssumption`), with
`None` no transaction (`NoneAssumption`): `TypeCorrect`, `Invariance`,
`ChangeHeldHolds`, `OneWriterHolds`, and `RateSwitchImplemented`. `IInv` adds

* `Held`: a module that is not loaded has no active change; `CountUp` and
  `CountDown` carry the count of active changes over a command by the
  cardinality of their set;
* `OneScript`: a script runs inside its transaction and beside no stray worker,
  and a stray worker keeps the transaction it belongs to pending. This is what
  the pending file is for, which a script that timed out or was killed leaves.
  Workers of a `loose` port are the exception: a port becomes loose by `Abandon`
  only (`LooseWriters`) and stays so (`LooseStep`), and what they write to it
  touches no part of the invariant, which speaks of the other ports;
* `ElsewhereSettled`, `EndsSettled`: every port no transaction is about runs at
  the rate of its node; so does the port of the transaction before its first
  step and after its verification. Nothing moves a port that is up: a command
  needs a port without driver (`CommandKeeps`), and the workers have the port of
  the transaction (`Kept`).

### EnvSlotsProofs

For every set of environments and every set of flags bytes that contains the
three U-Boot writes (`EnvAssumption`): `TypeCorrect`, `Invariance`,
`DurableHolds`, `AcceptedIsRedundantHolds`, `InspectorAgreesHolds`, and
`EnvStoreImplemented`. `Durable` is not inductive: it says nothing of the slot
that is written to. `IInv` adds

* `InHand`: from the erasure on, what is being saved is among what was tried,
  and from the comparison on, the new slot holds it. This is where the read
  back of `x200_env_verify` enters;
* `InUse`: the slot that `gd->env_valid` names is sound and holds `kept`; the
  other one is not sound, or loses the choice, or holds what was tried. When
  there is no slot in use, slot 2 is not sound and slot 1 holds only what was
  tried: a save out of `ENV_INVALID` goes to slot 1;
* `Reported`: the last report of a boot names the slot in use and its
  environment; when there are two, the one before it is retired in the other.

That the slot which is erased is never the one in use follows from `InUse`, and
that a retired copy loses the choice (`RetiredLoses`) is the only fact about
flags bytes that `Durable` needs. `InspectorAgreesHolds` compares the two
selections over all pairs of bytes.

The refinement has one case per action. What a boot finds is in one of the
slots (`FoundAfter`); erasing and writing touch the slot that is not in use, so
it stays in `{found, kept, want}` (`FoundWhileWritten`); retiring leaves one
slot with `kept` and one with `want` (`FoundWhileRetired`); a save is reported
when the old copy reads 0, and then the new one wins (`RetiredLoses`). `InHand`
and `InUse` are what these lemmas need of the invariant.

### InstallerProofs

Both installers in one module; they share nothing but the subject.

`BoardLayer`, for every set of inputs and number of kills (`InputsAssumption`: a
tree counts what is in its files, and upstream has the fields of a clock in both
of its files or in neither, unless it has them twice): `LayerTypeCorrect`,
`LayerInvariance`, `InstalledOnceHolds`, `ClockTogetherHolds`. The trees of the
run have one drifted edit each; the theorems allow any number of anchors, copies
and foreign markers in any file, on every edit at once. The first part proves, of
the two programs that `Steps` is joined from, what their steps have in common
(`Shaped`): a step writes the files of its edits, all of one rule; only the
clocks write the files of the clocks; only `dts/Makefile` is appended to. The rest of the
proof knows no more of the table. `IInv` of this component (`LayerIInv`) has

* `StepsDone`: a run has done the steps it is past and passed their gates.
  A later step may write the same file, but leaves other edits as they are;
* `InHand`: the text that is being written does its step in full, and what of it
  is not written yet is in files still to come;
* `LostStuck`: a file that was cut short and is not `unseen` has an edit that is
  neither installed nor applicable (`Stuck`). No step repairs such an edit
  (`StuckStays`): writes for other edits of the file leave it as it is. So `Read`
  refuses when the run comes to it, and a run that ended well has met none;
* `ClockInHand` and `ClockKept`: header, then source; between the two writes
  the source does not yet use what the header has, and the other way only below
  a header that was cut short.

`ServiceInstall`, for every set of bundles (`BundlesAssumption`: a bundle is
neither the absent nor a foreign unit): `TypeCorrect`, `Invariance`,
`UnitBackedHolds`, `RepeatableHolds`. `IInv` adds that no bundle is ever seen in
part, which makes the preflight accept what an interrupted run has left, and
that each step finds what the earlier ones put in place (`Ordered`), although
other programs change files meanwhile: they may alter a bundle or a
configuration file, and nothing in the model or the code removes one.

### PcieServiceProofs

`PcieService` has no constant: its run is exhaustive, and the theorems add the
argument. `TypeCorrect`, `Invariance`, `CardBacked`, `PublicationWhole`,
`ColdStartFresh`, `RouteHasOwner`, `TagsClear`, and the action property
`PartedTeardown`. None of the five properties is inductive alone; `IInv` adds

* `UnbindInv`: what a late unbinding payload, of which some commands have run,
  finds on a card that started again meanwhile: its second command fails when a
  client is there, and after it no start finds the card empty before the payload
  has ended. `StackInv`, the first part of `PublishedIsWhole` as a state
  predicate, rests on it;
* `StartInv`: while nobody interferes, what the steps of a start have put in
  place is still there, and an adoption repeats the DNS steps only;
* `PortInv`: from its resume on the port is awake, so nothing puts the tag bit
  back while functions live below it;
* `BarsInv`: BARs that are assigned belong to the function that is published;
* `ToolInv`: an answer that `vntb-quiesce.py` accepts is the answer to its own
  command, and from then until it has removed the functions the card is
  `Parted`: its client is gone, and a function published later has no BARs
  before the next scan, which cannot come first.

`CardBacked` is the last of these together: only `HostTeardown` takes a module
away, and `PartedTeardown` says that it does so on a parted card only. That a late
payload of an earlier attempt cannot undo this is in `ToolInv` too.

### FlashPackProofs

For every layout, build and snapshot and every table of the firmware:
`Invariance`, `EmittedImagesBoot`, `PackagesAreValid`. Assumed are `TableAssumption` (the PBL comes
first; where the firmware's limit of a payload ends, another anchor or the end
of the bank follows; no anchor right behind the primary environment: true of the
constants of `manifest.c` and of `UPSTREAM_ANCHORS`), `RangesAssumption` (the ranges of `boot_update.py` are in
order and end in the bank), `LayoutsAssumption` and `BuildsAssumption` (whole,
not negative numbers, each with its form; files that are not empty).

The layout part is about `validate-layout.py` alone. That no name occurs twice
is a statement about a cardinality (`NamesOnce`); that a region ends before the
next begins is an induction over the regions, done with a least counterexample
(`Least`, `Ordered`). Together: a region starts where the firmware looks for it
(`NamedRegion`), lies apart from every other (`RegionsApart`), and is not larger
than the firmware's limit although no check compares the two (`WithinLimit`).
`EmittedBoots` is not inductive. `IInv` adds that the inputs stay as checked,
that what was put fits its region, and what the image holds at the offsets of
`Table`; an update overwrites only the environment, which `RegionsApart` keeps
away from all of it (`MergedElsewhere`), and outside the regions written the image is erased
(`Untouched`). `Boots` then reads the image back as `manifest.c` does, the parts of
the PBL and of the FIP included; this is where `HexContainers` enters.

`PackagesAreValid` is where `FlashPack` meets `BootUpdate`: what leaves
`package_boot_update.py` satisfies `ValidPackage`, which the update transaction takes for
granted. The two describe the ranges differently (`SameRanges`). `Covered` of
`NorFlash` is here what the digests in one of the two manifests pin
(`PinnedCells`): `composition` has hashed all of it in both images, so where the
manifests agree the images do (`PinnedAgree`). Padding that no digest pins may
differ between image and snapshot, and is not covered.

### Model-checked only

All liveness properties (fairness and `ENABLED` are outside what the prover
handles): `Terminates`, `CallsReturn`, `PacketsArrive`, `TransactionEnds` and
`CardIsFound`. Every safety property of a passing run, and the refinements of
`MailboxRpc`, `RateSwitch` and `EnvStore`, are the subject of a theorem.

## 6. Findings

`boot_update_failure`: the handler that restores the flash begins with
`record('APPLY_FAILED', ...)` (`BSP/bringup/boot_update.py:268`), which writes
and syncs a file and prints. If that raises - a full file system, a closed
standard output, which may also be why the forward direction failed - no
statement of the handler below it runs, and erased sectors stay erased. The
comment in the next line promises "Best-effort repair of this transaction". The
journal still names the sectors and the backup holds them (`Recoverable`), so
the loss is of the automatic repair, not of the data.

`port_rate_rollback`: `Transaction.process` saves the receipt right after it has
started a worker, and again between the worker's time-out and `raise Ambiguous`
(`BSP/dual-rate/manual-rate/port_rate.py:272`, `:277`). If that write fails, what
is raised is not `Ambiguous`, and `except Exception` (`:394`) begins the
restoration beside a worker that may still write. The comment above the start of
the worker says "Do not start rollback while such a worker might still be
mutating." The restoration may then be verified and the pending file removed
before the worker moves the port; `OneWriter` and `RateSwitch` therefore promise
nothing of such a port until the next boot.

Three further things the code does not prevent were met while modelling. No
sentence of the repository claims otherwise, so no run is devoted to them; the
properties name them: a layout that passes with container offsets U-Boot does
not read, prefixes of source files that pass for complete, and a header of the
clock patch cut short under a source that needs it (section 4).

## 7. Not modelled, and why

* Builds, profile validators, collectors, build checks and the network probe
  are pure functions or one-shot reads of files, without state that outlives
  them. The packaging of kernel and card bundles copies and digests files.
* The ATF platform code, the hand-off and DPAA2 patches, the endpoint's
  register programming and the receiver-gain sequence act on hardware whose
  behaviour is not in the repository: a model would have to invent it.
* Formatting of journals, names of files, JSON and digests are abstracted to
  what the properties distinguish.
* Lifetime of host DMA buffers after a time-out of `mw_set_trans` belongs to
  the NTB transport in the kernel; so does, in `PcieService`, what a host does
  that reboots while the card's queue is up.
* In `EnvSlots` nothing is promised after a boot that could not read a slot,
  until a save is reported as done (`blind`).
* In `ServiceInstall` a loss of power may undo a rename that was not synced to
  the disk; only kills are modelled.
* In `BoardLayer`, `install_rcw`, `install_mc_utils` and `install_linux` are
  left out: no program of the repository calls them.
* `status`, `--check` and the other read-only commands change nothing.

## 8. Plan

1. An abstract specification that `BootUpdate` implements, with the refinement
   proved as it is for `Vntb`, `PortRate` and `EnvSlots`.
2. `CapabilityWalk` and the capability edits of the endpoint driver as pure
   operators against a reference definition.
3. Board initialisation (`rx_gain.c`, late init) against an abstract serdes,
   and the serial command capture.
4. Composition of `FlashPack` with `BootUpdate`: the set of packages of the one
   as the packages of the other, instead of `ValidPackage`.
