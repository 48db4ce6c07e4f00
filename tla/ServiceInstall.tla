---------------------------- MODULE ServiceInstall ----------------------------
(***************************************************************************)
(* persistent/card-install.py puts a card bundle, its configuration and    *)
(* the unit that names it on a card that may run an older bundle;          *)
(* persistent/host_install.py puts the host bundle and its configuration   *)
(* into an offline root.  The one replaces every file atomically and may   *)
(* be repeated; the other copies in place and asks for a new destination.  *)
(*                                                                         *)
(* A bundle is named by the digest of its manifest, a unit by the bundle   *)
(* it was rendered from.  The configuration is the same in all bundles:    *)
(* package_card.py writes it from no input.  Each process may raise or be  *)
(* killed at every step, and other programs may change the files.          *)
(***************************************************************************)
EXTENDS Naturals, Sequences

CONSTANT Bundles   \* the card bundles, each for one kernel

ASSUME BundlesAssumption == {"absent", "foreign"} \cap Bundles = {}

VARIABLES
  bundle,   \* per card bundle: "absent", "part", "whole" or "altered"
  conf,     \* per configuration file: "absent", "ours" or "foreign"
  unit,     \* "absent", a bundle, or "foreign"
  enabled,  \* the unit is started at boot
  kernel,   \* the bundle that fits the running kernel
  pc, ver, prior, at,  \* card-install: its step, its bundle, the unit it may
                       \* replace, the next configuration file
  target,   \* the host bundle: "absent", "part" or "whole"
  copied,   \* per host file: "absent", "part", "ours" or "foreign"
  hpc,      \* host_install: "idle", "bundle", the file it is at, or "done"
  end       \* which of the two is installed; they have nothing in common

cardVars == <<bundle, conf, unit, enabled, kernel, pc, ver, prior, at>>
hostVars == <<target, copied, hpc, end>>
vars == <<cardVars, hostVars>>

-----------------------------------------------------------------------------
CONFIGS   == <<"unmanaged", "modprobe">>
HostFiles == <<"service", "nm", "modprobe", "dracut", "sysctl", "management.json">>
ConfFiles == {CONFIGS[i] : i \in DOMAIN CONFIGS}
HostSet   == {HostFiles[i] : i \in DOMAIN HostFiles}

TypeOK ==
  /\ bundle \in [Bundles -> {"absent", "part", "whole", "altered"}]
  /\ conf \in [ConfFiles -> {"absent", "ours", "foreign"}]
  /\ unit \in Bundles \cup {"absent", "foreign"} /\ enabled \in BOOLEAN
  /\ kernel \in Bundles /\ ver \in Bundles
  /\ pc \in {"idle", "copy", "conf", "unit", "enable"}
  /\ prior \in Bundles \cup {"absent"} /\ at \in DOMAIN CONFIGS
  /\ target \in {"absent", "part", "whole"}
  /\ copied \in [HostSet -> {"absent", "part", "ours", "foreign"}]
  /\ hpc \in HostSet \cup {"idle", "bundle", "done"}
  /\ end \in {"card", "host"}

Init ==
  /\ bundle = [b \in Bundles |-> "absent"]
  /\ end \in {"card", "host"}
  /\ conf = [f \in ConfFiles |-> "absent"] /\ unit = "absent" /\ enabled = FALSE
  /\ kernel \in Bundles /\ ver = kernel
  /\ pc = "idle" /\ prior = "absent" /\ at = 1
  /\ target = "absent" /\ hpc = "idle"
  /\ \E there \in SUBSET HostSet :
       /\ end = "card" => there = {}
       /\ copied = [f \in HostSet |-> IF f \in there THEN "foreign" ELSE "absent"]

-----------------------------------------------------------------------------
(* card-install *)

Exit == pc' = "idle" /\ ver' = kernel /\ prior' = "absent" /\ at' = 1

\* previous_owned_unit: what is replaced is rendered from a bundle that is
\* still there as it was.
Owned(b) == \/ unit \in {"absent", b}
            \/ unit \in Bundles /\ bundle[unit] = "whole"

\* Everything is looked at before anything is installed.
Accepts(b) ==
  /\ kernel = b
  /\ Owned(b)
  /\ \A f \in ConfFiles : conf[f] # "foreign"
  /\ bundle[b] \in {"absent", "whole"}

Install(b) ==
  /\ end = "card" /\ pc = "idle" /\ Accepts(b)
  /\ pc' = "copy" /\ ver' = b
  /\ prior' = IF unit \in Bundles \ {b} THEN unit ELSE "absent"
  /\ at' = 1
  /\ UNCHANGED <<bundle, conf, unit, enabled, kernel, hostVars>>

\* Mutant: the bundle is copied to where it is to be.
CopyInPlace ==
  /\ pc = "copy"
  /\ IF bundle[ver] = "absent" THEN bundle' = [bundle EXCEPT ![ver] = "part"] /\ UNCHANGED pc
                               ELSE bundle' = [bundle EXCEPT ![ver] = "whole"] /\ pc' = "conf"
  /\ UNCHANGED <<conf, unit, enabled, kernel, ver, prior, at, hostVars>>

\* A temporary directory is filled, verified and renamed; an existing bundle
\* was verified.
Copy ==
  /\ pc = "copy" /\ pc' = "conf"
  /\ bundle' = [bundle EXCEPT ![ver] = IF @ = "absent" THEN "whole" ELSE @]
  /\ UNCHANGED <<conf, unit, enabled, kernel, ver, prior, at, hostVars>>

InstallConf ==
  /\ pc = "conf" /\ conf[CONFIGS[at]] # "foreign"
  /\ conf' = [conf EXCEPT ![CONFIGS[at]] = "ours"]
  /\ IF at < Len(CONFIGS) THEN at' = at + 1 /\ UNCHANGED pc
                          ELSE pc' = "unit" /\ UNCHANGED at
  /\ UNCHANGED <<bundle, unit, enabled, kernel, ver, prior, hostVars>>

\* The unit must still be what was authorised.
InstallUnit ==
  /\ pc = "unit" /\ unit \in {"absent", ver, prior}
  /\ unit' = ver /\ pc' = "enable"
  /\ UNCHANGED <<bundle, conf, enabled, kernel, ver, prior, at, hostVars>>

Enable ==
  /\ pc = "enable" /\ enabled' = TRUE /\ Exit
  /\ UNCHANGED <<bundle, conf, unit, kernel, hostVars>>

\* Mutant: what is cleaned up is the destination.
StopRemoves ==
  /\ pc # "idle" /\ Exit
  /\ bundle' = [bundle EXCEPT ![ver] = "absent"]
  /\ UNCHANGED <<conf, unit, enabled, kernel, hostVars>>

\* A refusal, an error or a kill; a temporary file or directory may stay.
Stop ==
  /\ pc # "idle" /\ Exit
  /\ UNCHANGED <<bundle, conf, unit, enabled, kernel, hostVars>>

-----------------------------------------------------------------------------
(* host_install *)

HAt(i) == HostFiles[i]

\* The staged bundle is verified; the destination must be new.
HostInstall ==
  /\ end = "host" /\ hpc = "idle" /\ target = "absent"
  /\ target' = "part" /\ hpc' = "bundle"
  /\ UNCHANGED <<cardVars, copied, end>>

HostBundle ==
  /\ hpc = "bundle" /\ target' = "whole" /\ hpc' = HAt(1)
  /\ UNCHANGED <<cardVars, copied, end>>

\* A file must not be there before it is opened; then it is filled.
HostCopy ==
  \E i \in DOMAIN HostFiles :
    /\ hpc = HAt(i)
    /\ \/ copied[HAt(i)] = "absent" /\ copied' = [copied EXCEPT ![HAt(i)] = "part"]
          /\ UNCHANGED hpc
       \/ copied[HAt(i)] = "part" /\ copied' = [copied EXCEPT ![HAt(i)] = "ours"]
          /\ hpc' = IF i = Len(HostFiles) THEN "done" ELSE HAt(i + 1)
    /\ UNCHANGED <<cardVars, target, end>>

HostStop ==
  /\ hpc \notin {"idle", "done"} /\ hpc' = "idle"
  /\ UNCHANGED <<cardVars, target, copied, end>>

-----------------------------------------------------------------------------
(* Others *)

\* The card is booted, with whichever kernel.
Reboot ==
  /\ end = "card"
  /\ kernel' \in Bundles /\ pc' = "idle" /\ ver' = kernel' /\ prior' = "absent" /\ at' = 1
  /\ UNCHANGED <<bundle, conf, unit, enabled, hostVars>>

Meddle ==
  /\ end = "card"
  /\ \/ \E f \in ConfFiles : conf' = [conf EXCEPT ![f] = "foreign"] /\ UNCHANGED <<bundle, unit>>
     \/ unit' = "foreign" /\ UNCHANGED <<bundle, conf>>
     \/ \E b \in Bundles : bundle[b] = "whole" /\ bundle' = [bundle EXCEPT ![b] = "altered"]
                           /\ UNCHANGED <<conf, unit>>
  /\ UNCHANGED <<enabled, kernel, pc, ver, prior, at, hostVars>>

Next == \/ \E b \in Bundles : Install(b)
        \/ Copy \/ InstallConf \/ InstallUnit \/ Enable \/ Stop
        \/ HostInstall \/ HostBundle \/ HostCopy \/ HostStop
        \/ Reboot \/ Meddle

Spec == Init /\ [][Next]_vars

-----------------------------------------------------------------------------
(* Properties *)

\* The unit that is started at the next boot names a bundle that is complete
\* (but for what others did to it) and has its configuration, at every moment
\* of a first installation, a repetition or a change of bundle; and the host's
\* unit comes after its bundle (card-install.py:124-142, host_install.py:31-46).
UnitBacked ==
  /\ unit \in Bundles => /\ bundle[unit] \in {"whole", "altered"}
                         /\ \A f \in ConfFiles : conf[f] # "absent"
  /\ copied["service"] \in {"part", "ours"} => target = "whole"

\* Wherever card-install was stopped, it can be run again, with the bundle it
\* was installing or with the next one: nothing it leaves behind is foreign to
\* its own preflight (card-install.py:49-86, 117-138).
Repeatable ==
  pc = "idle" /\ unit # "foreign" /\ (\A f \in ConfFiles : conf[f] # "foreign")
              /\ (\A b \in Bundles : bundle[b] # "altered")
    => Accepts(kernel)
=============================================================================
