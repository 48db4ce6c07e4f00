----------------------------- MODULE PcieService ----------------------------
(***************************************************************************)
(* The PCIe management network as a service, from both ends:               *)
(*   persistent/card-runtime.py, vntb-card-dns.py   on the card,           *)
(*   persistent/host_service.py                     on the host, under a   *)
(*     unit that restarts it on exit status 75 only,                       *)
(*   vntb-quiesce.py    on the host; it commands the card over a serial    *)
(*     line (bringup/uart_run.py).                                         *)
(*                                                                         *)
(* Each end is the set of what is in place there; a step puts one more     *)
(* thing in place, or raises with or without having done so.  Nothing ties *)
(* the two ends together but the PCIe link, so the order in which one end  *)
(* is ready, is found, is told to stop and is taken down is all there is   *)
(* to keep the card from writing into memory that the host has freed.      *)
(***************************************************************************)
EXTENDS Integers, Sequences

VARIABLES
  card,        \* what is in place on the card
  cpc, at,     \* card-runtime: "idle", "cold" or "adopt", and its step
  overlap,     \* history: tools run by hand that changed the card during a start
  host,        \* what is in place on the host
  hpc, hat,    \* host_service: where it is, the next module to insert
  scanned,     \* it has scanned the bus since it was started
  tag, power,  \* the parent port: 10-bit tag requester, runtime power
  enumerated,  \* the host has assigned BARs to the function now published
  linked,      \* the card's queue is up: it may write into the host's memory
  qpc, qat,    \* vntb-quiesce: where it is, the next host module to remove
  serial, sat, \* the payload the card's shell runs, and its next command
  answer       \* the shell's status on the line

cardVars == <<card, cpc, at, overlap>>
hostVars == <<hpc, hat, scanned, tag, power>>
toolVars == <<qpc, qat, serial, sat, answer>>
vars == <<cardVars, host, hostVars, enumerated, linked, toolVars>>

-----------------------------------------------------------------------------
Modules == {"ntb", "pci_epf_vntb", "ntb_transport", "ntb_netdev"}

\* Mutant: the endpoint is published before its transport is loaded.
ColdStartEager == <<"ntb", "pci_epf_vntb", "function", "link", "published",
                    "ntb_transport", "ntb_netdev", "network", "dnsconf", "dnsroute">>

\* Mutant: the DNS route is added before the record of who owns it.
ColdStartUnrecorded == <<"ntb", "pci_epf_vntb", "function", "link", "ntb_transport",
                         "ntb_netdev", "network", "dnsroute", "dnsconf", "published">>

\* cold_start; "network" is the interface with name, MTU, address and route.
ColdStart == <<"ntb", "pci_epf_vntb", "function", "link", "ntb_transport",
               "ntb_netdev", "network", "dnsconf", "dnsroute", "published">>
Facts == {ColdStart[i] : i \in DOMAIN ColdStart}
Dns   == {"dnsconf", "dnsroute"}

\* Loading order and removal order of the host's modules.
Order     == <<"ntb", "ntb_transport", "ntb_hw_epf", "ntb_netdev">>
Teardown  == <<"ntb_netdev", "ntb_hw_epf", "ntb_transport", "ntb">>
HostMods  == {Order[i] : i \in DOMAIN Order}

\* What the commands of the two payloads take away: "network" is lost when the
\* interface is set down, "ntb_netdev" when its module is removed.
Quiescing == <<"network", "ntb_netdev">>
Unbinding == <<"published", "ntb_transport", "link", "function", "pci_epf_vntb", "ntb">>

\* What a published endpoint stands on, and what keeps another from removal.
Stack == {"ntb", "pci_epf_vntb", "function", "link", "ntb_transport"}
Pins  == Modules \cup {"function", "link"}

Needs == [f \in Facts |->
  CASE f = "pci_epf_vntb"  -> {"ntb"}
    [] f = "function"      -> {"pci_epf_vntb"}
    [] f = "link"          -> {"function"}
    [] f = "ntb_transport" -> {"ntb", "link"}
    [] f = "ntb_netdev"    -> {"ntb_transport"}
    [] f = "published"     -> {"link"}
    [] f \in {"network", "dnsconf"} -> {"ntb_netdev"}
    [] f = "dnsroute"      -> {"network"}
    [] OTHER               -> {}]

TypeOK ==
  /\ card \subseteq Facts /\ cpc \in {"idle", "cold", "adopt"} /\ at \in 1 .. Len(ColdStart)
  /\ overlap \subseteq {"dns", "serial"}
  /\ host \subseteq HostMods \cup {"pfs", "net"}
  /\ hpc \in {"off", "resume", "qualify", "scan", "validate", "bind", "insmod", "network",
              "ssh", "ready", "retry", "failed"}
  /\ hat \in DOMAIN Order /\ scanned \in BOOLEAN
  /\ tag \in BOOLEAN /\ power \in {"auto", "suspended", "on"}
  /\ enumerated \in BOOLEAN /\ linked \in BOOLEAN
  /\ qpc \in {"idle", "card", "ack", "host", "remove", "unbind", "last"}
  /\ qat \in DOMAIN Teardown
  /\ serial \in {"none", "quiesce", "unbind"} /\ sat \in DOMAIN Unbinding
  /\ answer \in {"none", "ok", "failed"}

Init ==
  /\ card = {} /\ cpc = "idle" /\ at = 1 /\ overlap = {}
  /\ host = {} /\ hpc = "off" /\ hat = 1 /\ scanned = FALSE
  /\ tag \in BOOLEAN /\ power = "auto"
  /\ enumerated = FALSE /\ linked = FALSE
  /\ qpc = "idle" /\ qat = 1 /\ serial = "none" /\ sat = 1 /\ answer = "none"

-----------------------------------------------------------------------------
(* The card: start of card-runtime.py *)

\* Mutant: what an earlier start left behind is not looked at.
FreshUnasked == "published" \notin card

\* No module, function or interface of an earlier start, nothing published.
Fresh == card \subseteq Dns

\* All of it and published: loaded_gate, function_gate, network_gate.
Live == Modules \cup {"function", "link", "network", "published"} \subseteq card

\* Anything between is refused, "coordinated recovery required".
CardStart ==
  /\ cpc = "idle"
  /\ \/ Fresh /\ cpc' = "cold" /\ at' = 1
     \/ ~Fresh /\ Live /\ cpc' = "adopt" /\ at' = 8   \* the DNS steps
  /\ UNCHANGED <<card, overlap, host, hostVars, enumerated, linked, toolVars>>

CardEnd == cpc' = "idle" /\ at' = 1

\* The DNS tool does not take over a route that it has no record of.
Doable == /\ Needs[ColdStart[at]] \subseteq card
          /\ ~(ColdStart[at] = "dnsconf" /\ card \cap Dns = {"dnsroute"})

LastStep == IF cpc = "cold" THEN 10 ELSE 9

CardStep ==
  /\ cpc # "idle"
  /\ \/ /\ Doable /\ card' = card \cup {ColdStart[at]}
        /\ IF at = LastStep THEN CardEnd ELSE at' = at + 1 /\ cpc' = cpc
     \/ /\ card' \in {card} \cup {card \cup {f} : f \in {g \in {ColdStart[at]} : Doable}}
        /\ CardEnd                              \* the step raises
  /\ UNCHANGED <<overlap, host, hostVars, enumerated, linked, toolVars>>

\* vntb-card-dns.py remove, by hand, to its end or interrupted.  It takes no
\* lock, so it may run during a start.
DnsRemove ==
  /\ "dnsconf" \in card
  /\ card' \in {card \ {"dnsroute"}, card \ Dns}
  /\ overlap' = overlap \cup (IF cpc = "idle" THEN {} ELSE {"dns"})
  /\ UNCHANGED <<cpc, at, host, hostVars, enumerated, linked, toolVars>>

\* Power loss or reboot of the card; what its shell was running is lost too.
CardReboot ==
  /\ card' = {} /\ CardEnd /\ overlap' = {}
  /\ enumerated' = FALSE /\ linked' = FALSE /\ serial' = "none" /\ sat' = 1
  /\ UNCHANGED <<host, hostVars, qpc, qat, answer>>

-----------------------------------------------------------------------------
(* The host: host_service.py *)

HostGoto(l) == hpc' = l /\ UNCHANGED hat
PortKept    == UNCHANGED <<tag, power>>
HostOnly    == UNCHANGED <<cardVars, linked, toolVars>>

Bound == {"pfs", "ntb_hw_epf"} \subseteq host

\* systemctl start, by hand or after exit status 75.
HostStart ==
  /\ hpc \in {"off", "ready", "retry", "failed"}
  /\ hpc' = "resume" /\ hat' = 1 /\ scanned' = FALSE /\ PortKept
  /\ UNCHANGED <<host, enumerated>> /\ HostOnly

\* Any other error, or the unit's start timeout: no restart.
HostFails ==
  /\ hpc \notin {"off", "ready", "retry", "failed"}
  /\ HostGoto("failed") /\ PortKept /\ UNCHANGED <<host, scanned, enumerated>> /\ HostOnly

\* A resume restores the saved control word, with the tag bit of the boot.
Resume ==
  /\ hpc = "resume" /\ HostGoto("qualify")
  /\ power' = "on" /\ tag' = (tag \/ power = "suspended")
  /\ UNCHANGED <<host, scanned, enumerated>> /\ HostOnly

\* Mutant: the control word is read at the wrong offset.
TagUnseen == TRUE

TagClear == ~tag

\* qualify_parent: clear the bit only while nothing lives below the port.
Qualify ==
  /\ hpc = "qualify" /\ HostGoto("scan") /\ UNCHANGED power
  /\ \/ TagClear /\ UNCHANGED tag
     \/ ~TagClear /\ host = {} /\ tag' = FALSE
  /\ UNCHANGED <<host, scanned, enumerated>> /\ HostOnly

\* Mutant: the deadline counts from the boot, not from the start.
ScanImpatient ==
  /\ hpc = "scan" /\ HostGoto(IF "pfs" \in host THEN "validate" ELSE "retry")
  /\ PortKept /\ UNCHANGED <<host, scanned, enumerated>> /\ HostOnly

\* Both functions are below the port.
Topology == "pfs" \in host

\* discovery_rescan; a change of the error counters ends it (HostFails).
Rescan ==
  /\ TagClear /\ scanned' = TRUE
  /\ host' = IF "published" \in card THEN host \cup {"pfs"} ELSE host
  /\ enumerated' = ("published" \in card)

\* The loop of await_pfs.  The deadline is looked at before a scan, and is
\* longer than one.
Scan ==
  /\ hpc = "scan"
  /\ \/ Topology /\ HostGoto("validate") /\ UNCHANGED <<host, scanned, enumerated>>
     \/ ~Topology /\ scanned /\ HostGoto("retry") /\ UNCHANGED <<host, scanned, enumerated>>
     \/ ~Topology /\ Rescan /\ HostGoto("scan")
  /\ PortKept /\ HostOnly

\* A function that is gone, or came back without BARs, does not validate.
Validate ==
  /\ hpc = "validate" /\ {"published", "link"} \subseteq card /\ enumerated
  /\ HostGoto("bind") /\ PortKept /\ UNCHANGED <<host, scanned, enumerated>> /\ HostOnly

\* bind: adopt all four modules, or insert them; a part of them is refused.
Bind ==
  /\ hpc = "bind"
  /\ \/ HostMods \subseteq host /\ Bound /\ "net" \in host /\ HostGoto("network")
     \/ HostMods \cap host = {} /\ HostGoto("insmod")
  /\ PortKept /\ UNCHANGED <<host, scanned, enumerated>> /\ HostOnly

\* The last insertion is followed by the gates and the new interface name.
Insmod ==
  /\ hpc = "insmod" /\ \A i \in 1 .. hat - 1 : Order[i] \in host
  /\ host' = host \cup {Order[hat]} \cup IF hat = 4 THEN {"net"} ELSE {}
  /\ \/ hat < 4 /\ hat' = hat + 1 /\ hpc' = "insmod"
     \/ hat = 4 /\ Bound /\ HostGoto("network")
     \/ HostGoto("failed")
  /\ PortKept /\ UNCHANGED <<scanned, enumerated>> /\ HostOnly

\* configure_network: idempotent, each command may fail (HostFails).
ConfigureNetwork ==
  /\ hpc = "network" /\ "net" \in host
  /\ HostGoto("ssh") /\ PortKept /\ UNCHANGED <<host, scanned, enumerated>> /\ HostOnly

\* await_ssh, notify_ready; without carrier it ends in exit status 75.
AwaitSsh ==
  /\ hpc = "ssh"
  /\ HostGoto(IF linked THEN "ready" ELSE "retry")
  /\ PortKept /\ UNCHANGED <<host, scanned, enumerated>> /\ HostOnly

\* The kernel may suspend a port that nothing lives below.
Suspend ==
  /\ power = "auto" /\ "pfs" \notin host /\ power' = "suspended"
  /\ UNCHANGED <<host, hpc, hat, scanned, tag, enumerated>> /\ HostOnly

\* The two transports find each other and their queues come up.
LinkUp ==
  /\ enumerated /\ Bound /\ HostMods \cup {"net"} \subseteq host
  /\ {"published", "ntb_transport", "ntb_netdev", "network"} \subseteq card
  /\ linked' = TRUE
  /\ UNCHANGED <<cardVars, host, hostVars, enumerated, toolVars>>

-----------------------------------------------------------------------------
(* The host: vntb-quiesce.py, by hand *)

ToolOnly == UNCHANGED <<cardVars, hostVars, linked>>

QuiesceBegin ==
  /\ qpc = "idle" /\ Bound /\ qpc' = "card" /\ qat' = 1
  /\ UNCHANGED <<serial, sat, answer, host, enumerated>> /\ ToolOnly

\* Every error of the tool, a lost or late answer included, stops it.
QuiesceStops ==
  /\ qpc # "idle" /\ qpc' = "idle" /\ answer' = "none"
  /\ UNCHANGED <<qat, serial, sat, host, enumerated>> /\ ToolOnly

\* uart_run needs the prompt of an idle shell, then types the payload.
Send ==
  /\ serial = "none" /\ sat' = 1 /\ answer' = "none"
  /\ \/ qpc = "card" /\ serial' = "quiesce" /\ qpc' = "ack"
     \/ qpc = "unbind" /\ serial' = "unbind" /\ qpc' = "last"
  /\ UNCHANGED <<qat, host, enumerated>> /\ ToolOnly

\* Mutant: a missing answer is taken for a slow card.
AcknowledgedAssumed ==
  /\ qpc = "ack" /\ qpc' = "host" /\ answer' = "none"
  /\ UNCHANGED <<qat, serial, sat, host, enumerated>> /\ ToolOnly

Acknowledged ==
  /\ qpc \in {"ack", "last"} /\ answer = "ok" /\ answer' = "none"
  /\ qpc' = IF qpc = "ack" THEN "host" ELSE "idle"
  /\ UNCHANGED <<qat, serial, sat, host, enumerated>> /\ ToolOnly

HostTeardown ==
  /\ qpc = "host" /\ Teardown[qat] \in host
  /\ host' = host \ ({Teardown[qat]} \cup IF qat = 1 THEN {"net"} ELSE {})
  /\ \/ qat < 4 /\ qat' = qat + 1 /\ UNCHANGED qpc
     \/ qat = 4 /\ qpc' = "remove" /\ UNCHANGED qat
  /\ UNCHANGED <<serial, sat, answer, enumerated>> /\ ToolOnly

\* collect refuses a function that has a driver again.
RemoveFunctions ==
  /\ qpc = "remove" /\ ~Bound /\ host' = host \ {"pfs"} /\ enumerated' = FALSE
  /\ qpc' = "unbind" /\ UNCHANGED <<qat, serial, sat, answer>> /\ ToolOnly

Payload == IF serial = "quiesce" THEN Quiescing ELSE Unbinding

\* The tests in front of the first command of each payload; a module or a
\* function in use stays.  Stopping the controller always works.
Runnable(f) ==
  CASE f = "network"   -> "ntb_netdev" \in card
    [] f = "published" -> "ntb_netdev" \notin card
    [] OTHER -> f \in card /\ (f = "link" \/ \A g \in card \cap Pins : f \notin Needs[g])

\* With an interface that is down go its routes, with its module the interface.
Lost(f) == {f} \cup (IF f \in {"network", "ntb_netdev"} THEN {"network", "dnsroute"} ELSE {})

\* The status may be lost on the line.
Said(st) == {"none"} \cup (IF qpc \in {"ack", "last"} THEN {st} ELSE {})

\* The next command, however late, works.
CommandRuns ==
  LET f == Payload[sat] IN
  /\ Runnable(f) /\ card' = card \ Lost(f)
  /\ linked' = (linked /\ serial # "quiesce")
  /\ enumerated' = (enumerated /\ f # "published")
  /\ IF sat < Len(Payload) THEN sat' = sat + 1 /\ UNCHANGED <<serial, answer>>
     ELSE sat' = 1 /\ serial' = "none" /\ answer' \in Said("ok")

\* Under set -e the first command that fails is the last.
CommandFails ==
  /\ sat' = 1 /\ serial' = "none" /\ answer' \in Said("failed")
  /\ UNCHANGED <<card, linked, enumerated>>

SerialRuns ==
  /\ serial # "none" /\ (CommandRuns \/ CommandFails)
  /\ overlap' = overlap \cup (IF cpc = "idle" \/ card' = card THEN {} ELSE {"serial"})
  /\ UNCHANGED <<cpc, at, host, hostVars, qpc, qat>>

-----------------------------------------------------------------------------
CardActions == CardStart \/ CardStep \/ DnsRemove \/ CardReboot
HostStep    == Resume \/ Qualify \/ Scan \/ Validate \/ Bind \/ Insmod
               \/ ConfigureNetwork \/ AwaitSsh
HostActions == HostStart \/ HostFails \/ HostStep \/ Suspend \/ LinkUp
ToolActions == QuiesceBegin \/ QuiesceStops \/ Send \/ Acknowledged \/ HostTeardown
               \/ RemoveFunctions \/ SerialRuns

Next == CardActions \/ HostActions \/ ToolActions

\* The service runs to its end, the unit restarts it after status 75, and the
\* transports find each other.  Nobody is obliged to start anything by hand.
Fairness == /\ WF_vars(HostStep \/ HostFails)
            /\ WF_vars(hpc = "retry" /\ HostStart) /\ WF_vars(LinkUp)

Spec == Init /\ [][Next]_vars /\ Fairness

-----------------------------------------------------------------------------
(* While the card's queue is up the host keeps the memory behind its       *)
(* window: it removes a module only after the card has said that its       *)
(* client is gone (quiesce_clients).  A late payload, a lost answer, a     *)
(* restart of either service during the teardown must not break this.      *)
BackedWhileLinked == linked => HostMods \subseteq host

(* What a host can discover is a whole endpoint: its modules, function and *)
(* transport are there as long as it is published, failed starts and half  *)
(* done unbindings included, and at the moment of publication so are the   *)
(* configured interface and DNS.  The tools ask for no lock that a start   *)
(* holds: a start beside which the serial tool changed the card is not in  *)
(* the first promise, one beside which either tool did not in the second.  *)
PublishedIsWhole ==
  [][/\ "published" \in card' /\ "serial" \notin overlap' => Stack \subseteq card'
     /\ "published" \in card' \ card /\ overlap' = {} => Facts \subseteq card']_vars

(* A cold start builds on nothing but its own steps: what a failed start   *)
(* or a half-done unbinding left behind never goes into a publication.     *)
ColdStartIsFresh ==
  cpc = "cold" => card \ Dns \subseteq {ColdStart[i] : i \in 1 .. at - 1}

(* The DNS route never outlives or precedes the record of who owns it, so  *)
(* that an interrupted apply can be repeated; except when the tool was run *)
(* by hand during a start, which nothing prevents.                         *)
RouteOwned == "dnsroute" \in card /\ "dnsconf" \notin card => "dns" \in overlap

(* No driver of the card is in use below a port whose 10-bit tag requester *)
(* is on, although a resume of the port puts the bit back.                 *)
NoTagInUse == Bound => ~tag

(* A card that serves is found: the service ends ready or says why not,    *)
(* and is not restarted for ever, unless the card stops serving.           *)
Serves  == {"published", "ntb_transport", "ntb_netdev", "network"} \subseteq card
Decided == hpc \in {"ready", "failed"}
CardIsFound == hpc \notin {"off", "ready", "failed"} /\ Serves ~> Decided \/ ~Serves
=============================================================================
