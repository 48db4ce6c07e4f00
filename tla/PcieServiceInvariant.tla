------------------------ MODULE PcieServiceInvariant ------------------------
(***************************************************************************)
(* The inductive invariant of PcieService: what each end may rely on about *)
(* the other while neither can see it.                                     *)
(***************************************************************************)
EXTENDS PcieService

Before(i) == {ColdStart[j] : j \in 1 .. i - 1}

(* A start: while no tool interferes, what the steps so far put in place   *)
(* is still there.  An adoption repeats the DNS steps and no other.        *)
StartInv ==
  /\ ColdStartIsFresh
  /\ cpc = "cold" /\ "serial" \notin overlap => Before(at) \ Dns \subseteq card
  /\ cpc = "cold" /\ overlap = {} => Before(at) \subseteq card
  /\ cpc = "adopt" => at \in {8, 9}
  /\ cpc # "idle" /\ at = 9 /\ "dns" \notin overlap => "dnsconf" \in card

(* What is published stands on its stack.                                  *)
StackInv == "published" \in card /\ "serial" \notin overlap => Stack \subseteq card

(* The port: from its resume on it is awake, and so the bit stays clear    *)
(* for as long as functions live below it.                                 *)
Awake == {"qualify", "scan", "validate", "bind", "insmod", "network", "ssh"}
PortInv ==
  /\ "pfs" \in host => ~tag /\ power = "on"
  /\ hpc \in Awake => power = "on"

(* The card's client is gone, and cannot come back to the function that    *)
(* the host knows: that one lost its client when it was quiesced, and one  *)
(* published later has no BARs before the next scan.                       *)
Parted == ~linked /\ (enumerated => "network" \notin card)

(* The tool: until it has removed the functions no scan finds another one, *)
(* and the answer it waits for is the answer to its own command.           *)
ToolInv ==
  /\ qpc \in {"card", "ack", "host", "remove"} => "pfs" \in host
  /\ qpc = "ack" => serial # "unbind"
  /\ serial = "quiesce" => sat \in {1, 2}
  /\ qpc = "host" \/ (qpc = "ack" /\ answer = "ok") => Parted

(* The unbinding payload: what it takes away after the publication is not  *)
(* in use by a card that published again meanwhile.  Its second command    *)
(* fails on a card with a client, and after it no start finds the card     *)
(* empty before the payload has ended.                                     *)
UnbindInv ==
  /\ "ntb_transport" \in card => "ntb" \in card
  /\ serial = "unbind" /\ sat > 2 => "ntb" \in card
  /\ serial = "unbind" /\ sat > 1 /\ "serial" \notin overlap =>
       /\ cpc = "cold" => sat = 2
       /\ "published" \in card => sat = 2 /\ "ntb_netdev" \in card

(* BARs that are assigned belong to the function that is now published.    *)
BarsInv == enumerated => "published" \in card

IInv ==
  /\ TypeOK
  /\ StartInv /\ StackInv /\ RouteOwned
  /\ PortInv /\ BarsInv /\ ToolInv /\ UnbindInv /\ BackedWhileLinked
=============================================================================
