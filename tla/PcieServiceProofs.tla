-------------------------- MODULE PcieServiceProofs -------------------------
(***************************************************************************)
(* The safety of the management network, proved for every order of starts, *)
(* scans, reboots, late payloads and lost answers on both ends: the card   *)
(* never keeps its queue up over memory the host has freed, and what can   *)
(* be discovered is whole.                                                 *)
(***************************************************************************)
EXTENDS PcieServiceInvariant, TLAPS

-----------------------------------------------------------------------------
(* Steps and modules *)

LEMMA ColdSteps ==
  /\ Len(ColdStart) = 10 /\ DOMAIN ColdStart = 1 .. 10
  /\ ColdStart[1] = "ntb" /\ ColdStart[2] = "pci_epf_vntb" /\ ColdStart[3] = "function"
  /\ ColdStart[4] = "link" /\ ColdStart[5] = "ntb_transport" /\ ColdStart[6] = "ntb_netdev"
  /\ ColdStart[7] = "network" /\ ColdStart[8] = "dnsconf" /\ ColdStart[9] = "dnsroute"
  /\ ColdStart[10] = "published"
BY DEF ColdStart

LEMMA FactNames ==
  Facts = {"ntb", "pci_epf_vntb", "function", "link", "ntb_transport", "ntb_netdev",
           "network", "dnsconf", "dnsroute", "published"}
<1>1. \A i \in 1 .. 10 : i = 1 \/ i = 2 \/ i = 3 \/ i = 4 \/ i = 5 \/ i = 6 \/ i = 7
                         \/ i = 8 \/ i = 9 \/ i = 10
  OBVIOUS
<1>2. \A f \in Facts : \E i \in 1 .. 10 : f = ColdStart[i]
  BY ColdSteps DEF Facts
<1>3. \A i \in 1 .. 10 : ColdStart[i] \in Facts
  BY ColdSteps DEF Facts
<1>4. Facts \subseteq {"ntb", "pci_epf_vntb", "function", "link", "ntb_transport", "ntb_netdev",
                       "network", "dnsconf", "dnsroute", "published"}
  BY <1>1, <1>2, ColdSteps
<1>5. {"ntb", "pci_epf_vntb", "function", "link", "ntb_transport", "ntb_netdev",
       "network", "dnsconf", "dnsroute", "published"} \subseteq Facts
  BY <1>3, ColdSteps
<1> QED
  BY <1>4, <1>5

LEMMA ModuleNames ==
  /\ DOMAIN Order = 1 .. 4 /\ DOMAIN Teardown = 1 .. 4
  /\ HostMods = {"ntb", "ntb_transport", "ntb_hw_epf", "ntb_netdev"}
  /\ \A i \in 1 .. 4 : Order[i] \in HostMods /\ Teardown[i] \in HostMods
<1>1. DOMAIN Order = 1 .. 4 /\ DOMAIN Teardown = 1 .. 4
  BY DEF Order, Teardown
<1>2. /\ Order[1] = "ntb" /\ Order[2] = "ntb_transport" /\ Order[3] = "ntb_hw_epf"
      /\ Order[4] = "ntb_netdev"
  BY DEF Order
<1>3. \A i \in 1 .. 4 : i = 1 \/ i = 2 \/ i = 3 \/ i = 4
  OBVIOUS
<1>4. \A f \in HostMods : \E i \in 1 .. 4 : f = Order[i]
  BY <1>1 DEF HostMods
<1>5. \A i \in 1 .. 4 : Order[i] \in HostMods
  BY <1>1 DEF HostMods
<1>6. HostMods \subseteq {"ntb", "ntb_transport", "ntb_hw_epf", "ntb_netdev"}
  BY <1>2, <1>3, <1>4
<1>7. {"ntb", "ntb_transport", "ntb_hw_epf", "ntb_netdev"} \subseteq HostMods
  BY <1>2, <1>5
<1>8. \A i \in 1 .. 4 : Teardown[i] \in {"ntb", "ntb_transport", "ntb_hw_epf", "ntb_netdev"}
  BY <1>3 DEF Teardown
<1> QED
  BY <1>1, <1>5, <1>6, <1>7, <1>8

\* Both payloads take away their first fact before any other, and no record.
LEMMA PayloadNames ==
  /\ Len(Quiescing) = 2 /\ Quiescing[1] = "network" /\ Quiescing[2] = "ntb_netdev"
  /\ Len(Unbinding) = 6 /\ DOMAIN Unbinding = 1 .. 6
  /\ Unbinding[1] = "published" /\ Unbinding[2] = "ntb_transport" /\ Unbinding[6] = "ntb"
  /\ \A i \in 1 .. 6 : Unbinding[i] \notin Dns \cup {"network", "ntb_netdev"}
  /\ \A i \in 2 .. 6 : Unbinding[i] # "published"
  /\ \A i \in 1 .. 5 : Unbinding[i] # "ntb"
<1>1. Len(Quiescing) = 2 /\ Quiescing[1] = "network" /\ Quiescing[2] = "ntb_netdev"
  BY DEF Quiescing
<1>2. Len(Unbinding) = 6 /\ DOMAIN Unbinding = 1 .. 6
  BY DEF Unbinding
<1>3. Unbinding[1] = "published" /\ Unbinding[2] = "ntb_transport" /\ Unbinding[3] = "link"
      /\ Unbinding[4] = "function" /\ Unbinding[5] = "pci_epf_vntb" /\ Unbinding[6] = "ntb"
  BY DEF Unbinding
<1>4. \A i \in 1 .. 6 : i = 1 \/ i = 2 \/ i = 3 \/ i = 4 \/ i = 5 \/ i = 6
  OBVIOUS
<1>5. \A i \in 1 .. 6 : Unbinding[i] \notin Dns \cup {"network", "ntb_netdev"}
  BY <1>3, <1>4 DEF Dns
<1>6. \A i \in 2 .. 6 : Unbinding[i] # "published"
  <2>1. \A i \in 2 .. 6 : i = 2 \/ i = 3 \/ i = 4 \/ i = 5 \/ i = 6
    OBVIOUS
  <2> QED
    BY <1>3, <2>1
<1>7. \A i \in 1 .. 5 : Unbinding[i] # "ntb"
  <2>1. \A i \in 1 .. 5 : i = 1 \/ i = 2 \/ i = 3 \/ i = 4 \/ i = 5
    OBVIOUS
  <2> QED
    BY <1>3, <2>1
<1> QED
  BY <1>1, <1>2, <1>3, <1>5, <1>6, <1>7

\* What the steps before i put in place.
LEMMA BeforeNext ==
  ASSUME NEW i \in 1 .. 10
  PROVE  /\ Before(i + 1) = Before(i) \cup {ColdStart[i]}
         /\ \A j \in 1 .. 10 : j < i => ColdStart[j] \in Before(i)
<1>1. \A j \in 1 .. (i + 1) - 1 : j = i \/ j \in 1 .. i - 1
  OBVIOUS
<1>2. i \in 1 .. (i + 1) - 1 /\ \A j \in 1 .. i - 1 : j \in 1 .. (i + 1) - 1
  OBVIOUS
<1>3. Before(i + 1) \subseteq Before(i) \cup {ColdStart[i]}
  <2>1. ASSUME NEW x \in Before(i + 1) PROVE x \in Before(i) \cup {ColdStart[i]}
    <3>1. PICK j \in 1 .. (i + 1) - 1 : x = ColdStart[j]
      BY DEF Before
    <3> QED
      BY <1>1, <3>1 DEF Before
  <2> QED
    BY <2>1
<1>4. Before(i) \cup {ColdStart[i]} \subseteq Before(i + 1)
  <2>1. ASSUME NEW x \in Before(i) PROVE x \in Before(i + 1)
    <3>1. PICK j \in 1 .. i - 1 : x = ColdStart[j]
      BY DEF Before
    <3> QED
      BY <1>2, <3>1 DEF Before
  <2>2. ColdStart[i] \in Before(i + 1)
    BY <1>2 DEF Before
  <2> QED
    BY <2>1, <2>2
<1>5. ASSUME NEW j \in 1 .. 10, j < i PROVE ColdStart[j] \in Before(i)
  <2>1. j \in 1 .. i - 1
    BY <1>5
  <2> QED
    BY <2>1 DEF Before
<1> QED
  BY <1>3, <1>4, <1>5

\* The first step follows nothing, and publication is never before a step.
LEMMA BeforePublication ==
  /\ Before(1) = {}
  /\ \A i \in 1 .. 10 : "published" \notin Before(i)
<1>1. Before(1) = {}
  BY DEF Before
<1>2. ASSUME NEW i \in 1 .. 10, "published" \in Before(i) PROVE FALSE
  <2>1. PICK j \in 1 .. i - 1 : ColdStart[j] = "published"
    BY <1>2 DEF Before
  <2>2. j = 1 \/ j = 2 \/ j = 3 \/ j = 4 \/ j = 5 \/ j = 6 \/ j = 7 \/ j = 8 \/ j = 9
    OBVIOUS
  <2> QED
    BY <2>1, <2>2, ColdSteps
<1> QED
  BY <1>1, <1>2

LEMMA FreshBefore ==
  ASSUME ColdStartIsFresh, cpc = "cold"
  PROVE  card \subseteq Before(at) \cup Dns
BY DEF ColdStartIsFresh, Before

\* A start that is still under way has published nothing.
LEMMA ColdUnpublished ==
  ASSUME TypeOK, ColdStartIsFresh, cpc = "cold"
  PROVE  "published" \notin card
<1>1. at \in 1 .. 10
  BY ColdSteps DEF TypeOK
<1>2. "published" \notin Before(at)
  BY <1>1, BeforePublication
<1> QED
  BY <1>2, FreshBefore DEF Dns

-----------------------------------------------------------------------------
(* The card's own invariants, and the frames *)

CardInv == StartInv /\ StackInv /\ RouteOwned

LEMMA CardStays ==
  ASSUME CardInv, UNCHANGED cardVars
  PROVE  CardInv'
BY DEF CardInv, cardVars, StartInv, ColdStartIsFresh, StackInv, RouteOwned, Before

LEMMA UnbindStays ==
  ASSUME UnbindInv, UNCHANGED cardVars, sat' = 1 \/ UNCHANGED <<serial, sat>>
  PROVE  UnbindInv'
<1>1. UNCHANGED <<card, cpc, overlap>>
  BY DEF cardVars
<1> QED
  BY <1>1 DEF UnbindInv

LEMMA PortStays ==
  ASSUME PortInv, UNCHANGED <<hpc, tag, power>>, "pfs" \in host' => "pfs" \in host
  PROVE  PortInv'
BY DEF PortInv

LEMMA TypeStays ==
  ASSUME TypeOK, UNCHANGED cardVars, UNCHANGED linked, UNCHANGED toolVars,
         host' \subseteq HostMods \cup {"pfs", "net"}, enumerated' \in BOOLEAN,
         hpc' \in {"off", "resume", "qualify", "scan", "validate", "bind", "insmod", "network",
                   "ssh", "ready", "retry", "failed"},
         hat' \in DOMAIN Order, scanned' \in BOOLEAN, tag' \in BOOLEAN,
         power' \in {"auto", "suspended", "on"}
  PROVE  TypeOK'
BY DEF TypeOK, cardVars, toolVars

LEMMA ToolStays ==
  ASSUME ToolInv, UNCHANGED toolVars, UNCHANGED <<card, linked>>,
         enumerated' => enumerated, "pfs" \in host => "pfs" \in host'
  PROVE  ToolInv'
BY DEF ToolInv, Parted, toolVars

-----------------------------------------------------------------------------
(* The card *)

LEMMA InitInv == Init => IInv
<1> SUFFICES ASSUME Init PROVE IInv
  OBVIOUS
<1>1. TypeOK
  <2>1. at \in 1 .. Len(ColdStart) /\ hat \in DOMAIN Order /\ qat \in DOMAIN Teardown
        /\ sat \in DOMAIN Unbinding
    BY ColdSteps, ModuleNames, PayloadNames DEF Init
  <2> QED
    BY <2>1 DEF Init, TypeOK
<1>2. StartInv /\ StackInv /\ RouteOwned
  BY DEF Init, StartInv, ColdStartIsFresh, StackInv, RouteOwned
<1>3. PortInv /\ BarsInv /\ ToolInv /\ UnbindInv /\ BackedWhileLinked
  BY DEF Init, PortInv, Awake, BarsInv, ToolInv, UnbindInv, BackedWhileLinked
<1> QED
  BY <1>1, <1>2, <1>3 DEF IInv

\* The other parts of the invariant see of the card that it publishes, that
\* it has an interface, and nothing else.
LEMMA CardSeen ==
  ASSUME IInv, TypeOK', CardInv', UnbindInv',
         UNCHANGED <<host, hostVars, enumerated, linked, toolVars>>,
         enumerated => ("published" \in card' /\ ("network" \in card' => "network" \in card))
  PROVE  IInv'
<1>1. PortInv' /\ BarsInv' /\ BackedWhileLinked'
  BY DEF IInv, PortInv, BarsInv, BackedWhileLinked, hostVars
<1>2. ToolInv'
  BY DEF IInv, ToolInv, Parted, toolVars
<1> QED
  BY <1>1, <1>2 DEF IInv, CardInv

LEMMA CardStartInv == IInv /\ CardStart => IInv'
<1> SUFFICES ASSUME IInv, CardStart PROVE IInv'
  OBVIOUS
<1>1. UNCHANGED <<card, overlap, host, hostVars, enumerated, linked, toolVars>>
  BY DEF CardStart
<1>2. \/ Fresh /\ cpc' = "cold" /\ at' = 1
      \/ cpc' = "adopt" /\ at' = 8
  BY DEF CardStart
<1>3. TypeOK'
  BY <1>1, <1>2, ColdSteps DEF IInv, TypeOK, hostVars, toolVars
<1>4. CardInv'
  <2>1. StackInv' /\ RouteOwned'
    BY <1>1 DEF IInv, StackInv, RouteOwned
  <2>2. StartInv'
    BY <1>1, <1>2, BeforePublication DEF StartInv, ColdStartIsFresh, Fresh, Before
  <2> QED
    BY <2>1, <2>2 DEF CardInv
<1>5. UnbindInv'
  <2>1. Fresh => "ntb" \notin card
    BY DEF Fresh, Dns
  <2>2. sat \in 1 .. 6
    BY PayloadNames DEF IInv, TypeOK
  <2>3. UNCHANGED <<card, overlap, serial, sat>>
    BY <1>1 DEF toolVars
  <2>4. serial = "unbind" /\ sat > 1 /\ Fresh => sat = 2
    BY <2>1, <2>2 DEF IInv, UnbindInv
  <2> QED
    BY <1>2, <2>3, <2>4 DEF IInv, UnbindInv
<1> QED
  BY <1>1, <1>3, <1>4, <1>5, CardSeen DEF IInv, BarsInv

\* A step of a cold start either raises or goes on.
LEMMA ColdStep ==
  ASSUME IInv, CardStep, cpc = "cold"
  PROVE  CardInv'
<1>0. cpc # "idle"
  OBVIOUS
<1>1. at \in 1 .. 10 /\ card \subseteq Facts
  BY ColdSteps DEF IInv, TypeOK
<1>2. UNCHANGED overlap /\ card' \in {card, card \cup {ColdStart[at]}}
  BY DEF CardStep
<1>3. card \subseteq Before(at) \cup Dns /\ "published" \notin card
  BY FreshBefore, ColdUnpublished DEF IInv, StartInv
<1>4. /\ "serial" \notin overlap => Before(at) \ Dns \subseteq card
      /\ overlap = {} => Before(at) \subseteq card
  BY <1>0 DEF IInv, StartInv
<1>5. StackInv'
  <2> SUFFICES ASSUME "published" \in card', "serial" \notin overlap PROVE Stack \subseteq card'
    BY <1>2 DEF StackInv
  <2>1. ColdStart[at] = "published"
    BY <1>2, <1>3
  <2>2. at = 10
    BY <1>1, <2>1, ColdSteps
  <2>3. \A j \in 1 .. 10 : j < 10 => ColdStart[j] \in Before(at)
    BY <1>1, <2>2, BeforeNext
  <2>4. Stack \subseteq Before(at) \ Dns
    BY <2>3, ColdSteps DEF Stack, Dns
  <2> QED
    BY <1>2, <1>4, <2>4
<1>6. RouteOwned'
  <2> SUFFICES ASSUME "dnsroute" \in card', "dnsconf" \notin card', "dns" \notin overlap PROVE FALSE
    BY <1>2 DEF RouteOwned
  <2>1. "dnsconf" \notin card /\ "dnsroute" \notin card
    BY <1>2 DEF IInv, RouteOwned
  <2>2. at = 9
    BY <1>1, <1>2, <2>1, ColdSteps
  <2> QED
    BY <1>0, <2>1, <2>2 DEF IInv, StartInv
<1>7. StartInv'
  <2>1. CASE cpc' = "idle"
    BY <2>1 DEF StartInv, ColdStartIsFresh
  <2>2. CASE cpc' # "idle"
    <3>1. card' = card \cup {ColdStart[at]} /\ at # 10 /\ at' = at + 1 /\ cpc' = "cold"
      BY <2>2 DEF CardStep, CardEnd, LastStep
    <3>2. Before(at') = Before(at) \cup {ColdStart[at]}
      BY <1>1, <3>1, BeforeNext
    <3>3. ColdStartIsFresh'
      BY <1>3, <3>1, <3>2 DEF ColdStartIsFresh, Before
    <3>4. at' = 9 => "dnsconf" \in card'
      BY <1>1, <3>1, ColdSteps
    <3>5. /\ "serial" \notin overlap => Before(at') \ Dns \subseteq card'
          /\ overlap = {} => Before(at') \subseteq card'
      BY <1>4, <3>1, <3>2
    <3> QED
      BY <1>2, <3>1, <3>3, <3>4, <3>5 DEF StartInv, Before
  <2> QED
    BY <2>1, <2>2
<1> QED
  BY <1>5, <1>6, <1>7 DEF CardInv

\* An adoption is the two DNS steps.
LEMMA AdoptStep ==
  ASSUME IInv, CardStep, cpc = "adopt"
  PROVE  CardInv' /\ card \subseteq card' /\ card' \subseteq card \cup Dns
<1>1. at \in {8, 9}
  BY DEF IInv, StartInv
<1>2. ColdStart[at] \in Dns /\ (at = 8 => ColdStart[at] = "dnsconf")
  BY <1>1, ColdSteps DEF Dns
<1>3. UNCHANGED overlap /\ card' \in {card, card \cup {ColdStart[at]}}
  BY DEF CardStep
<1>4. card \subseteq card' /\ card' \subseteq card \cup Dns
  BY <1>2, <1>3
<1>5. StackInv'
  BY <1>3, <1>4 DEF IInv, StackInv, Dns
<1>6. RouteOwned'
  <2> SUFFICES ASSUME "dnsroute" \in card', "dnsconf" \notin card', "dns" \notin overlap PROVE FALSE
    BY <1>3 DEF RouteOwned
  <2>1. "dnsconf" \notin card /\ "dnsroute" \notin card
    BY <1>3 DEF IInv, RouteOwned
  <2>2. at = 9
    BY <1>1, <1>2, <1>3, <2>1
  <2> QED
    BY <2>1, <2>2 DEF IInv, StartInv
<1>7. StartInv'
  <2>1. CASE cpc' = "idle"
    BY <2>1 DEF StartInv, ColdStartIsFresh
  <2>2. CASE cpc' # "idle"
    <3>1. card' = card \cup {ColdStart[at]} /\ at # 9 /\ at' = at + 1 /\ cpc' = "adopt"
      BY <2>2 DEF CardStep, CardEnd, LastStep
    <3>2. at = 8 /\ at' = 9
      BY <1>1, <3>1
    <3>3. "dnsconf" \in card'
      BY <1>2, <3>1, <3>2
    <3> QED
      BY <3>1, <3>2, <3>3 DEF StartInv, ColdStartIsFresh
  <2> QED
    BY <2>1, <2>2
<1> QED
  BY <1>4, <1>5, <1>6, <1>7 DEF CardInv

\* A cold start beside an unbinding that goes on: it publishes a client.
LEMMA ColdUnbinding ==
  ASSUME IInv, CardStep, cpc = "cold"
  PROVE  UnbindInv'
<1>1. at \in 1 .. 10 /\ sat \in 1 .. 6
  BY ColdSteps, PayloadNames DEF IInv, TypeOK
<1>2. /\ UNCHANGED <<overlap, serial, sat>>
      /\ card' \in {card, card \cup {ColdStart[at]}}
      /\ card' # card => Doable
  BY DEF CardStep, toolVars
<1>3. "ntb_transport" \in card' => "ntb" \in card'
  <2>1. CASE "ntb_transport" \in card
    BY <1>2, <2>1 DEF IInv, UnbindInv
  <2>2. CASE "ntb_transport" \notin card /\ "ntb_transport" \in card'
    <3>1. ColdStart[at] = "ntb_transport" /\ Needs["ntb_transport"] \subseteq card
      BY <1>2, <2>2 DEF Doable
    <3>2. Needs["ntb_transport"] = {"ntb", "link"}
      BY FactNames DEF Needs
    <3> QED
      BY <1>2, <3>1, <3>2
  <2> QED
    BY <2>1, <2>2
<1>4. "published" \notin card
  BY ColdUnpublished DEF IInv, StartInv
<1>5. ASSUME serial = "unbind", sat > 1, "serial" \notin overlap, "published" \in card'
      PROVE  "ntb_netdev" \in card'
  <2>1. ColdStart[at] = "published"
    BY <1>2, <1>4, <1>5
  <2>2. at = 10
    BY <1>1, <2>1, ColdSteps
  <2>3. "ntb_netdev" \in Before(at) \ Dns
    BY <1>1, <2>2, BeforeNext, ColdSteps DEF Dns
  <2> QED
    BY <1>2, <1>5, <2>3 DEF IInv, StartInv
<1> QED
  BY <1>2, <1>3, <1>5 DEF IInv, UnbindInv

LEMMA CardStepInv == IInv /\ CardStep => IInv'
<1> SUFFICES ASSUME IInv, CardStep PROVE IInv'
  OBVIOUS
<1>1. UNCHANGED <<overlap, host, hostVars, enumerated, linked, toolVars>>
  BY DEF CardStep
<1>2. at \in 1 .. 10 /\ card \subseteq Facts /\ cpc \in {"cold", "adopt"}
  BY ColdSteps DEF IInv, TypeOK, CardStep
<1>3. card' \in {card, card \cup {ColdStart[at]}}
  BY DEF CardStep
<1>4. TypeOK'
  <2>1. card' \subseteq Facts
    BY <1>2, <1>3, ColdSteps DEF Facts
  <2>2. cpc = "cold" => LastStep = 10
    BY DEF LastStep
  <2>3. cpc = "adopt" => at \in {8, 9}
    BY DEF IInv, StartInv
  <2>4. cpc' \in {"idle", "cold", "adopt"} /\ at' \in 1 .. 10
    BY <1>2, <2>2, <2>3 DEF CardStep, CardEnd
  <2> QED
    BY <1>1, <2>1, <2>4, ColdSteps DEF IInv, TypeOK, hostVars, toolVars
<1>5. CASE cpc = "cold"
  <2>1. ~enumerated
    BY <1>5, ColdUnpublished DEF IInv, StartInv, BarsInv
  <2>2. UnbindInv'
    BY <1>5, ColdUnbinding
  <2> QED
    BY <1>1, <1>4, <1>5, <2>1, <2>2, ColdStep, CardSeen
<1>6. CASE cpc = "adopt"
  <2>1. CardInv' /\ card \subseteq card' /\ card' \subseteq card \cup Dns
    BY <1>6, AdoptStep
  <2>2. enumerated => "published" \in card'
    BY <2>1 DEF IInv, BarsInv
  <2>3. "network" \in card' => "network" \in card
    BY <2>1 DEF Dns
  <2>4. UnbindInv'
    <3>1. cpc' # "cold" /\ UNCHANGED <<serial, sat>>
      BY <1>1, <1>6 DEF CardStep, CardEnd, toolVars
    <3>2. /\ "ntb" \in card => "ntb" \in card'
          /\ "ntb_netdev" \in card => "ntb_netdev" \in card'
          /\ "ntb_transport" \in card' => "ntb_transport" \in card
          /\ "published" \in card' => "published" \in card
      BY <2>1 DEF Dns
    <3> QED
      BY <1>1, <3>1, <3>2 DEF IInv, UnbindInv
  <2> QED
    BY <1>1, <1>4, <2>1, <2>2, <2>3, <2>4, CardSeen
<1> QED
  BY <1>2, <1>5, <1>6

LEMMA DnsRemoveInv == IInv /\ DnsRemove => IInv'
<1> SUFFICES ASSUME IInv, DnsRemove PROVE IInv'
  OBVIOUS
<1>1. /\ UNCHANGED <<cpc, at, host, hostVars, enumerated, linked, toolVars>>
      /\ "dnsconf" \in card /\ overlap' = overlap \cup (IF cpc = "idle" THEN {} ELSE {"dns"})
      /\ card' = card \ {"dnsroute"} \/ card' = card \ Dns
  BY DEF DnsRemove
<1>2. TypeOK'
  BY <1>1 DEF IInv, TypeOK, hostVars, toolVars
<1>3. StackInv'
  BY <1>1 DEF IInv, StackInv, Stack, Dns
<1>4. RouteOwned'
  BY <1>1 DEF RouteOwned, Dns
<1>5. StartInv'
  <2>1. ColdStartIsFresh'
    BY <1>1 DEF IInv, StartInv, ColdStartIsFresh
  <2>2. cpc = "idle" \/ "dns" \in overlap'
    BY <1>1
  <2>3. "serial" \in overlap' <=> "serial" \in overlap
    BY <1>1
  <2>4. card \ Dns \subseteq card'
    BY <1>1 DEF Dns
  <2> QED
    BY <1>1, <2>1, <2>2, <2>3, <2>4 DEF IInv, StartInv, Before
<1>6. "published" \in card => "published" \in card'
  BY <1>1 DEF Dns
<1>7. UnbindInv'
  <2>1. /\ "ntb" \in card => "ntb" \in card'
        /\ "ntb_netdev" \in card => "ntb_netdev" \in card'
        /\ card' \subseteq card
        /\ "serial" \in overlap' <=> "serial" \in overlap
    BY <1>1 DEF Dns
  <2> QED
    BY <1>1, <2>1 DEF IInv, UnbindInv, toolVars
<1> QED
  BY <1>1, <1>2, <1>3, <1>4, <1>5, <1>6, <1>7, CardSeen DEF IInv, CardInv, BarsInv

LEMMA CardRebootInv == IInv /\ CardReboot => IInv'
<1> SUFFICES ASSUME IInv, CardReboot PROVE IInv'
  OBVIOUS
<1>1. TypeOK'
  <2>1. at' \in 1 .. Len(ColdStart) /\ sat' \in DOMAIN Unbinding
    BY ColdSteps, PayloadNames DEF CardReboot, CardEnd
  <2> QED
    BY <2>1 DEF IInv, TypeOK, CardReboot, CardEnd, hostVars
<1>2. CardInv'
  BY DEF CardReboot, CardEnd, CardInv, StartInv, ColdStartIsFresh, StackInv, RouteOwned
<1>3. PortInv' /\ BarsInv' /\ BackedWhileLinked'
  BY DEF IInv, CardReboot, PortInv, BarsInv, BackedWhileLinked, hostVars
<1>4. ToolInv'
  BY DEF IInv, CardReboot, ToolInv, Parted
<1>5. UnbindInv'
  BY DEF CardReboot, UnbindInv
<1> QED
  BY <1>1, <1>2, <1>3, <1>4, <1>5 DEF IInv, CardInv

-----------------------------------------------------------------------------
(* The host *)

\* A step of the host that adds to what it has, and moves no BARs.
LEMMA HostSeen ==
  ASSUME IInv, HostOnly, TypeOK', PortInv', UNCHANGED enumerated, host \subseteq host'
  PROVE  IInv'
<1>1. UNCHANGED cardVars /\ UNCHANGED linked /\ UNCHANGED toolVars /\ UNCHANGED card
  BY DEF HostOnly, cardVars
<1>2. CardInv'
  BY <1>1, CardStays DEF IInv, CardInv
<1>3. ToolInv'
  BY <1>1, ToolStays DEF IInv
<1>4. BarsInv' /\ BackedWhileLinked'
  BY <1>1 DEF IInv, BarsInv, BackedWhileLinked
<1>5. UnbindInv'
  BY <1>1, UnbindStays DEF IInv, toolVars
<1> QED
  BY <1>2, <1>3, <1>4, <1>5 DEF IInv, CardInv

\* A step that only goes on: the port stays as it is, and is awake if it was.
LEMMA HostGoesOn ==
  ASSUME IInv, HostOnly, PortKept, UNCHANGED <<host, scanned, enumerated>>,
         NEW l \in {"off", "resume", "scan", "validate", "bind", "insmod", "network",
                    "ssh", "ready", "retry", "failed"}, hpc' = l, hat' \in {hat, 1},
         l \in Awake => hpc \in Awake
  PROVE  IInv'
<1>1. TypeOK'
  BY TypeStays, ModuleNames DEF IInv, TypeOK, HostOnly, PortKept
<1>2. PortInv'
  BY DEF IInv, PortInv, PortKept
<1> QED
  BY <1>1, <1>2, HostSeen

LEMMA HostStartInv == IInv /\ HostStart => IInv'
<1> SUFFICES ASSUME IInv, HostStart PROVE IInv'
  OBVIOUS
<1>1. TypeOK'
  <2>1. hat' \in DOMAIN Order
    BY ModuleNames DEF HostStart
  <2> QED
    BY <2>1, TypeStays DEF IInv, TypeOK, HostStart, HostOnly, PortKept
<1>2. PortInv'
  BY DEF IInv, HostStart, PortInv, PortKept, Awake
<1> QED
  BY <1>1, <1>2, HostSeen DEF HostStart

LEMMA HostFailsInv == IInv /\ HostFails => IInv'
BY HostGoesOn DEF HostFails, HostGoto, Awake

LEMMA ResumeInv == IInv /\ Resume => IInv'
<1> SUFFICES ASSUME IInv, Resume PROVE IInv'
  OBVIOUS
<1>1. TypeOK'
  BY TypeStays DEF IInv, TypeOK, Resume, HostGoto, HostOnly
<1>2. PortInv'
  BY DEF IInv, PortInv, Resume
<1> QED
  BY <1>1, <1>2, HostSeen DEF Resume

LEMMA QualifyInv == IInv /\ Qualify => IInv'
<1> SUFFICES ASSUME IInv, Qualify PROVE IInv'
  OBVIOUS
<1>1. TypeOK'
  BY TypeStays DEF IInv, TypeOK, Qualify, HostGoto, HostOnly
<1>2. PortInv'
  BY DEF IInv, PortInv, Qualify, HostGoto, Awake
<1> QED
  BY <1>1, <1>2, HostSeen DEF Qualify

\* The one step in which BARs move: no function was known before it, so no
\* tool is between its first look and the removal of the functions.
LEMMA ScanInv == IInv /\ Scan => IInv'
<1> SUFFICES ASSUME IInv, Scan PROVE IInv'
  OBVIOUS
<1>1. HostOnly /\ PortKept /\ hpc = "scan"
  BY DEF Scan
<1>2. CASE HostGoto("validate") /\ UNCHANGED <<host, scanned, enumerated>>
  BY <1>1, <1>2, HostGoesOn DEF HostGoto, Awake
<1>3. CASE HostGoto("retry") /\ UNCHANGED <<host, scanned, enumerated>>
  BY <1>1, <1>3, HostGoesOn DEF HostGoto, Awake
<1>4. CASE ~Topology /\ Rescan /\ HostGoto("scan")
  <2>1. UNCHANGED cardVars /\ UNCHANGED linked /\ UNCHANGED toolVars /\ UNCHANGED card
        /\ UNCHANGED <<tag, power>>
    BY <1>1 DEF HostOnly, cardVars, PortKept
  <2>2. /\ "pfs" \notin host /\ ~tag /\ scanned' = TRUE /\ enumerated' = ("published" \in card)
        /\ host' = host \/ host' = host \cup {"pfs"}
    BY <1>4 DEF Topology, Rescan, TagClear
  <2>3. TypeOK'
    <3>1. host' \subseteq HostMods \cup {"pfs", "net"} /\ enumerated' \in BOOLEAN
      BY <2>2 DEF IInv, TypeOK
    <3> QED
      BY <1>1, <1>4, <2>1, <2>2, <3>1, TypeStays DEF IInv, TypeOK, HostGoto
  <2>4. PortInv'
    BY <1>1, <1>4, <2>1, <2>2 DEF IInv, PortInv, Awake, HostGoto
  <2>5. ToolInv'
    BY <2>1, <2>2 DEF IInv, ToolInv, toolVars
  <2>6. BarsInv' /\ BackedWhileLinked'
    BY <2>1, <2>2 DEF IInv, BarsInv, BackedWhileLinked
  <2>7. UnbindInv'
    BY <2>1, UnbindStays DEF IInv, toolVars
  <2> QED
    BY <2>1, <2>3, <2>4, <2>5, <2>6, <2>7, CardStays DEF IInv, CardInv
<1> QED
  BY <1>2, <1>3, <1>4 DEF Scan

LEMMA InsmodInv == IInv /\ Insmod => IInv'
<1> SUFFICES ASSUME IInv, Insmod PROVE IInv'
  OBVIOUS
<1>1. HostOnly /\ PortKept /\ hpc = "insmod" /\ UNCHANGED <<scanned, enumerated>>
  BY DEF Insmod
<1>2. hat \in 1 .. 4 /\ Order[hat] \in HostMods
  BY ModuleNames DEF IInv, TypeOK
<1>3. host \subseteq host' /\ host' \subseteq host \cup HostMods \cup {"net"}
  BY <1>2 DEF Insmod
<1>4. hat' \in 1 .. 4 /\ hpc' \in {"insmod", "network", "failed"}
  BY <1>2 DEF Insmod, HostGoto
<1>5. "pfs" \in host' => "pfs" \in host
  BY <1>3, ModuleNames
<1>6. TypeOK'
  <2>1. host' \subseteq HostMods \cup {"pfs", "net"}
    BY <1>3 DEF IInv, TypeOK
  <2> QED
    BY <1>1, <1>4, <2>1, TypeStays, ModuleNames DEF IInv, TypeOK, HostOnly, PortKept
<1>7. PortInv'
  BY <1>1, <1>4, <1>5 DEF IInv, PortInv, Awake, PortKept
<1> QED
  BY <1>1, <1>3, <1>6, <1>7, HostSeen

LEMMA HostStepInv == IInv /\ HostStep => IInv'
<1>1. IInv /\ Validate => IInv'
  BY HostGoesOn DEF Validate, HostGoto, Awake
<1>2. IInv /\ Bind => IInv'
  BY HostGoesOn DEF Bind, HostGoto, Awake
<1>3. IInv /\ ConfigureNetwork => IInv'
  BY HostGoesOn DEF ConfigureNetwork, HostGoto, Awake
<1>4. IInv /\ AwaitSsh => IInv'
  BY HostGoesOn DEF AwaitSsh, HostGoto, Awake
<1> QED
  BY <1>1, <1>2, <1>3, <1>4, ResumeInv, QualifyInv, ScanInv, InsmodInv DEF HostStep

LEMMA SuspendInv == IInv /\ Suspend => IInv'
<1> SUFFICES ASSUME IInv, Suspend PROVE IInv'
  OBVIOUS
<1>1. TypeOK'
  BY TypeStays DEF IInv, TypeOK, Suspend, HostOnly
<1>2. PortInv'
  BY DEF IInv, PortInv, Suspend
<1> QED
  BY <1>1, <1>2, HostSeen DEF Suspend

\* The queues come up: with every module there, and at no time at which the
\* tool takes the card's client for gone.
LEMMA LinkUpInv == IInv /\ LinkUp => IInv'
<1> SUFFICES ASSUME IInv, LinkUp PROVE IInv'
  OBVIOUS
<1>1. /\ enumerated /\ "network" \in card /\ HostMods \subseteq host /\ linked' = TRUE
      /\ UNCHANGED <<cardVars, host, hostVars, enumerated, toolVars>>
  BY DEF LinkUp
<1>2. UNCHANGED cardVars /\ UNCHANGED card
  BY <1>1 DEF cardVars
<1>3. TypeOK'
  BY <1>1 DEF IInv, TypeOK, cardVars, hostVars, toolVars
<1>4. ToolInv'
  <2>1. ~(qpc = "host" \/ (qpc = "ack" /\ answer = "ok"))
    BY <1>1 DEF IInv, ToolInv, Parted
  <2> QED
    BY <1>1, <2>1 DEF IInv, ToolInv, toolVars
<1>5. PortInv' /\ BarsInv' /\ BackedWhileLinked'
  BY <1>1, <1>2 DEF IInv, PortInv, BarsInv, BackedWhileLinked, hostVars
<1>6. UnbindInv'
  BY <1>1, <1>2, UnbindStays DEF IInv, toolVars
<1> QED
  BY <1>2, <1>3, <1>4, <1>5, <1>6, CardStays DEF IInv, CardInv

-----------------------------------------------------------------------------
(* The tool *)

\* A step of the tool that leaves both ends alone.
LEMMA ToolSeen ==
  ASSUME IInv, ToolOnly, TypeOK', ToolInv', UNCHANGED <<host, enumerated>>,
         sat' = 1 \/ UNCHANGED <<serial, sat>>
  PROVE  IInv'
<1>1. UNCHANGED cardVars /\ UNCHANGED card /\ UNCHANGED hostVars /\ UNCHANGED linked
  BY DEF ToolOnly, cardVars
<1>2. PortInv' /\ BarsInv' /\ BackedWhileLinked'
  BY <1>1 DEF IInv, PortInv, BarsInv, BackedWhileLinked, hostVars
<1>3. UnbindInv'
  BY <1>1, UnbindStays DEF IInv
<1> QED
  BY <1>1, <1>2, <1>3, CardStays DEF IInv, CardInv

LEMMA ToolTypes ==
  ASSUME TypeOK, ToolOnly, host' \subseteq HostMods \cup {"pfs", "net"}, enumerated' \in BOOLEAN,
         qpc' \in {"idle", "card", "ack", "host", "remove", "unbind", "last"}, qat' \in DOMAIN Teardown,
         serial' \in {"none", "quiesce", "unbind"}, sat' \in DOMAIN Unbinding,
         answer' \in {"none", "ok", "failed"}
  PROVE  TypeOK'
BY DEF TypeOK, ToolOnly, cardVars, hostVars

LEMMA TalkInv == IInv /\ (QuiesceBegin \/ QuiesceStops \/ Send \/ Acknowledged) => IInv'
<1>1. IInv /\ QuiesceBegin => IInv'
  <2> SUFFICES ASSUME IInv, QuiesceBegin PROVE IInv'
    OBVIOUS
  <2>1. TypeOK'
    BY ToolTypes, ModuleNames DEF IInv, TypeOK, QuiesceBegin
  <2>2. ToolInv'
    BY DEF IInv, ToolInv, QuiesceBegin, Bound
  <2> QED
    BY <2>1, <2>2, ToolSeen DEF QuiesceBegin
<1>2. IInv /\ QuiesceStops => IInv'
  <2> SUFFICES ASSUME IInv, QuiesceStops PROVE IInv'
    OBVIOUS
  <2>1. TypeOK'
    BY ToolTypes DEF IInv, TypeOK, QuiesceStops
  <2>2. ToolInv'
    BY DEF IInv, ToolInv, QuiesceStops
  <2> QED
    BY <2>1, <2>2, ToolSeen DEF QuiesceStops
<1>3. IInv /\ Send => IInv'
  <2> SUFFICES ASSUME IInv, Send PROVE IInv'
    OBVIOUS
  <2>1. TypeOK'
    BY ToolTypes, PayloadNames DEF IInv, TypeOK, Send
  <2>2. ToolInv'
    BY DEF IInv, ToolInv, Send
  <2> QED
    BY <2>1, <2>2, ToolSeen DEF Send
<1>4. IInv /\ Acknowledged => IInv'
  <2> SUFFICES ASSUME IInv, Acknowledged PROVE IInv'
    OBVIOUS
  <2>1. TypeOK'
    BY ToolTypes DEF IInv, TypeOK, Acknowledged
  <2>2. ToolInv'
    BY DEF IInv, ToolInv, Acknowledged, Parted, ToolOnly, cardVars
  <2> QED
    BY <2>1, <2>2, ToolSeen DEF Acknowledged
<1> QED
  BY <1>1, <1>2, <1>3, <1>4

\* The host takes down its modules only once it is parted from the card.
LEMMA HostTeardownInv == IInv /\ HostTeardown => IInv'
<1> SUFFICES ASSUME IInv, HostTeardown PROVE IInv'
  OBVIOUS
<1>1. /\ qpc = "host" /\ UNCHANGED <<serial, sat, answer, enumerated>> /\ ToolOnly
      /\ qpc' \in {"host", "remove"}
      /\ host' \subseteq host
  BY DEF HostTeardown
<1>2. UNCHANGED cardVars /\ UNCHANGED card /\ UNCHANGED hostVars /\ UNCHANGED linked
  BY <1>1 DEF ToolOnly, cardVars
<1>3. qat \in 1 .. 4 /\ Teardown[qat] \in HostMods
  BY ModuleNames DEF IInv, TypeOK
<1>4. "pfs" \in host /\ Parted
  BY <1>1 DEF IInv, ToolInv
<1>5. "pfs" \in host'
  BY <1>3, <1>4, ModuleNames DEF HostTeardown
<1>6. TypeOK'
  <2>1. qat' \in 1 .. 4 /\ host' \subseteq HostMods \cup {"pfs", "net"}
    BY <1>1, <1>3 DEF HostTeardown, IInv, TypeOK
  <2> QED
    BY <1>1, <2>1, ToolTypes, ModuleNames DEF IInv, TypeOK
<1>7. ToolInv'
  BY <1>1, <1>2, <1>4, <1>5 DEF IInv, ToolInv, Parted
<1>8. PortInv' /\ BarsInv' /\ BackedWhileLinked'
  BY <1>1, <1>2, <1>4 DEF IInv, PortInv, BarsInv, BackedWhileLinked, hostVars, Parted
<1>9. UnbindInv'
  BY <1>1, <1>2, UnbindStays DEF IInv
<1> QED
  BY <1>2, <1>6, <1>7, <1>8, <1>9, CardStays DEF IInv, CardInv

LEMMA RemoveFunctionsInv == IInv /\ RemoveFunctions => IInv'
<1> SUFFICES ASSUME IInv, RemoveFunctions PROVE IInv'
  OBVIOUS
<1>1. /\ qpc' = "unbind" /\ UNCHANGED <<qat, serial, sat, answer>> /\ ToolOnly
      /\ host' = host \ {"pfs"} /\ enumerated' = FALSE
  BY DEF RemoveFunctions
<1>2. UNCHANGED cardVars /\ UNCHANGED card /\ UNCHANGED hostVars /\ UNCHANGED linked
  BY <1>1 DEF ToolOnly, cardVars
<1>3. TypeOK'
  BY <1>1, ToolTypes DEF IInv, TypeOK
<1>4. ToolInv'
  BY <1>1 DEF IInv, ToolInv
<1>5. PortInv' /\ BarsInv'
  BY <1>1, <1>2 DEF IInv, PortInv, BarsInv, hostVars
<1>6. BackedWhileLinked'
  BY <1>1, <1>2, ModuleNames DEF IInv, BackedWhileLinked
<1>7. UnbindInv'
  BY <1>1, <1>2, UnbindStays DEF IInv
<1> QED
  BY <1>2, <1>3, <1>4, <1>5, <1>6, <1>7, CardStays DEF IInv, CardInv

\* What a command may do to the card: set the client down or remove it,
\* withdraw the publication, or take away something that is not in use.
LEMMA CommandEffect ==
  ASSUME TypeOK, ToolInv, serial # "none", CommandRuns
  PROVE  /\ card' \subseteq card
         /\ \/ /\ serial = "quiesce" /\ sat \in {1, 2} /\ ~linked' /\ UNCHANGED enumerated
               /\ "network" \notin card'
               /\ card \ {"ntb_netdev", "network", "dnsroute"} \subseteq card'
            \/ /\ serial = "unbind" /\ sat = 1 /\ enumerated' = FALSE /\ UNCHANGED linked
               /\ card' = card \ {"published"}
            \/ /\ serial = "unbind" /\ sat \in 2 .. 6 /\ UNCHANGED <<enumerated, linked>>
               /\ Unbinding[sat] \in card /\ card' = card \ {Unbinding[sat]}
         /\ serial = "unbind" /\ sat = 2 => "ntb_netdev" \notin card
         /\ "ntb_transport" \in card /\ "ntb" \in card => "ntb" \in card'
         /\ \/ serial' = "none" /\ sat' = 1 /\ answer' \in Said("ok")
            \/ serial = "unbind" /\ sat \in 1 .. 5 /\ sat' = sat + 1 /\ UNCHANGED <<serial, answer>>
            \/ serial = "quiesce" /\ sat = 1 /\ sat' = 2 /\ UNCHANGED <<serial, answer>>
<1> DEFINE f == Payload[sat]
<1>1. /\ Runnable(f) /\ card' = card \ Lost(f)
      /\ linked' = (linked /\ serial # "quiesce")
      /\ enumerated' = (enumerated /\ f # "published")
      /\ IF sat < Len(Payload) THEN sat' = sat + 1 /\ UNCHANGED <<serial, answer>>
         ELSE sat' = 1 /\ serial' = "none" /\ answer' \in Said("ok")
  BY DEF CommandRuns
<1>2. serial \in {"quiesce", "unbind"} /\ sat \in 1 .. 6 /\ enumerated \in BOOLEAN /\ linked \in BOOLEAN
  BY PayloadNames DEF TypeOK
<1>3. /\ Needs["ntb_netdev"] = {"ntb_transport"} /\ Needs["ntb_transport"] = {"ntb", "link"}
      /\ {"ntb_netdev", "ntb_transport"} \subseteq Pins
  BY FactNames DEF Needs, Pins, Modules
<1>4. CASE serial = "quiesce"
  <2>1. Payload = Quiescing /\ sat \in {1, 2} /\ f \in {"network", "ntb_netdev"}
    BY <1>4, PayloadNames DEF Payload, ToolInv
  <2>2. card' = card \ ({f} \cup {"network", "dnsroute"})
    BY <1>1, <2>1 DEF Lost
  <2>3. enumerated' = enumerated /\ ~linked'
    BY <1>1, <1>2, <1>4, <2>1
  <2>4. \/ serial' = "none" /\ sat' = 1 /\ answer' \in Said("ok")
        \/ sat = 1 /\ sat' = 2 /\ UNCHANGED <<serial, answer>>
    BY <1>1, <2>1, PayloadNames
  <2>5. /\ card' \subseteq card /\ "network" \notin card'
        /\ card \ {"ntb_netdev", "network", "dnsroute"} \subseteq card'
        /\ "ntb" \in card => "ntb" \in card'
    BY <2>1, <2>2
  <2> QED
    BY <1>4, <2>1, <2>3, <2>4, <2>5
<1>5. CASE serial = "unbind"
  <2>1. Payload = Unbinding /\ f = Unbinding[sat]
    BY <1>5 DEF Payload
  <2>2. f \notin Dns \cup {"network", "ntb_netdev"}
    BY <1>2, <2>1, PayloadNames
  <2>3. card' = card \ {f}
    BY <1>1, <2>2 DEF Lost
  <2>4. linked' = linked
    BY <1>1, <1>2, <1>5
  <2>5. \/ serial' = "none" /\ sat' = 1 /\ answer' \in Said("ok")
        \/ sat \in 1 .. 5 /\ sat' = sat + 1 /\ UNCHANGED <<serial, answer>>
    BY <1>1, <1>2, <2>1, PayloadNames
  <2>6. CASE sat = 1
    <3>1. f = "published"
      BY <2>1, <2>6, PayloadNames
    <3>2. enumerated' = FALSE
      BY <1>1, <3>1
    <3> QED
      BY <1>5, <2>3, <2>4, <2>5, <2>6, <3>1, <3>2
  <2>7. CASE sat \in 2 .. 6
    <3>1. f # "published" /\ f # "network"
      BY <2>1, <2>2, <2>7, PayloadNames
    <3>2. enumerated' = enumerated
      BY <1>1, <1>2, <3>1
    <3>3. f \in card /\ (f = "link" \/ \A g \in card \cap Pins : f \notin Needs[g])
      BY <1>1, <3>1 DEF Runnable
    <3>4. sat = 2 => "ntb_netdev" \notin card
      BY <1>3, <2>1, <3>3, PayloadNames
    <3>5. "ntb_transport" \in card /\ "ntb" \in card => "ntb" \in card'
      BY <1>3, <2>3, <3>3
    <3> QED
      BY <1>5, <2>1, <2>3, <2>4, <2>5, <2>7, <3>2, <3>3, <3>4, <3>5
  <2>8. sat = 1 \/ sat \in 2 .. 6
    BY <1>2
  <2> QED
    BY <2>6, <2>7, <2>8
<1> QED
  BY <1>2, <1>4, <1>5

\* The payload that fails has done nothing more, and says so or is not heard.
LEMMA CommandFailsInv ==
  ASSUME IInv, SerialRuns, CommandFails
  PROVE  IInv'
<1>1. /\ sat' = 1 /\ serial' = "none" /\ answer' \in {"none", "failed"}
      /\ UNCHANGED <<card, linked, enumerated>>
      /\ UNCHANGED <<cpc, at, host, hostVars, qpc, qat>>
      /\ overlap' = overlap
  BY DEF CommandFails, Said, SerialRuns
<1>2. UNCHANGED cardVars
  BY <1>1 DEF cardVars
<1>3. TypeOK'
  BY <1>1, PayloadNames DEF IInv, TypeOK, hostVars
<1>4. CardInv'
  BY <1>2, CardStays DEF IInv, CardInv
<1>5. PortInv' /\ BarsInv' /\ BackedWhileLinked'
  BY <1>1 DEF IInv, PortInv, BarsInv, BackedWhileLinked, hostVars
<1>6. ToolInv'
  BY <1>1 DEF IInv, ToolInv, Parted
<1>7. UnbindInv'
  BY <1>1, <1>2, UnbindStays DEF IInv
<1> QED
  BY <1>3, <1>4, <1>5, <1>6, <1>7 DEF IInv, CardInv

\* A command that runs beside an unbinding's rules.
LEMMA CommandUnbinding ==
  ASSUME IInv, SerialRuns, CommandRuns
  PROVE  UnbindInv'
<1>1. /\ serial \in {"quiesce", "unbind"} /\ UNCHANGED cpc
      /\ overlap' = overlap \cup (IF cpc = "idle" \/ card' = card THEN {} ELSE {"serial"})
  BY DEF SerialRuns, IInv, TypeOK
<1>2. card' \subseteq card
  BY <1>1, CommandEffect DEF IInv
<1>3. "ntb_transport" \in card' => "ntb" \in card'
  BY <1>1, <1>2, CommandEffect DEF IInv, UnbindInv
<1>4. CASE serial' # "unbind"
  BY <1>3, <1>4 DEF UnbindInv
<1>5. CASE serial' = "unbind"
  <2>1. serial = "unbind" /\ sat \in 1 .. 5 /\ sat' = sat + 1
    BY <1>1, <1>5, CommandEffect DEF IInv
  <2>2. CASE sat = 1
    <3>1. sat' = 2 /\ "published" \notin card'
      BY <1>1, <2>1, <2>2, CommandEffect DEF IInv
    <3> QED
      BY <1>3, <3>1 DEF UnbindInv
  <2>3. CASE sat \in 2 .. 5
    <3>1. Unbinding[sat] \in card /\ card' = card \ {Unbinding[sat]} /\ Unbinding[sat] # "ntb"
      <4>1. sat # 1 /\ serial # "none"
        BY <2>1, <2>3
      <4>2. Unbinding[sat] \in card /\ card' = card \ {Unbinding[sat]}
        BY <2>1, <4>1, CommandEffect DEF IInv
      <4>3. Unbinding[sat] # "ntb"
        BY <2>1, PayloadNames
      <4> QED
        BY <4>2, <4>3
    <3>2. "ntb" \in card
      <4>1. CASE sat = 2
        BY <3>1, <4>1, PayloadNames DEF IInv, UnbindInv
      <4>2. CASE sat # 2
        <5>1. sat > 2
          BY <2>3, <4>2
        <5> QED
          BY <2>1, <5>1 DEF IInv, UnbindInv
      <4> QED
        BY <4>1, <4>2
    <3>3. ASSUME "serial" \notin overlap' PROVE cpc' # "cold" /\ "published" \notin card'
      <4>1. card' # card /\ cpc = "idle" /\ "serial" \notin overlap
        BY <1>1, <3>1, <3>3
      <4>2. sat = 2 => "ntb_netdev" \notin card
        BY <1>1, <2>1, CommandEffect DEF IInv
      <4>3. sat > 1
        BY <2>3
      <4>4. "published" \notin card
        BY <2>1, <4>1, <4>2, <4>3 DEF IInv, UnbindInv
      <4> QED
        BY <1>1, <1>2, <4>1, <4>4
    <3> QED
      BY <1>3, <2>1, <3>1, <3>2, <3>3 DEF UnbindInv
  <2> QED
    BY <2>1, <2>2, <2>3
<1> QED
  BY <1>4, <1>5

LEMMA CommandRunsInv ==
  ASSUME IInv, SerialRuns, CommandRuns
  PROVE  IInv'
<1>1. /\ serial \in {"quiesce", "unbind"}
      /\ overlap' = overlap \cup (IF cpc = "idle" \/ card' = card THEN {} ELSE {"serial"})
      /\ UNCHANGED <<cpc, at, host, hostVars, qpc, qat>>
  BY DEF SerialRuns, IInv, TypeOK
<1>2. card' \subseteq card
  BY <1>1, CommandEffect DEF IInv
<1>3. /\ linked' \in BOOLEAN /\ enumerated' \in BOOLEAN
      /\ linked' => linked
      /\ enumerated' => enumerated
  <2>1. linked \in BOOLEAN /\ enumerated \in BOOLEAN
    BY DEF IInv, TypeOK
  <2> QED
    BY <2>1 DEF CommandRuns
<1>4. /\ serial' \in {"none", "quiesce", "unbind"} /\ sat' \in 1 .. 6
      /\ answer' \in {"none", "ok", "failed"}
      /\ serial' # "none" => serial' = serial /\ answer' = answer
      /\ serial' = "quiesce" => sat' \in {1, 2}
  <2>1. \/ serial' = "none" /\ sat' = 1 /\ answer' \in Said("ok")
        \/ serial = "unbind" /\ sat \in 1 .. 5 /\ sat' = sat + 1 /\ UNCHANGED <<serial, answer>>
        \/ serial = "quiesce" /\ sat = 1 /\ sat' = 2 /\ UNCHANGED <<serial, answer>>
    BY <1>1, CommandEffect DEF IInv
  <2>2. Said("ok") \subseteq {"none", "ok"} /\ answer \in {"none", "ok", "failed"}
    BY DEF Said, IInv, TypeOK
  <2> QED
    BY <1>1, <2>1, <2>2
<1>5. TypeOK'
  <2>1. overlap' \subseteq {"dns", "serial"} /\ card' \subseteq Facts
    BY <1>1, <1>2 DEF IInv, TypeOK
  <2> QED
    BY <1>1, <1>3, <1>4, <2>1, PayloadNames DEF IInv, TypeOK, hostVars
<1>6. "dnsconf" \in card => "dnsconf" \in card'
  <2>1. \A i \in 2 .. 6 : Unbinding[i] # "dnsconf"
    BY PayloadNames DEF Dns
  <2> QED
    BY <1>1, <2>1, CommandEffect DEF IInv
<1>7. StackInv'
  <2> SUFFICES ASSUME "published" \in card', "serial" \notin overlap' PROVE Stack \subseteq card'
    BY DEF StackInv
  <2>1. Stack \subseteq card /\ "published" \in card /\ "serial" \notin overlap
    BY <1>1, <1>2 DEF IInv, StackInv
  <2>2. serial = "quiesce"
    <3> SUFFICES ASSUME serial = "unbind" PROVE FALSE
      BY <1>1
    <3>1. sat \in 2 .. 6
      BY <1>1, CommandEffect DEF IInv
    <3>2. sat > 1
      BY <3>1
    <3>3. sat = 2 /\ "ntb_netdev" \in card
      BY <2>1, <3>2 DEF IInv, UnbindInv
    <3> QED
      BY <1>1, <3>3, CommandEffect DEF IInv
  <2>3. card \ {"ntb_netdev", "network", "dnsroute"} \subseteq card'
    BY <1>1, <2>2, CommandEffect DEF IInv
  <2> QED
    BY <2>1, <2>3 DEF Stack
<1>8. RouteOwned'
  BY <1>1, <1>2, <1>6 DEF IInv, RouteOwned
<1>9. StartInv'
  <2>1. ColdStartIsFresh'
    BY <1>1, <1>2 DEF IInv, StartInv, ColdStartIsFresh
  <2>2. cpc = "idle" \/ "serial" \in overlap' \/ (card' = card /\ overlap' = overlap)
    BY <1>1
  <2>3. overlap \subseteq overlap' /\ ("dns" \in overlap' => "dns" \in overlap)
    BY <1>1
  <2> QED
    BY <1>1, <1>6, <2>1, <2>2, <2>3 DEF IInv, StartInv, Before
<1>10. PortInv' /\ BackedWhileLinked'
  BY <1>1, <1>3 DEF IInv, PortInv, BackedWhileLinked, hostVars
<1>11. BarsInv'
  <2> SUFFICES ASSUME enumerated' PROVE "published" \in card'
    BY DEF BarsInv
  <2>1. "published" \in card
    BY <1>3 DEF IInv, BarsInv
  <2>2. \A i \in 2 .. 6 : Unbinding[i] # "published"
    BY PayloadNames
  <2> QED
    BY <1>1, <2>1, <2>2, CommandEffect DEF IInv
<1>12. ToolInv'
  <2>1. Parted => Parted'
    BY <1>2, <1>3 DEF Parted
  <2>2. qpc = "ack" /\ answer' = "ok" => Parted'
    <3> SUFFICES ASSUME qpc = "ack", answer' = "ok" PROVE Parted'
      OBVIOUS
    <3>1. serial = "quiesce"
      BY <1>1 DEF IInv, ToolInv
    <3> QED
      BY <1>1, <3>1, CommandEffect DEF IInv, Parted
  <2> QED
    BY <1>1, <1>4, <2>1, <2>2 DEF IInv, ToolInv
<1> QED
  BY <1>5, <1>7, <1>8, <1>9, <1>10, <1>11, <1>12, CommandUnbinding DEF IInv

LEMMA SerialRunsInv == IInv /\ SerialRuns => IInv'
BY CommandRunsInv, CommandFailsInv DEF SerialRuns

-----------------------------------------------------------------------------
(* Theorems *)

LEMMA StutterInv == IInv /\ UNCHANGED vars => IInv'
<1> SUFFICES ASSUME IInv, UNCHANGED vars PROVE IInv'
  OBVIOUS
<1>1. UNCHANGED cardVars /\ UNCHANGED host /\ UNCHANGED hostVars /\ UNCHANGED enumerated
      /\ UNCHANGED linked /\ UNCHANGED toolVars /\ UNCHANGED card
  BY DEF vars, cardVars
<1>2. TypeOK'
  BY <1>1 DEF IInv, TypeOK, cardVars, hostVars, toolVars
<1>3. CardInv'
  BY <1>1, CardStays DEF IInv, CardInv
<1>4. UnbindInv'
  BY <1>1, UnbindStays DEF IInv, toolVars
<1> QED
  BY <1>1, <1>2, <1>3, <1>4, CardSeen DEF IInv, BarsInv

LEMMA NextInv == IInv /\ [Next]_vars => IInv'
<1>1. IInv /\ CardActions => IInv'
  BY CardStartInv, CardStepInv, DnsRemoveInv, CardRebootInv DEF CardActions
<1>2. IInv /\ HostActions => IInv'
  BY HostStartInv, HostFailsInv, HostStepInv, SuspendInv, LinkUpInv DEF HostActions
<1>3. IInv /\ ToolActions => IInv'
  BY TalkInv, HostTeardownInv, RemoveFunctionsInv, SerialRunsInv DEF ToolActions
<1> QED
  BY <1>1, <1>2, <1>3, StutterInv DEF Next

\* What each end may rely on of the other holds in every state.
THEOREM Invariance == Spec => []IInv
BY InitInv, NextInv, PTL DEF Spec

\* The states of both ends, of the tool and of the line keep their types.
THEOREM TypeCorrect == Spec => []TypeOK
<1>1. IInv => TypeOK
  BY DEF IInv
<1> QED
  BY <1>1, Invariance, PTL

\* While the card may write into the host's memory the host keeps its modules,
\* whatever is lost, late, restarted or rebooted during a teardown.
THEOREM CardBacked == Spec => []BackedWhileLinked
<1>1. IInv => BackedWhileLinked
  BY DEF IInv
<1> QED
  BY <1>1, Invariance, PTL

\* Only the last step of a cold start publishes, on all that it put in place.
LEMMA PublishingStep ==
  ASSUME IInv, [Next]_vars, "published" \in card' \ card, overlap' = {}
  PROVE  Facts \subseteq card'
<1>1. CASE CardStep
  <2>1. at \in 1 .. 10 /\ overlap = {}
    BY <1>1, ColdSteps DEF IInv, TypeOK, CardStep
  <2>2. cpc \in {"cold", "adopt"} /\ card' = card \cup {ColdStart[at]} /\ ColdStart[at] = "published"
    BY <1>1 DEF CardStep, IInv, TypeOK
  <2>3. at = 10
    BY <2>1, <2>2, ColdSteps
  <2>4. cpc = "cold"
    BY <2>2, <2>3 DEF IInv, StartInv
  <2>5. Before(10) \subseteq card
    BY <2>1, <2>3, <2>4 DEF IInv, StartInv
  <2>6. \A j \in 1 .. 10 : j < 10 => ColdStart[j] \in card
    BY <2>5, BeforeNext
  <2> QED
    BY <2>2, <2>6, ColdSteps, FactNames
<1>2. ASSUME ~CardStep PROVE card' \subseteq card
  <2>1. CardStart \/ DnsRemove \/ CardReboot => card' \subseteq card
    BY DEF CardStart, DnsRemove, CardReboot
  <2>2. HostOnly \/ ToolOnly \/ UNCHANGED cardVars => card' \subseteq card
    BY DEF HostOnly, ToolOnly, cardVars
  <2>3. HostActions => HostOnly \/ UNCHANGED cardVars
    BY DEF HostActions, HostStart, HostFails, HostStep, Resume, Qualify, Scan, Validate, Bind,
           Insmod, ConfigureNetwork, AwaitSsh, Suspend, LinkUp
  <2>4. SerialRuns => card' \subseteq card
    BY CommandEffect DEF SerialRuns, CommandFails, IInv
  <2>5. ToolActions => ToolOnly \/ SerialRuns
    BY DEF ToolActions, QuiesceBegin, QuiesceStops, Send, Acknowledged, HostTeardown, RemoveFunctions
  <2>6. UNCHANGED vars => UNCHANGED cardVars
    BY DEF vars
  <2> QED
    BY <1>2, <2>1, <2>2, <2>3, <2>4, <2>5, <2>6 DEF Next, CardActions
<1> QED
  BY <1>1, <1>2

\* What a host can discover is a whole endpoint, and what is published is ready.
THEOREM PublicationWhole == Spec => PublishedIsWhole
<1> DEFINE Whole ==
      /\ "published" \in card' /\ "serial" \notin overlap' => Stack \subseteq card'
      /\ "published" \in card' \ card /\ overlap' = {} => Facts \subseteq card'
<1>1. IInv /\ [Next]_vars => [Whole]_vars
  <2> SUFFICES ASSUME IInv, [Next]_vars PROVE Whole
    OBVIOUS
  <2>1. StackInv'
    BY NextInv DEF IInv
  <2> QED
    BY <2>1, PublishingStep DEF StackInv
<1>2. (Spec => [][Whole]_vars) => (Spec => PublishedIsWhole)
  BY DEF PublishedIsWhole
<1> QED
  BY <1>1, <1>2, Invariance, PTL DEF Spec

\* A cold start builds on nothing but its own steps.
THEOREM ColdStartFresh == Spec => []ColdStartIsFresh
<1>1. IInv => ColdStartIsFresh
  BY DEF IInv, StartInv
<1> QED
  BY <1>1, Invariance, PTL

\* A DNS route has its record, unless the tool ran during a start.
THEOREM RouteHasOwner == Spec => []RouteOwned
<1>1. IInv => RouteOwned
  BY DEF IInv
<1> QED
  BY <1>1, Invariance, PTL

\* No driver is in use below a port with 10-bit tags on.
THEOREM TagsClear == Spec => []NoTagInUse
<1>1. IInv => NoTagInUse
  BY DEF IInv, PortInv, NoTagInUse, Bound
<1> QED
  BY <1>1, Invariance, PTL

\* An action property: a module of the host goes only while the card is parted.
THEOREM PartedTeardown == Spec => [][HostTeardown => Parted /\ Parted']_vars
<1>1. IInv /\ [Next]_vars => [HostTeardown => Parted /\ Parted']_vars
  <2> SUFFICES ASSUME IInv, HostTeardown PROVE Parted /\ Parted'
    OBVIOUS
  <2>1. Parted
    BY DEF IInv, ToolInv, HostTeardown
  <2>2. UNCHANGED <<card, linked, enumerated>>
    BY DEF HostTeardown, ToolOnly, cardVars
  <2> QED
    BY <2>1, <2>2 DEF Parted
<1> QED
  BY <1>1, Invariance, PTL DEF Spec
=============================================================================
