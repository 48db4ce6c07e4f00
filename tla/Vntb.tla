-------------------------------- MODULE Vntb --------------------------------
(***************************************************************************)
(* The virtual NTB between host and card: the command mailbox and the      *)
(* doorbell of linux/patches/0003-vntb.patch (card, pci-epf-vntb) and      *)
(* pcie-management/vntb-host.patch (host, ntb_hw_epf).                     *)
(*                                                                         *)
(* Both ends meet in card memory: the control page reg (BAR0) and the      *)
(* doorbell word epfDb (BAR2).  Host threads make calls under cmd_lock and *)
(* spin on the status word; one delayed work on the card, the handler,     *)
(* looks every 5 ms for a ring and then for a command.  Each access to     *)
(* shared memory is an action.  An address is a pair of words <<low, high>>*)
(* because the host writes it in two halves.                               *)
(***************************************************************************)
EXTENDS Integers

CONSTANTS
  Threads,     \* threads of the host that use the driver
  Buffers,     \* host buffers a memory window may be pointed at
  MaxCalls,    \* bound: commands of one life of the host driver
  MaxRebinds,  \* bound: how often the card function is unbound
  MaxItems,    \* bound: packets the host transport sends
  MaxOpens,    \* bound: how often the card transport opens its queue
  None         \* no thread, no mapping

ASSUME BoundsAssumption == {MaxCalls, MaxRebinds, MaxItems, MaxOpens} \subseteq Nat

ASSUME NoneAssumption ==
  None \notin Threads \cup Buffers \cup ((Buffers \cup {0}) \X (Buffers \cup {0}))

VARIABLES
  \* card memory the host reaches through the BARs
  reg,        \* command, tag, argument, status, low, high, sized, link
  epfDb,      \* the doorbell word
  \* the host driver
  tpc, op, buf, call, result,  \* per thread: program counter and locals
  lock,       \* cmd_lock: the thread that holds it
  failed,     \* command_failed, the latch a timeout sets
  calls,      \* calls begun
  hostMap,    \* the mappings the card may have, by what callers were told
  tx, sent,   \* transport: packet written but not rung; packets written
  \* the card driver
  life,       \* bind and unbind, step by step
  work,       \* the delayed work: "off", "queued" or "running"
  kpc, kcmd, ktag, karg, kstatus,  \* the handler and its locals
  db, dbMask, cardMap,
  unbinds,
  \* the transport on the card
  queue, opens,  \* its queue is open; how often it was opened
  sched, tasklet,  \* the receive tasklet: scheduled; where it runs
  items,      \* packets in the receive ring
  \* what the mailbox did, for its specification
  served, answer

memory   == <<reg, epfDb>>
threads  == <<tpc, op, buf, call, result, lock, failed, calls, hostMap>>
sender   == <<tx, sent>>
handler  == <<work, kpc, kcmd, ktag, karg, kstatus>>
window   == <<cardMap>>
doorbell == <<db, dbMask>>
bind     == <<life, unbinds>>
receiver == <<queue, opens, sched, tasklet, items>>
history  == <<served, answer>>
vars == <<memory, threads, sender, handler, window, doorbell, bind, receiver, history>>

Rpc == INSTANCE MailboxRpc

-----------------------------------------------------------------------------
Commands == {"CONFIGURE_DOORBELL", "CONFIGURE_MW", "TEARDOWN_MW", "LINK_UP", "LINK_DOWN"}
Words    == Buffers \cup {0}
Mappings == (Words \X Words) \cup {None}
NumMws   == 1  \* memory windows of the contract
DbCount  == 1  \* doorbells of the contract

\* A page just allocated by bind.
ZeroPage == [command |-> "none", tag |-> 0, argument |-> 0, status |-> "none",
             low |-> 0, high |-> 0, sized |-> FALSE, link |-> FALSE]

TypeOK ==
  /\ reg \in [command : Commands \cup {"none"}, tag : 0 .. MaxCalls,
              argument : {0, DbCount + 1}, status : {"none", "ok", "error"},
              low : Words, high : Words, sized : BOOLEAN, link : BOOLEAN]
  /\ epfDb \in BOOLEAN
  /\ tpc \in [Threads -> {"idle", "low", "high", "size", "latch", "status",
                          "argument", "command", "poll", "unlock"}]
  /\ op \in [Threads -> Commands] /\ buf \in [Threads -> Buffers \cup {None}]
  /\ call \in [Threads -> 0 .. MaxCalls]
  /\ result \in [Threads -> {"none", "ok", "error", "timeout", "refused"}]
  /\ lock \in Threads \cup {None} /\ failed \in BOOLEAN
  /\ calls \in 0 .. MaxCalls /\ hostMap \subseteq Mappings
  /\ tx \in {"idle", "ring"} /\ sent \in 0 .. MaxItems
  /\ life \in {"bound", "stopping", "cancelled", "removed", "unbound"}
  /\ work \in {"off", "queued", "running"}
  /\ kpc \in {"idle", "ring", "clear", "set", "event", "command", "argument",
              "take", "serve", "status", "stopping", "queue"}
  /\ kcmd \in Commands \cup {"none"} /\ ktag \in 0 .. MaxCalls
  /\ karg \in {0, DbCount + 1} /\ kstatus \in {"none", "ok", "error"}
  /\ db \in BOOLEAN /\ dbMask \in BOOLEAN /\ cardMap \in Mappings
  /\ unbinds \in 0 .. MaxRebinds
  /\ queue \in BOOLEAN /\ opens \in 0 .. MaxOpens
  /\ sched \in BOOLEAN /\ tasklet \in {"idle", "drain", "check", "clear"}
  /\ items \in 0 .. MaxItems
  /\ Rpc!TypeOK

Init ==
  /\ reg = ZeroPage /\ epfDb = FALSE
  /\ tpc = [t \in Threads |-> "idle"]
  /\ op = [t \in Threads |-> "LINK_UP"]
  /\ buf = [t \in Threads |-> None]
  /\ call = [t \in Threads |-> 0] /\ result = [t \in Threads |-> "none"]
  /\ lock = None /\ failed = FALSE /\ calls = 0 /\ hostMap = {None}
  /\ tx = "idle" /\ sent = 0
  /\ life = "bound" /\ unbinds = 0 /\ work = "queued"
  /\ kpc = "idle" /\ kcmd = "none" /\ ktag = 0 /\ karg = 0 /\ kstatus = "none"
  /\ db = FALSE /\ dbMask = FALSE /\ cardMap = None
  /\ queue = FALSE /\ opens = 0 /\ sched = FALSE /\ tasklet = "idle" /\ items = 0
  /\ Rpc!Init

-----------------------------------------------------------------------------
(* The host driver.  With the card function unbound its BARs are gone:      *)
(* writes are lost and reads return all ones, which is no status.           *)

HostWrites(page) == reg' = IF life = "unbound" THEN reg ELSE page

Goto(t, step) == tpc' = [tpc EXCEPT ![t] = step]

\* probe configures the doorbell before anything else can use the device.
MayIssue(c) == IF calls = 0 THEN c = "CONFIGURE_DOORBELL"
                            ELSE c # "CONFIGURE_DOORBELL" /\ answer[1] = "ok"

\* send_command, mw_set_trans and mw_clear_trans take cmd_lock first.
Acquire(t) ==
  /\ tpc[t] = "idle" /\ lock = None /\ calls < MaxCalls
  /\ \E c \in {c \in Commands : MayIssue(c)} :
       /\ op' = [op EXCEPT ![t] = c]
       /\ IF c = "CONFIGURE_MW"
            THEN Goto(t, "low") /\ \E b \in Buffers : buf' = [buf EXCEPT ![t] = b]
            ELSE Goto(t, "latch") /\ UNCHANGED buf
  /\ lock' = t /\ calls' = calls + 1
  /\ call' = [call EXCEPT ![t] = calls + 1]
  /\ answer' = [answer EXCEPT ![calls + 1] = "waiting"]
  /\ UNCHANGED <<memory, result, failed, hostMap, sender, handler, window,
                 doorbell, bind, receiver, served>>

\* mw_set_trans writes address and size before the latch is looked at.
WriteAddress(t) ==
  /\ \/ tpc[t] = "low"  /\ HostWrites([reg EXCEPT !.low = buf[t]])  /\ Goto(t, "high")
     \/ tpc[t] = "high" /\ HostWrites([reg EXCEPT !.high = buf[t]]) /\ Goto(t, "size")
     \/ tpc[t] = "size" /\ HostWrites([reg EXCEPT !.sized = TRUE])  /\ Goto(t, "latch")
  /\ UNCHANGED <<epfDb, op, buf, call, result, lock, failed, calls, hostMap, sender,
                 handler, window, doorbell, bind, receiver, history>>

\* Unlock and return: the caller is told how its call went.
Leave(t, outcome) ==
  /\ Goto(t, "idle")
  /\ lock' = None
  /\ answer' = [answer EXCEPT ![call[t]] = outcome]
  /\ call' = [call EXCEPT ![t] = 0]
  /\ op' = [op EXCEPT ![t] = "LINK_UP"] /\ buf' = [buf EXCEPT ![t] = None]
  /\ result' = [result EXCEPT ![t] = "none"]

\* Mutant: the latch is not looked at.
CheckNoLatch(t) ==
  /\ tpc[t] = "latch" /\ Goto(t, "status")
  /\ UNCHANGED <<memory, op, buf, call, result, lock, failed, calls, hostMap, sender,
                 handler, window, doorbell, bind, receiver, history>>

CheckLatch(t) ==
  /\ tpc[t] = "latch"
  /\ \/ ~failed /\ Goto(t, "status")
        /\ UNCHANGED <<lock, answer, call, op, buf, result>>
     \/ failed /\ Leave(t, "refused")
  /\ UNCHANGED <<memory, failed, calls, hostMap, sender, handler, window,
                 doorbell, bind, receiver, served>>

Argument(c) == IF c = "CONFIGURE_DOORBELL" THEN DbCount + 1 ELSE 0

SendCommand(t) ==
  /\ \/ /\ tpc[t] = "status" /\ Goto(t, "argument")
        /\ HostWrites([reg EXCEPT !.status = "none"])
     \/ /\ tpc[t] = "argument" /\ Goto(t, "command")
        /\ HostWrites([reg EXCEPT !.argument = Argument(op[t])])
     \/ /\ tpc[t] = "command" /\ Goto(t, "poll")
        /\ HostWrites([reg EXCEPT !.command = op[t], !.tag = call[t]])
  /\ UNCHANGED <<epfDb, op, buf, call, result, lock, failed, calls, hostMap, sender,
                 handler, window, doorbell, bind, receiver, history>>

\* Mutant: the driver waits for the card without a clock.
PollForever(t) ==
  /\ tpc[t] = "poll" /\ Goto(t, "unlock")
  /\ life # "unbound" /\ reg.status # "none"
  /\ result' = [result EXCEPT ![t] = reg.status]
  /\ UNCHANGED <<memory, op, buf, call, lock, failed, calls, hostMap, sender, handler,
                 window, doorbell, bind, receiver, history>>

\* The status wins over the clock: a timeout counts only when the status read
\* after it is still no answer.
PollStatus(t) ==
  /\ tpc[t] = "poll" /\ Goto(t, "unlock")
  /\ \/ /\ life # "unbound" /\ reg.status # "none"
        /\ result' = [result EXCEPT ![t] = reg.status] /\ UNCHANGED failed
     \/ /\ life = "unbound" \/ reg.status = "none"
        /\ result' = [result EXCEPT ![t] = "timeout"] /\ failed' = TRUE
  /\ UNCHANGED <<memory, op, buf, call, lock, calls, hostMap, sender, handler,
                 window, doorbell, bind, receiver, history>>

\* Mutant: mw_set_trans reports success whatever the command returned.
ToldSuccess(t) ==
  CASE op[t] = "CONFIGURE_MW" -> {<<buf[t], buf[t]>>}
    [] op[t] = "TEARDOWN_MW"  -> IF result[t] = "ok" THEN {None} ELSE Mappings
    [] OTHER -> hostMap

\* What a caller knows of the window after its call.
Told(t) ==
  CASE op[t] = "CONFIGURE_MW" /\ result[t] = "ok" -> {<<buf[t], buf[t]>>}
    [] op[t] = "TEARDOWN_MW"  /\ result[t] = "ok" -> {None}
    [] op[t] \in {"CONFIGURE_MW", "TEARDOWN_MW"} /\ result[t] # "ok" -> Mappings
    [] OTHER -> hostMap

Unlock(t) ==
  /\ tpc[t] = "unlock"
  /\ HostWrites([reg EXCEPT !.status = "none"])
  /\ hostMap' = Told(t)
  /\ Leave(t, result[t])
  /\ UNCHANGED <<epfDb, failed, calls, sender, handler, window, doorbell, bind,
                 receiver, served>>

\* The transport writes a packet into the card's receive ring, then rings.
WritePacket ==
  /\ tx = "idle" /\ queue /\ sent < MaxItems
  /\ tx' = "ring" /\ sent' = sent + 1
  /\ items' = IF life = "unbound" THEN items ELSE items + 1
  /\ UNCHANGED <<memory, threads, handler, window, doorbell, bind, queue, opens,
                 sched, tasklet, history>>

Ring ==
  /\ tx = "ring" /\ tx' = "idle"
  /\ epfDb' = (epfDb \/ life # "unbound")
  /\ UNCHANGED <<reg, threads, sent, handler, window, doorbell, bind, receiver, history>>

-----------------------------------------------------------------------------
(* The handler of the card: one pass looks at the doorbell, then at the     *)
(* command.                                                                 *)

Step(from, to) == kpc = from /\ work = "running" /\ kpc' = to

StartPass ==
  /\ work = "queued" /\ kpc = "idle"
  /\ IF life = "bound" THEN work' = "running" /\ kpc' = "ring"
                       ELSE work' = "off" /\ UNCHANGED kpc
  /\ UNCHANGED <<memory, threads, sender, kcmd, ktag, karg, kstatus, window,
                 doorbell, bind, receiver, history>>

ReadDoorbell ==
  /\ \/ epfDb /\ Step("ring", "clear")
     \/ ~epfDb /\ Step("ring", "event")
  /\ UNCHANGED <<memory, threads, sender, work, kcmd, ktag, karg, kstatus, window,
                 doorbell, bind, receiver, history>>

ClearDoorbell ==
  /\ Step("clear", "set") /\ epfDb' = FALSE
  /\ UNCHANGED <<reg, threads, sender, work, kcmd, ktag, karg, kstatus, window,
                 doorbell, bind, receiver, history>>

SetBit ==
  /\ Step("set", "event") /\ db' = TRUE
  /\ UNCHANGED <<memory, threads, sender, work, kcmd, ktag, karg, kstatus, window,
                 dbMask, bind, receiver, history>>

\* Mutant: the doorbell word is cleared after the event.
RaiseEventThenClear ==
  /\ Step("event", "command") /\ epfDb' = FALSE
  /\ sched' = (sched \/ (db /\ ~dbMask /\ queue))
  /\ UNCHANGED <<reg, threads, sender, work, kcmd, ktag, karg, kstatus, window,
                 doorbell, bind, queue, opens, tasklet, items, history>>

\* ntb_db_event: level triggered, once per pass while the bit is set.
RaiseEvent ==
  /\ Step("event", "command")
  /\ sched' = (sched \/ (db /\ ~dbMask /\ queue))
  /\ UNCHANGED <<memory, threads, sender, work, kcmd, ktag, karg, kstatus, window,
                 doorbell, bind, queue, opens, tasklet, items, history>>

ReadCommand ==
  /\ \/ reg.command = "none" /\ Step("command", "stopping") /\ UNCHANGED <<kcmd, ktag>>
     \/ /\ reg.command # "none" /\ Step("command", "argument")
        /\ kcmd' = reg.command /\ ktag' = reg.tag
  /\ UNCHANGED <<memory, threads, sender, work, karg, kstatus, window, doorbell,
                 bind, receiver, history>>

ReadArgument ==
  /\ Step("argument", "take") /\ karg' = reg.argument
  /\ UNCHANGED <<memory, threads, sender, work, kcmd, ktag, kstatus, window,
                 doorbell, bind, receiver, history>>

TakeCommand ==
  /\ Step("take", "serve")
  /\ reg' = [reg EXCEPT !.command = "none", !.argument = 0]
  /\ UNCHANGED <<epfDb, threads, sender, work, kcmd, ktag, karg, kstatus, window,
                 doorbell, bind, receiver, history>>

\* configure_mw: a good request replaces the mapping, or leaves none when the
\* controller cannot map; a bad one changes nothing.
ConfigureMw ==
  IF karg < NumMws /\ reg.sized
    THEN \/ kstatus' = "ok" /\ cardMap' = <<reg.low, reg.high>>
         \/ kstatus' = "error" /\ cardMap' = None
    ELSE kstatus' = "error" /\ UNCHANGED cardMap

Serve ==
  /\ Step("serve", "status")
  /\ \/ /\ kcmd = "CONFIGURE_DOORBELL"
        /\ kstatus' = IF karg = DbCount + 1 THEN "ok" ELSE "error"
        /\ UNCHANGED <<reg, cardMap>>
     \/ kcmd = "CONFIGURE_MW" /\ ConfigureMw /\ UNCHANGED reg
     \/ /\ kcmd = "TEARDOWN_MW"
        /\ IF karg < NumMws THEN kstatus' = "ok" /\ cardMap' = None
                            ELSE kstatus' = "error" /\ UNCHANGED cardMap
        /\ UNCHANGED reg
     \/ /\ kcmd \in {"LINK_UP", "LINK_DOWN"}
        /\ kstatus' = "ok" /\ reg' = [reg EXCEPT !.link = (kcmd = "LINK_UP")]
        /\ UNCHANGED cardMap
  /\ served' = [served EXCEPT ![ktag] = kstatus']
  /\ UNCHANGED <<epfDb, threads, sender, work, kcmd, ktag, karg, doorbell, bind,
                 receiver, answer>>

WriteStatus ==
  /\ Step("status", "stopping")
  /\ reg' = [reg EXCEPT !.status = kstatus]
  /\ UNCHANGED <<epfDb, threads, sender, work, kcmd, ktag, karg, kstatus, window,
                 doorbell, bind, receiver, history>>

\* Mutant: the work does not queue itself again.
EndPassForGood ==
  /\ Step("stopping", "idle") /\ work' = "off"
  /\ kcmd' = "none" /\ ktag' = 0 /\ karg' = 0 /\ kstatus' = "none"
  /\ UNCHANGED <<memory, threads, sender, window, doorbell, bind, receiver, history>>

\* reset_handler: the work queues itself again unless it was told to stop.
EndPass ==
  /\ \/ /\ life # "bound" /\ Step("stopping", "idle") /\ work' = "off"
     \/ life = "bound" /\ Step("stopping", "queue") /\ UNCHANGED work
     \/ Step("queue", "idle") /\ work' = "queued"
  /\ kcmd' = "none" /\ ktag' = 0 /\ karg' = 0 /\ kstatus' = "none"
  /\ UNCHANGED <<memory, threads, sender, window, doorbell, bind, receiver, history>>

-----------------------------------------------------------------------------
(* The transport on the card, as it uses the driver (external): opening the *)
(* queue clears and unmasks the doorbell, the tasklet empties the ring, then*)
(* clears the bit and runs again when it was set.                           *)

OpenQueue ==
  /\ life = "bound" /\ ~queue /\ opens < MaxOpens
  /\ queue' = TRUE /\ opens' = opens + 1
  /\ db' = FALSE /\ dbMask' = FALSE
  /\ UNCHANGED <<memory, threads, sender, handler, window, bind, sched, tasklet,
                 items, history>>

CloseQueue ==
  /\ queue /\ tasklet = "idle"
  /\ queue' = FALSE /\ dbMask' = TRUE /\ sched' = FALSE /\ items' = 0
  /\ UNCHANGED <<memory, threads, sender, handler, window, db, bind, opens,
                 tasklet, history>>

RunTasklet ==
  /\ \/ /\ tasklet = "idle" /\ sched
        /\ sched' = FALSE /\ tasklet' = "drain" /\ UNCHANGED <<items, db>>
     \/ /\ tasklet = "drain" /\ items > 0
        /\ items' = items - 1 /\ UNCHANGED <<tasklet, sched, db>>
     \/ /\ tasklet = "drain" /\ items = 0
        /\ tasklet' = "check" /\ UNCHANGED <<items, sched, db>>
     \/ /\ tasklet = "check"
        /\ tasklet' = (IF db THEN "clear" ELSE "idle") /\ UNCHANGED <<items, sched, db>>
     \/ /\ tasklet = "clear" /\ db' = FALSE
        /\ sched' = TRUE /\ tasklet' = "idle" /\ UNCHANGED items
  /\ UNCHANGED <<memory, threads, sender, handler, window, dbMask, bind, queue,
                 opens, history>>

-----------------------------------------------------------------------------
(* unbind and bind of the card function *)

BeginUnbind ==
  /\ life = "bound" /\ unbinds < MaxRebinds
  /\ life' = "stopping" /\ unbinds' = unbinds + 1
  /\ UNCHANGED <<memory, threads, sender, handler, window, doorbell, receiver, history>>

\* Mutant: cancel_delayed_work, which does not wait for a running pass.
CancelWithoutSync ==
  /\ life = "stopping" /\ life' = "cancelled"
  /\ work' = IF work = "running" THEN work ELSE "off"
  /\ UNCHANGED <<memory, threads, sender, kpc, kcmd, ktag, karg, kstatus, window,
                 doorbell, unbinds, receiver, history>>

\* cancel_delayed_work_sync: no pass is running, none is left in the queue.
CancelWork ==
  /\ life = "stopping" /\ work # "running"
  /\ life' = "cancelled" /\ work' = "off"
  /\ UNCHANGED <<memory, threads, sender, kpc, kcmd, ktag, karg, kstatus, window,
                 doorbell, unbinds, receiver, history>>

\* The virtual bus goes, and with it the transport.
RemoveBus ==
  /\ life = "cancelled" /\ ~queue /\ tasklet = "idle"
  /\ life' = "removed"
  /\ UNCHANGED <<memory, threads, sender, handler, window, doorbell, unbinds,
                 receiver, history>>

\* epc_cleanup and the frees after it: the window is unmapped, the BARs and
\* the memory behind them are gone.
FreeBars ==
  /\ life = "removed"
  /\ life' = "unbound" /\ cardMap' = None
  /\ reg' = ZeroPage /\ epfDb' = FALSE
  /\ UNCHANGED <<threads, sender, handler, doorbell, unbinds, receiver, history>>

Bind ==
  /\ life = "unbound"
  /\ life' = "bound" /\ work' = "queued"
  /\ db' = FALSE /\ dbMask' = FALSE
  /\ UNCHANGED <<memory, threads, sender, kpc, kcmd, ktag, karg, kstatus, window,
                 unbinds, receiver, history>>

-----------------------------------------------------------------------------
HostThread(t) == \/ WriteAddress(t) \/ CheckLatch(t) \/ SendCommand(t)
                 \/ PollStatus(t) \/ Unlock(t)

Handler == \/ StartPass \/ ReadDoorbell \/ ClearDoorbell \/ SetBit \/ RaiseEvent
           \/ ReadCommand \/ ReadArgument \/ TakeCommand \/ Serve \/ WriteStatus
           \/ EndPass

Unbind == CancelWork \/ RemoveBus \/ FreeBars

Next ==
  \/ \E t \in Threads : Acquire(t) \/ HostThread(t)
  \/ WritePacket \/ Ring
  \/ Handler
  \/ OpenQueue \/ CloseQueue \/ RunTasklet
  \/ BeginUnbind \/ Unbind \/ Bind

Spec == Init /\ [][Next]_vars

\* A thread in a call, a rung doorbell, a queued work, a scheduled tasklet and
\* a begun unbind all go on; nobody has to make calls, send, unbind or bind.
\* The transport closes its queue when its device is removed.
Fairness ==
  /\ \A t \in Threads : WF_vars(HostThread(t))
  /\ WF_vars(Ring) /\ WF_vars(Handler) /\ WF_vars(RunTasklet)
  /\ WF_vars(Unbind) /\ WF_vars(life = "cancelled" /\ CloseQueue)

FairSpec == Spec /\ Fairness

-----------------------------------------------------------------------------
(* Properties *)

\* The mailbox keeps the promise of MailboxRpc: one call at a time, "ok" only
\* for a call the card served with "ok", nothing served after a timeout.
ImplementsRpc == Rpc!Spec

\* Between calls both ends agree on the memory window: after an acknowledged
\* teardown the card maps nothing, and while the card function stays bound an
\* acknowledged mapping is exactly the one the card uses.
MwAgreement ==
  lock = None =>
    /\ hostMap = {None} => cardMap = None
    /\ unbinds = 0 => cardMap \in hostMap

\* No ring is lost: a packet that waits in an open queue will be noticed,
\* because a ring, a set bit or a run of the tasklet is still to come.
NoLostRing ==
  queue /\ life = "bound" /\ items > 0
    => \/ tx = "ring" \/ epfDb \/ db \/ sched
       \/ kpc \in {"clear", "set"}
       \/ tasklet \in {"drain", "clear"}

\* The handler never runs on memory that unbind has taken away, and no window
\* into the host outlives the binding.
QuietAfterUnbind ==
  /\ life \in {"cancelled", "removed", "unbound"} => work = "off" /\ kpc = "idle"
  /\ life = "unbound" => cardMap = None

\* Every call returns, with the card gone or hung as well.
CallsReturn == \A t \in Threads : tpc[t] # "idle" ~> tpc[t] = "idle"

\* Every packet sent while queue and card function stay up is received.
PacketsArrive == items > 0 ~> items = 0 \/ ~queue \/ life # "bound"

=============================================================================
