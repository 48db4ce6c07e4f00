----------------------------- MODULE VntbProofs -----------------------------
(***************************************************************************)
(* The safety properties of Vntb, proved for every set of threads and      *)
(* buffers and every bound, and the proof that the mailbox implements      *)
(* MailboxRpc.                                                             *)
(*                                                                         *)
(* Each part of IInv has a lemma of its own: a step keeps it.  A step that *)
(* writes none of the variables a part speaks of keeps it for that reason, *)
(* so each lemma names the writers and leaves the rest to a frame.         *)
(***************************************************************************)
EXTENDS VntbInvariant, TLAPS

USE DEF memory, threads, sender, handler, window, doorbell, bind, receiver, history

-----------------------------------------------------------------------------
(* Frames: who writes what *)

LEMMA PageFrame ==
  ASSUME Next
  PROVE  \/ UNCHANGED reg
         \/ \E t \in Threads : WriteAddress(t) \/ SendCommand(t) \/ Unlock(t)
         \/ TakeCommand \/ Serve \/ WriteStatus \/ FreeBars
<1>1. CASE \E t \in Threads : Acquire(t) \/ CheckLatch(t) \/ PollStatus(t)
  BY <1>1 DEF Acquire, CheckLatch, PollStatus
<1>2. CASE WritePacket \/ Ring \/ OpenQueue \/ CloseQueue \/ RunTasklet
  BY <1>2 DEF WritePacket, Ring, OpenQueue, CloseQueue, RunTasklet
<1>3. CASE StartPass \/ ReadDoorbell \/ ClearDoorbell \/ SetBit \/ RaiseEvent
  BY <1>3 DEF StartPass, ReadDoorbell, ClearDoorbell, SetBit, RaiseEvent
<1>4. CASE ReadCommand \/ ReadArgument \/ EndPass
  BY <1>4 DEF ReadCommand, ReadArgument, EndPass
<1>5. CASE BeginUnbind \/ CancelWork \/ RemoveBus \/ Bind
  BY <1>5 DEF BeginUnbind, CancelWork, RemoveBus, Bind
<1> QED
  BY <1>1, <1>2, <1>3, <1>4, <1>5 DEF Next, HostThread, Handler, Unbind

LEMMA RingFrame ==
  ASSUME Next
  PROVE  UNCHANGED epfDb \/ Ring \/ ClearDoorbell \/ FreeBars
<1>1. CASE \E t \in Threads : Acquire(t) \/ HostThread(t)
  BY <1>1 DEF Acquire, HostThread, WriteAddress, CheckLatch, SendCommand, PollStatus, Unlock
<1>2. CASE WritePacket \/ OpenQueue \/ CloseQueue \/ RunTasklet
  BY <1>2 DEF WritePacket, OpenQueue, CloseQueue, RunTasklet
<1>3. CASE StartPass \/ ReadDoorbell \/ SetBit \/ RaiseEvent \/ ReadCommand \/ ReadArgument
  BY <1>3 DEF StartPass, ReadDoorbell, SetBit, RaiseEvent, ReadCommand, ReadArgument
<1>4. CASE TakeCommand \/ Serve \/ WriteStatus \/ EndPass
  BY <1>4 DEF TakeCommand, Serve, WriteStatus, EndPass
<1>5. CASE BeginUnbind \/ CancelWork \/ RemoveBus \/ Bind
  BY <1>5 DEF BeginUnbind, CancelWork, RemoveBus, Bind
<1> QED
  BY <1>1, <1>2, <1>3, <1>4, <1>5 DEF Next, Handler, Unbind

LEMMA CallFrame ==
  ASSUME Next
  PROVE  \/ UNCHANGED threads
         \/ \E t \in Threads : Acquire(t) \/ HostThread(t)
<1>1. CASE WritePacket \/ Ring \/ OpenQueue \/ CloseQueue \/ RunTasklet
  BY <1>1 DEF WritePacket, Ring, OpenQueue, CloseQueue, RunTasklet
<1>2. CASE StartPass \/ ReadDoorbell \/ ClearDoorbell \/ SetBit \/ RaiseEvent \/ ReadCommand
  BY <1>2 DEF StartPass, ReadDoorbell, ClearDoorbell, SetBit, RaiseEvent, ReadCommand
<1>3. CASE ReadArgument \/ TakeCommand \/ Serve \/ WriteStatus \/ EndPass
  BY <1>3 DEF ReadArgument, TakeCommand, Serve, WriteStatus, EndPass
<1>4. CASE BeginUnbind \/ Unbind \/ Bind
  BY <1>4 DEF BeginUnbind, Unbind, CancelWork, RemoveBus, FreeBars, Bind
<1> QED
  BY <1>1, <1>2, <1>3, <1>4 DEF Next, Handler

LEMMA HandlerFrame ==
  ASSUME Next
  PROVE  UNCHANGED handler \/ Handler \/ CancelWork \/ Bind
<1>1. CASE \E t \in Threads : Acquire(t) \/ HostThread(t)
  BY <1>1 DEF Acquire, HostThread, WriteAddress, CheckLatch, SendCommand, PollStatus, Unlock
<1>2. CASE WritePacket \/ Ring \/ OpenQueue \/ CloseQueue \/ RunTasklet
  BY <1>2 DEF WritePacket, Ring, OpenQueue, CloseQueue, RunTasklet
<1>3. CASE BeginUnbind \/ RemoveBus \/ FreeBars
  BY <1>3 DEF BeginUnbind, RemoveBus, FreeBars
<1> QED
  BY <1>1, <1>2, <1>3 DEF Next, Unbind

LEMMA WindowFrame ==
  ASSUME Next
  PROVE  UNCHANGED cardMap \/ Serve \/ FreeBars
<1>1. CASE \E t \in Threads : Acquire(t) \/ HostThread(t)
  BY <1>1 DEF Acquire, HostThread, WriteAddress, CheckLatch, SendCommand, PollStatus, Unlock
<1>2. CASE WritePacket \/ Ring \/ OpenQueue \/ CloseQueue \/ RunTasklet
  BY <1>2 DEF WritePacket, Ring, OpenQueue, CloseQueue, RunTasklet
<1>3. CASE StartPass \/ ReadDoorbell \/ ClearDoorbell \/ SetBit \/ RaiseEvent \/ ReadCommand
  BY <1>3 DEF StartPass, ReadDoorbell, ClearDoorbell, SetBit, RaiseEvent, ReadCommand
<1>4. CASE ReadArgument \/ TakeCommand \/ WriteStatus \/ EndPass
  BY <1>4 DEF ReadArgument, TakeCommand, WriteStatus, EndPass
<1>5. CASE BeginUnbind \/ CancelWork \/ RemoveBus \/ Bind
  BY <1>5 DEF BeginUnbind, CancelWork, RemoveBus, Bind
<1> QED
  BY <1>1, <1>2, <1>3, <1>4, <1>5 DEF Next, Handler, Unbind

LEMMA LifeFrame ==
  ASSUME Next
  PROVE  UNCHANGED bind \/ BeginUnbind \/ Unbind \/ Bind
<1>1. CASE \E t \in Threads : Acquire(t) \/ HostThread(t)
  BY <1>1 DEF Acquire, HostThread, WriteAddress, CheckLatch, SendCommand, PollStatus, Unlock
<1>2. CASE WritePacket \/ Ring \/ OpenQueue \/ CloseQueue \/ RunTasklet
  BY <1>2 DEF WritePacket, Ring, OpenQueue, CloseQueue, RunTasklet
<1>3. CASE StartPass \/ ReadDoorbell \/ ClearDoorbell \/ SetBit \/ RaiseEvent \/ ReadCommand
  BY <1>3 DEF StartPass, ReadDoorbell, ClearDoorbell, SetBit, RaiseEvent, ReadCommand
<1>4. CASE ReadArgument \/ TakeCommand \/ Serve \/ WriteStatus \/ EndPass
  BY <1>4 DEF ReadArgument, TakeCommand, Serve, WriteStatus, EndPass
<1> QED
  BY <1>1, <1>2, <1>3, <1>4 DEF Next, Handler

LEMMA DoorbellFrame ==
  ASSUME Next
  PROVE  UNCHANGED doorbell \/ SetBit \/ OpenQueue \/ CloseQueue \/ RunTasklet \/ Bind
<1>1. CASE \E t \in Threads : Acquire(t) \/ HostThread(t)
  BY <1>1 DEF Acquire, HostThread, WriteAddress, CheckLatch, SendCommand, PollStatus, Unlock
<1>2. CASE WritePacket \/ Ring \/ StartPass \/ ReadDoorbell \/ ClearDoorbell \/ RaiseEvent
  BY <1>2 DEF WritePacket, Ring, StartPass, ReadDoorbell, ClearDoorbell, RaiseEvent
<1>3. CASE ReadCommand \/ ReadArgument \/ TakeCommand \/ Serve \/ WriteStatus \/ EndPass
  BY <1>3 DEF ReadCommand, ReadArgument, TakeCommand, Serve, WriteStatus, EndPass
<1>4. CASE BeginUnbind \/ Unbind
  BY <1>4 DEF BeginUnbind, Unbind, CancelWork, RemoveBus, FreeBars
<1> QED
  BY <1>1, <1>2, <1>3, <1>4 DEF Next, Handler

LEMMA QueueFrame ==
  ASSUME Next
  PROVE  \/ UNCHANGED <<sender, receiver>>
         \/ WritePacket \/ Ring \/ RaiseEvent \/ OpenQueue \/ CloseQueue \/ RunTasklet
<1>1. CASE \E t \in Threads : Acquire(t) \/ HostThread(t)
  BY <1>1 DEF Acquire, HostThread, WriteAddress, CheckLatch, SendCommand, PollStatus, Unlock
<1>2. CASE StartPass \/ ReadDoorbell \/ ClearDoorbell \/ SetBit \/ ReadCommand
  BY <1>2 DEF StartPass, ReadDoorbell, ClearDoorbell, SetBit, ReadCommand
<1>3. CASE ReadArgument \/ TakeCommand \/ Serve \/ WriteStatus \/ EndPass
  BY <1>3 DEF ReadArgument, TakeCommand, Serve, WriteStatus, EndPass
<1>4. CASE BeginUnbind \/ Unbind \/ Bind
  BY <1>4 DEF BeginUnbind, Unbind, CancelWork, RemoveBus, FreeBars, Bind
<1> QED
  BY <1>1, <1>2, <1>3, <1>4 DEF Next, Handler

LEMMA HistoryFrame ==
  ASSUME Next
  PROVE  \/ UNCHANGED history
         \/ \E t \in Threads : Acquire(t) \/ CheckLatch(t) \/ Unlock(t)
         \/ Serve
<1>1. CASE \E t \in Threads : WriteAddress(t) \/ SendCommand(t) \/ PollStatus(t)
  BY <1>1 DEF WriteAddress, SendCommand, PollStatus
<1>2. CASE WritePacket \/ Ring \/ OpenQueue \/ CloseQueue \/ RunTasklet
  BY <1>2 DEF WritePacket, Ring, OpenQueue, CloseQueue, RunTasklet
<1>3. CASE StartPass \/ ReadDoorbell \/ ClearDoorbell \/ SetBit \/ RaiseEvent \/ ReadCommand
  BY <1>3 DEF StartPass, ReadDoorbell, ClearDoorbell, SetBit, RaiseEvent, ReadCommand
<1>4. CASE ReadArgument \/ TakeCommand \/ WriteStatus \/ EndPass
  BY <1>4 DEF ReadArgument, TakeCommand, WriteStatus, EndPass
<1>5. CASE BeginUnbind \/ Unbind \/ Bind
  BY <1>5 DEF BeginUnbind, Unbind, CancelWork, RemoveBus, FreeBars, Bind
<1> QED
  BY <1>1, <1>2, <1>3, <1>4, <1>5 DEF Next, HostThread, Handler

-----------------------------------------------------------------------------
(* Types, one group of variables at a time *)

PageTyped ==
  reg \in [command : Commands \cup {"none"}, tag : 0 .. MaxCalls,
           argument : {0, DbCount + 1}, status : {"none", "ok", "error"},
           low : Words, high : Words, sized : BOOLEAN, link : BOOLEAN]

CallsTyped ==
  /\ tpc \in [Threads -> {"idle", "low", "high", "size", "latch", "status",
                          "argument", "command", "poll", "unlock"}]
  /\ op \in [Threads -> Commands] /\ buf \in [Threads -> Buffers \cup {None}]
  /\ call \in [Threads -> 0 .. MaxCalls]
  /\ result \in [Threads -> {"none", "ok", "error", "timeout", "refused"}]
  /\ lock \in Threads \cup {None} /\ failed \in BOOLEAN
  /\ calls \in 0 .. MaxCalls /\ hostMap \subseteq Mappings

HandlerTyped ==
  /\ work \in {"off", "queued", "running"}
  /\ kpc \in {"idle", "ring", "clear", "set", "event", "command", "argument",
              "take", "serve", "status", "stopping", "queue"}
  /\ kcmd \in Commands \cup {"none"} /\ ktag \in 0 .. MaxCalls
  /\ karg \in {0, DbCount + 1} /\ kstatus \in {"none", "ok", "error"}

QueueTyped ==
  /\ tx \in {"idle", "ring"} /\ sent \in 0 .. MaxItems
  /\ queue \in BOOLEAN /\ opens \in 0 .. MaxOpens
  /\ sched \in BOOLEAN /\ tasklet \in {"idle", "drain", "check", "clear"}
  /\ items \in 0 .. MaxItems

OthersTyped ==
  /\ epfDb \in BOOLEAN /\ cardMap \in Mappings
  /\ life \in {"bound", "stopping", "cancelled", "removed", "unbound"}
  /\ unbinds \in 0 .. MaxRebinds
  /\ db \in BOOLEAN /\ dbMask \in BOOLEAN

LEMMA TypeGroups ==
  TypeOK <=> /\ PageTyped /\ CallsTyped /\ HandlerTyped /\ QueueTyped
             /\ OthersTyped /\ Rpc!TypeOK
BY DEF TypeOK, PageTyped, CallsTyped, HandlerTyped, QueueTyped, OthersTyped

\* A reset page, and a page one field of which was written.
LEMMA ResetPage ==
  ZeroPage \in [command : Commands \cup {"none"}, tag : 0 .. MaxCalls,
                argument : {0, DbCount + 1}, status : {"none", "ok", "error"},
                low : Words, high : Words, sized : BOOLEAN, link : BOOLEAN]
BY BoundsAssumption DEF ZeroPage, Words

LEMMA PageStep ==
  ASSUME TypeOK, OneCall, Locals, Next
  PROVE  PageTyped'
<1>. USE DEF PageTyped
<1>1. PageTyped /\ CallsTyped /\ HandlerTyped
  BY TypeGroups
<1>2. CASE UNCHANGED reg
  BY <1>1, <1>2
<1>3. ASSUME NEW t \in Threads, WriteAddress(t)
      PROVE  PageTyped'
  <2>1. buf[t] \in Words
    BY <1>3 DEF WriteAddress, Locals, Words
  <2> QED
    BY <1>1, <1>3, <2>1 DEF WriteAddress, HostWrites
<1>4. ASSUME NEW t \in Threads, SendCommand(t)
      PROVE  PageTyped'
  <2>1. op[t] \in Commands /\ call[t] \in 0 .. MaxCalls
    BY <1>1 DEF CallsTyped
  <2> QED
    BY <1>1, <1>4, <2>1 DEF SendCommand, HostWrites, Argument
<1>5. ASSUME NEW t \in Threads, Unlock(t)
      PROVE  PageTyped'
  BY <1>1, <1>5 DEF Unlock, HostWrites
<1>6. CASE TakeCommand
  BY <1>1, <1>6 DEF TakeCommand
<1>7. CASE Serve
  BY <1>1, <1>7 DEF Serve
<1>8. CASE WriteStatus
  BY <1>1, <1>8 DEF WriteStatus, HandlerTyped
<1>9. CASE FreeBars
  BY <1>9, ResetPage DEF FreeBars
<1> QED
  BY <1>2, <1>3, <1>4, <1>5, <1>6, <1>7, <1>8, <1>9, PageFrame

LEMMA CallsStep ==
  ASSUME TypeOK, OneCall, Locals, Next
  PROVE  CallsTyped'
<1>. USE DEF CallsTyped
<1>1. CallsTyped /\ PageTyped
  BY TypeGroups
<1>2. CASE UNCHANGED threads
  BY <1>1, <1>2
<1>3. ASSUME NEW t \in Threads, Acquire(t)
      PROVE  CallsTyped'
  <2>1. calls + 1 \in 0 .. MaxCalls
    BY <1>1, <1>3, BoundsAssumption DEF Acquire
  <2>2. op' \in [Threads -> Commands]
    BY <1>1, <1>3 DEF Acquire
  <2>3. /\ tpc' \in [Threads -> {"idle", "low", "high", "size", "latch", "status",
                                 "argument", "command", "poll", "unlock"}]
        /\ buf' \in [Threads -> Buffers \cup {None}]
    BY <1>1, <1>3 DEF Acquire, Goto
  <2> QED
    BY <1>1, <1>3, <2>1, <2>2, <2>3 DEF Acquire
<1>4. ASSUME NEW t \in Threads, WriteAddress(t) \/ SendCommand(t)
      PROVE  CallsTyped'
  BY <1>1, <1>4 DEF WriteAddress, SendCommand, Goto
<1>5. ASSUME NEW t \in Threads, CheckLatch(t)
      PROVE  CallsTyped'
  <2>1. CASE ~failed
    BY <1>1, <1>5, <2>1 DEF CheckLatch, Goto
  <2>2. CASE failed
    BY <1>1, <1>5, <2>2, BoundsAssumption DEF CheckLatch, Leave, Goto, Commands
  <2> QED
    BY <2>1, <2>2
<1>6. ASSUME NEW t \in Threads, PollStatus(t)
      PROVE  CallsTyped'
  <2>1. reg.status \in {"none", "ok", "error"}
    BY <1>1 DEF PageTyped
  <2> QED
    BY <1>1, <1>6, <2>1 DEF PollStatus, Goto
<1>7. ASSUME NEW t \in Threads, Unlock(t)
      PROVE  CallsTyped'
  <2>1. Told(t) \subseteq Mappings
    BY <1>1, <1>7 DEF Unlock, Told, Mappings, Words, Locals
  <2> QED
    BY <1>1, <1>7, <2>1, BoundsAssumption DEF Unlock, Leave, Goto, Commands
<1> QED
  BY <1>2, <1>3, <1>4, <1>5, <1>6, <1>7, CallFrame DEF HostThread

LEMMA HandlerTypeStep ==
  ASSUME TypeOK, Next
  PROVE  HandlerTyped'
<1>. USE DEF HandlerTyped
<1>1. HandlerTyped /\ PageTyped
  BY TypeGroups
<1>2. CASE UNCHANGED handler
  BY <1>1, <1>2
<1>3. CASE StartPass \/ ReadDoorbell \/ ClearDoorbell \/ SetBit \/ RaiseEvent
  BY <1>1, <1>3 DEF StartPass, ReadDoorbell, ClearDoorbell, SetBit, RaiseEvent, Step
<1>4. CASE ReadCommand
  BY <1>1, <1>4 DEF ReadCommand, Step, PageTyped
<1>5. CASE ReadArgument
  BY <1>1, <1>5 DEF ReadArgument, Step, PageTyped
<1>6. CASE TakeCommand \/ WriteStatus
  BY <1>1, <1>6 DEF TakeCommand, WriteStatus, Step
<1>7. CASE Serve
  BY <1>1, <1>7 DEF Serve, Step, ConfigureMw
<1>8. CASE EndPass
  BY <1>1, <1>8, BoundsAssumption DEF EndPass, Step
<1>9. CASE CancelWork \/ Bind
  BY <1>1, <1>9 DEF CancelWork, Bind
<1> QED
  BY <1>2, <1>3, <1>4, <1>5, <1>6, <1>7, <1>8, <1>9, HandlerFrame DEF Handler

LEMMA QueueStep ==
  ASSUME TypeOK, RingKept, Next
  PROVE  QueueTyped'
<1>. USE DEF QueueTyped
<1>1. QueueTyped /\ items <= sent
  BY TypeGroups DEF RingKept
<1>2. CASE UNCHANGED <<sender, receiver>>
  BY <1>1, <1>2
<1>3. CASE WritePacket
  BY <1>1, <1>3, BoundsAssumption DEF WritePacket
<1>4. CASE Ring
  BY <1>1, <1>4 DEF Ring
<1>5. CASE RaiseEvent
  BY <1>1, <1>5 DEF RaiseEvent
<1>6. CASE OpenQueue
  BY <1>1, <1>6, BoundsAssumption DEF OpenQueue
<1>7. CASE CloseQueue
  <2>1. 0 \in 0 .. MaxItems
    BY BoundsAssumption
  <2> QED
    BY <1>1, <1>7, <2>1 DEF CloseQueue
<1>8. CASE RunTasklet
  <2>1. items > 0 => items - 1 \in 0 .. MaxItems
    BY <1>1, BoundsAssumption
  <2> QED
    BY <1>1, <1>8, <2>1 DEF RunTasklet
<1> QED
  BY <1>2, <1>3, <1>4, <1>5, <1>6, <1>7, <1>8, QueueFrame

LEMMA OthersStep ==
  ASSUME TypeOK, Next
  PROVE  OthersTyped'
<1>1. OthersTyped /\ PageTyped
  BY TypeGroups
<1>2. (epfDb \in BOOLEAN)'
  BY <1>1, RingFrame DEF Ring, ClearDoorbell, FreeBars, OthersTyped
<1>3. (cardMap \in Mappings)'
  <2>1. CASE UNCHANGED cardMap
    BY <1>1, <2>1 DEF OthersTyped, Mappings
  <2>2. CASE Serve
    <3>1. <<reg.low, reg.high>> \in Mappings /\ None \in Mappings
      BY <1>1 DEF PageTyped, Mappings
    <3>2. cardMap' \in {cardMap, <<reg.low, reg.high>>, None}
      BY <2>2 DEF Serve, ConfigureMw
    <3> QED
      BY <1>1, <3>1, <3>2 DEF OthersTyped, Mappings, Words
  <2>3. CASE FreeBars
    BY <2>3 DEF FreeBars, Mappings
  <2> QED
    BY <2>1, <2>2, <2>3, WindowFrame
<1>4. /\ life' \in {"bound", "stopping", "cancelled", "removed", "unbound"}
      /\ unbinds' \in 0 .. MaxRebinds
  <2>1. CASE BeginUnbind
    <3>1. unbinds + 1 \in 0 .. MaxRebinds
      BY <1>1, <2>1, BoundsAssumption DEF OthersTyped, BeginUnbind
    <3> QED
      BY <2>1, <3>1 DEF BeginUnbind
  <2>2. CASE UNCHANGED bind
    BY <1>1, <2>2 DEF OthersTyped
  <2>3. CASE Unbind \/ Bind
    BY <1>1, <2>3 DEF OthersTyped, Unbind, CancelWork, RemoveBus, FreeBars, Bind
  <2> QED
    BY <2>1, <2>2, <2>3, LifeFrame
<1>5. db' \in BOOLEAN /\ dbMask' \in BOOLEAN
  BY <1>1, DoorbellFrame DEF OthersTyped, SetBit, OpenQueue, CloseQueue, RunTasklet, Bind
<1> QED
  BY <1>2, <1>3, <1>4, <1>5 DEF OthersTyped

LEMMA HistoryStep ==
  ASSUME TypeOK, OneCall, Next
  PROVE  Rpc!TypeOK'
<1>. USE DEF Rpc!TypeOK, Rpc!Calls, Rpc!Verdicts
<1>1. Rpc!TypeOK /\ CallsTyped
  BY TypeGroups
<1>2. CASE UNCHANGED history
  BY <1>1, <1>2
<1>3. ASSUME NEW t \in Threads, Acquire(t)
      PROVE  Rpc!TypeOK'
  BY <1>1, <1>3 DEF Acquire
<1>4. ASSUME NEW t \in Threads, CheckLatch(t)
      PROVE  Rpc!TypeOK'
  BY <1>1, <1>4 DEF CheckLatch, Leave
<1>5. ASSUME NEW t \in Threads, Unlock(t)
      PROVE  Rpc!TypeOK'
  <2>1. result[t] \in {"ok", "error", "timeout"}
    BY <1>5 DEF Unlock, OneCall
  <2> QED
    BY <1>1, <1>5, <2>1 DEF Unlock, Leave
<1>6. CASE Serve
  <2>1. kstatus' \in {"ok", "error"}
    BY <1>6 DEF Serve, ConfigureMw
  <2> QED
    BY <1>1, <1>6, <2>1 DEF Serve
<1> QED
  BY <1>2, <1>3, <1>4, <1>5, <1>6, HistoryFrame

LEMMA TypeStep ==
  ASSUME TypeOK, OneCall, Locals, RingKept, Next
  PROVE  TypeOK'
<1>1. /\ PageTyped' /\ CallsTyped' /\ HandlerTyped'
      /\ QueueTyped' /\ OthersTyped' /\ Rpc!TypeOK'
  BY PageStep, CallsStep, HandlerTypeStep, QueueStep, OthersStep, HistoryStep
<1> QED
  BY <1>1
  DEF TypeOK, PageTyped, CallsTyped, HandlerTyped, QueueTyped, OthersTyped

-----------------------------------------------------------------------------
(* The life of the card function, and the doorbell *)

\* A step of the handler that is not the start or the end of a pass happens in
\* a pass and leaves the work running.
LEMMA InPass ==
  ASSUME \/ ReadDoorbell \/ ClearDoorbell \/ SetBit \/ RaiseEvent \/ ReadCommand
         \/ ReadArgument \/ TakeCommand \/ Serve \/ WriteStatus
  PROVE  /\ work = "running" /\ UNCHANGED <<work, bind>>
         /\ kpc' \in {"clear", "set", "event", "command", "argument", "take",
                      "serve", "status", "stopping"}
<1>1. CASE ReadDoorbell \/ ClearDoorbell \/ SetBit \/ RaiseEvent
  BY <1>1 DEF ReadDoorbell, ClearDoorbell, SetBit, RaiseEvent, Step
<1>2. CASE ReadCommand \/ ReadArgument \/ TakeCommand
  BY <1>2 DEF ReadCommand, ReadArgument, TakeCommand, Step
<1>3. CASE Serve \/ WriteStatus
  BY <1>3 DEF Serve, WriteStatus, Step
<1> QED
  BY <1>1, <1>2, <1>3

\* A page that is gone is not written.
LEMMA GonePage ==
  ASSUME LifeCycle, life = "unbound", Next
  PROVE  UNCHANGED reg
<1>1. ~Serve /\ ~TakeCommand /\ ~WriteStatus
  BY InPass DEF LifeCycle
<1>2. ~FreeBars
  BY DEF FreeBars
<1>3. ASSUME NEW t \in Threads, WriteAddress(t) \/ SendCommand(t) \/ Unlock(t)
      PROVE  UNCHANGED reg
  BY <1>3 DEF WriteAddress, SendCommand, Unlock, HostWrites
<1> QED
  BY <1>1, <1>2, <1>3, PageFrame

LEMMA LifeStep ==
  ASSUME TypeOK, LifeCycle, Next
  PROVE  LifeCycle'
<1>1. OthersTyped /\ HandlerTyped
  BY TypeGroups
<1>2. (work = "running" <=> kpc # "idle")'
  <2>1. CASE UNCHANGED handler
    BY <2>1 DEF LifeCycle
  <2>2. CASE StartPass
    BY <2>2 DEF StartPass, LifeCycle
  <2>3. CASE EndPass
    BY <2>3 DEF EndPass, Step, LifeCycle
  <2>4. CASE CancelWork
    BY <2>4 DEF CancelWork, LifeCycle
  <2>5. CASE Bind
    BY <2>5 DEF Bind, LifeCycle
  <2> QED
    BY <2>1, <2>2, <2>3, <2>4, <2>5, InPass, HandlerFrame DEF Handler
<1>3. (life \in {"cancelled", "removed", "unbound"} => work = "off")'
  <2>1. CASE UNCHANGED <<handler, bind>>
    BY <2>1 DEF LifeCycle
  <2>2. CASE StartPass
    BY <2>2 DEF StartPass, LifeCycle
  <2>3. CASE EndPass
    BY <2>3 DEF EndPass, Step, LifeCycle
  <2>4. CASE BeginUnbind
    BY <2>4 DEF BeginUnbind
  <2>5. CASE Unbind
    BY <2>5 DEF Unbind, CancelWork, RemoveBus, FreeBars, LifeCycle
  <2>6. CASE Bind
    BY <2>6 DEF Bind
  <2>7. CASE Handler
    BY <2>2, <2>3, <2>7, InPass DEF Handler, LifeCycle
  <2> QED
    BY <2>1, <2>4, <2>5, <2>6, <2>7, HandlerFrame, LifeFrame DEF Unbind
<1>4. (life \in {"removed", "unbound"} => ~queue)'
  <2>1. CASE queue' = queue
    BY <2>1, LifeFrame
    DEF BeginUnbind, Unbind, CancelWork, RemoveBus, FreeBars, Bind, LifeCycle
  <2>2. CASE OpenQueue
    BY <2>2 DEF OpenQueue
  <2>3. CASE CloseQueue
    BY <2>3 DEF CloseQueue
  <2> QED
    BY <2>1, <2>2, <2>3, QueueFrame DEF WritePacket, Ring, RaiseEvent, RunTasklet
<1>5. (life = "unbound" => reg = ZeroPage /\ cardMap = None)'
  <2>1. CASE life = "unbound"
    BY <2>1, InPass, GonePage, WindowFrame DEF LifeCycle, FreeBars
  <2>2. CASE life # "unbound"
    BY <2>2, LifeFrame DEF BeginUnbind, Unbind, CancelWork, RemoveBus, FreeBars, Bind
  <2> QED
    BY <2>1, <2>2
<1>6. (life # "bound" => unbinds > 0)'
  <2>1. CASE BeginUnbind
    BY <1>1, <2>1, BoundsAssumption DEF BeginUnbind, OthersTyped
  <2> QED
    BY <2>1, LifeFrame DEF Unbind, CancelWork, RemoveBus, FreeBars, Bind, LifeCycle
<1> QED
  BY <1>2, <1>3, <1>4, <1>5, <1>6 DEF LifeCycle

\* Only a packet fills an open queue, and it is followed by its ring.
LEMMA RingStep ==
  ASSUME TypeOK, LifeCycle, RingKept, Next
  PROVE  RingKept'
<1>1. QueueTyped /\ OthersTyped
  BY TypeGroups
<1>2. (items <= sent)' /\ (~queue => items = 0)'
  <2>1. CASE WritePacket
    BY <1>1, <2>1, BoundsAssumption DEF WritePacket, QueueTyped, RingKept
  <2>2. CASE CloseQueue
    BY <1>1, <2>2, BoundsAssumption DEF CloseQueue, QueueTyped, RingKept
  <2>3. CASE RunTasklet
    BY <1>1, <2>3, BoundsAssumption DEF RunTasklet, QueueTyped, RingKept
  <2>4. CASE Ring \/ RaiseEvent \/ OpenQueue
    BY <2>4 DEF Ring, RaiseEvent, OpenQueue, RingKept
  <2> QED
    BY <2>1, <2>2, <2>3, <2>4, QueueFrame DEF RingKept
<1>3. NoLostRing'
  <2> USE DEF NoLostRing
  <2>1. NoLostRing /\ (~queue => items = 0)
    BY DEF RingKept
  <2>2. CASE \E t \in Threads : Acquire(t) \/ HostThread(t)
    <3>1. UNCHANGED <<epfDb, sender, handler, doorbell, bind, receiver>>
      BY <2>2
      DEF Acquire, HostThread, WriteAddress, CheckLatch, SendCommand, PollStatus, Unlock
    <3> QED
      BY <2>1, <3>1
  <2>3. CASE WritePacket
    BY <2>3 DEF WritePacket
  <2>4. CASE Ring
    BY <2>4 DEF Ring
  <2>5. CASE StartPass \/ ReadDoorbell \/ ClearDoorbell \/ SetBit \/ RaiseEvent
    BY <2>1, <2>5 DEF StartPass, ReadDoorbell, ClearDoorbell, SetBit, RaiseEvent, Step
  <2>6. CASE ReadCommand \/ ReadArgument \/ TakeCommand
    BY <2>1, <2>6 DEF ReadCommand, ReadArgument, TakeCommand, Step
  <2>7. CASE Serve \/ WriteStatus \/ EndPass
    BY <2>1, <2>7 DEF Serve, WriteStatus, EndPass, Step
  <2>8. CASE OpenQueue
    BY <1>1, <2>1, <2>8 DEF OpenQueue, QueueTyped
  <2>9. CASE CloseQueue
    BY <2>9 DEF CloseQueue
  <2>10. CASE RunTasklet
    BY <1>1, <2>1, <2>10 DEF RunTasklet, QueueTyped
  <2>11. CASE BeginUnbind \/ Unbind
    BY <2>11 DEF BeginUnbind, Unbind, CancelWork, RemoveBus, FreeBars
  <2>12. CASE Bind
    BY <2>12 DEF Bind, LifeCycle
  <2> QED
    BY <2>2, <2>3, <2>4, <2>5, <2>6, <2>7, <2>8, <2>9, <2>10, <2>11, <2>12
    DEF Next, Handler
<1> QED
  BY <1>2, <1>3 DEF RingKept

-----------------------------------------------------------------------------
(* The callers *)

\* Nobody is in a call when the lock is free.
LEMMA Holder ==
  ASSUME OneCall, NEW t \in Threads, tpc[t] # "idle"
  PROVE  /\ lock = t /\ lock # None /\ call[t] = calls /\ calls > 0
         /\ \A u \in Threads : tpc[u] # "idle" => u = t
BY NoneAssumption DEF OneCall

\* What a step of a call does to the program counters.
LEMMA Counters ==
  ASSUME TypeOK, NEW t \in Threads, Acquire(t) \/ HostThread(t)
  PROVE  /\ tpc' = [tpc EXCEPT ![t] = tpc'[t]]
         /\ Acquire(t) \/ tpc[t] # "idle"
         /\ tpc'[t] = "idle" => Unlock(t) \/ (CheckLatch(t) /\ failed)
<1>1. tpc \in [Threads -> {"idle", "low", "high", "size", "latch", "status",
                           "argument", "command", "poll", "unlock"}]
  BY DEF TypeOK
<1>2. CASE Acquire(t)
  BY <1>1, <1>2 DEF Acquire, Goto
<1>3. CASE WriteAddress(t)
  BY <1>1, <1>3 DEF WriteAddress, Goto
<1>4. CASE CheckLatch(t)
  BY <1>1, <1>4 DEF CheckLatch, Leave, Goto
<1>5. CASE SendCommand(t)
  BY <1>1, <1>5 DEF SendCommand, Goto
<1>6. CASE PollStatus(t)
  BY <1>1, <1>6 DEF PollStatus, Goto
<1>7. CASE Unlock(t)
  BY <1>1, <1>7 DEF Unlock, Leave, Goto
<1> QED
  BY <1>2, <1>3, <1>4, <1>5, <1>6, <1>7 DEF HostThread

\* A call that goes on keeps lock, number, request and its answer open.
LEMMA GoesOn ==
  ASSUME TypeOK, NEW t \in Threads,
         WriteAddress(t) \/ SendCommand(t) \/ PollStatus(t) \/ (CheckLatch(t) /\ ~failed)
  PROVE  /\ tpc[t] # "idle" /\ tpc'[t] # "idle"
         /\ UNCHANGED <<op, buf, call, lock, calls, hostMap, history>>
<1>1. tpc \in [Threads -> {"idle", "low", "high", "size", "latch", "status",
                           "argument", "command", "poll", "unlock"}]
  BY DEF TypeOK
<1>2. CASE WriteAddress(t)
  BY <1>1, <1>2 DEF WriteAddress, Goto
<1>3. CASE SendCommand(t)
  BY <1>1, <1>3 DEF SendCommand, Goto
<1>4. CASE PollStatus(t)
  BY <1>1, <1>4 DEF PollStatus, Goto
<1>5. CASE CheckLatch(t) /\ ~failed
  BY <1>1, <1>5 DEF CheckLatch, Goto
<1> QED
  BY <1>2, <1>3, <1>4, <1>5

\* A call that begins, and one that returns.
LEMMA Begun ==
  ASSUME TypeOK, OneCall, NEW t \in Threads, Acquire(t)
  PROVE  /\ lock = None /\ lock' = t /\ calls' = calls + 1 /\ calls + 1 \in 1 .. MaxCalls
         /\ call' = [call EXCEPT ![t] = calls + 1]
         /\ answer' = [answer EXCEPT ![calls + 1] = "waiting"]
         /\ answer[calls + 1] = "none"
         /\ UNCHANGED <<memory, result, failed, hostMap, handler, window, bind, served>>
         /\ tpc' = [tpc EXCEPT ![t] = tpc'[t]] /\ tpc'[t] \in {"low", "latch"}
         /\ \A u \in Threads : tpc[u] = "idle"
<1>1. CallsTyped
  BY TypeGroups
<1>2. /\ lock = None /\ lock' = t /\ calls' = calls + 1 /\ calls + 1 \in 1 .. MaxCalls
      /\ call' = [call EXCEPT ![t] = calls + 1]
      /\ answer' = [answer EXCEPT ![calls + 1] = "waiting"]
      /\ UNCHANGED <<memory, result, failed, hostMap, handler, window, bind, served>>
  BY <1>1, BoundsAssumption DEF Acquire, CallsTyped
<1>3. tpc' = [tpc EXCEPT ![t] = tpc'[t]] /\ tpc'[t] \in {"low", "latch"}
  BY <1>1 DEF Acquire, Goto, CallsTyped
<1>4. \A u \in Threads : tpc[u] = "idle"
  BY <1>2, NoneAssumption DEF OneCall
<1>5. answer[calls + 1] = "none"
  BY <1>1, <1>2 DEF OneCall, CallsTyped
<1> QED
  BY <1>2, <1>3, <1>4, <1>5

LEMMA Left ==
  ASSUME TypeOK, OneCall, NEW t \in Threads, tpc[t] # "idle", NEW o, Leave(t, o)
  PROVE  /\ \A u \in Threads : tpc'[u] = "idle"
         /\ lock' = None /\ answer[calls] = "waiting" /\ calls \in 1 .. MaxCalls
         /\ answer' = [answer EXCEPT ![calls] = o]
<1>1. CallsTyped
  BY TypeGroups
<1>2. /\ lock = t /\ lock # None /\ call[t] = calls /\ calls > 0
      /\ \A u \in Threads : tpc[u] # "idle" => u = t
  BY Holder
<1>3. \A u \in Threads : tpc'[u] = "idle"
  BY <1>1, <1>2 DEF Leave, Goto, CallsTyped
<1>4. calls \in 1 .. MaxCalls
  BY <1>1, <1>2 DEF CallsTyped
<1>5. answer[calls] = "waiting"
  BY <1>2, <1>4 DEF OneCall
<1> QED
  BY <1>2, <1>3, <1>4, <1>5 DEF Leave

LEMMA OneCallStep ==
  ASSUME TypeOK, OneCall, Next
  PROVE  OneCall'
<1>1. CallsTyped /\ PageTyped /\ Rpc!TypeOK
  BY TypeGroups
<1>2. answer' = answer \/ \E t \in Threads : Acquire(t) \/ CheckLatch(t) \/ Unlock(t)
  BY HistoryFrame DEF Serve
<1>3. CASE UNCHANGED <<threads, answer>>
  BY <1>3 DEF OneCall
<1>4. ASSUME NEW t \in Threads, Acquire(t)
      PROVE  OneCall'
  <2>1. /\ lock = None /\ lock' = t /\ calls' = calls + 1 /\ calls + 1 \in 1 .. MaxCalls
        /\ call' = [call EXCEPT ![t] = calls + 1]
        /\ answer' = [answer EXCEPT ![calls + 1] = "waiting"]
        /\ result' = result
        /\ tpc' = [tpc EXCEPT ![t] = tpc'[t]] /\ tpc'[t] \in {"low", "latch"}
        /\ \A u \in Threads : tpc[u] = "idle"
    BY <1>4, Begun
  <2>4. (\A u \in Threads : tpc[u] # "idle" <=> lock = u)'
    BY <1>1, <2>1 DEF CallsTyped
  <2>5. (\A u \in Threads : lock = u => call[u] = calls /\ calls > 0)'
    BY <1>1, <2>1 DEF CallsTyped
  <2>6. (\A u \in Threads : tpc[u] = "unlock" => result[u] \in {"ok", "error", "timeout"})'
    BY <1>1, <2>1 DEF CallsTyped
  <2>7. (\A c \in 1 .. MaxCalls : /\ answer[c] = "none" <=> c > calls
                                  /\ answer[c] = "waiting" <=> c = calls /\ lock # None)'
    BY <1>1, <2>1, NoneAssumption, BoundsAssumption
    DEF OneCall, Rpc!TypeOK, Rpc!Calls, CallsTyped
  <2> QED
    BY <2>4, <2>5, <2>6, <2>7 DEF OneCall
<1>5. ASSUME NEW t \in Threads,
             WriteAddress(t) \/ SendCommand(t) \/ PollStatus(t) \/ (CheckLatch(t) /\ ~failed)
      PROVE  OneCall'
  <2>1. /\ tpc[t] # "idle" /\ tpc'[t] # "idle"
        /\ UNCHANGED <<call, lock, calls, answer>>
    BY <1>5, GoesOn
  <2>2. tpc' = [tpc EXCEPT ![t] = tpc'[t]]
    BY <1>5, Counters DEF HostThread
  <2>3. (\A u \in Threads : tpc[u] # "idle" <=> lock = u)'
    BY <1>1, <2>1, <2>2 DEF OneCall, CallsTyped
  <2>4. (\A u \in Threads : tpc[u] = "unlock" => result[u] \in {"ok", "error", "timeout"})'
    <3>1. CASE PollStatus(t)
      BY <1>1, <2>2, <3>1 DEF PollStatus, OneCall, CallsTyped, PageTyped
    <3>2. CASE WriteAddress(t) \/ SendCommand(t)
      BY <1>1, <3>2 DEF WriteAddress, SendCommand, Goto, OneCall, CallsTyped
    <3>3. CASE CheckLatch(t) /\ ~failed
      BY <1>1, <3>3 DEF CheckLatch, Goto, OneCall, CallsTyped
    <3> QED
      BY <1>5, <3>1, <3>2, <3>3
  <2> QED
    BY <2>1, <2>3, <2>4 DEF OneCall
<1>6. ASSUME NEW t \in Threads, Unlock(t) \/ (CheckLatch(t) /\ failed)
      PROVE  OneCall'
  <2>1. PICK o \in {"ok", "error", "timeout", "refused"} : Leave(t, o)
    BY <1>6 DEF Unlock, CheckLatch, OneCall
  <2>2. tpc[t] # "idle" /\ calls' = calls
    BY <1>6 DEF Unlock, CheckLatch
  <2>3. /\ \A u \in Threads : tpc'[u] = "idle"
        /\ lock' = None /\ answer[calls] = "waiting" /\ calls \in 1 .. MaxCalls
        /\ answer' = [answer EXCEPT ![calls] = o]
    BY <2>1, <2>2, Left
  <2>6. (\A c \in 1 .. MaxCalls : /\ answer[c] = "none" <=> c > calls
                                  /\ answer[c] = "waiting" <=> c = calls /\ lock # None)'
    BY <1>1, <2>2, <2>3 DEF OneCall, Rpc!TypeOK, Rpc!Calls, CallsTyped
  <2> QED
    BY <2>3, <2>6, NoneAssumption DEF OneCall
<1> QED
  BY <1>2, <1>3, <1>4, <1>5, <1>6, CallFrame DEF HostThread

LEMMA LocalsStep ==
  ASSUME TypeOK, OneCall, Locals, Next
  PROVE  Locals'
<1>1. CallsTyped
  BY TypeGroups
<1>2. CASE UNCHANGED threads
  BY <1>2 DEF Locals
<1>3. ASSUME NEW t \in Threads, Acquire(t)
      PROVE  Locals'
  <2>1. PICK c \in Commands :
          /\ op' = [op EXCEPT ![t] = c]
          /\ IF c = "CONFIGURE_MW"
               THEN Goto(t, "low") /\ \E b \in Buffers : buf' = [buf EXCEPT ![t] = b]
               ELSE Goto(t, "latch") /\ UNCHANGED buf
    BY <1>3 DEF Acquire
  <2>2. CASE c = "CONFIGURE_MW"
    BY <1>1, <2>1, <2>2 DEF Goto, Locals, CallsTyped
  <2>3. CASE c # "CONFIGURE_MW"
    BY <1>1, <2>1, <2>3 DEF Goto, Locals, CallsTyped
  <2> QED
    BY <2>2, <2>3
<1>4. ASSUME NEW t \in Threads, WriteAddress(t)
      PROVE  Locals'
  BY <1>1, <1>4 DEF WriteAddress, Goto, Locals, CallsTyped
<1>5. ASSUME NEW t \in Threads, (CheckLatch(t) /\ ~failed) \/ SendCommand(t) \/ PollStatus(t)
      PROVE  Locals'
  BY <1>1, <1>5 DEF CheckLatch, SendCommand, PollStatus, Goto, Locals, CallsTyped
<1>6. ASSUME NEW t \in Threads, Unlock(t) \/ (CheckLatch(t) /\ failed)
      PROVE  Locals'
  BY <1>1, <1>6 DEF Unlock, CheckLatch, Leave, Goto, Locals, CallsTyped
<1> QED
  BY <1>2, <1>3, <1>4, <1>5, <1>6, CallFrame DEF HostThread

LEMMA LatchedStep ==
  ASSUME TypeOK, OneCall, Latched, Next
  PROVE  Latched'
<1>1. CallsTyped /\ PageTyped /\ Rpc!TypeOK
  BY TypeGroups
<1>2. answer' = answer \/ \E t \in Threads : Acquire(t) \/ CheckLatch(t) \/ Unlock(t)
  BY HistoryFrame DEF Serve
<1>3. CASE UNCHANGED <<threads, answer>>
  BY <1>3 DEF Latched, GivenUp
<1>4. ASSUME NEW t \in Threads, Acquire(t)
      PROVE  Latched'
  <2>1. /\ lock = None /\ calls + 1 \in 1 .. MaxCalls
        /\ answer' = [answer EXCEPT ![calls + 1] = "waiting"] /\ answer[calls + 1] = "none"
        /\ failed' = failed
        /\ tpc' = [tpc EXCEPT ![t] = tpc'[t]] /\ tpc'[t] \in {"low", "latch"}
        /\ \A u \in Threads : tpc[u] = "idle"
    BY <1>4, Begun
  <2>2. \A u \in Threads : tpc'[u] \in {"idle", "low", "latch"}
    BY <1>1, <2>1 DEF CallsTyped
  <2>3. \A c \in 1 .. MaxCalls : answer'[c] = "timeout" <=> answer[c] = "timeout"
    BY <1>1, <2>1 DEF Rpc!TypeOK, Rpc!Calls
  <2>4. \A u \in Threads : ~GivenUp(u) /\ ~GivenUp(u)'
    BY <2>1, <2>2 DEF GivenUp
  <2> QED
    BY <2>1, <2>2, <2>3, <2>4 DEF Latched, Sending
<1>5. ASSUME NEW t \in Threads, WriteAddress(t) \/ SendCommand(t)
      PROVE  Latched'
  <2>1. UNCHANGED <<lock, answer, failed, result>>
    BY <1>5 DEF WriteAddress, SendCommand
  <2>2. /\ tpc[t] # "unlock" /\ tpc'[t] # "unlock"
        /\ tpc'[t] \in Sending => tpc[t] \in Sending
        /\ tpc' = [tpc EXCEPT ![t] = tpc'[t]]
    BY <1>1, <1>5 DEF WriteAddress, SendCommand, Goto, Sending, CallsTyped
  <2>3. \A u \in Threads : /\ GivenUp(u)' <=> GivenUp(u)
                           /\ tpc'[u] \in Sending => tpc[u] \in Sending
    BY <1>1, <2>1, <2>2 DEF GivenUp, CallsTyped
  <2> QED
    BY <2>1, <2>3 DEF Latched
<1>6. ASSUME NEW t \in Threads, CheckLatch(t), ~failed
      PROVE  Latched'
  <2>1. UNCHANGED <<lock, answer, failed, result>>
    BY <1>6 DEF CheckLatch
  <2>2. /\ tpc[t] = "latch" /\ tpc'[t] = "status"
        /\ tpc' = [tpc EXCEPT ![t] = tpc'[t]]
    BY <1>1, <1>6 DEF CheckLatch, Goto, CallsTyped
  <2>3. \A u \in Threads : GivenUp(u)' <=> GivenUp(u)
    BY <1>1, <2>1, <2>2 DEF GivenUp, CallsTyped
  <2> QED
    BY <1>6, <2>1, <2>3 DEF Latched
<1>7. ASSUME NEW t \in Threads, PollStatus(t)
      PROVE  Latched'
  <2>1. tpc[t] = "poll" /\ UNCHANGED <<lock, answer>>
    BY <1>7 DEF PollStatus
  <2>2. ~failed /\ \A c \in 1 .. MaxCalls : answer[c] # "timeout"
    BY <2>1 DEF Latched, Sending, GivenUp
  <2>3. lock = t /\ \A u \in Threads : tpc[u] # "idle" => u = t
    BY <2>1, Holder
  <2>4. tpc'[t] = "unlock" /\ \A u \in Threads : u # t => tpc'[u] = "idle"
    BY <1>1, <1>7, <2>3 DEF PollStatus, Goto, CallsTyped
  <2>5. failed' <=> result'[t] = "timeout"
    BY <1>1, <1>7, <2>2 DEF PollStatus, CallsTyped, PageTyped
  <2>6. \A u \in Threads : GivenUp(u)' <=> u = t /\ failed'
    BY <2>1, <2>3, <2>4, <2>5 DEF GivenUp
  <2> QED
    BY <2>1, <2>2, <2>4, <2>6 DEF Latched, Sending
<1>8. ASSUME NEW t \in Threads, Unlock(t) \/ (CheckLatch(t) /\ failed)
      PROVE  Latched'
  <2>1. PICK o : /\ Leave(t, o) /\ (o = "timeout" <=> GivenUp(t))
                 /\ Unlock(t) \/ (failed /\ o # "timeout")
    <3>1. lock = t
      BY <1>8, Holder DEF Unlock, CheckLatch
    <3>2. CASE Unlock(t)
      BY <3>1, <3>2 DEF Unlock, GivenUp
    <3>3. CASE CheckLatch(t) /\ failed
      BY <3>3 DEF CheckLatch, GivenUp
    <3> QED
      BY <1>8, <3>2, <3>3
  <2>2. tpc[t] # "idle" /\ failed' = failed
    BY <1>8 DEF Unlock, CheckLatch
  <2>3. /\ \A u \in Threads : tpc'[u] = "idle"
        /\ answer[calls] = "waiting" /\ calls \in 1 .. MaxCalls
        /\ answer' = [answer EXCEPT ![calls] = o]
    BY <2>1, <2>2, Left
  <2>4. \A u \in Threads : ~GivenUp(u)' /\ (GivenUp(u) => u = t)
    BY <2>2, <2>3, Holder DEF GivenUp
  <2>5. o = "timeout" => \A c \in 1 .. MaxCalls : answer[c] # "timeout"
    BY <2>1 DEF Latched, GivenUp, Sending
  <2>6. \A c \in 1 .. MaxCalls :
          answer'[c] = "timeout" <=> answer[c] = "timeout" \/ (c = calls /\ o = "timeout")
    BY <1>1, <2>3 DEF Rpc!TypeOK, Rpc!Calls
  <2> QED
    BY <2>1, <2>2, <2>3, <2>4, <2>5, <2>6 DEF Latched, Sending
<1> QED
  BY <1>2, <1>3, <1>4, <1>5, <1>6, <1>7, <1>8, CallFrame DEF HostThread

-----------------------------------------------------------------------------
(* The command under way and its answer *)

\* How a step changes the command on the page, its status, and the command the
\* handler has in hand.
LEMMA PageCommand ==
  ASSUME TypeOK, OneCall, Next
  PROVE  \/ UNCHANGED <<reg.command, reg.tag>>
         \/ reg'.command = "none"
         \/ \E t \in Threads : /\ SendCommand(t) /\ tpc[t] = "command"
                               /\ reg'.command = op[t] /\ reg'.tag = calls
                               /\ tpc'[t] = "poll"
<1>1. PageTyped /\ CallsTyped
  BY TypeGroups
<1>2. CASE UNCHANGED reg
  BY <1>2
<1>3. ASSUME NEW t \in Threads, WriteAddress(t) \/ Unlock(t)
      PROVE  UNCHANGED <<reg.command, reg.tag>>
  BY <1>1, <1>3 DEF WriteAddress, Unlock, HostWrites, PageTyped
<1>4. ASSUME NEW t \in Threads, SendCommand(t)
      PROVE  \/ UNCHANGED <<reg.command, reg.tag>>
             \/ /\ SendCommand(t) /\ tpc[t] = "command"
                /\ reg'.command = op[t] /\ reg'.tag = calls
                /\ tpc'[t] = "poll"
  <2>1. tpc[t] = "command" => call[t] = calls
    BY Holder
  <2> QED
    BY <1>1, <1>4, <2>1 DEF SendCommand, Goto, HostWrites, PageTyped, CallsTyped
<1>5. CASE TakeCommand
  BY <1>1, <1>5 DEF TakeCommand, PageTyped
<1>6. CASE Serve
  BY <1>1, <1>6 DEF Serve, PageTyped
<1>7. CASE WriteStatus
  BY <1>1, <1>7 DEF WriteStatus, PageTyped
<1>8. CASE FreeBars
  BY <1>8 DEF FreeBars, ZeroPage
<1> QED
  BY <1>2, <1>3, <1>4, <1>5, <1>6, <1>7, <1>8, PageFrame

LEMMA PageStatus ==
  ASSUME TypeOK, Next
  PROVE  \/ reg'.status \in {reg.status, "none"}
         \/ WriteStatus /\ reg'.status = kstatus
<1>1. PageTyped
  BY TypeGroups
<1>2. ASSUME NEW t \in Threads, WriteAddress(t) \/ SendCommand(t) \/ Unlock(t)
      PROVE  reg'.status \in {reg.status, "none"}
  BY <1>1, <1>2 DEF WriteAddress, SendCommand, Unlock, HostWrites, PageTyped
<1>3. CASE TakeCommand
  BY <1>1, <1>3 DEF TakeCommand, PageTyped
<1>4. CASE Serve
  BY <1>1, <1>4 DEF Serve, PageTyped
<1>5. CASE WriteStatus
  BY <1>1, <1>5 DEF WriteStatus, PageTyped
<1>6. CASE FreeBars
  BY <1>6 DEF FreeBars, ZeroPage
<1> QED
  BY <1>2, <1>3, <1>4, <1>5, <1>6, PageFrame

LEMMA InHand ==
  ASSUME Next
  PROVE  \/ UNCHANGED <<kpc, kcmd, ktag, kstatus>>
         \/ ReadCommand \/ ReadArgument \/ TakeCommand \/ Serve
         \/ kpc' \notin {"argument", "take", "serve", "status"}
<1>1. CASE StartPass \/ ReadDoorbell \/ ClearDoorbell \/ SetBit \/ RaiseEvent
  BY <1>1 DEF StartPass, ReadDoorbell, ClearDoorbell, SetBit, RaiseEvent, Step
<1>2. CASE WriteStatus \/ EndPass
  BY <1>2 DEF WriteStatus, EndPass, Step
<1>3. CASE CancelWork \/ Bind
  BY <1>3 DEF CancelWork, Bind
<1> QED
  BY <1>1, <1>2, <1>3, HandlerFrame DEF Handler

\* An open call is the one that was given up, or the one that is polled for.
LEMMA OpenCall ==
  ASSUME TypeOK, OneCall, Latched, NEW c, Open(c)
  PROVE  /\ c \in 1 .. calls /\ c \in 1 .. MaxCalls
         /\ \A t \in Threads : tpc[t] # "idle" =>
              \/ answer[c] = "timeout" /\ tpc[t] \notin Sending
              \/ c = calls /\ (tpc[t] = "poll" \/ GivenUp(t))
         /\ ~failed => c = calls /\ \E t \in Threads : tpc[t] = "poll"
<1>1. c \in 1 .. calls /\ c \in 1 .. MaxCalls
  BY TypeGroups, BoundsAssumption DEF Open, CallsTyped
<1>2. ASSUME NEW t \in Threads, tpc[t] # "idle"
      PROVE  \/ answer[c] = "timeout" /\ tpc[t] \notin Sending
             \/ c = calls /\ (tpc[t] = "poll" \/ GivenUp(t))
  <2>1. \A u \in Threads : tpc[u] # "idle" => u = t
    BY <1>2, Holder
  <2>2. CASE answer[c] = "timeout"
    BY <1>1, <2>2 DEF Latched
  <2>3. CASE c = calls /\ \E u \in Threads : tpc[u] = "poll" \/ GivenUp(u)
    BY <2>1, <2>3 DEF GivenUp
  <2> QED
    BY <2>2, <2>3 DEF Open
<1>3. ~failed => c = calls /\ \E t \in Threads : tpc[t] = "poll"
  BY <1>1 DEF Open, Latched
<1> QED
  BY <1>1, <1>2, <1>3

\* A call stays open as long as its command is not served or its status is not
\* on the page.
LEMMA OpenKept ==
  ASSUME TypeOK, OneCall, Latched, OneAnswer, Next,
         NEW c, Open(c), served[c] = "none" \/ kpc = "status"
  PROVE  Open(c)'
<1>1. CallsTyped /\ Rpc!TypeOK
  BY TypeGroups
<1>2. c \in 1 .. calls /\ c \in 1 .. MaxCalls
  BY OpenCall
<1>3. answer' = answer \/ \E t \in Threads : Acquire(t) \/ CheckLatch(t) \/ Unlock(t)
  BY HistoryFrame DEF Serve
<1>4. CASE UNCHANGED <<threads, answer>>
  BY <1>4 DEF Open, GivenUp
<1>5. ASSUME NEW t \in Threads, Acquire(t)
      PROVE  Open(c)'
  <2>1. /\ lock = None /\ calls' = calls + 1 /\ calls + 1 \in 1 .. MaxCalls
        /\ answer' = [answer EXCEPT ![calls + 1] = "waiting"] /\ answer[calls + 1] = "none"
        /\ \A u \in Threads : tpc[u] = "idle"
    BY <1>5, Begun
  <2>2. answer[c] = "timeout"
    BY <2>1 DEF Open, GivenUp
  <2>3. answer'[c] = "timeout"
    BY <1>1, <1>2, <2>1, <2>2 DEF Rpc!TypeOK, Rpc!Calls
  <2>4. c \in 1 .. calls + 1
    BY <1>1, <1>2 DEF CallsTyped
  <2> QED
    BY <2>1, <2>3, <2>4 DEF Open
<1>6. ASSUME NEW t \in Threads,
             WriteAddress(t) \/ SendCommand(t) \/ (CheckLatch(t) /\ ~failed)
      PROVE  Open(c)'
  <2>1. UNCHANGED <<calls, answer>> /\ tpc[t] \notin {"idle", "poll", "unlock"}
    BY <1>6 DEF WriteAddress, SendCommand, CheckLatch
  <2>2. answer[c] = "timeout"
    BY <2>1, OpenCall DEF GivenUp
  <2> QED
    BY <1>2, <2>1, <2>2 DEF Open
<1>7. ASSUME NEW t \in Threads, PollStatus(t)
      PROVE  Open(c)'
  <2>1. tpc[t] = "poll" /\ UNCHANGED <<lock, calls, answer>>
    BY <1>7 DEF PollStatus
  <2>2. c = calls /\ lock = t
    BY <2>1, OpenCall, Holder DEF Sending
  <2>3. ~failed
    BY <2>1 DEF Latched, Sending, GivenUp
  <2>4. reg.status = "none"
    BY <2>2, <2>3 DEF OneAnswer
  <2>5. tpc'[t] = "unlock" /\ result'[t] = "timeout"
    BY <1>1, <1>7, <2>4 DEF PollStatus, Goto, CallsTyped
  <2> QED
    BY <1>2, <2>1, <2>2, <2>5 DEF Open, GivenUp
<1>8. ASSUME NEW t \in Threads, CheckLatch(t), failed
      PROVE  Open(c)'
  <2>1. tpc[t] = "latch" /\ calls' = calls /\ Leave(t, "refused")
    BY <1>8 DEF CheckLatch
  <2>2. answer[c] = "timeout"
    BY <2>1, OpenCall DEF GivenUp
  <2>3. answer[calls] = "waiting" /\ answer' = [answer EXCEPT ![calls] = "refused"]
    BY <2>1, Left
  <2> QED
    BY <1>1, <1>2, <2>1, <2>2, <2>3 DEF Open, Rpc!TypeOK, Rpc!Calls
<1>9. ASSUME NEW t \in Threads, Unlock(t)
      PROVE  Open(c)'
  <2>1. tpc[t] = "unlock" /\ calls' = calls /\ Leave(t, result[t])
    BY <1>9 DEF Unlock
  <2>2. c = calls /\ result[t] = "timeout"
    BY <2>1, OpenCall DEF GivenUp, Sending
  <2>3. answer' = [answer EXCEPT ![calls] = "timeout"]
    BY <2>1, <2>2, Left
  <2> QED
    BY <1>1, <1>2, <2>1, <2>2, <2>3 DEF Open, Rpc!TypeOK, Rpc!Calls
<1> QED
  BY <1>3, <1>4, <1>5, <1>6, <1>7, <1>8, <1>9, CallFrame DEF HostThread

\* While a command is in hand no other is written.
LEMMA NoneSent ==
  ASSUME TypeOK, OneCall, Latched, OneCommand,
         kpc \in {"argument", "take", "serve", "status"},
         NEW t \in Threads, SendCommand(t)
  PROVE  FALSE
<1>1. tpc[t] \in {"status", "argument", "command"}
  BY DEF SendCommand
<1>2. Open(ktag)
  BY DEF OneCommand, Taken
<1> QED
  BY <1>1, <1>2, OpenCall DEF Sending, GivenUp

LEMMA OneCommandStep ==
  ASSUME TypeOK, OneCall, Latched, OneCommand, OneAnswer, LifeCycle, Next
  PROVE  OneCommand'
<1>1. PageTyped /\ CallsTyped /\ HandlerTyped /\ Rpc!TypeOK
  BY TypeGroups
<1>2. served' = served \/ Serve
  BY HistoryFrame DEF Acquire, CheckLatch, Unlock
<1>3. Serve => /\ kpc = "serve" /\ kpc' = "status" /\ UNCHANGED <<ktag, answer, threads>>
               /\ kstatus' \in {"ok", "error"}
               /\ served' = [served EXCEPT ![ktag] = kstatus']
  BY DEF Serve, Step, ConfigureMw
<1>4. FreeBars => kpc = "idle"
  BY DEF FreeBars, LifeCycle
<1>5. (reg.command # "none" => Open(reg.tag) /\ served[reg.tag] = "none")'
  <2>1. CASE reg'.command = "none"
    BY <2>1
  <2>2. CASE UNCHANGED <<reg.command, reg.tag>> /\ reg.command # "none"
    <3>1. ~Serve /\ Open(reg.tag) /\ served[reg.tag] = "none"
      BY <1>3, <2>2 DEF OneCommand
    <3> QED
      BY <1>2, <2>2, <3>1, OpenKept
  <2>3. ASSUME NEW t \in Threads, SendCommand(t), tpc[t] = "command",
               reg'.tag = calls, tpc'[t] = "poll"
        PROVE  Open(reg.tag)' /\ served'[reg'.tag] = "none"
    <3>1. UNCHANGED <<calls, lock, served>>
      BY <2>3 DEF SendCommand
    <3>2. lock = t /\ calls > 0
      BY <2>3, Holder
    <3>3. served[calls] = "none"
      BY <2>3, <3>2 DEF OneAnswer, Sent
    <3>4. calls \in 1 .. calls
      BY <1>1, <3>2 DEF CallsTyped
    <3> QED
      BY <2>3, <3>1, <3>3, <3>4 DEF Open
  <2> QED
    BY <2>1, <2>2, <2>3, PageCommand
<1>6. (Taken => Open(ktag) /\ served[ktag] = "none")'
  <2>1. CASE UNCHANGED <<kpc, ktag>> /\ Taken
    BY <1>2, <1>3, <2>1, OpenKept DEF OneCommand
  <2>2. CASE ReadCommand /\ reg.command # "none"
    <3>1. /\ ktag' = reg.tag /\ UNCHANGED <<threads, history>>
          /\ Open(reg.tag) /\ served[reg.tag] = "none"
      BY <2>2 DEF ReadCommand, OneCommand
    <3> QED
      BY <3>1, OpenKept
  <2>3. CASE ReadCommand /\ reg.command = "none"
    BY <2>3 DEF ReadCommand, Step, Taken
  <2>4. CASE ReadArgument \/ TakeCommand
    <3>1. Taken /\ UNCHANGED <<ktag, threads, history>>
      BY <2>4 DEF ReadArgument, TakeCommand, Step, Taken
    <3> QED
      BY <3>1, OpenKept DEF OneCommand
  <2>5. CASE Serve
    BY <1>3, <2>5 DEF Taken
  <2> QED
    BY <2>1, <2>2, <2>3, <2>4, <2>5, InHand DEF Taken
<1>7. (kpc \in {"argument", "take"} => reg.command = kcmd /\ reg.tag = ktag)'
  <2>1. CASE UNCHANGED <<kpc, kcmd, ktag>> /\ kpc \in {"argument", "take"}
    <3>1. ~FreeBars /\ ~TakeCommand
      BY <1>4, <2>1 DEF TakeCommand, Step
    <3>2. \A t \in Threads : ~SendCommand(t)
      BY <2>1, NoneSent
    <3>3. UNCHANGED <<reg.command, reg.tag>>
      <4>1. ASSUME NEW t \in Threads, WriteAddress(t) \/ Unlock(t)
            PROVE  UNCHANGED <<reg.command, reg.tag>>
        BY <1>1, <4>1 DEF WriteAddress, Unlock, HostWrites, PageTyped
      <4>2. Serve \/ WriteStatus => UNCHANGED <<reg.command, reg.tag>>
        BY <1>1 DEF Serve, WriteStatus, PageTyped
      <4> QED
        BY <3>1, <3>2, <4>1, <4>2, PageFrame
    <3> QED
      BY <2>1, <3>3 DEF OneCommand
  <2>2. CASE ReadCommand
    BY <2>2 DEF ReadCommand, Step
  <2>3. CASE ReadArgument
    BY <2>3 DEF ReadArgument, Step, OneCommand
  <2>4. CASE TakeCommand \/ Serve
    BY <2>4 DEF TakeCommand, Serve, Step
  <2> QED
    BY <2>1, <2>2, <2>3, <2>4, InHand
<1>8. (kpc \in {"serve", "status"} => reg.command = "none")'
  <2>1. CASE UNCHANGED kpc /\ kpc \in {"serve", "status"}
    BY <2>1, PageCommand, NoneSent DEF OneCommand
  <2>2. CASE TakeCommand
    BY <1>1, <2>2 DEF TakeCommand, PageTyped
  <2>3. CASE Serve
    BY <1>3, <2>3, PageCommand, NoneSent DEF OneCommand
  <2>4. CASE ReadCommand \/ ReadArgument
    BY <2>4 DEF ReadCommand, ReadArgument, Step
  <2> QED
    BY <2>1, <2>2, <2>3, <2>4, InHand
<1>9. (kpc = "status" =>
         Open(ktag) /\ served[ktag] = kstatus /\ kstatus \in {"ok", "error"})'
  <2>1. CASE UNCHANGED <<kpc, ktag, kstatus>> /\ kpc = "status"
    BY <1>2, <1>3, <2>1, OpenKept DEF OneCommand
  <2>2. CASE Serve
    <3>1. Open(ktag) /\ served[ktag] = "none" /\ ktag \in 1 .. MaxCalls
      BY <1>3, <2>2, OpenCall DEF OneCommand, Taken
    <3>2. Open(ktag)'
      BY <1>3, <2>2, <3>1, OpenKept
    <3> QED
      BY <1>1, <1>3, <2>2, <3>1, <3>2 DEF Rpc!TypeOK, Rpc!Calls
  <2>3. CASE ReadCommand \/ ReadArgument \/ TakeCommand
    BY <2>3 DEF ReadCommand, ReadArgument, TakeCommand, Step
  <2> QED
    BY <2>1, <2>2, <2>3, InHand
<1> QED
  BY <1>5, <1>6, <1>7, <1>8, <1>9 DEF OneCommand

\* An answer on the page belongs to the call that is polled.
LEMMA OneAnswerStep ==
  ASSUME TypeOK, OneCall, Latched, OneCommand, OneAnswer, LifeCycle, Next
  PROVE  OneAnswer'
<1>1. PageTyped /\ CallsTyped /\ HandlerTyped /\ Rpc!TypeOK
  BY TypeGroups
<1>2. served' = served \/ Serve
  BY HistoryFrame DEF Acquire, CheckLatch, Unlock
<1>3. failed => failed'
  BY CallFrame DEF Acquire, HostThread, WriteAddress, CheckLatch, SendCommand, PollStatus, Unlock
<1>4. Serve => /\ kpc = "serve" /\ kpc' = "status" /\ UNCHANGED <<ktag, answer, threads>>
               /\ reg'.status = reg.status
               /\ kstatus' \in {"ok", "error"}
               /\ served' = [served EXCEPT ![ktag] = kstatus']
               /\ Open(ktag) /\ served[ktag] = "none" /\ ktag \in 1 .. MaxCalls
  <2>1. Serve => Open(ktag) /\ served[ktag] = "none" /\ ktag \in 1 .. MaxCalls
    BY OpenCall DEF Serve, Step, OneCommand, Taken
  <2> QED
    BY <1>1, <2>1 DEF Serve, Step, ConfigureMw, PageTyped
<1>5. calls' = calls \/ \E t \in Threads : Acquire(t)
  BY CallFrame DEF HostThread, WriteAddress, CheckLatch, SendCommand, PollStatus, Unlock
<1>6. Serve /\ ~failed => ktag = calls
  BY <1>4, OpenCall
<1>7. (~failed /\ kpc = "status" => reg.status = "none")'
  <2>1. CASE kpc = "status" /\ ~failed
    <3>1. ~WriteStatus \/ kpc' # "status"
      BY DEF WriteStatus, Step
    <3> QED
      BY <2>1, <3>1, PageStatus DEF OneAnswer
  <2>2. CASE Serve /\ ~failed
    BY <1>4, <1>6, <2>2 DEF OneAnswer
  <2>3. CASE ReadCommand \/ ReadArgument \/ TakeCommand
    BY <2>3 DEF ReadCommand, ReadArgument, TakeCommand, Step
  <2> QED
    BY <1>3, <2>1, <2>2, <2>3, InHand
<1>8. (~failed /\ reg.status # "none" =>
         reg.status = served[calls] /\ \E t \in Threads : tpc[t] \in Sent)'
  <2> SUFFICES ASSUME ~failed', reg'.status # "none"
               PROVE  reg'.status = served'[calls'] /\ \E t \in Threads : tpc'[t] \in Sent
    OBVIOUS
  <2>1. ~failed
    BY <1>3
  <2>2. CASE WriteStatus
    <3>1. /\ kpc = "status" /\ reg'.status = kstatus
          /\ UNCHANGED <<threads, served>>
      BY <1>1, <2>2 DEF WriteStatus, Step, PageTyped
    <3>2. Open(ktag) /\ served[ktag] = kstatus
      BY <3>1 DEF OneCommand
    <3>3. ktag = calls /\ \E t \in Threads : tpc[t] = "poll"
      BY <2>1, <3>2, OpenCall
    <3> QED
      BY <3>1, <3>2, <3>3 DEF Sent
  <2>3. CASE ~WriteStatus
    <3>1. reg'.status = reg.status /\ reg.status # "none"
      BY <2>3, PageStatus
    <3>2. PICK t \in Threads : tpc[t] \in Sent
      BY <2>1, <3>1 DEF OneAnswer
    <3>3. reg.status = served[calls]
      BY <2>1, <3>1 DEF OneAnswer
    <3>4. lock = t /\ lock # None /\ \A u \in Threads : tpc[u] # "idle" => u = t
      BY <3>2, Holder DEF Sent
    <3>5. ~Serve
      BY <1>4, <1>6, <2>1, <3>1, <3>3
    <3>6. \A u \in Threads : ~Acquire(u)
      BY <3>4 DEF Acquire
    <3>7. served' = served /\ calls' = calls
      BY <1>2, <1>5, <3>5, <3>6
    <3>8. ~Unlock(t)
      <4>1. Unlock(t) => reg'.status = "none"
        BY <1>1 DEF Unlock, HostWrites, LifeCycle, ZeroPage, PageTyped
      <4> QED
        BY <3>1, <4>1
    <3>9. ~CheckLatch(t) /\ ~WriteAddress(t) /\ ~SendCommand(t)
      BY <3>2 DEF Sent, CheckLatch, WriteAddress, SendCommand
    <3>10. \A u \in Threads : u # t => ~HostThread(u)
      BY <3>4 DEF HostThread, WriteAddress, CheckLatch, SendCommand, PollStatus, Unlock
    <3>11. UNCHANGED threads \/ PollStatus(t)
      BY <3>6, <3>8, <3>9, <3>10, CallFrame DEF HostThread
    <3>12. PollStatus(t) => tpc'[t] = "unlock"
      BY <1>1 DEF PollStatus, Goto, CallsTyped
    <3> QED
      BY <3>1, <3>2, <3>3, <3>7, <3>11, <3>12 DEF Sent
  <2> QED
    BY <2>2, <2>3
<1>9. (\A c \in 1 .. MaxCalls : served[c] # "none" => c <= calls)'
  <2>1. calls \in Int /\ (calls' = calls \/ calls' = calls + 1)
    BY <1>1, <1>5, Begun DEF CallsTyped
  <2>2. CASE served' = served
    BY <2>1, <2>2 DEF OneAnswer
  <2>3. CASE Serve
    <3>1. ktag \in 1 .. calls /\ calls' = calls
      BY <1>4, <2>3, OpenCall
    <3>2. ASSUME NEW c \in 1 .. MaxCalls, served'[c] # "none"
          PROVE  c <= calls
      <4>1. CASE c = ktag
        BY <2>1, <3>1, <4>1
      <4>2. CASE c # ktag
        <5>1. served[c] # "none"
          BY <1>1, <1>4, <2>3, <3>2, <4>2 DEF Rpc!TypeOK, Rpc!Calls
        <5> QED
          BY <5>1 DEF OneAnswer
      <4> QED
        BY <4>1, <4>2
    <3> QED
      BY <3>1, <3>2
  <2> QED
    BY <1>2, <2>2, <2>3
<1>10. ASSUME NEW t \in Threads
       PROVE  (/\ lock = t /\ served[calls] # "none" => tpc[t] \in Sent
               /\ tpc[t] = "unlock" /\ ~failed =>
                    result[t] = served[calls] /\ kpc # "status")'
  <2>1. CASE UNCHANGED <<threads, served, kpc>>
    BY <2>1 DEF OneAnswer
  <2>2. CASE Serve
    <3>1. lock = t /\ served'[calls] # "none" => tpc[t] \in Sent
      <4> SUFFICES ASSUME lock = t, served'[calls] # "none" PROVE tpc[t] \in Sent
        OBVIOUS
      <4>1. tpc[t] # "idle" /\ lock # None /\ calls \in 1 .. MaxCalls
        BY <1>1, NoneAssumption DEF OneCall, CallsTyped
      <4>2. answer[calls] = "waiting"
        BY <4>1 DEF OneCall
      <4>3. CASE ktag = calls
        BY <1>4, <2>2, <4>1, <4>2, <4>3, OpenCall DEF Sent, GivenUp
      <4>4. CASE ktag # calls
        <5>1. served[calls] # "none"
          BY <1>1, <1>4, <2>2, <4>1, <4>4 DEF Rpc!TypeOK, Rpc!Calls
        <5> QED
          BY <5>1 DEF OneAnswer
      <4> QED
        BY <4>3, <4>4
    <3>2. tpc[t] = "unlock" => failed
      <4>1. tpc[t] = "unlock" /\ ~failed => result[t] = "none"
        BY <1>4, <1>6, <2>2 DEF OneAnswer
      <4> QED
        BY <4>1 DEF OneCall
    <3> QED
      BY <1>4, <2>2, <3>1, <3>2
  <2>3. CASE UNCHANGED <<threads, served>> /\ kpc' # "status"
    BY <2>3 DEF OneAnswer
  <2>4. ASSUME NEW u \in Threads, Acquire(u)
        PROVE  /\ lock' = t /\ served'[calls'] # "none" => tpc'[t] \in Sent
               /\ tpc'[t] # "unlock"
    <3>1. /\ calls' = calls + 1 /\ calls + 1 \in 1 .. MaxCalls /\ served' = served
          /\ tpc' = [tpc EXCEPT ![u] = tpc'[u]] /\ tpc'[u] \in {"low", "latch"}
          /\ \A v \in Threads : tpc[v] = "idle"
      BY <2>4, Begun
    <3>2. served[calls + 1] = "none"
      BY <1>1, <3>1 DEF OneAnswer, CallsTyped
    <3> QED
      BY <1>1, <3>1, <3>2 DEF CallsTyped
  <2>5. ASSUME NEW u \in Threads,
               WriteAddress(u) \/ SendCommand(u) \/ (CheckLatch(u) /\ ~failed)
        PROVE  /\ lock' = t /\ served'[calls'] # "none" => tpc'[t] \in Sent
               /\ tpc'[t] # "unlock"
    <3>1. UNCHANGED <<lock, calls, served>> /\ tpc[u] \notin {"idle", "unlock"} \cup Sent
      BY <2>5 DEF WriteAddress, SendCommand, CheckLatch, Sent
    <3>2. lock = u /\ \A v \in Threads : tpc[v] # "idle" => v = u
      BY <3>1, Holder
    <3>3. served[calls] = "none"
      BY <3>1, <3>2 DEF OneAnswer
    <3>4. tpc'[t] # "unlock"
      <4>1. tpc[t] # "unlock"
        BY <3>1, <3>2
      <4> QED
        BY <1>1, <2>5, <4>1 DEF WriteAddress, SendCommand, CheckLatch, Goto, CallsTyped
    <3> QED
      BY <3>1, <3>3, <3>4
  <2>6. ASSUME NEW u \in Threads, PollStatus(u)
        PROVE  (/\ lock = t /\ served[calls] # "none" => tpc[t] \in Sent
                /\ tpc[t] = "unlock" /\ ~failed =>
                     result[t] = served[calls] /\ kpc # "status")'
    <3>1. tpc[u] = "poll" /\ UNCHANGED <<lock, calls, served, kpc>>
      BY <2>6 DEF PollStatus
    <3>2. lock = u /\ \A v \in Threads : tpc[v] # "idle" => v = u
      BY <3>1, Holder
    <3>3. tpc'[u] = "unlock" /\ (t # u => tpc'[t] = "idle")
      BY <1>1, <2>6, <3>2 DEF PollStatus, Goto, CallsTyped
    <3>4. ~failed' => /\ ~failed /\ reg.status # "none"
                      /\ result'[u] = reg.status
      BY <1>1, <1>3, <2>6 DEF PollStatus, CallsTyped
    <3>5. ~failed' => result'[u] = served[calls] /\ kpc # "status"
      BY <3>4 DEF OneAnswer
    <3> QED
      BY <3>1, <3>2, <3>3, <3>5 DEF Sent
  <2>7. ASSUME NEW u \in Threads, Unlock(u) \/ (CheckLatch(u) /\ failed)
        PROVE  tpc'[t] = "idle" /\ lock' # t
    <3>1. tpc[u] # "idle" /\ \E o : Leave(u, o)
      BY <2>7 DEF Unlock, CheckLatch
    <3> QED
      BY <3>1, Left, NoneAssumption
  <2>8. UNCHANGED threads \/ \E u \in Threads : Acquire(u) \/ HostThread(u)
    BY CallFrame
  <2>9. CASE UNCHANGED threads
    <3>1. ReadCommand \/ ReadArgument \/ TakeCommand => served' = served /\ kpc' # "status"
      BY DEF ReadCommand, ReadArgument, TakeCommand, Step
    <3> QED
      BY <1>2, <2>1, <2>2, <2>3, <2>9, <3>1, InHand
  <2>10. CASE \E u \in Threads : Acquire(u) \/ HostThread(u)
    BY <2>4, <2>5, <2>6, <2>7, <2>10 DEF HostThread, Sent
  <2> QED
    BY <2>8, <2>9, <2>10
<1> QED
  BY <1>7, <1>8, <1>9, <1>10 DEF OneAnswer

-----------------------------------------------------------------------------
(* The memory window *)

LEMMA SomeMapping == Mappings # {None} /\ \A b \in Buffers : <<b, b>> # None
<1>1. \A b \in Words : <<b, b>> \in Mappings /\ <<b, b>> # None
  BY NoneAssumption DEF Mappings, Words
<1>2. 0 \in Words /\ Buffers \subseteq Words
  BY DEF Words
<1> QED
  BY <1>1, <1>2

LEMMA UnbindsGrow ==
  ASSUME TypeOK, Next
  PROVE  unbinds' = unbinds \/ unbinds' # 0
<1>1. BeginUnbind => unbinds' # 0
  <2>1. unbinds \in 0 .. MaxRebinds
    BY TypeGroups DEF OthersTyped
  <2> QED
    BY <2>1 DEF BeginUnbind
<1> QED
  BY <1>1, LifeFrame DEF Unbind, CancelWork, RemoveBus, FreeBars, Bind

\* A call that is given up, or one that returns, is the only reason for the
\* host to change its mind about the window.
LEMMA TimeoutStep ==
  ASSUME TypeOK, OneCall, Latched, Next, NEW c \in 1 .. MaxCalls, answer'[c] = "timeout"
  PROVE  \/ answer[c] = "timeout" /\ hostMap' = hostMap
         \/ \E t \in Threads : /\ tpc[t] = "unlock" /\ result[t] = "timeout"
                               /\ c = calls /\ hostMap' = Told(t)
<1>1. CallsTyped /\ Rpc!TypeOK
  BY TypeGroups
<1>2. answer' = answer \/ \E t \in Threads : Acquire(t) \/ CheckLatch(t) \/ Unlock(t)
  BY HistoryFrame DEF Serve
<1>3. hostMap' = hostMap \/ \E t \in Threads : Unlock(t)
  BY CallFrame DEF Acquire, HostThread, WriteAddress, CheckLatch, SendCommand, PollStatus
<1>4. ASSUME NEW t \in Threads, Acquire(t)
      PROVE  answer[c] = "timeout" /\ hostMap' = hostMap
  <2>1. /\ answer' = [answer EXCEPT ![calls + 1] = "waiting"]
        /\ hostMap' = hostMap
    BY <1>4, Begun
  <2> QED
    BY <1>1, <2>1 DEF Rpc!TypeOK, Rpc!Calls
<1>5. ASSUME NEW t \in Threads, CheckLatch(t), failed
      PROVE  answer[c] = "timeout" /\ hostMap' = hostMap
  <2>1. tpc[t] = "latch" /\ hostMap' = hostMap /\ Leave(t, "refused")
    BY <1>5 DEF CheckLatch
  <2>2. answer' = [answer EXCEPT ![calls] = "refused"]
    BY <2>1, Left
  <2> QED
    BY <1>1, <2>1, <2>2 DEF Rpc!TypeOK, Rpc!Calls
<1>6. ASSUME NEW t \in Threads, CheckLatch(t), ~failed
      PROVE  answer[c] = "timeout" /\ hostMap' = hostMap
  BY <1>6 DEF CheckLatch
<1>7. ASSUME NEW t \in Threads, Unlock(t)
      PROVE  /\ tpc[t] = "unlock" /\ result[t] = "timeout"
             /\ c = calls /\ hostMap' = Told(t)
  <2>1. tpc[t] = "unlock" /\ hostMap' = Told(t) /\ Leave(t, result[t])
    BY <1>7 DEF Unlock
  <2>2. answer' = [answer EXCEPT ![calls] = result[t]]
    BY <2>1, Left
  <2>3. answer[c] # "timeout"
    BY <2>1 DEF Latched, Sending
  <2> QED
    BY <1>1, <2>1, <2>2, <2>3 DEF Rpc!TypeOK, Rpc!Calls
<1> QED
  BY <1>2, <1>3, <1>4, <1>5, <1>6, <1>7

\* A call that is told "ok" was served so, and nothing was given up before it.
LEMMA ToldOk ==
  ASSUME OneCall, Latched, OneAnswer, NEW t \in Threads,
         tpc[t] = "unlock", result[t] = "ok"
  PROVE  lock = t /\ ~failed /\ served[calls] = "ok"
<1>1. lock = t
  BY Holder
<1>2. ~failed
  BY DEF Latched, Sending, GivenUp
<1> QED
  BY <1>1, <1>2 DEF OneAnswer

LEMMA AgreeStep ==
  ASSUME TypeOK, OneCall, Locals, Latched, OneCommand, OneAnswer, WindowKnown, WindowDone,
         LifeCycle, Next
  PROVE  ((\A t \in Threads : tpc[t] \in Sent => op[t] \notin WindowOps) => Agree)'
<1> SUFFICES ASSUME \A t \in Threads : tpc'[t] \in Sent => op'[t] \notin WindowOps
             PROVE  Agree'
  OBVIOUS
<1>1. CallsTyped /\ OthersTyped /\ OthersTyped'
  BY TypeGroups, OthersStep
<1>2. unbinds' = unbinds \/ unbinds' # 0
  BY UnbindsGrow
<1>3. CASE UNCHANGED <<threads, cardMap>>
  BY <1>2, <1>3 DEF WindowKnown, Agree
<1>4. CASE Serve
  <2>1. UNCHANGED <<threads, unbinds>> /\ Taken
    BY <1>4 DEF Serve, Step, Taken
  <2>2. CASE kcmd \notin WindowOps
    <3>1. cardMap' = cardMap
      BY <1>4, <2>2 DEF Serve, WindowOps
    <3> QED
      BY <1>3, <2>1, <3>1
  <2>3. CASE kcmd \in WindowOps
    <3>1. ~\E t \in Threads : ktag = calls /\ tpc[t] \in Sent
      BY <2>1, <2>3 DEF WindowKnown
    <3>2. answer[ktag] = "timeout"
      BY <2>1, <3>1 DEF OneCommand, Open, GivenUp, Sent
    <3>3. hostMap' = Mappings
      BY <2>1, <2>3, <3>2 DEF WindowKnown
    <3> QED
      BY <1>1, <3>3, SomeMapping DEF Agree, OthersTyped
  <2> QED
    BY <2>2, <2>3
<1>5. CASE FreeBars
  <2>1. cardMap' = None /\ unbinds > 0 /\ unbinds' = unbinds
    BY <1>5 DEF FreeBars, LifeCycle
  <2> QED
    BY <1>1, <2>1 DEF Agree, OthersTyped
<1>6. CASE UNCHANGED <<cardMap, unbinds>>
  <2>1. ASSUME NEW t \in Threads, Acquire(t)
        PROVE  Agree'
    <3>1. hostMap' = hostMap /\ \A u \in Threads : tpc[u] = "idle"
      BY <2>1, Begun
    <3> QED
      BY <1>6, <3>1 DEF WindowKnown, Sent, Agree
  <2>2. ASSUME NEW t \in Threads, WriteAddress(t) \/ SendCommand(t) \/ CheckLatch(t)
        PROVE  Agree'
    <3>1. hostMap' = hostMap /\ tpc[t] \notin {"idle", "poll", "unlock"}
      BY <2>2 DEF WriteAddress, SendCommand, CheckLatch
    <3>2. \A u \in Threads : tpc[u] \notin Sent
      BY <3>1, Holder DEF Sent
    <3> QED
      BY <1>6, <3>1, <3>2 DEF WindowKnown, Agree
  <2>3. ASSUME NEW t \in Threads, PollStatus(t)
        PROVE  Agree'
    <3>1. /\ tpc[t] = "poll" /\ UNCHANGED <<hostMap, op>>
          /\ tpc'[t] = "unlock"
      BY <1>1, <2>3 DEF PollStatus, Goto, CallsTyped
    <3>2. op[t] \notin WindowOps
      BY <3>1 DEF Sent
    <3>3. \A u \in Threads : tpc[u] \in Sent => u = t
      BY <3>1, Holder DEF Sent
    <3> QED
      BY <1>6, <3>1, <3>2, <3>3 DEF WindowKnown, Agree
  <2>4. ASSUME NEW t \in Threads, Unlock(t)
        PROVE  Agree'
    <3>1. tpc[t] = "unlock" /\ hostMap' = Told(t)
      BY <2>4 DEF Unlock
    <3>2. \A u \in Threads : tpc[u] \in Sent => u = t
      BY <3>1, Holder DEF Sent
    <3>3. CASE op[t] \notin WindowOps
      <4>1. hostMap' = hostMap
        BY <3>1, <3>3 DEF Told, WindowOps
      <4> QED
        BY <1>6, <3>2, <3>3, <4>1 DEF WindowKnown, Agree
    <3>4. CASE op[t] \in WindowOps /\ result[t] # "ok"
      <4>1. hostMap' = Mappings
        BY <3>1, <3>4 DEF Told, WindowOps
      <4> QED
        BY <1>1, <4>1, SomeMapping DEF Agree, OthersTyped
    <3>5. CASE op[t] = "TEARDOWN_MW" /\ result[t] = "ok"
      <4>1. hostMap' = {None} /\ cardMap = None
        BY <3>1, <3>5, ToldOk DEF Told, WindowDone
      <4> QED
        BY <1>6, <4>1 DEF Agree
    <3>6. CASE op[t] = "CONFIGURE_MW" /\ result[t] = "ok"
      <4>1. /\ hostMap' = {<<buf[t], buf[t]>>} /\ buf[t] \in Buffers
            /\ unbinds = 0 => cardMap = <<buf[t], buf[t]>>
        BY <3>1, <3>6, ToldOk DEF Told, WindowDone, Locals
      <4> QED
        BY <1>6, <4>1, SomeMapping DEF Agree
    <3> QED
      BY <3>3, <3>4, <3>5, <3>6 DEF WindowOps
  <2>5. CASE UNCHANGED threads
    BY <1>3, <1>6, <2>5
  <2> QED
    BY <2>1, <2>2, <2>3, <2>4, <2>5, CallFrame DEF HostThread
<1>7. UNCHANGED unbinds \/ UNCHANGED threads
  BY CallFrame
  DEF Acquire, HostThread, WriteAddress, CheckLatch, SendCommand, PollStatus, Unlock
<1> QED
  BY <1>3, <1>4, <1>5, <1>6, <1>7, WindowFrame

LEMMA WindowKnownStep ==
  ASSUME TypeOK, OneCall, Locals, Latched, OneCommand, OneAnswer, WindowKnown, WindowDone,
         LifeCycle, Next
  PROVE  WindowKnown'
<1>1. CallsTyped /\ PageTyped /\ Rpc!TypeOK
  BY TypeGroups
<1>2. ASSUME NEW t \in Threads, tpc'[t] \in Sent
      PROVE  /\ reg'.command # "none" /\ reg'.tag = calls' => reg'.command = op'[t]
             /\ Taken' /\ ktag' = calls' => kcmd' = op'[t]
  <2>1. /\ UNCHANGED <<calls, op>>
        /\ tpc[t] \in Sent \/ (SendCommand(t) /\ tpc[t] = "command")
    <3>1. CASE UNCHANGED threads
      BY <1>2, <3>1
    <3>2. ASSUME NEW u \in Threads, Acquire(u)
          PROVE  FALSE
      BY <1>1, <1>2, <3>2, Begun DEF Sent, CallsTyped
    <3>3. ASSUME NEW u \in Threads, Unlock(u) \/ (CheckLatch(u) /\ failed)
          PROVE  FALSE
      <4>1. tpc[u] # "idle" /\ \E o : Leave(u, o)
        BY <3>3 DEF Unlock, CheckLatch
      <4> QED
        BY <1>2, <4>1, Left DEF Sent
    <3>4. ASSUME NEW u \in Threads,
                 WriteAddress(u) \/ SendCommand(u) \/ PollStatus(u)
                   \/ (CheckLatch(u) /\ ~failed)
          PROVE  /\ UNCHANGED <<calls, op>>
                 /\ tpc[t] \in Sent \/ (SendCommand(t) /\ tpc[t] = "command")
      <4>1. UNCHANGED <<calls, op>>
        BY <3>4, GoesOn
      <4>2. CASE u # t
        <5>1. tpc' = [tpc EXCEPT ![u] = tpc'[u]]
          BY <3>4, Counters DEF HostThread
        <5> QED
          BY <1>1, <1>2, <4>1, <4>2, <5>1 DEF CallsTyped
      <4>3. CASE u = t
        BY <1>1, <1>2, <3>4, <4>1, <4>3
        DEF WriteAddress, SendCommand, PollStatus, CheckLatch, Goto, Sent, CallsTyped
      <4> QED
        BY <4>2, <4>3
    <3> QED
      BY <3>1, <3>2, <3>3, <3>4, CallFrame DEF HostThread
  <2>2. CASE tpc[t] \in Sent
    <3>1. \A u \in Threads : tpc[u] # "idle" => u = t
      BY <2>2, Holder DEF Sent
    <3>2. /\ reg.command # "none" /\ reg.tag = calls => reg.command = op[t]
          /\ Taken /\ ktag = calls => kcmd = op[t]
      BY <2>2 DEF WindowKnown
    <3>3. reg'.command # "none" /\ reg'.tag = calls' => reg'.command = op'[t]
      BY <2>1, <2>2, <3>1, <3>2, PageCommand DEF Sent
    <3>4. CASE ReadCommand
      BY <2>1, <3>2, <3>3, <3>4 DEF ReadCommand, Step, Taken
    <3>5. CASE ReadArgument \/ TakeCommand
      BY <2>1, <3>2, <3>3, <3>5 DEF ReadArgument, TakeCommand, Step, Taken
    <3>6. CASE Serve
      BY <3>3, <3>6 DEF Serve, Step, Taken
    <3>7. CASE UNCHANGED <<kpc, kcmd, ktag>>
      BY <2>1, <3>2, <3>3, <3>7 DEF Taken
    <3>8. Taken' /\ ktag' = calls' => kcmd' = op'[t]
      BY <3>4, <3>5, <3>6, <3>7, InHand DEF Taken
    <3> QED
      BY <3>3, <3>8
  <2>3. CASE SendCommand(t) /\ tpc[t] = "command"
    <3>1. ~Open(calls)
      BY <2>3, OpenCall DEF Sending, GivenUp
    <3>2. \A u \in Threads : tpc[u] # "idle" => u = t
      BY <2>3, Holder
    <3>3. UNCHANGED <<kpc, kcmd, ktag>>
      BY <2>3 DEF SendCommand
    <3>4. reg.command # "none" => reg.tag # calls
      BY <3>1 DEF OneCommand
    <3>5. Taken => ktag # calls
      BY <3>1 DEF OneCommand
    <3>6. reg'.command # "none" /\ reg'.tag = calls' => reg'.command = op'[t]
      BY <2>1, <3>2, <3>4, PageCommand
    <3>7. ~(Taken' /\ ktag' = calls')
      BY <2>1, <3>3, <3>5 DEF Taken
    <3> QED
      BY <3>6, <3>7
  <2> QED
    BY <2>1, <2>2, <2>3
<1>3. ASSUME NEW c \in 1 .. MaxCalls, answer'[c] = "timeout",
             answer[c] = "timeout" => hostMap = Mappings,
             NEW k \in WindowOps,
             \A t \in Threads : tpc[t] \in Sent /\ c = calls => k = op[t]
      PROVE  hostMap' = Mappings
  <2>1. CASE answer[c] = "timeout" /\ hostMap' = hostMap
    BY <1>3, <2>1
  <2>2. ASSUME NEW t \in Threads, tpc[t] = "unlock", result[t] = "timeout",
               c = calls, hostMap' = Told(t)
        PROVE  hostMap' = Mappings
    BY <1>3, <2>2 DEF Sent, Told, WindowOps
  <2> QED
    BY <1>3, <2>1, <2>2, TimeoutStep
<1>4. (reg.command \in WindowOps /\ answer[reg.tag] = "timeout" => hostMap = Mappings)'
  <2> SUFFICES ASSUME reg'.command \in WindowOps, answer'[reg'.tag] = "timeout"
               PROVE  hostMap' = Mappings
    OBVIOUS
  <2>1. CASE UNCHANGED <<reg.command, reg.tag>>
    <3>1. reg.command \in WindowOps /\ reg.command # "none"
      BY <2>1 DEF WindowOps
    <3>2. reg.tag \in 1 .. MaxCalls
      BY <3>1, OpenCall DEF OneCommand
    <3>3. answer[reg.tag] = "timeout" => hostMap = Mappings
      BY <3>1 DEF WindowKnown
    <3>4. \A t \in Threads : tpc[t] \in Sent /\ reg.tag = calls => reg.command = op[t]
      BY <3>1 DEF WindowKnown
    <3> QED
      BY <1>3, <2>1, <3>1, <3>2, <3>3, <3>4
  <2>2. ASSUME NEW t \in Threads, SendCommand(t), tpc[t] = "command", reg'.tag = calls
        PROVE  FALSE
    <3>1. answer' = answer
      BY <2>2 DEF SendCommand
    <3>2. calls \in 1 .. MaxCalls
      BY <1>1, <2>2, Holder DEF CallsTyped
    <3> QED
      BY <2>2, <3>1, <3>2 DEF Latched, Sending
  <2>3. reg'.command # "none"
    BY DEF WindowOps
  <2> QED
    BY <2>1, <2>2, <2>3, PageCommand
<1>5. (Taken /\ kcmd \in WindowOps /\ answer[ktag] = "timeout" => hostMap = Mappings)'
  <2> SUFFICES ASSUME Taken', kcmd' \in WindowOps, answer'[ktag'] = "timeout"
               PROVE  hostMap' = Mappings
    OBVIOUS
  <2>1. CASE Taken /\ UNCHANGED <<kcmd, ktag>>
    <3>1. ktag \in 1 .. MaxCalls
      BY <2>1, OpenCall DEF OneCommand
    <3>2. answer[ktag] = "timeout" => hostMap = Mappings
      BY <2>1 DEF WindowKnown
    <3>3. \A t \in Threads : tpc[t] \in Sent /\ ktag = calls => kcmd = op[t]
      BY <2>1 DEF WindowKnown
    <3> QED
      BY <1>3, <2>1, <3>1, <3>2, <3>3
  <2>2. CASE ReadCommand
    <3>1. kcmd' = reg.command /\ ktag' = reg.tag /\ UNCHANGED <<threads, answer>>
      BY <2>2 DEF ReadCommand, Step, Taken
    <3> QED
      BY <3>1 DEF WindowKnown
  <2>3. CASE ReadArgument \/ TakeCommand
    <3>1. Taken /\ UNCHANGED <<kcmd, ktag>>
      BY <2>3 DEF ReadArgument, TakeCommand, Step, Taken
    <3> QED
      BY <2>1, <3>1
  <2>4. ~Serve
    BY DEF Serve, Step, Taken
  <2> QED
    BY <2>1, <2>2, <2>3, <2>4, InHand DEF Taken
<1> QED
  BY <1>2, <1>4, <1>5, AgreeStep DEF WindowKnown

LEMMA WindowDoneStep ==
  ASSUME TypeOK, OneCall, Locals, Latched, OneCommand, OneAnswer, WindowKnown, WindowDone,
         LifeCycle, Next
  PROVE  WindowDone'
<1>1. CallsTyped /\ PageTyped /\ OthersTyped /\ Rpc!TypeOK
  BY TypeGroups
<1> SUFFICES ASSUME NEW t \in Threads, lock' = t
             PROVE  (/\ served[calls] = "ok" /\ ~failed =>
                          /\ op[t] = "TEARDOWN_MW" => cardMap = None
                          /\ op[t] = "CONFIGURE_MW" /\ unbinds = 0 =>
                               cardMap = <<buf[t], buf[t]>>
                     /\ op[t] = "CONFIGURE_MW" /\ unbinds = 0 =>
                          /\ tpc[t] # "low" => reg.low = buf[t]
                          /\ tpc[t] \notin {"low", "high"} => reg.high = buf[t])'
  BY DEF WindowDone
<1>2. unbinds' = 0 => unbinds = 0 /\ life = "bound" /\ ~FreeBars
  <2>1. unbinds' = unbinds \/ unbinds' # 0
    BY UnbindsGrow
  <2>2. unbinds = 0 => life = "bound"
    BY <1>1 DEF LifeCycle, OthersTyped
  <2> QED
    BY <2>1, <2>2 DEF FreeBars
<1>3. failed => failed'
  BY CallFrame DEF Acquire, HostThread, WriteAddress, CheckLatch, SendCommand, PollStatus, Unlock
<1>4. served' = served \/ Serve
  BY HistoryFrame DEF Acquire, CheckLatch, Unlock
<1>5. ASSUME NEW u \in Threads, Acquire(u)
      PROVE  /\ served'[calls'] = "none"
             /\ op'[t] = "CONFIGURE_MW" => tpc'[t] = "low"
  <2>1. /\ u = t /\ calls' = calls + 1 /\ calls + 1 \in 1 .. MaxCalls /\ served' = served
    BY <1>5, Begun
  <2>2. served[calls + 1] = "none"
    BY <1>1, <2>1 DEF OneAnswer, CallsTyped
  <2>3. op'[t] = "CONFIGURE_MW" => tpc'[t] = "low"
    BY <1>1, <1>5, <2>1 DEF Acquire, Goto, CallsTyped
  <2> QED
    BY <2>1, <2>2, <2>3
<1>6. ASSUME NEW u \in Threads, Unlock(u) \/ (CheckLatch(u) /\ failed)
      PROVE  FALSE
  <2>1. tpc[u] # "idle" /\ \E o : Leave(u, o)
    BY <1>6 DEF Unlock, CheckLatch
  <2> QED
    BY <2>1, Left, NoneAssumption
<1>7. ASSUME NEW u \in Threads,
             WriteAddress(u) \/ SendCommand(u) \/ PollStatus(u) \/ (CheckLatch(u) /\ ~failed)
      PROVE  u = t /\ lock = t /\ UNCHANGED <<calls, op, buf, served, cardMap>>
  <2>1. tpc[u] # "idle" /\ UNCHANGED <<lock, calls, op, buf, served>>
    BY <1>7, GoesOn
  <2>2. UNCHANGED cardMap
    BY <1>7 DEF WriteAddress, SendCommand, PollStatus, CheckLatch
  <2> QED
    BY <2>1, <2>2, Holder
<1>8. CASE \E u \in Threads : Acquire(u)
  BY <1>5, <1>8
<1>9. CASE lock = t /\ UNCHANGED <<calls, op, buf>>
  <2>1. (served[calls] = "ok" /\ ~failed =>
           /\ op[t] = "TEARDOWN_MW" => cardMap = None
           /\ op[t] = "CONFIGURE_MW" /\ unbinds = 0 => cardMap = <<buf[t], buf[t]>>)'
    <3> SUFFICES ASSUME served'[calls] = "ok", ~failed
                 PROVE  /\ op[t] = "TEARDOWN_MW" => cardMap' = None
                        /\ op[t] = "CONFIGURE_MW" /\ unbinds' = 0 =>
                             cardMap' = <<buf[t], buf[t]>>
      BY <1>3, <1>9
    <3>1. CASE Serve
      <4>1. /\ kcmd \in WindowOps /\ kstatus' = "ok" =>
                 cardMap' = IF kcmd = "TEARDOWN_MW" THEN None ELSE <<reg.low, reg.high>>
            /\ served' = [served EXCEPT ![ktag] = kstatus'] /\ Taken
        BY <3>1 DEF Serve, Step, ConfigureMw, WindowOps, Taken
      <4>2. /\ Open(ktag) /\ ktag = calls /\ ktag \in 1 .. MaxCalls
            /\ \E u \in Threads : tpc[u] = "poll"
        BY <4>1, OpenCall DEF OneCommand
      <4>3. tpc[t] = "poll"
        BY <1>9, <4>2, Holder
      <4>4. kcmd = op[t]
        BY <4>1, <4>2, <4>3 DEF WindowKnown, Sent
      <4>5. kstatus' = "ok"
        BY <1>1, <4>1, <4>2 DEF Rpc!TypeOK, Rpc!Calls
      <4>6. op[t] = "CONFIGURE_MW" /\ unbinds = 0 => reg.low = buf[t] /\ reg.high = buf[t]
        BY <1>9, <4>3 DEF WindowDone
      <4> QED
        BY <1>2, <4>1, <4>4, <4>5, <4>6 DEF WindowOps
    <3>2. CASE FreeBars
      BY <1>2, <3>2 DEF FreeBars
    <3>3. CASE ~Serve /\ UNCHANGED cardMap
      BY <1>2, <1>4, <1>9, <3>3 DEF WindowDone
    <3> QED
      BY <3>1, <3>2, <3>3, WindowFrame
  <2>2. (op[t] = "CONFIGURE_MW" /\ unbinds = 0 =>
           /\ tpc[t] # "low" => reg.low = buf[t]
           /\ tpc[t] \notin {"low", "high"} => reg.high = buf[t])'
    <3> SUFFICES ASSUME op[t] = "CONFIGURE_MW", unbinds' = 0
                 PROVE  /\ tpc'[t] # "low" => reg'.low = buf[t]
                        /\ tpc'[t] \notin {"low", "high"} => reg'.high = buf[t]
      BY <1>9
    <3>1. /\ tpc[t] # "low" => reg.low = buf[t]
          /\ tpc[t] \notin {"low", "high"} => reg.high = buf[t]
          /\ life = "bound" /\ ~FreeBars
      BY <1>2, <1>9 DEF WindowDone
    <3>2. CASE UNCHANGED threads
      <4>1. ASSUME NEW u \in Threads
            PROVE  ~(WriteAddress(u) \/ SendCommand(u))
        BY <1>1, <3>2, GoesOn, Counters DEF HostThread, WriteAddress, SendCommand, Goto, CallsTyped
      <4>2. reg'.low = reg.low /\ reg'.high = reg.high
        <5>1. CASE TakeCommand
          BY <1>1, <5>1 DEF TakeCommand, PageTyped
        <5>2. CASE Serve
          BY <1>1, <5>2 DEF Serve, PageTyped
        <5>3. CASE WriteStatus
          BY <1>1, <5>3 DEF WriteStatus, PageTyped
        <5> QED
          BY <1>6, <3>1, <4>1, <5>1, <5>2, <5>3, PageFrame
      <4> QED
        BY <3>1, <3>2, <4>2
    <3>3. CASE WriteAddress(t)
      BY <1>1, <3>1, <3>3 DEF WriteAddress, HostWrites, Goto, CallsTyped, PageTyped
    <3>4. CASE SendCommand(t)
      BY <1>1, <3>1, <3>4 DEF SendCommand, HostWrites, Goto, CallsTyped, PageTyped
    <3>5. CASE PollStatus(t)
      BY <1>1, <3>1, <3>5 DEF PollStatus, Goto, CallsTyped
    <3>6. CASE CheckLatch(t) /\ ~failed
      BY <1>1, <3>1, <3>6 DEF CheckLatch, Goto, CallsTyped
    <3>7. CASE \E u \in Threads : Acquire(u)
      BY <1>9, <3>7, NoneAssumption DEF Acquire
    <3> QED
      BY <1>6, <1>7, <3>2, <3>3, <3>4, <3>5, <3>6, <3>7, CallFrame DEF HostThread
  <2> QED
    BY <2>1, <2>2
<1>10. CASE UNCHANGED threads
  BY <1>9, <1>10
<1> QED
  BY <1>6, <1>7, <1>8, <1>9, <1>10, CallFrame DEF HostThread

-----------------------------------------------------------------------------
(* Theorems *)

LEMMA InitIInv == Init => IInv
<1> SUFFICES ASSUME Init PROVE IInv
  OBVIOUS
<1>1. Rpc!TypeOK
  BY DEF Init, Rpc!Init, Rpc!TypeOK, Rpc!Calls, Rpc!Verdicts
<1>2. PageTyped
  BY ResetPage DEF Init, PageTyped
<1>3. 0 \in 0 .. MaxCalls /\ 0 \in 0 .. MaxRebinds /\ 0 \in 0 .. MaxItems /\ 0 \in 0 .. MaxOpens
  BY BoundsAssumption
<1>4. CallsTyped
  <2>1. {None} \subseteq Mappings
    BY DEF Mappings
  <2> QED
    BY <1>3, <2>1 DEF Init, CallsTyped, Commands
<1>5. HandlerTyped /\ QueueTyped /\ OthersTyped
  BY <1>3 DEF Init, HandlerTyped, QueueTyped, OthersTyped, Mappings
<1>6. TypeOK
  BY <1>1, <1>2, <1>4, <1>5, TypeGroups
<1>7. /\ \A t \in Threads : tpc[t] = "idle" /\ op[t] = "LINK_UP" /\ lock # t
      /\ lock = None /\ calls = 0 /\ ~failed /\ hostMap = {None} /\ cardMap = None
      /\ \A c \in 1 .. MaxCalls : answer[c] = "none" /\ served[c] = "none"
      /\ reg.command = "none" /\ reg.status = "none" /\ kpc = "idle"
  BY NoneAssumption DEF Init, ZeroPage, Rpc!Init, Rpc!Calls
<1>8. OneCall /\ Locals
  BY <1>7 DEF OneCall, Locals
<1>9. Latched
  BY <1>7 DEF Latched, Sending, GivenUp
<1>10. OneCommand /\ OneAnswer
  BY <1>7 DEF OneCommand, OneAnswer, Taken
<1>11. WindowKnown /\ WindowDone
  BY <1>7 DEF WindowKnown, WindowDone, Agree, Sent, Taken, WindowOps
<1>12. LifeCycle /\ RingKept
  BY DEF Init, LifeCycle, RingKept, NoLostRing
<1> QED
  BY <1>6, <1>8, <1>9, <1>10, <1>11, <1>12 DEF IInv

LEMMA StepIInv == IInv /\ [Next]_vars => IInv'
<1> SUFFICES ASSUME IInv, [Next]_vars PROVE IInv'
  OBVIOUS
<1>1. /\ TypeOK /\ OneCall /\ Locals /\ Latched /\ OneCommand /\ OneAnswer
      /\ WindowKnown /\ WindowDone /\ LifeCycle /\ RingKept
  BY DEF IInv
<1>2. CASE Next
  <2>1. TypeOK' /\ OneCall' /\ Locals' /\ Latched'
    BY <1>1, <1>2, TypeStep, OneCallStep, LocalsStep, LatchedStep
  <2>2. OneCommand' /\ OneAnswer'
    BY <1>1, <1>2, OneCommandStep, OneAnswerStep
  <2>3. WindowKnown' /\ WindowDone'
    BY <1>1, <1>2, WindowKnownStep, WindowDoneStep
  <2>4. LifeCycle' /\ RingKept'
    BY <1>1, <1>2, LifeStep, RingStep
  <2> QED
    BY <2>1, <2>2, <2>3, <2>4 DEF IInv
<1>3. CASE UNCHANGED vars
  <2>1. UNCHANGED <<memory, threads, sender, handler, window, doorbell, bind, receiver, history>>
    BY <1>3 DEF vars
  <2>2. TypeOK'
    BY <1>1, <2>1 DEF TypeOK, Rpc!TypeOK
  <2>3. OneCall' /\ Locals' /\ Latched'
    BY <1>1, <2>1 DEF OneCall, Locals, Latched, GivenUp
  <2>4. OneCommand' /\ OneAnswer'
    BY <1>1, <2>1 DEF OneCommand, OneAnswer, Taken, Open, GivenUp
  <2>5. WindowKnown' /\ WindowDone'
    BY <1>1, <2>1 DEF WindowKnown, WindowDone, Agree, Taken
  <2>6. LifeCycle' /\ RingKept'
    BY <1>1, <2>1 DEF LifeCycle, RingKept, NoLostRing
  <2> QED
    BY <2>2, <2>3, <2>4, <2>5, <2>6 DEF IInv
<1> QED
  BY <1>2, <1>3

\* In every state the driver, the handler and the transport are where IInv says.
THEOREM Invariance == Spec => []IInv
<1> QED
  BY InitIInv, StepIInv, PTL DEF Spec

\* Page, locals and history keep their types.
THEOREM TypeCorrect == Spec => []TypeOK
<1>1. IInv => TypeOK
  BY DEF IInv
<1> QED
  BY <1>1, Invariance, PTL

\* Between calls both ends agree on the window, whoever made the calls and
\* wherever a call was given up.
THEOREM MwAgreementHolds == Spec => []MwAgreement
<1>1. IInv => MwAgreement
  <2> SUFFICES ASSUME IInv, lock = None PROVE Agree
    BY DEF MwAgreement, Agree
  <2>1. \A t \in Threads : tpc[t] = "idle"
    BY NoneAssumption DEF IInv, OneCall
  <2> QED
    BY <2>1 DEF IInv, WindowKnown, Sent
<1> QED
  BY <1>1, Invariance, PTL

\* A packet in an open queue has a ring, a bit or a run of the tasklet to come.
THEOREM NoLostRingHolds == Spec => []NoLostRing
<1>1. IInv => NoLostRing
  BY DEF IInv, RingKept
<1> QED
  BY <1>1, Invariance, PTL

\* Nothing of the handler is left when unbind frees what it works on.
THEOREM QuietAfterUnbindHolds == Spec => []QuietAfterUnbind
<1>1. IInv => QuietAfterUnbind
  BY DEF IInv, LifeCycle, QuietAfterUnbind
<1> QED
  BY <1>1, Invariance, PTL

-----------------------------------------------------------------------------
(* The mailbox implements MailboxRpc *)

LEMMA ServeRefined ==
  ASSUME IInv, Serve
  PROVE  \E c \in Rpc!Calls : \E v \in Rpc!Verdicts : Rpc!Serve(c, v)
<1>. USE DEF Rpc!Calls, Rpc!Verdicts
<1>1. /\ TypeOK /\ OneCall /\ Latched /\ OneCommand
      /\ CallsTyped
  BY TypeGroups DEF IInv
<1>2. /\ Taken /\ UNCHANGED answer /\ kstatus' \in {"ok", "error"}
      /\ served' = [served EXCEPT ![ktag] = kstatus']
  BY DEF Serve, Step, ConfigureMw, Taken
<1>3. Open(ktag) /\ served[ktag] = "none" /\ ktag \in 1 .. MaxCalls
  BY <1>1, <1>2, OpenCall DEF OneCommand
<1>4. /\ answer[ktag] \in {"waiting", "timeout"}
      /\ \A d \in 1 .. MaxCalls : d < ktag => answer[d] # "timeout"
  <2>1. CASE answer[ktag] = "timeout"
    <3>1. ASSUME NEW d \in 1 .. MaxCalls, answer[d] = "timeout" PROVE d = ktag
      BY <1>1, <1>3, <2>1, <3>1 DEF Latched
    <3> QED
      BY <1>3, <2>1, <3>1
  <2>2. CASE answer[ktag] # "timeout"
    <3>1. PICK t \in Threads : tpc[t] = "poll" \/ GivenUp(t)
      BY <1>3, <2>2 DEF Open
    <3>2. tpc[t] \in Sending
      BY <3>1 DEF GivenUp, Sending
    <3>3. lock # None /\ ktag = calls
      BY <1>1, <1>3, <2>2, <3>2, Holder DEF Open, Sending
    <3> QED
      BY <1>1, <1>3, <3>2, <3>3 DEF OneCall, Latched
  <2> QED
    BY <2>1, <2>2
<1> QED
  BY <1>2, <1>3, <1>4 DEF Rpc!Serve

LEMMA CallRefined ==
  ASSUME IInv, NEW t \in Threads, Acquire(t) \/ CheckLatch(t) \/ Unlock(t)
  PROVE  Rpc!Next \/ UNCHANGED <<served, answer>>
<1>. USE DEF Rpc!Calls, Rpc!Verdicts
<1>1. /\ TypeOK /\ OneCall /\ Latched /\ OneAnswer
      /\ CallsTyped
  BY TypeGroups DEF IInv
<1>2. CASE Acquire(t)
  <2>1. /\ lock = None /\ calls + 1 \in 1 .. MaxCalls /\ served' = served
        /\ answer' = [answer EXCEPT ![calls + 1] = "waiting"] /\ answer[calls + 1] = "none"
    BY <1>1, <1>2, Begun
  <2>2. \A d \in 1 .. MaxCalls : answer[d] # "waiting" /\ (d < calls + 1 => answer[d] # "none")
    BY <1>1, <2>1 DEF OneCall, CallsTyped
  <2>3. Rpc!Begin(calls + 1)
    BY <2>1, <2>2 DEF Rpc!Begin
  <2> QED
    BY <2>1, <2>3 DEF Rpc!Next
<1>3. CASE CheckLatch(t) /\ ~failed
  BY <1>3 DEF CheckLatch
<1>4. CASE CheckLatch(t) /\ failed
  <2>1. tpc[t] = "latch" /\ served' = served /\ Leave(t, "refused")
    BY <1>4 DEF CheckLatch
  <2>2. /\ answer[calls] = "waiting" /\ calls \in 1 .. MaxCalls
        /\ answer' = [answer EXCEPT ![calls] = "refused"]
    BY <1>1, <2>1, Left
  <2>3. \A u \in Threads : ~GivenUp(u)
    BY <1>1, <2>1, Holder DEF GivenUp
  <2>4. Rpc!Broken
    BY <1>1, <1>4, <2>3 DEF Latched, Rpc!Broken
  <2> QED
    BY <2>1, <2>2, <2>4 DEF Rpc!Next, Rpc!Refuse
<1>5. CASE Unlock(t)
  <2>1. tpc[t] = "unlock" /\ served' = served /\ Leave(t, result[t])
    BY <1>5 DEF Unlock
  <2>2. /\ answer[calls] = "waiting" /\ calls \in 1 .. MaxCalls
        /\ answer' = [answer EXCEPT ![calls] = result[t]]
    BY <1>1, <2>1, Left
  <2>3. ~Rpc!Broken
    BY <1>1, <2>1 DEF Latched, Sending, Rpc!Broken
  <2>4. CASE result[t] = "timeout"
    BY <2>1, <2>2, <2>3, <2>4 DEF Rpc!Next, Rpc!GiveUp
  <2>5. CASE result[t] \in {"ok", "error"}
    <3>1. ~failed
      BY <1>1, <2>1, <2>5 DEF Latched, Sending, GivenUp
    <3>2. result[t] = served[calls]
      BY <1>1, <2>1, <3>1 DEF OneAnswer
    <3> QED
      BY <2>1, <2>2, <2>5, <3>2 DEF Rpc!Next, Rpc!Return
  <2>6. result[t] \in {"ok", "error", "timeout"}
    BY <1>1, <2>1 DEF OneCall
  <2> QED
    BY <2>4, <2>5, <2>6
<1> QED
  BY <1>2, <1>3, <1>4, <1>5

\* To its callers the mailbox is a procedure call: one at a time, answered with
\* the verdict on that very call, and refused for good after a timeout.
THEOREM RpcRefined == Spec => ImplementsRpc
<1>1. Init => Rpc!Init
  BY DEF Init
<1>2. IInv /\ [Next]_vars => [Rpc!Next]_<<served, answer>>
  <2>1. CASE IInv /\ Next
    BY <2>1, HistoryFrame, ServeRefined, CallRefined DEF Rpc!Next
  <2>2. CASE UNCHANGED vars
    BY <2>2 DEF vars
  <2> QED
    BY <2>1, <2>2
<1> QED
  BY <1>1, <1>2, Invariance, PTL DEF Spec, ImplementsRpc, Rpc!Spec

=============================================================================
