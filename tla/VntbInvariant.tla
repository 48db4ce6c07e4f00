----------------------------- MODULE VntbInvariant -----------------------------
(***************************************************************************)
(* The inductive invariant of Vntb, in parts: who holds the lock and what  *)
(* callers were told, the one command that can be under way, the window,   *)
(* the doorbell, and the life of the card function.                        *)
(***************************************************************************)
EXTENDS Vntb

\* A caller past the latch, and one that has sent its command.
Sending == {"status", "argument", "command", "poll", "unlock"}
Sent    == {"poll", "unlock"}

\* Only the holder of the lock is in a call, the last that was begun; past the
\* latch no call has been given up, but for its own.
OneCall ==
  /\ \A t \in Threads : tpc[t] # "idle" <=> lock = t
  /\ \A t \in Threads : lock = t => call[t] = calls /\ calls > 0
  /\ \A t \in Threads : tpc[t] = "unlock" => result[t] \in {"ok", "error", "timeout"}
  /\ \A c \in 1 .. MaxCalls : /\ answer[c] = "none" <=> c > calls
                              /\ answer[c] = "waiting" <=> c = calls /\ lock # None

\* The address is written only by a call that configures a window, and such a
\* call has a buffer.
Locals ==
  /\ \A t \in Threads : tpc[t] \in {"low", "high", "size"} => op[t] = "CONFIGURE_MW"
  /\ \A t \in Threads : op[t] = "CONFIGURE_MW" => buf[t] \in Buffers

GivenUp(t) == lock = t /\ tpc[t] = "unlock" /\ result[t] = "timeout"

Latched ==
  /\ \A t \in Threads : tpc[t] \in Sending =>
       /\ \A c \in 1 .. MaxCalls : answer[c] # "timeout"
       /\ failed => GivenUp(t)
  /\ failed <=> \/ \E c \in 1 .. MaxCalls : answer[c] = "timeout"
                \/ \E t \in Threads : GivenUp(t)
  /\ \A c, d \in 1 .. MaxCalls : answer[c] = "timeout" /\ answer[d] = "timeout" => c = d

\* A call whose command the card may still see: the one that is polled for, or
\* the one that was given up.
Open(c) ==
  /\ c \in 1 .. calls
  /\ \/ answer[c] = "timeout"
     \/ c = calls /\ \E t \in Threads : tpc[t] = "poll" \/ GivenUp(t)

Taken == kpc \in {"argument", "take", "serve"}

\* At most one command is under way, and it is that of an open call which has
\* not been served; an answer on the page is that of the call that is polled.
OneCommand ==
  /\ reg.command # "none" => Open(reg.tag) /\ served[reg.tag] = "none"
  /\ Taken => Open(ktag) /\ served[ktag] = "none"
  /\ kpc \in {"argument", "take"} => reg.command = kcmd /\ reg.tag = ktag
  /\ kpc \in {"serve", "status"} => reg.command = "none"
  /\ kpc = "status" => Open(ktag) /\ served[ktag] = kstatus /\ kstatus \in {"ok", "error"}

OneAnswer ==
  /\ ~failed /\ kpc = "status" => reg.status = "none"
  /\ ~failed /\ reg.status # "none" =>
       reg.status = served[calls] /\ \E t \in Threads : tpc[t] \in Sent
  /\ \A c \in 1 .. MaxCalls : served[c] # "none" => c <= calls
  /\ \A t \in Threads : /\ lock = t /\ served[calls] # "none" => tpc[t] \in Sent
                        /\ tpc[t] = "unlock" /\ ~failed =>
                             result[t] = served[calls] /\ kpc # "status"

WindowOps == {"CONFIGURE_MW", "TEARDOWN_MW"}
Agree ==
  /\ hostMap = {None} => cardMap = None
  /\ unbinds = 0 => cardMap \in hostMap

\* The ends agree but for a command on the window that is under way; when that
\* call is given up the host knows nothing of the window any more.
WindowKnown ==
  /\ (\A t \in Threads : tpc[t] \in Sent => op[t] \notin WindowOps) => Agree
  /\ \A t \in Threads : tpc[t] \in Sent =>
       /\ reg.command # "none" /\ reg.tag = calls => reg.command = op[t]
       /\ Taken /\ ktag = calls => kcmd = op[t]
  /\ reg.command \in WindowOps /\ answer[reg.tag] = "timeout" => hostMap = Mappings
  /\ Taken /\ kcmd \in WindowOps /\ answer[ktag] = "timeout" => hostMap = Mappings

\* What the card has acknowledged, it has done, to the address it was given.
WindowDone ==
  \A t \in Threads : lock = t =>
    /\ served[calls] = "ok" /\ ~failed =>
         /\ op[t] = "TEARDOWN_MW" => cardMap = None
         /\ op[t] = "CONFIGURE_MW" /\ unbinds = 0 => cardMap = <<buf[t], buf[t]>>
    /\ op[t] = "CONFIGURE_MW" /\ unbinds = 0 =>
         /\ tpc[t] # "low" => reg.low = buf[t]
         /\ tpc[t] \notin {"low", "high"} => reg.high = buf[t]

\* The work runs exactly while the handler is in a pass, and not on a card
\* function that is taken down.
LifeCycle ==
  /\ work = "running" <=> kpc # "idle"
  /\ life \in {"cancelled", "removed", "unbound"} => work = "off"
  /\ life \in {"removed", "unbound"} => ~queue
  /\ life = "unbound" => reg = ZeroPage /\ cardMap = None
  /\ life # "bound" => unbinds > 0

RingKept ==
  /\ items <= sent
  /\ ~queue => items = 0
  /\ NoLostRing

IInv == /\ TypeOK /\ OneCall /\ Locals /\ Latched /\ OneCommand /\ OneAnswer
        /\ WindowKnown /\ WindowDone /\ LifeCycle /\ RingKept
=============================================================================
