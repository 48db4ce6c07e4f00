----------------------------- MODULE MailboxRpc -----------------------------
(***************************************************************************)
(* What the command mailbox between the two ends of the virtual NTB        *)
(* promises to a caller in the host driver: calls are made one at a time,  *)
(* the answer "ok" or "error" to a call is the verdict the card reached    *)
(* when it served that very call, a call is served at most once, and after *)
(* one call has been given up every later call is refused unserved.        *)
(***************************************************************************)
EXTENDS Integers

CONSTANT MaxCalls  \* bound: calls of one life of the host driver

Calls    == 1 .. MaxCalls
Verdicts == {"ok", "error"}

VARIABLES
  served,  \* the verdict of the card on each call, "none" before
  answer   \* what the caller was told: "none" before the call, "waiting" in it

TypeOK ==
  /\ served \in [Calls -> Verdicts \cup {"none"}]
  /\ answer \in [Calls -> Verdicts \cup {"none", "waiting", "timeout", "refused"}]

Init == /\ served = [c \in Calls |-> "none"]
        /\ answer = [c \in Calls |-> "none"]

Broken == \E c \in Calls : answer[c] = "timeout"

Begin(c) ==
  /\ answer[c] = "none"
  /\ \A d \in Calls : /\ answer[d] # "waiting"
                      /\ d < c => answer[d] # "none"
  /\ answer' = [answer EXCEPT ![c] = "waiting"]
  /\ UNCHANGED served

\* The card may still serve the call that was given up, never a later one.
Serve(c, v) ==
  /\ answer[c] \in {"waiting", "timeout"} /\ served[c] = "none"
  /\ \A d \in Calls : d < c => answer[d] # "timeout"
  /\ served' = [served EXCEPT ![c] = v]
  /\ UNCHANGED answer

Return(c) ==
  /\ answer[c] = "waiting" /\ served[c] \in Verdicts
  /\ answer' = [answer EXCEPT ![c] = served[c]]
  /\ UNCHANGED served

GiveUp(c) ==
  /\ answer[c] = "waiting" /\ ~Broken
  /\ answer' = [answer EXCEPT ![c] = "timeout"]
  /\ UNCHANGED served

Refuse(c) ==
  /\ answer[c] = "waiting" /\ Broken
  /\ answer' = [answer EXCEPT ![c] = "refused"]
  /\ UNCHANGED served

Next == \E c \in Calls :
  \/ Begin(c) \/ Return(c) \/ GiveUp(c) \/ Refuse(c)
  \/ \E v \in Verdicts : Serve(c, v)

Spec == Init /\ [][Next]_<<served, answer>>
=============================================================================
