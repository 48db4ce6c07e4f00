--------------------------- MODULE PortRateProofs ---------------------------
(***************************************************************************)
(* The safety of the rate switch, proved for every finite set of ports and *)
(* all their boot rates: the module holds what it changed, one worker at   *)
(* most may still write to ports that are not loose, and the whole         *)
(* implements RateSwitch.                                                  *)
(***************************************************************************)
EXTENDS PortRateInvariant, FiniteSetTheorems, TLAPS

-----------------------------------------------------------------------------
(* The module *)

LEMMA NodeRates ==
  ASSUME ManualTypeOK, NEW p \in Ports
  PROVE  NodeRate(p) \in Rates /\ Initial[p] \in Rates
BY RateAssumption DEF ManualTypeOK, NodeRate, Other, Rates

\* The count follows the set of active changes.
LEMMA CountUp ==
  ASSUME ManualTypeOK, Held, NEW p \in Ports, ~active[p],
         active' = [active EXCEPT ![p] = TRUE], active_count' = active_count + 1
  PROVE  active_count' = Cardinality({q \in Ports : active'[q]}) /\ active_count' \in Nat
<1> DEFINE S == {q \in Ports : active[q]}
<1>1. IsFiniteSet(S) /\ p \notin S
  BY RateAssumption, FS_Subset
<1>2. {q \in Ports : active'[q]} = S \cup {p}
  BY DEF ManualTypeOK
<1>3. Cardinality(S \cup {p}) = Cardinality(S) + 1
  BY <1>1, FS_AddElement
<1> QED
  BY <1>2, <1>3 DEF Held, ChangeHeld, ManualTypeOK

LEMMA CountDown ==
  ASSUME ManualTypeOK, Held, NEW p \in Ports, active[p],
         active' = [active EXCEPT ![p] = FALSE], active_count' = active_count - 1
  PROVE  active_count' = Cardinality({q \in Ports : active'[q]}) /\ active_count' \in Nat
<1> DEFINE S == {q \in Ports : active[q]}
<1>1. IsFiniteSet(S) /\ p \in S
  BY RateAssumption, FS_Subset
<1>2. {q \in Ports : active'[q]} = S \ {p}
  BY DEF ManualTypeOK
<1>3. /\ Cardinality(S \ {p}) = Cardinality(S) - 1
      /\ Cardinality(S \ {p}) \in Nat
  <2>1. IsFiniteSet(S \ {p})
    BY <1>1, FS_Subset
  <2> QED
    BY <1>1, <2>1, FS_RemoveElement, FS_CardinalityType
<1> QED
  BY <1>2, <1>3 DEF Held, ChangeHeld, ManualTypeOK

LEMMA CountNone ==
  ASSUME ManualTypeOK, Held, active_count = 0
  PROVE  \A p \in Ports : ~active[p]
<1> DEFINE S == {q \in Ports : active[q]}
<1>1. IsFiniteSet(S)
  BY RateAssumption, FS_Subset
<1>2. S = {}
  BY <1>1, FS_EmptySet DEF Held, ChangeHeld
<1> QED
  BY <1>2

\* Whoever gives it, a command moves the property of one port only, and only
\* while no driver is bound to it; what it changes it holds.
LEMMA CommandKeeps ==
  ASSUME ManualTypeOK, Held, NEW p \in Ports, NEW rate, NEW ok \in BOOLEAN,
         Command(p, rate, ok)
  PROVE  /\ ManualTypeOK' /\ Held' /\ UNCHANGED drivers
         /\ \A q \in Ports : q # p \/ netdev[q] # "none" => property'[q] = property[q]
<1>1. CASE Refused(ok)
  BY <1>1 DEF Command, Refused, module, fields, drivers, ManualTypeOK, Held, ChangeHeld
<1>2. ASSUME loaded, netdev[p] = "none", ChangeRate(p, rate, ok), UNCHANGED <<loaded, netdev, lane>>
      PROVE  /\ ManualTypeOK' /\ Held'
             /\ \A q \in Ports : q # p => property'[q] = property[q]
  <2>1. CASE UNCHANGED <<property, active, ambiguous, revert_failed, active_count>>
    BY <1>2, <2>1 DEF ManualTypeOK, Held, ChangeHeld
  <2>2. CASE RestoreChange(p, ok) /\ active[p]
    <3>1. CASE UNCHANGED <<property, fields>>
      BY <2>1, <3>1 DEF fields
    <3>2. CASE property' = [property EXCEPT ![p] = "original"] /\ Release(p)
      <4>1. active_count' = Cardinality({q \in Ports : active'[q]}) /\ active_count' \in Nat
        BY <2>2, <3>2, CountDown DEF Release
      <4> QED
        BY <1>2, <3>2, <4>1 DEF Release, ManualTypeOK, Held, ChangeHeld
    <3>3. CASE /\ \E now \in {"original", "replacement"} :
                    property' = [property EXCEPT ![p] = now]
               /\ revert_failed' = [revert_failed EXCEPT ![p] = TRUE]
               /\ ambiguous' = [ambiguous EXCEPT ![p] = TRUE]
               /\ UNCHANGED <<active, active_count>>
      BY <1>2, <2>2, <3>3 DEF ManualTypeOK, Held, ChangeHeld
    <3> QED
      BY <2>2, <3>1, <3>2, <3>3 DEF RestoreChange
  <2>3. CASE Apply(p, ok) /\ ~active[p]
    <3>1. active_count' = Cardinality({q \in Ports : active'[q]}) /\ active_count' \in Nat
      BY <2>3, CountUp DEF Apply
    <3> QED
      BY <1>2, <2>3, <3>1 DEF Apply, ManualTypeOK, Held, ChangeHeld
  <2> QED
    BY <1>2, <2>1, <2>2, <2>3 DEF ChangeRate, fields
<1> QED
  BY <1>1, <1>2 DEF Command, drivers

LEMMA LoadKeeps ==
  ASSUME ManualTypeOK, Held, LoadModule
  PROVE  ManualTypeOK' /\ Held' /\ UNCHANGED <<property, netdev, lane>>
<1>1. {q \in Ports : active'[q]} = {}
  BY DEF LoadModule, ClearFields
<1>2. active_count' = Cardinality({q \in Ports : active'[q]})
  BY <1>1, FS_EmptySet DEF LoadModule, ClearFields
<1> QED
  BY <1>2 DEF LoadModule, ClearFields, drivers, ManualTypeOK, Held, ChangeHeld

LEMMA UnloadKeeps ==
  ASSUME ManualTypeOK, Held, UnloadModule
  PROVE  ManualTypeOK' /\ Held' /\ UNCHANGED <<property, netdev, lane>>
BY CountNone DEF UnloadModule, fields, drivers, ManualTypeOK, Held, ChangeHeld

LEMMA BootKeeps ==
  ASSUME ManualReboot
  PROVE  /\ ManualTypeOK' /\ Held'
         /\ \A p \in Ports : Settled(p)' /\ lane'[p] = Initial[p]
<1>1. {q \in Ports : active'[q]} = {}
  BY DEF ManualReboot, ClearFields
<1>2. active_count' = Cardinality({q \in Ports : active'[q]})
  BY <1>1, FS_EmptySet DEF ManualReboot, ClearFields
<1>3. ManualTypeOK' /\ Held'
  <2>1. ManualTypeOK'
    BY RateAssumption DEF ManualReboot, ClearFields, ManualTypeOK
  <2>2. ~loaded' /\ \A p \in Ports : /\ property'[p] = "original"
                                    /\ ~ambiguous'[p] /\ ~active'[p]
    BY DEF ManualReboot, ClearFields
  <2> QED
    BY <1>2, <2>1, <2>2 DEF Held, ChangeHeld
<1> QED
  BY <1>3 DEF ManualReboot, Settled, NodeRate

-----------------------------------------------------------------------------
(* The writers *)

\* A worker touches nothing but its port.
LEMMA EffectKeeps ==
  ASSUME ManualTypeOK, Held, NEW j \in Jobs, NEW ok \in BOOLEAN, Effect(j, ok)
  PROVE  /\ ManualTypeOK' /\ Held'
         /\ \A p \in Ports \ {j.port} :
              property'[p] = property[p] /\ (Settled(p) => Settled(p)')
<1>1. j.port \in Ports
  BY DEF Jobs
<1>2. CASE Command(j.port, j.rate, ok)
  BY <1>1, <1>2, CommandKeeps DEF Settled, NodeRate, drivers
<1>3. CASE LinkDown(j.port) \/ Unbind(j.port) \/ Bind(j.port)
  <2>1. /\ UNCHANGED module /\ UNCHANGED lane
        /\ \E n \in {"none", "fresh", "down"} : netdev' = [netdev EXCEPT ![j.port] = n]
    BY <1>3 DEF LinkDown, Unbind, Bind
  <2> QED
    BY <1>1, <2>1 DEF module, fields, ManualTypeOK, Held, ChangeHeld, Settled, NodeRate
<1>4. CASE UNCHANGED <<module, drivers>>
  BY <1>4 DEF module, fields, drivers, ManualTypeOK, Held, ChangeHeld, Settled, NodeRate
<1> QED
  BY <1>2, <1>3, <1>4 DEF Effect

\* What may happen to a settled port: nothing, unless it is loose or a worker of
\* the transaction about it writes.
Kept(p) == \/ Settled(p)' /\ (property'[p] = property[p] \/ Reboot)
           \/ pending # None /\ p = P /\ (own # None \/ Firm # {})
           \/ p \in loose

\* Every step keeps the module right, and a port that is settled is moved by
\* nobody but a worker of a transaction about it, or a late one if it is loose.
LEMMA ModuleStep ==
  ASSUME TypeOK, Held, OneScript, Next
  PROVE  /\ ManualTypeOK' /\ Held'
         /\ \A p \in Ports : Settled(p) => Kept(p)
<1> USE DEF TypeOK, Kept
<1>1. CASE UNCHANGED <<module, drivers>>
  BY <1>1 DEF module, fields, drivers, ManualTypeOK, Held, ChangeHeld, Settled, NodeRate
<1>2. CASE Load
  BY <1>1, <1>2, LoadKeeps DEF Load, Settled, NodeRate
<1>3. CASE Unload
  BY <1>1, <1>3, UnloadKeeps DEF Unload, Settled, NodeRate
<1>4. CASE WorkerWrites
  <2>1. own.job \in Jobs /\ own.job.port = P /\ pending # None /\ own # None
    BY <1>4 DEF WorkerWrites, OneScript, Working, Running
  <2>2. PICK ok \in BOOLEAN : Effect(own.job, ok)
    BY <1>4 DEF WorkerWrites
  <2> QED
    BY <2>1, <2>2, EffectKeeps
<1>5. ASSUME NEW j \in stray, StrayWrites(j)
      PROVE  /\ ManualTypeOK' /\ Held'
             /\ \A p \in Ports : Settled(p) => Kept(p)
  <2>1. j \in Jobs /\ (j.port \in loose \/ (j.port = P /\ pending # None /\ Firm # {}))
    BY <1>5 DEF OneScript, Firm
  <2>2. PICK ok \in BOOLEAN : Effect(j, ok)
    BY <1>5 DEF StrayWrites
  <2> QED
    BY <2>1, <2>2, EffectKeeps
<1>6. ASSUME NEW p \in Ports, PersonRestores(p)
      PROVE  /\ ManualTypeOK' /\ Held'
             /\ \A q \in Ports : Settled(q) => Settled(q)' /\ property'[q] = property[q]
  <2>1. PICK ok \in BOOLEAN : Command(p, Initial[p], ok)
    BY <1>6 DEF PersonRestores
  <2>2. /\ ManualTypeOK' /\ Held' /\ UNCHANGED <<netdev, lane>>
        /\ \A q \in Ports : netdev[q] # "none" => property'[q] = property[q]
    BY <2>1, CommandKeeps DEF drivers
  <2> QED
    BY <2>2 DEF Settled, NodeRate
<1>7. ASSUME NEW p \in Ports, ManagerAdopts(p)
      PROVE  /\ ManualTypeOK' /\ Held'
             /\ \A q \in Ports : Settled(q) => Settled(q)' /\ property'[q] = property[q]
  <2>1. /\ netdev[p] = "fresh" /\ netdev' = [netdev EXCEPT ![p] = "up"]
        /\ lane' \in {lane, [lane EXCEPT ![p] = NodeRate(p)]}
        /\ UNCHANGED <<loaded, property, active, ambiguous, revert_failed, active_count>>
    BY <1>7 DEF ManagerAdopts, Adopt, module, fields
  <2>2. lane' \in [Ports -> Rates] /\ \A q \in Ports : q # p => lane'[q] = lane[q]
    BY <2>1, NodeRates DEF ManualTypeOK
  <2> QED
    BY <2>1, <2>2 DEF ManualTypeOK, Held, ChangeHeld, Settled, NodeRate
<1>8. CASE Reboot
  BY <1>8, BootKeeps DEF Reboot
<1>9. CASE StartWorker \/ JoinWorker \/ TimeOut \/ Abandon \/ AwaitManager \/ Verify \/ Unlink \/ Killed
  BY <1>1, <1>9 DEF StartWorker, JoinWorker, TimeOut, Abandon, AwaitManager, Verify, Unlink, Killed
<1>10. ASSUME NEW p \in Ports, \/ KeepRate(p)
                               \/ \E rate \in Rates : Begin(p, rate)
       PROVE  UNCHANGED <<module, drivers>>
  BY <1>10 DEF KeepRate, Begin
<1> QED
  BY <1>1, <1>2, <1>3, <1>4, <1>5, <1>6, <1>7, <1>8, <1>9, <1>10 DEF Next, Step

-----------------------------------------------------------------------------
(* The script and its workers *)

Statuses == {"NONE", "PREPARING", "UNCHANGED", "APPLIED", "FAILED", "AMBIGUOUS",
             "RESTORATION_INCOMPLETE", "CLEANUP_INCOMPLETE"}

\* A worker is given the port of the transaction and one of its rates.
LEMMA JobGiven ==
  ASSUME TypeOK, pending # None, pc \in Working
  PROVE  [op |-> pc, port |-> P, rate |-> Goal] \in Jobs
BY DEF TypeOK, Transactions, Jobs, Goal, P, Working

LEMMA SelectedRates ==
  ASSUME TypeOK, NEW p \in Ports
  PROVE  Selected[p] \in Rates
BY NodeRates DEF Selected, TypeOK

LEMMA TypeStep ==
  ASSUME TypeOK, Held, OneScript, Next
  PROVE  TypeOK'
<1>. USE DEF Stop, Goto
<1>1. ManualTypeOK'
  BY ModuleStep
<1>2. ASSUME Fail
      PROVE  pc' \in {"idle", "down"} /\ undo' \in BOOLEAN /\ status' \in Statuses
  BY <1>2 DEF Fail, Statuses, TypeOK
<1>3. own # None => own \in Running /\ own.job \in Jobs
  BY DEF TypeOK, Running
<1>4. CASE UNCHANGED <<pending, script, workers>>
  BY <1>1, <1>4 DEF TypeOK, script, workers
<1>5. CASE Load
  BY <1>1, <1>5 DEF Load, workers, TypeOK
<1>6. CASE StartWorker
  <2>1. /\ UNCHANGED <<pending, stray, loose>>
        /\ \/ UNCHANGED script /\ own' \in Running
           \/ Goto("set") /\ UNCHANGED own
           \/ Fail /\ UNCHANGED own
    BY <1>6, JobGiven DEF StartWorker, OneScript, Working, Running
  <2>2. CASE UNCHANGED script /\ own' \in Running
    BY <1>1, <2>1, <2>2 DEF script, TypeOK
  <2>3. CASE Goto("set") /\ UNCHANGED own
    BY <1>1, <2>1, <2>3 DEF TypeOK
  <2>4. CASE Fail /\ UNCHANGED own
    BY <1>1, <1>2, <2>1, <2>4 DEF TypeOK, Statuses
  <2> QED
    BY <2>1, <2>2, <2>3, <2>4
<1>7. CASE JoinWorker
  <2>1. UNCHANGED <<pending, stray, loose>> /\ own' = None /\ (Goto(After) \/ Fail)
    BY <1>7 DEF JoinWorker
  <2>2. CASE Goto(After)
    BY <1>1, <2>1, <2>2 DEF After, TypeOK
  <2>3. CASE Fail
    BY <1>1, <1>2, <2>1, <2>3 DEF TypeOK, Statuses
  <2> QED
    BY <2>1, <2>2, <2>3
<1>8. CASE TimeOut
  BY <1>1, <1>3, <1>8 DEF TimeOut, TypeOK
<1>9. CASE AwaitManager
  <2>1. UNCHANGED <<pending, workers>> /\ (Goto("verify") \/ Fail)
    BY <1>9 DEF AwaitManager
  <2> QED
    BY <1>1, <1>2, <2>1 DEF workers, TypeOK, Statuses
<1>10. CASE Verify
  <2>1. /\ UNCHANGED <<pending, workers>>
        /\ \/ /\ pc' = "unload" /\ status' = (IF undo THEN status ELSE "APPLIED")
              /\ UNCHANGED undo
           \/ Fail
    BY <1>10 DEF Verify
  <2> QED
    BY <1>1, <1>2, <2>1 DEF workers, TypeOK, Statuses
<1>11. CASE Unload
  BY <1>1, <1>11 DEF Unload, workers, TypeOK
<1>12. CASE Unlink
  BY <1>1, <1>12 DEF Unlink, workers, TypeOK
<1>13. CASE WorkerWrites
  BY <1>1, <1>3, <1>13 DEF WorkerWrites, script, TypeOK, Running
<1>14. CASE Killed
  BY <1>1, <1>3, <1>14 DEF Killed, TypeOK
<1>15. CASE Reboot
  BY <1>1, <1>15 DEF Reboot, TypeOK
<1>18. CASE Abandon
  <2>1. P \in Ports
    BY <1>3, <1>18 DEF Abandon, TypeOK, OneScript, Working, Transactions, P
  <2> QED
    BY <1>1, <1>2, <1>3, <1>18, <2>1 DEF Abandon, TypeOK, Statuses
<1>16. ASSUME NEW p \in Ports, KeepRate(p)
       PROVE  TypeOK'
  BY <1>1, <1>16 DEF KeepRate, workers, TypeOK
<1>17. ASSUME NEW p \in Ports, NEW rate \in Rates, Begin(p, rate)
       PROVE  TypeOK'
  <2>1. pending' \in Transactions
    BY <1>17, SelectedRates DEF Begin, Transactions
  <2> QED
    BY <1>1, <1>17, <2>1 DEF Begin, workers, TypeOK
<1>19. ASSUME NEW p \in Ports, ManagerAdopts(p) \/ PersonRestores(p)
       PROVE  TypeOK'
  BY <1>4, <1>19 DEF ManagerAdopts, PersonRestores
<1>20. ASSUME NEW j \in stray, StrayWrites(j)
       PROVE  TypeOK'
  BY <1>1, <1>20 DEF StrayWrites, script, TypeOK
<1> QED
  BY <1>5, <1>6, <1>7, <1>8, <1>9, <1>10, <1>11, <1>12, <1>13, <1>14, <1>15, <1>16, <1>17,
     <1>18, <1>19, <1>20 DEF Next, Step

LEMMA OneScriptStep ==
  ASSUME TypeOK, OneScript, Next
  PROVE  OneScript'
<1>. USE DEF Stop, Goto, Working, P
<1>1. ASSUME Fail PROVE pc' \in {"idle", "down"}
  BY <1>1 DEF Fail
<1>2. ASSUME UNCHANGED <<pending, own, stray, loose, pc>> PROVE OneScript'
  BY <1>2 DEF OneScript, Firm
<1>3. ASSUME UNCHANGED <<pending, workers>>, own = None, pc # "idle" PROVE OneScript'
  BY <1>3 DEF OneScript, workers, Firm
<1>4. CASE Load \/ AwaitManager \/ Verify \/ Unload
  <2>1. UNCHANGED <<pending, workers>> /\ pc \in {"load", "adopt", "verify", "unload"}
    BY <1>4 DEF Load, AwaitManager, Verify, Unload
  <2> QED
    BY <1>3, <2>1 DEF OneScript
<1>5. CASE StartWorker
  <2>1. /\ UNCHANGED <<pending, stray, loose>> /\ own = None /\ pc \in Working
        /\ \/ UNCHANGED pc /\ own'.job.port = P
           \/ UNCHANGED own
    BY <1>5 DEF StartWorker, script
  <2> QED
    BY <1>3, <2>1 DEF OneScript, workers, Firm
<1>6. CASE JoinWorker
  BY <1>6 DEF JoinWorker, OneScript, Firm
<1>7. ASSUME own # None, pc' = "idle", own' = None, UNCHANGED <<pending, loose>>,
             stray' \in {stray, stray \cup {own.job}}
      PROVE  OneScript'
  BY <1>7 DEF OneScript, Firm
<1>8. CASE TimeOut
  BY <1>7, <1>8 DEF TimeOut
<1>17. CASE Abandon
  \* The worker left behind is one of a port that is now loose.
  <2>1. /\ own # None /\ pc' = "down" /\ own' = None /\ UNCHANGED pending
        /\ stray' = stray \cup {own.job} /\ loose' = loose \cup {P}
    BY <1>17 DEF Abandon, Fail
  <2>2. Firm' \subseteq Firm
    BY <2>1 DEF OneScript, Firm
  <2> QED
    BY <2>1, <2>2 DEF OneScript
<1>9. CASE Killed
  <2>1. CASE own = None
    BY <1>9, <2>1 DEF Killed, OneScript, Firm
  <2> QED
    BY <1>7, <1>9, <2>1 DEF Killed
<1>10. CASE Unlink
  BY <1>10 DEF Unlink, workers, OneScript, Firm
<1>11. CASE WorkerWrites
  BY <1>11 DEF WorkerWrites, script, OneScript, Firm, TypeOK, Running
<1>12. CASE Reboot
  BY <1>12 DEF Reboot, OneScript, Firm
<1>13. ASSUME NEW p \in Ports, KeepRate(p)
       PROVE  OneScript'
  BY <1>2, <1>13 DEF KeepRate, workers
<1>14. ASSUME NEW p \in Ports, NEW rate \in Rates, Begin(p, rate)
       PROVE  OneScript'
  <2>1. pending' # None
    <3>1. pending' \in Transactions
      BY <1>14, SelectedRates DEF Begin, Transactions
    <3> QED
      BY <3>1, NoneAssumption DEF Transactions
  <2> QED
    BY <1>14, <2>1 DEF Begin, Admitted, workers, OneScript, Firm
<1>15. ASSUME NEW p \in Ports, ManagerAdopts(p) \/ PersonRestores(p)
       PROVE  OneScript'
  BY <1>2, <1>15 DEF ManagerAdopts, PersonRestores, script, workers
<1>16. ASSUME NEW j \in stray, StrayWrites(j)
       PROVE  OneScript'
  BY <1>16 DEF StrayWrites, script, OneScript, Firm
<1> QED
  BY <1>4, <1>5, <1>6, <1>8, <1>9, <1>10, <1>11, <1>12, <1>13, <1>14, <1>15, <1>16,
     <1>17 DEF Next, Step

-----------------------------------------------------------------------------
(* The ports *)

\* What begins and ends a transaction.
LEMMA PendingWriters ==
  ASSUME Next, pending' # pending
  PROVE  \/ Unlink /\ pending' = None
         \/ Reboot
         \/ \E p \in Ports, rate \in Rates : Begin(p, rate)
BY DEF Next, Step, Load, StartWorker, JoinWorker, TimeOut, Abandon, AwaitManager, Verify, Unload, Unlink,
   WorkerWrites, Killed, KeepRate, ManagerAdopts, PersonRestores, StrayWrites

\* A port that is loose stays so until the reboot.
LEMMA LooseStep ==
  ASSUME Next, ~Reboot
  PROVE  loose \subseteq loose'
BY DEF Next, Step, Load, StartWorker, JoinWorker, TimeOut, Abandon, AwaitManager, Verify, Unload,
   Unlink, WorkerWrites, Killed, KeepRate, Begin, ManagerAdopts, PersonRestores, StrayWrites, workers

LEMMA ElsewhereStep ==
  ASSUME IInv, Next
  PROVE  ElsewhereSettled'
<1>. USE DEF IInv
<1>1. CASE pending' = pending /\ ~Reboot
  <2> SUFFICES ASSUME NEW p \in Ports \ loose, pending = None \/ p # P
               PROVE  Settled(p)'
    BY <1>1, LooseStep DEF ElsewhereSettled, P
  <2> QED
    BY ModuleStep DEF ElsewhereSettled, Kept, OneScript
<1>2. CASE Unlink /\ pending' = None
  <2>1. UNCHANGED <<module, drivers, loose>> /\ pc = "unlink"
    BY <1>2 DEF Unlink, workers
  <2>2. \A p \in Ports \ loose : Settled(p)
    BY <2>1 DEF ElsewhereSettled, EndsSettled
  <2> QED
    BY <2>1, <2>2 DEF ElsewhereSettled, Settled, NodeRate, module, drivers
<1>3. CASE Reboot
  BY <1>3, BootKeeps DEF Reboot, ElsewhereSettled
<1>4. ASSUME NEW p \in Ports, NEW rate \in Rates, Begin(p, rate)
      PROVE  ElsewhereSettled'
  <2>1. UNCHANGED <<module, drivers, loose>> /\ pending = None
    BY <1>4 DEF Begin, Admitted, workers
  <2> QED
    BY <2>1 DEF ElsewhereSettled, Settled, NodeRate, module, drivers
<1> QED
  BY <1>1, <1>2, <1>3, <1>4, PendingWriters

\* A transaction begins with the rate its port runs at.
LEMMA BeginsSettled ==
  ASSUME IInv, NEW p \in Ports, NEW rate \in Rates, Begin(p, rate)
  PROVE  /\ pending = None /\ pending' = [port |-> p, from |-> NodeRate(p), to |-> rate]
         /\ rate # NodeRate(p)
         /\ Settled(p) /\ \A q \in Ports \ loose : Settled(q)
         /\ UNCHANGED <<property, netdev, lane, loose>>
<1>1. NodeRate(p) = Selected[p] /\ Settled(p)
  BY DEF Begin, Admitted, Validates, Settled
<1> QED
  BY <1>1 DEF Begin, Admitted, IInv, ElsewhereSettled, module, drivers, workers

LEMMA EndsStep ==
  ASSUME IInv, Next
  PROVE  EndsSettled'
<1>. USE DEF IInv, P
<1>. DEFINE Ends == {"load", "unload", "unlink"}
<1>1. ASSUME pc \in Ends, UNCHANGED pending, pc' # "idle"
      PROVE  EndsSettled'
  <2>4. CASE Reboot
    BY <1>1, <2>4 DEF Reboot, Stop
  <2> SUFFICES ASSUME ~Reboot, P \notin loose PROVE EndsSettled'
    BY <1>1, <2>4, LooseStep DEF EndsSettled
  <2>1. Settled(P) /\ NodeRate(P) \in {pending.from, pending.to} /\ P \in Ports
    BY <1>1 DEF EndsSettled, OneScript, TypeOK, Transactions
  <2>2. own = None /\ Firm = {}
    BY <1>1 DEF OneScript, Working
  <2>3. Settled(P)' /\ property'[P] = property[P]
    BY <1>1, <2>1, <2>2, ModuleStep DEF Kept, Reboot
  <2> QED
    BY <1>1, <2>1, <2>3 DEF EndsSettled, NodeRate
<1>2. CASE Verify
  <2>1. CASE Fail
    BY <2>1 DEF Fail, Stop, EndsSettled
  <2>2. CASE Verified
    <3>1. pending \in Transactions
      BY <1>2 DEF Verify, OneScript, TypeOK
    <3>2. /\ NodeRate(P) = Goal /\ lane[P] = Goal /\ netdev[P] = "up"
          /\ Goal \in {pending.from, pending.to}
      BY <2>2, <3>1 DEF Verified, Validates, Selected, Transactions, Goal
    <3>3. UNCHANGED <<property, netdev, lane, pending>>
      BY <1>2 DEF Verify, module, drivers
    <3> QED
      BY <3>2, <3>3 DEF EndsSettled, Settled, NodeRate
  <2> QED
    BY <1>2, <2>1, <2>2 DEF Verify
<1>3. ASSUME NEW p \in Ports, NEW rate \in Rates, Begin(p, rate)
      PROVE  EndsSettled'
  BY <1>3, BeginsSettled DEF EndsSettled, Settled, NodeRate
<1>4. CASE Unlink \/ Reboot \/ Killed \/ TimeOut \/ Abandon
  BY <1>4 DEF Unlink, Reboot, Killed, TimeOut, Abandon, Fail, Stop, Goto, EndsSettled
<1>5. CASE StartWorker \/ JoinWorker \/ AwaitManager
  <2>1. pc' \notin Ends \/ UNCHANGED <<pc, pending>>
    BY <1>5 DEF StartWorker, JoinWorker, AwaitManager, Fail, Stop, Goto, After, script, OneScript,
       Working
  <2> QED
    BY <1>1, <2>1 DEF EndsSettled
<1>6. CASE Load \/ Unload
  BY <1>1, <1>6 DEF Load, Unload, Goto, Stop, EndsSettled
<1>7. ASSUME UNCHANGED <<pc, pending>>
      PROVE  EndsSettled'
  BY <1>1, <1>7 DEF EndsSettled
<1>8. CASE WorkerWrites \/ \E j \in stray : StrayWrites(j)
  BY <1>7, <1>8 DEF WorkerWrites, StrayWrites, script
<1>9. ASSUME NEW p \in Ports, \/ KeepRate(p) \/ ManagerAdopts(p)
                              \/ PersonRestores(p)
      PROVE  EndsSettled'
  BY <1>7, <1>9 DEF KeepRate, ManagerAdopts, PersonRestores, script, Stop
<1> QED
  BY <1>2, <1>3, <1>4, <1>5, <1>6, <1>8, <1>9 DEF Next, Step

-----------------------------------------------------------------------------
(* The invariant *)

LEMMA InitIInv ==
  ASSUME Init
  PROVE  IInv
<1>1. {p \in Ports : active[p]} = {}
  BY DEF Init, Boot
<1>2. Held
  BY <1>1, FS_EmptySet DEF Init, Boot, Held, ChangeHeld
<1>3. TypeOK
  BY RateAssumption DEF Init, Boot, TypeOK, ManualTypeOK
<1>4. OneScript /\ ElsewhereSettled /\ EndsSettled
  BY DEF Init, Boot, OneScript, Firm, ElsewhereSettled, EndsSettled, Settled, NodeRate
<1> QED
  BY <1>2, <1>3, <1>4 DEF IInv

LEMMA StepIInv ==
  ASSUME IInv, [Next]_vars
  PROVE  IInv'
<1>1. CASE Next
  BY <1>1, TypeStep, OneScriptStep, ElsewhereStep, EndsStep, ModuleStep DEF IInv
<1>2. CASE UNCHANGED vars
  <2>1. /\ UNCHANGED <<loaded, property, active, ambiguous, revert_failed, active_count>>
        /\ UNCHANGED <<netdev, lane, pending, pc, undo, status>>
        /\ UNCHANGED <<own, stray, loose>>
    BY <1>2 DEF vars, module, fields, drivers, script, workers
  <2>2. TypeOK' /\ Held'
    BY <2>1 DEF IInv, TypeOK, ManualTypeOK, Held, ChangeHeld
  <2>3. OneScript' /\ ElsewhereSettled' /\ EndsSettled'
    BY <2>1 DEF IInv, OneScript, Firm, ElsewhereSettled, EndsSettled, Settled, NodeRate, P
  <2> QED
    BY <2>2, <2>3 DEF IInv
<1> QED
  BY <1>1, <1>2

\* Everything below follows from this invariant.
THEOREM Invariance == Spec => []IInv
BY InitIInv, StepIInv, PTL DEF Spec

-----------------------------------------------------------------------------
(* The properties *)

\* Module, drivers, script and workers keep their types.
THEOREM TypeCorrect == Spec => []TypeOK
<1>1. IInv => TypeOK
  BY DEF IInv
<1> QED
  BY <1>1, Invariance, PTL

\* A change that is not known to be undone pins the module and is counted once.
THEOREM ChangeHeldHolds == Spec => []ChangeHeld
<1>1. IInv => ChangeHeld
  BY DEF IInv, Held
<1> QED
  BY <1>1, Invariance, PTL

\* One worker of all scripts at most can still write to ports that are not loose.
THEOREM OneWriterHolds == Spec => []OneWriter
<1>1. IInv => OneWriter
  <2> SUFFICES ASSUME IInv PROVE OneWriter
    OBVIOUS
  <2>1. own # None \/ pending = None => Firm = {}
    BY DEF IInv, OneScript, Working
  <2>2. CASE Firm = {}
    BY <2>1, <2>2, FS_EmptySet DEF OneWriter
  <2>3. CASE Firm # {}
    <3>1. PICK j : Firm = {j}
      BY <2>3 DEF IInv, OneScript
    <3>2. Cardinality(Firm) = 1
      BY <3>1, FS_Singleton
    <3> QED
      BY <2>1, <3>2 DEF OneWriter
  <2> QED
    BY <2>2, <2>3
<1> QED
  BY <1>1, Invariance, PTL

-----------------------------------------------------------------------------
(* The refinement *)

\* The rate of each port as RateSwitch sees it.
Rate == [p \in Ports |-> IF p \in loose THEN -1
                         ELSE IF pending # None /\ pending.port = p THEN pending.from
                         ELSE Runs(p)]

LEMMA SettledRuns ==
  ASSUME NEW p, Settled(p)
  PROVE  Runs(p) = NodeRate(p)
BY DEF Settled, Runs

LEMMA SettledRunsNext ==
  ASSUME NEW p, Settled(p)'
  PROVE  Runs(p)' = NodeRate(p)'
BY DEF Settled, Runs

\* Between the two ends of a transaction nothing moves.
LEMMA RateKept ==
  ASSUME IInv, Next, pending' = pending, loose' = loose, ~Reboot
  PROVE  Rate' = Rate
<1> SUFFICES ASSUME NEW p \in Ports \ loose, pending = None \/ p # P
             PROVE  Runs(p)' = Runs(p)
  BY DEF Rate, P
<1>1. Settled(p)
  BY DEF IInv, ElsewhereSettled
<1>2. Settled(p)' /\ property'[p] = property[p]
  BY <1>1, ModuleStep DEF Kept, IInv, OneScript
<1> QED
  BY <1>1, <1>2, SettledRuns, SettledRunsNext DEF NodeRate

\* What makes a port loose.
LEMMA LooseWriters ==
  ASSUME Next, loose' # loose, ~Reboot
  PROVE  Abandon
BY DEF Next, Step, Load, StartWorker, JoinWorker, TimeOut, AwaitManager, Verify, Unload, Unlink,
   WorkerWrites, Killed, KeepRate, Begin, ManagerAdopts, PersonRestores, StrayWrites, workers

LEMMA RefinedStep ==
  ASSUME IInv, Next
  PROVE  Switch!Next \/ (Rate' = Rate /\ pending' = pending)
<1>. USE DEF IInv
<1>1. CASE Unlink /\ pending' = None
  <2>1. /\ pc = "unlink" /\ UNCHANGED <<property, netdev, lane, loose>>
    BY <1>1 DEF Unlink, module, drivers, workers
  <2>2. pending \in Transactions /\ pending # None /\ P \in Ports
    BY <2>1 DEF OneScript, TypeOK, Transactions, P
  <2>3. \A p \in Ports : Runs(p)' = Runs(p)
    BY <2>1 DEF Runs, NodeRate
  <2>4. CASE P \in loose
    <3>1. Rate' = Rate /\ Rate[P] = -1
      BY <1>1, <2>1, <2>2, <2>3, <2>4 DEF Rate, P
    <3> QED
      BY <1>1, <2>2, <3>1 DEF Switch!Next, Switch!End, Rate, P
  <2>5. CASE P \notin loose
    <3>1. Settled(P) /\ NodeRate(P) \in {pending.from, pending.to}
      BY <2>1, <2>5 DEF EndsSettled
    <3>2. Rate[P] # -1
      BY <2>2, <2>5 DEF Rate, P, Transactions, Rates
    <3>3. Rate' = [Rate EXCEPT ![P] = NodeRate(P)]
      BY <1>1, <2>1, <2>2, <2>3, <2>5, <3>1, SettledRuns DEF Rate, P
    <3> QED
      BY <1>1, <2>2, <3>1, <3>2, <3>3 DEF Switch!Next, Switch!End, Rate, P
  <2> QED
    BY <2>4, <2>5
<1>2. CASE Reboot
  <2>1. pending' = None /\ loose' = {} /\ \A p \in Ports : Runs(p)' = Initial[p]
    BY <1>2, BootKeeps, SettledRunsNext DEF Reboot, Settled
  <2>2. Rate' = Initial
    BY <2>1, RateAssumption DEF Rate
  <2>3. Switch!Reset
    BY <2>1, <2>2 DEF Switch!Reset, Rate
  <2> QED
    BY <2>3 DEF Switch!Next
<1>3. ASSUME NEW p \in Ports, NEW rate \in Rates, Begin(p, rate)
      PROVE  Switch!Next
  <2>1. /\ pending = None /\ pending' = [port |-> p, from |-> NodeRate(p), to |-> rate]
        /\ rate # NodeRate(p) /\ Runs(p) = NodeRate(p) /\ loose' = loose
        /\ \A q \in Ports : Runs(q)' = Runs(q)
    BY <1>3, BeginsSettled, SettledRuns DEF Runs, NodeRate
  <2>2. Rate[p] \in {NodeRate(p), -1} /\ Rate' = Rate
    BY <2>1 DEF Rate
  <2>3. NodeRate(p) \in Rates
    BY NodeRates DEF TypeOK
  <2>4. Switch!Begin(p, rate)
    BY <2>1, <2>2, <2>3 DEF Switch!Begin, Rate
  <2> QED
    BY <2>4 DEF Switch!Next
<1>4. CASE Abandon
  <2>1. own # None /\ pending # None /\ P \in Ports
    BY <1>4 DEF Abandon, OneScript, TypeOK, Working, Transactions, P
  <2>2. pending' = pending /\ loose' = loose \cup {P}
    BY <1>4 DEF Abandon
  <2>3. \A p \in Ports : Runs(p)' = Runs(p)
    BY <1>4 DEF Abandon, Runs, NodeRate, module, drivers
  <2>4. Rate' = [Rate EXCEPT ![P] = -1]
    BY <2>1, <2>2, <2>3 DEF Rate, P
  <2> QED
    BY <2>1, <2>2, <2>4 DEF Switch!Next, Switch!Lose, Rate, P
<1>5. CASE pending' = pending /\ ~Reboot /\ loose' = loose
  BY <1>5, RateKept
<1> QED
  BY <1>1, <1>2, <1>3, <1>4, <1>5, PendingWriters, LooseWriters

\* The script, its workers, kills and a person's commands implement RateSwitch.
THEOREM RateSwitchImplemented == Spec => ImplementsRateSwitch
<1>1. Init => Switch!Init
  <2> SUFFICES ASSUME Init PROVE Switch!Init
    OBVIOUS
  <2>1. pending = None /\ loose = {} /\ \A p \in Ports : Runs(p) = Initial[p]
    BY DEF Init, Boot, Runs, NodeRate
  <2> QED
    BY <2>1, RateAssumption DEF Switch!Init
<1>2. IInv /\ [Next]_vars => [Switch!Next]_(Switch!vars)
  <2>1. ASSUME IInv, Next PROVE [Switch!Next]_(Switch!vars)
    BY <2>1, RefinedStep DEF Switch!vars, Rate
  <2>2. ASSUME UNCHANGED vars PROVE UNCHANGED Switch!vars
    <3>1. UNCHANGED <<property, netdev, lane, pending, loose>>
      BY <2>2 DEF vars, module, drivers, workers
    <3> QED
      BY <3>1 DEF Switch!vars, Runs, NodeRate
  <2> QED
    BY <2>1, <2>2
<1> QED
  BY <1>1, <1>2, Invariance, PTL DEF Spec, ImplementsRateSwitch
=============================================================================
