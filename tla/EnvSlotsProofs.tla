--------------------------- MODULE EnvSlotsProofs ----------------------------
(***************************************************************************)
(* The properties of EnvSlots, proved for every set of environments and    *)
(* every serial number another tool may have left.                         *)
(*                                                                         *)
(* InspectorAgrees is a fact about two flags bytes.  The other two follow  *)
(* from IInv: the slot that gd->env_valid does not name holds nothing that *)
(* a boot would take for the environment in use, except what this boot has *)
(* tried to save.                                                          *)
(***************************************************************************)
EXTENDS EnvSlots, TLAPS

USE DEF vars, Slots

-----------------------------------------------------------------------------
(* The inductive invariant *)

\* From the erasure on, the environment being saved is one that was tried;
\* from the comparison on, the new slot holds it.
InHand ==
  /\ step \in {"erase", "write", "verify", "obsolete", "check"} => want \in tried
  /\ step \in {"obsolete", "check"} => slot[New] = Sound(1, want)

\* The slot in use holds what a boot must find, and the other one is not taken
\* for it; without a slot in use there is nothing to find.
InUse ==
  ~blind =>
    IF valid = 0
      THEN /\ kept = Default /\ slot[2].state # "valid"
           /\ slot[1].state = "valid" => slot[1].value \in tried
      ELSE /\ slot[Old].state = "valid" /\ slot[Old].value = kept
           /\ slot[New].state = "valid" => slot[New].value \in tried \/ Chosen(Good) = Old

\* The last save of this boot that was reported is in the slot in use; when
\* two were, the one before it is retired in the other slot.
Reported ==
  LET last == reports[Len(reports)] IN
  /\ reports # <<>> =>
       /\ valid = last[1] /\ valid # 0
       /\ slot[valid].state = "valid" /\ slot[valid].value = last[2]
       /\ step # "check" => slot[valid].flags = 1
  /\ Accepted => /\ reports[1][1] = New
                 /\ slot[New] = Sound(0, reports[1][2])

IInv == TypeOK /\ InHand /\ InUse /\ Reported

-----------------------------------------------------------------------------
(* The choice between the slots *)

\* Both flags are bytes.
LEMMA FlagsAreBytes ==
  ASSUME TypeOK, NEW s \in Slots
  PROVE  slot[s].flags \in 0 .. 255
<1>1. slot[s] \in Contents
  BY DEF TypeOK
<1>2. ASSUME NEW c \in Contents PROVE c.flags \in 0 .. 255
  <2>1. CASE c = Blank
    BY <2>1 DEF Blank
  <2>2. CASE c \in Corrupt
    BY <2>2 DEF Corrupt
  <2>3. CASE \E f \in Serials, v \in Values : c = Sound(f, v)
    BY <2>3, EnvAssumption DEF Sound
  <2> QED
    BY <1>2, <2>1, <2>2, <2>3 DEF Contents
<1> QED
  BY <1>1, <1>2

\* Nothing to choose from; one slot to choose.
LEMMA ChosenNone == Chosen({}) = 0
BY DEF Chosen

LEMMA ChosenOne ==
  ASSUME NEW s \in Slots
  PROVE  Chosen({s}) = s
<1>1. {s} # {} /\ {s} # Slots
  OBVIOUS
<1>2. (CHOOSE t \in {s} : TRUE) = s
  OBVIOUS
<1> QED
  BY <1>1, <1>2 DEF Chosen

LEMMA ChosenAny ==
  ASSUME NEW good \in SUBSET Slots
  PROVE  good # {} => Chosen(good) \in good
<1>1. CASE good = {}
  BY <1>1
<1>2. CASE \E s \in Slots : good = {s}
  BY <1>2, ChosenOne
<1>3. CASE good = Slots
  BY <1>3 DEF Chosen
<1> QED
  BY <1>1, <1>2, <1>3

\* The two slots that are not the same.
LEMMA NewAndOld ==
  ASSUME valid \in 0 .. 2
  PROVE  New \in Slots /\ Old \in Slots /\ New # Old /\ Slots = {New, Old}
BY DEF New, Old

-----------------------------------------------------------------------------
(* Types *)

LEMMA ContentsKinds ==
  /\ Blank \in Contents /\ Corrupt \subseteq Contents
  /\ \A v \in Values : Sound(0, v) \in Contents /\ Sound(1, v) \in Contents
BY EnvAssumption DEF Contents

\* Programming the flags byte leaves the contents of a slot.
LEMMA RetiredTyped ==
  ASSUME NEW c \in Contents
  PROVE  Retired(c) \in Contents
<1>1. CASE c = Blank
  <2>1. Retired(c) = [state |-> "corrupt", flags |-> 0, value |-> Default]
    BY <1>1 DEF Retired, Blank
  <2> QED
    BY <2>1, ContentsKinds DEF Corrupt
<1>2. CASE c \in Corrupt
  <2>1. PICK f \in {0, 1, 255} : c = [state |-> "corrupt", flags |-> f, value |-> Default]
    BY <1>2 DEF Corrupt
  <2>2. Retired(c) = [state |-> "corrupt", flags |-> 0, value |-> Default]
    BY <2>1 DEF Retired
  <2> QED
    BY <2>2, ContentsKinds DEF Corrupt
<1>3. CASE \E f \in Serials, v \in Values : c = Sound(f, v)
  <2>1. PICK f \in Serials, v \in Values : c = Sound(f, v)
    BY <1>3
  <2>2. Retired(c) = Sound(0, v)
    BY <2>1 DEF Retired, Sound
  <2> QED
    BY <2>2, ContentsKinds
<1> QED
  BY <1>1, <1>2, <1>3 DEF Contents

\* What a boot finds is an environment or the compiled-in one.
LEMMA ValueTyped ==
  ASSUME NEW c \in Contents
  PROVE  /\ c.value \in Values \cup {Default}
         /\ c.state = "valid" => \E f \in Serials : c = Sound(f, c.value) /\ c.value \in Values
<1>1. CASE c = Blank
  BY <1>1 DEF Blank
<1>2. CASE c \in Corrupt
  BY <1>2 DEF Corrupt
<1>3. CASE \E f \in Serials, v \in Values : c = Sound(f, v)
  <2>1. PICK f \in Serials, v \in Values : c = Sound(f, v)
    BY <1>3
  <2>2. c.value = v
    BY <2>1 DEF Sound
  <2> QED
    BY <2>1, <2>2
<1> QED
  BY <1>1, <1>2, <1>3 DEF Contents

LEMMA GoodSlots == ASSUME TypeOK PROVE Good \in SUBSET Slots
BY DEF Good

\* One more report, two at most.
LEMMA ReportsTyped ==
  ASSUME TypeOK, NEW r \in Slots \X Values
  PROVE  LET longer == Append(Last(reports), r)
         IN  longer \in Seq(Slots \X Values) /\ Len(longer) <= 2
<1>1. reports \in Seq(Slots \X Values) /\ Len(reports) <= 2
  BY DEF TypeOK
<1>2. Last(reports) \in Seq(Slots \X Values) /\ Len(Last(reports)) <= 1
  BY <1>1 DEF Last
<1> QED
  BY <1>2

LEMMA TypeInit == Init => TypeOK
BY DEF Init, TypeOK

\* One slot changes to a content.
LEMMA SlotTyped ==
  ASSUME TypeOK, NEW s \in Slots, NEW c \in Contents
  PROVE  [slot EXCEPT ![s] = c] \in [Slots -> Contents]
BY DEF TypeOK

\* The acceptance starts over, or goes on.
LEMMA ReportsKept ==
  ASSUME TypeOK, UNCHANGED reports \/ reports' = <<>>
  PROVE  reports' \in Seq(Slots \X Values) /\ Len(reports') <= 2
<1>1. CASE UNCHANGED reports
  BY <1>1 DEF TypeOK
<1>2. CASE reports' = <<>>
  BY <1>2
<1> QED
  BY <1>1, <1>2

\* Every step keeps the types, the environment in hand being one to save.
LEMMA TypeNext == TypeOK /\ InHand /\ [Next]_vars => TypeOK'
<1> SUFFICES ASSUME TypeOK, InHand, [Next]_vars PROVE TypeOK'
  OBVIOUS
<1>1. New \in Slots /\ Old \in Slots
  BY NewAndOld DEF TypeOK
<1>2. slot[New] \in Contents /\ slot[Old] \in Contents
  BY <1>1 DEF TypeOK
<1>3. CASE Boot
  <2>1. PICK unread \in SUBSET Slots : valid' = Chosen(Good \ unread) /\ blind' = (unread # {})
                                       /\ kept' = Holds(valid')
    BY <1>3 DEF Boot
  <2>2. valid' \in 0 .. 2
    <3>1. Good \ unread \in SUBSET Slots
      BY GoodSlots
    <3>2. CASE Good \ unread = {}
      BY <2>1, <3>2, ChosenNone
    <3>3. CASE Good \ unread # {}
      BY <2>1, <3>1, <3>3, ChosenAny
    <3> QED
      BY <3>2, <3>3
  <2>3. kept' \in Values \cup {Default}
    <3>1. CASE valid' = 0
      BY <2>1, <3>1 DEF Holds
    <3>2. CASE valid' \in Slots
      <4>1. slot[valid'] \in Contents
        BY <3>2 DEF TypeOK
      <4>2. kept' = slot[valid'].value
        BY <1>3, <2>1, <3>2 DEF Boot, Holds
      <4> QED
        BY <4>1, <4>2, ValueTyped
    <3> QED
      BY <2>2, <3>1, <3>2
  <2>4. reports' \in Seq(Slots \X Values) /\ Len(reports') <= 2
    BY <1>3, ReportsKept DEF Boot
  <2> QED
    BY <1>3, <2>1, <2>2, <2>3, <2>4 DEF Boot, TypeOK
<1>4. CASE \E v \in Values : Save(v)
  BY <1>4 DEF Save, TypeOK
<1>5. CASE Erase
  <2>1. PICK c \in Corrupt \cup {slot[New], Blank} : slot' = [slot EXCEPT ![New] = c]
    BY <1>5 DEF Erase, Becomes
  <2>2. slot' \in [Slots -> Contents]
    BY <2>1, <1>1, <1>2, ContentsKinds, SlotTyped
  <2>3. reports' \in Seq(Slots \X Values) /\ Len(reports') <= 2
    BY <1>5, ReportsKept DEF Erase, Goes, Fails
  <2> QED
    BY <1>5, <2>2, <2>3 DEF Erase, Goes, Fails, Pending, TypeOK
<1>6. CASE Write
  <2>1. PICK c \in Corrupt \cup {slot[New]} \cup (IF slot[New] = Blank THEN {Sound(1, want)} ELSE {}) :
          slot' = [slot EXCEPT ![New] = c]
    BY <1>6 DEF Write, Becomes
  <2>2. want \in Values
    BY <1>6 DEF Write, InHand, TypeOK
  <2>3. c \in Contents
    BY <2>1, <2>2, <1>2, ContentsKinds
  <2>4. slot' \in [Slots -> Contents]
    BY <2>1, <2>3, <1>1, SlotTyped
  <2>5. reports' \in Seq(Slots \X Values) /\ Len(reports') <= 2
    BY <1>6, ReportsKept DEF Write, Goes, Fails
  <2> QED
    BY <1>6, <2>4, <2>5 DEF Write, Goes, Fails, Pending, TypeOK
<1>7. CASE Verify
  <2>1. reports' \in Seq(Slots \X Values) /\ Len(reports') <= 2
    BY <1>7, ReportsKept DEF Verify, Goes, Fails
  <2> QED
    BY <1>7, <2>1 DEF Verify, Goes, Fails, Pending, TypeOK
<1>8. CASE Obsolete
  <2>1. PICK c \in {slot[Old], Retired(slot[Old])} : slot' = [slot EXCEPT ![Old] = c]
    BY <1>8 DEF Obsolete, Becomes
  <2>2. slot' \in [Slots -> Contents]
    BY <2>1, <1>1, <1>2, RetiredTyped, SlotTyped
  <2>3. reports' \in Seq(Slots \X Values) /\ Len(reports') <= 2
    BY <1>8, ReportsKept DEF Obsolete, Goes, Fails
  <2> QED
    BY <1>8, <2>2, <2>3 DEF Obsolete, Goes, Fails, Pending, TypeOK
<1>9. CASE Check
  <2>1. want \in Values
    BY <1>9 DEF Check, InHand, TypeOK
  <2>2. CASE /\ valid' = Saved /\ step' = "idle"
             /\ reports' = Append(Last(reports), <<Saved, want>>)
             /\ kept' = want /\ tried' = {} /\ blind' = FALSE
    <3>1. <<Saved, want>> \in Slots \X Values
      BY <1>1, <2>1 DEF Saved
    <3>2. reports' \in Seq(Slots \X Values) /\ Len(reports') <= 2
      BY <2>2, <3>1, ReportsTyped
    <3>3. valid' \in 0 .. 2
      BY <1>1, <2>2 DEF Saved
    <3>4. UNCHANGED <<slot, want>>
      BY <1>9 DEF Check
    <3> QED
      BY <2>1, <2>2, <3>2, <3>3, <3>4 DEF TypeOK
  <2>3. CASE Fails /\ UNCHANGED <<valid, kept, tried, blind>>
    <3>1. reports' \in Seq(Slots \X Values) /\ Len(reports') <= 2
      BY <2>3, ReportsKept DEF Fails
    <3> QED
      BY <1>9, <2>3, <3>1 DEF Check, Fails, TypeOK
  <2> QED
    BY <1>9, <2>2, <2>3 DEF Check
<1>10. CASE UNCHANGED vars
  BY <1>10 DEF TypeOK
<1> QED
  BY <1>3, <1>4, <1>5, <1>6, <1>7, <1>8, <1>9, <1>10 DEF Next

-----------------------------------------------------------------------------
(* The slot in use *)

\* The names of the slots follow gd->env_valid, the choice follows the slots.
LEMMA NamesKept == UNCHANGED valid => New' = New /\ Old' = Old
BY DEF New, Old

LEMMA ChoiceKept == UNCHANGED slot => Good' = Good /\ Chosen(Good)' = Chosen(Good)
BY DEF Good, Chosen

\* What gd->env_valid names is not what the next save erases.
LEMMA InUseIsOld == ASSUME valid \in Slots PROVE Old = valid
BY DEF Old, New

\* A sound copy beside a retired one is what a boot takes.
LEMMA RetiredLoses ==
  ASSUME NEW s \in Slots, NEW t \in Slots, s # t, NEW v,
         slot[s] = Sound(1, v), slot[t].flags = 0
  PROVE  Chosen(Good) = s
<1>1. slot[s].state = "valid" /\ slot[s].flags = 1
  BY DEF Sound
<1>2. CASE slot[t].state = "valid"
  <2>1. Good = Slots
    BY <1>1, <1>2 DEF Good
  <2> QED
    BY <1>1, <2>1 DEF Chosen
<1>3. CASE slot[t].state # "valid"
  <2>1. Good = {s}
    BY <1>1, <1>3 DEF Good
  <2> QED
    BY <2>1, ChosenOne
<1> QED
  BY <1>2, <1>3

\* Retiring a copy leaves what it holds, and whether it is sound.
LEMMA RetiredHolds ==
  ASSUME NEW c \in Contents
  PROVE  /\ Retired(c).state = "valid" <=> c.state = "valid"
         /\ c.state = "valid" => Retired(c).value = c.value
<1>1. CASE c.state = "blank"
  BY <1>1 DEF Retired, Contents, Blank, Corrupt, Sound
<1>2. CASE c.state # "blank"
  BY <1>2 DEF Retired, Contents, Blank, Corrupt, Sound
<1> QED
  BY <1>1, <1>2

LEMMA InHandNext == TypeOK /\ InHand /\ [Next]_vars => InHand'
<1> SUFFICES ASSUME TypeOK, InHand, [Next]_vars PROVE InHand'
  OBVIOUS
<1>1. New \in Slots /\ Old \in Slots /\ New # Old
  BY NewAndOld DEF TypeOK
<1>2. CASE Boot
  BY <1>2 DEF Boot, InHand
<1>3. CASE \E v \in Values : Save(v)
  BY <1>3 DEF Save, InHand
<1>4. CASE Erase
  BY <1>4 DEF Erase, Goes, Fails, Pending, InHand
<1>5. CASE Write
  BY <1>5 DEF Write, Goes, Fails, Pending, InHand
<1>6. CASE Verify
  BY <1>6, NamesKept DEF Verify, Goes, Fails, Pending, InHand
<1>7. CASE Obsolete
  <2>1. slot'[New] = slot[New]
    BY <1>1, <1>7 DEF Obsolete, Becomes, TypeOK
  <2> QED
    BY <1>7, <2>1, NamesKept DEF Obsolete, Goes, Fails, Pending, InHand
<1>8. CASE Check
  BY <1>8 DEF Check, Fails, InHand
<1>9. CASE UNCHANGED vars
  BY <1>9, NamesKept DEF InHand
<1> QED
  BY <1>2, <1>3, <1>4, <1>5, <1>6, <1>7, <1>8, <1>9 DEF Next

\* A save writes only the slot that is not in use, and only what it tries.
LEMMA NewWritten ==
  ASSUME TypeOK, InUse, UNCHANGED <<valid, kept, tried, blind>>,
         NEW c, slot' = [slot EXCEPT ![New] = c],
         c = slot[New] \/ c.state # "valid" \/ c.value \in tried
  PROVE  InUse'
<1>1. New \in Slots /\ Old \in Slots /\ New # Old
  BY NewAndOld DEF TypeOK
<1>2. New' = New /\ Old' = Old
  BY NamesKept
<1>3. slot'[New] = c /\ slot'[Old] = slot[Old]
  BY <1>1 DEF TypeOK
<1>4. CASE c = slot[New]
  <2>1. slot' = slot
    BY <1>1, <1>4 DEF TypeOK
  <2> QED
    BY <1>2, <2>1, ChoiceKept DEF InUse
<1>5. CASE c.state # "valid" \/ c.value \in tried
  <2>1. valid = 0 => New = 1 /\ Old = 2
    BY DEF New, Old
  <2> QED
    BY <1>2, <1>3, <1>5, <2>1 DEF InUse
<1> QED
  BY <1>4, <1>5

LEMMA InUseNext == TypeOK /\ InHand /\ InUse /\ [Next]_vars => InUse'
<1> SUFFICES ASSUME TypeOK, InHand, InUse, [Next]_vars PROVE InUse'
  OBVIOUS
<1>1. New \in Slots /\ Old \in Slots /\ New # Old
  BY NewAndOld DEF TypeOK
<1>2. CASE Boot
  <2> SUFFICES ASSUME ~blind' PROVE InUse'
    BY DEF InUse
  <2>1. valid' = Chosen(Good) /\ kept' = Holds(valid') /\ UNCHANGED slot
    BY <1>2 DEF Boot
  <2>2. CASE Good = {}
    <3>1. valid' = 0 /\ kept' = Default
      BY <2>1, <2>2, ChosenNone DEF Holds
    <3>2. slot'[1].state # "valid" /\ slot'[2].state # "valid"
      BY <2>1, <2>2 DEF Good
    <3> QED
      BY <3>1, <3>2 DEF InUse
  <2>3. CASE Good # {}
    <3>1. valid' \in Good
      BY <2>1, <2>3, GoodSlots, ChosenAny
    <3>2. valid' \in Slots /\ slot[valid'].state = "valid"
      BY <3>1 DEF Good
    <3>3. Old' = valid' /\ kept' = slot[valid'].value
      BY <2>1, <3>2 DEF Old, New, Holds
    <3>4. Chosen(Good)' = Old'
      BY <2>1, <3>3, ChoiceKept
    <3> QED
      BY <2>1, <3>2, <3>3, <3>4 DEF InUse
  <2> QED
    BY <2>2, <2>3
<1>3. CASE \E v \in Values : Save(v)
  BY <1>3, NamesKept, ChoiceKept DEF Save, InUse
<1>4. CASE Erase
  <2>1. PICK c \in Corrupt \cup {slot[New], Blank} : slot' = [slot EXCEPT ![New] = c]
    BY <1>4 DEF Erase, Becomes
  <2>2. c = slot[New] \/ c.state # "valid"
    BY <2>1 DEF Corrupt, Blank
  <2> QED
    BY <1>4, <2>1, <2>2, NewWritten DEF Erase, Pending
<1>5. CASE Write
  <2>1. PICK c \in Corrupt \cup {slot[New]} \cup (IF slot[New] = Blank THEN {Sound(1, want)} ELSE {}) :
          slot' = [slot EXCEPT ![New] = c]
    BY <1>5 DEF Write, Becomes
  <2>2. want \in tried
    BY <1>5 DEF Write, InHand
  <2>3. c = slot[New] \/ c.state # "valid" \/ c.value \in tried
    BY <2>1, <2>2 DEF Corrupt, Sound
  <2> QED
    BY <1>5, <2>1, <2>3, NewWritten DEF Write, Pending
<1>6. CASE Verify
  BY <1>6, NamesKept, ChoiceKept DEF Verify, Pending, InUse
<1>7. CASE Obsolete
  <2>1. PICK c \in {slot[Old], Retired(slot[Old])} : slot' = [slot EXCEPT ![Old] = c]
    BY <1>7 DEF Obsolete, Becomes
  <2>2. slot'[Old] = c /\ slot'[New] = slot[New]
    BY <1>1, <2>1 DEF TypeOK
  <2>3. /\ c.state = "valid" <=> slot[Old].state = "valid"
        /\ slot[Old].state = "valid" => c.value = slot[Old].value
    BY <1>1, <2>1, RetiredHolds DEF TypeOK
  <2>4. slot[New].value \in tried
    BY <1>7 DEF Obsolete, InHand, Sound
  <2>5. New' = New /\ Old' = Old /\ (valid = 0 => New = 1 /\ Old = 2)
    BY <1>7, NamesKept DEF Obsolete, Pending, New, Old
  <2>6. UNCHANGED <<valid, kept, tried, blind>>
    BY <1>7 DEF Obsolete, Pending
  <2> QED
    BY <2>2, <2>3, <2>4, <2>5, <2>6 DEF InUse
<1>8. CASE Check
  <2>1. CASE UNCHANGED <<valid, kept, tried, blind>>
    BY <1>8, <2>1, NamesKept, ChoiceKept DEF Check, InUse
  <2>2. CASE slot[Old].flags = 0 /\ valid' = Saved /\ kept' = want /\ tried' = {}
    <3>1. slot[New] = Sound(1, want) /\ UNCHANGED slot
      BY <1>8 DEF Check, InHand
    <3>2. Old' = New /\ New' = Old /\ valid' # 0
      BY <2>2 DEF Saved, Old, New, TypeOK
    <3>3. Chosen(Good) = New
      BY <1>1, <2>2, <3>1, RetiredLoses
    <3>4. Chosen(Good)' = Old'
      BY <3>1, <3>2, <3>3, ChoiceKept
    <3>5. slot'[Old'].state = "valid" /\ slot'[Old'].value = kept'
      BY <2>2, <3>1, <3>2 DEF Sound
    <3> QED
      BY <3>2, <3>4, <3>5 DEF InUse
  <2> QED
    BY <1>8, <2>1, <2>2 DEF Check
<1>9. CASE UNCHANGED vars
  BY <1>9, NamesKept, ChoiceKept DEF InUse
<1> QED
  BY <1>2, <1>3, <1>4, <1>5, <1>6, <1>7, <1>8, <1>9 DEF Next

-----------------------------------------------------------------------------
(* The reports *)

LEMMA ReportsDropped == reports' = <<>> => Reported'
BY DEF Reported, Accepted

\* A step short of the last check that leaves the slot in use.
LEMMA ReportsStand ==
  ASSUME Reported, UNCHANGED <<valid, reports>>, step # "check", step' # "idle",
         valid # 0 => slot'[valid] = slot[valid]
  PROVE  Reported'
BY DEF Reported, Accepted

\* Of the reports there were, the last is kept.
LEMMA LastIsKept ==
  ASSUME TypeOK, reports # <<>>
  PROVE  /\ Last(reports) \in Seq(Slots \X Values) /\ Len(Last(reports)) = 1
         /\ Last(reports)[1] = reports[Len(reports)]
<1>1. reports \in Seq(Slots \X Values) /\ (Len(reports) = 1 \/ Len(reports) = 2)
  <2>1. reports \in Seq(Slots \X Values) /\ Len(reports) <= 2
    BY DEF TypeOK
  <2>2. Len(reports) # 0
    BY <2>1
  <2>3. Len(reports) \in Nat
    BY <2>1
  <2>4. ASSUME NEW n \in Nat, n # 0, n <= 2 PROVE n = 1 \/ n = 2
    BY <2>4
  <2> QED
    BY <2>1, <2>2, <2>3, <2>4
<1>2. CASE Len(reports) = 1
  BY <1>1, <1>2 DEF Last
<1>3. CASE Len(reports) = 2
  <2>1. Last(reports) = Tail(reports)
    BY <1>3 DEF Last
  <2> QED
    BY <1>1, <1>3, <2>1
<1> QED
  BY <1>1, <1>2, <1>3

\* What is appended comes last, and what was there stays.
LEMMA AppendedLast ==
  ASSUME NEW S, NEW s \in Seq(S), NEW r \in S
  PROVE  Append(s, r)[Len(s) + 1] = r /\ Len(Append(s, r)) = Len(s) + 1
<1>1. Append(s, r)[Len(s) + 1] = r
  OBVIOUS
<1>2. Len(Append(s, r)) = Len(s) + 1
  OBVIOUS
<1> QED
  BY <1>1, <1>2

LEMMA AppendedBefore ==
  ASSUME NEW S, NEW s \in Seq(S), NEW r \in S
  PROVE  \A i \in 1 .. Len(s) : Append(s, r)[i] = s[i]
OBVIOUS

\* The second of two.
LEMMA Appended ==
  ASSUME NEW S, NEW s \in Seq(S), Len(s) = 1, NEW r \in S
  PROVE  Len(Append(s, r)) = 2 /\ Append(s, r)[1] = s[1] /\ Append(s, r)[2] = r
<1>1. 1 \in 1 .. Len(s) /\ Len(s) + 1 = 2
  OBVIOUS
<1>2. Append(s, r)[1] = s[1]
  <2>1. \A i \in 1 .. Len(s) : Append(s, r)[i] = s[i]
    BY AppendedBefore, Zenon
  <2> QED
    BY <1>1, <2>1, Zenon
<1>3. Append(s, r)[Len(s) + 1] = r /\ Len(Append(s, r)) = Len(s) + 1
  BY AppendedLast
<1> QED
  BY <1>1, <1>2, <1>3, Zenon

\* A copy that is sound is known by its flags and its value.
LEMMA SoundKnown ==
  ASSUME TypeOK, NEW s \in Slots, slot[s].state = "valid"
  PROVE  slot[s] = Sound(slot[s].flags, slot[s].value)
<1>1. slot[s] \in Contents
  BY DEF TypeOK
<1>2. PICK f \in Serials : slot[s] = Sound(f, slot[s].value)
  BY <1>1, ValueTyped
<1>3. slot[s].flags = f
  BY <1>2 DEF Sound
<1> QED
  BY <1>2, <1>3

\* A save that is done is reported, after the one before it.
LEMMA SaveReported ==
  ASSUME TypeOK, InHand, Reported, Check, reports' = Append(Last(reports), <<Saved, want>>),
         slot[Old].flags = 0, valid' = Saved, step' = "idle"
  PROVE  Reported'
<1>1. New \in Slots /\ Old \in Slots /\ New # Old
  BY NewAndOld DEF TypeOK
<1>2. UNCHANGED slot /\ slot[New] = Sound(1, want)
  BY DEF Check, InHand
<1>3. valid' = New /\ valid' # 0 /\ New' = Old
  BY <1>1 DEF Saved, New, Old
<1>4. slot'[valid'].state = "valid" /\ slot'[valid'].value = want /\ slot'[valid'].flags = 1
  BY <1>2, <1>3 DEF Sound
<1>5. CASE reports = <<>>
  <2>1. Last(reports) = <<>>
    BY <1>5 DEF Last
  <2>2. reports' = <<<<Saved, want>>>>
    BY <2>1
  <2>3. Len(reports') = 1 /\ reports'[1] = <<Saved, want>>
    BY <2>2
  <2> QED
    BY <1>3, <1>4, <2>3 DEF Reported, Accepted, Saved
<1>6. CASE reports # <<>>
  <2> DEFINE before == reports[Len(reports)]
  <2>1. Last(reports) \in Seq(Slots \X Values) /\ Len(Last(reports)) = 1 /\ Last(reports)[1] = before
    BY <1>6, LastIsKept
  <2>2. <<Saved, want>> \in Slots \X Values
    BY <1>1 DEF Saved, Check, InHand, TypeOK
  <2>3. Len(reports') = 2 /\ reports'[1] = before /\ reports'[2] = <<Saved, want>>
    BY <2>1, <2>2, Appended
  <2>4. /\ valid = before[1] /\ valid # 0
        /\ slot[valid].state = "valid" /\ slot[valid].value = before[2]
    BY <1>6 DEF Reported
  <2>5. Old = valid
    BY <2>4, InUseIsOld DEF TypeOK
  <2>6. slot[Old] = Sound(0, before[2])
    BY <1>1, <2>4, <2>5, SoundKnown
  <2>7. reports'[1][1] = New' /\ slot'[New'] = Sound(0, reports'[1][2])
    BY <1>2, <1>3, <2>3, <2>4, <2>5, <2>6
  <2> HIDE DEF before
  <2> QED
    BY <1>3, <1>4, <2>3, <2>7 DEF Reported, Accepted, Saved
<1> QED
  BY <1>5, <1>6

LEMMA ReportedNext == TypeOK /\ InHand /\ Reported /\ [Next]_vars => Reported'
<1> SUFFICES ASSUME TypeOK, InHand, Reported, [Next]_vars PROVE Reported'
  OBVIOUS
<1>1. New \in Slots /\ Old \in Slots /\ New # Old
  BY NewAndOld DEF TypeOK
<1>2. valid # 0 => valid = Old /\ valid \in Slots
  BY InUseIsOld DEF TypeOK
<1>3. CASE Boot
  BY <1>3, ReportsDropped DEF Boot
<1>4. CASE \E v \in Values : Save(v)
  BY <1>4, ReportsStand DEF Save
<1>5. CASE Erase
  <2>1. valid # 0 => slot'[valid] = slot[valid]
    BY <1>1, <1>2, <1>5 DEF Erase, Becomes, TypeOK
  <2> QED
    BY <1>5, <2>1, ReportsDropped, ReportsStand DEF Erase, Goes, Fails, Pending
<1>6. CASE Write
  <2>1. valid # 0 => slot'[valid] = slot[valid]
    BY <1>1, <1>2, <1>6 DEF Write, Becomes, TypeOK
  <2> QED
    BY <1>6, <2>1, ReportsDropped, ReportsStand DEF Write, Goes, Fails, Pending
<1>7. CASE Verify
  BY <1>7, ReportsDropped, ReportsStand DEF Verify, Goes, Fails, Pending
<1>8. CASE Obsolete
  <2>1. CASE Fails
    BY <2>1, ReportsDropped DEF Fails
  <2>2. CASE Goes("check")
    <3>1. PICK c \in {slot[Old], Retired(slot[Old])} : slot' = [slot EXCEPT ![Old] = c]
      BY <1>8 DEF Obsolete, Becomes
    <3>2. UNCHANGED <<valid, reports>> /\ step' = "check"
      BY <1>8, <2>2 DEF Obsolete, Pending, Goes
    <3>3. slot[Old] \in Contents /\ slot'[Old] = c
      BY <1>1, <3>1 DEF TypeOK
    <3>4. /\ c.state = "valid" <=> slot[Old].state = "valid"
          /\ slot[Old].state = "valid" => c.value = slot[Old].value
      BY <3>1, <3>3, RetiredHolds
    <3> QED
      BY <1>2, <3>2, <3>3, <3>4 DEF Reported, Accepted
  <2> QED
    BY <1>8, <2>1, <2>2 DEF Obsolete
<1>9. CASE Check
  <2>1. CASE Fails
    BY <2>1, ReportsDropped DEF Fails
  <2>2. CASE ~Fails
    BY <1>9, <2>2, SaveReported DEF Check
  <2> QED
    BY <2>1, <2>2
<1>10. CASE UNCHANGED vars
  <2>1. New' = New
    BY <1>10, NamesKept
  <2> QED
    BY <1>10, <2>1 DEF Reported, Accepted
<1> QED
  BY <1>3, <1>4, <1>5, <1>6, <1>7, <1>8, <1>9, <1>10 DEF Next

-----------------------------------------------------------------------------
(* The theorems *)

LEMMA InvariantInit == Init => IInv
<1> SUFFICES ASSUME Init PROVE IInv
  OBVIOUS
<1>1. TypeOK
  BY TypeInit
<1>2. InHand /\ InUse
  BY DEF Init, InHand, InUse
<1>3. Reported
  BY DEF Init, Reported, Accepted
<1> QED
  BY <1>1, <1>2, <1>3 DEF IInv

\* The inductive invariant holds of every behaviour of saves, failures and
\* power losses.
THEOREM Invariance == Spec => []IInv
<1>1. IInv /\ [Next]_vars => IInv'
  BY TypeNext, InHandNext, InUseNext, ReportedNext DEF IInv
<1> QED
  BY InvariantInit, <1>1, PTL DEF Spec

\* Every variable keeps its type: the flags of a sound copy are bytes that a
\* tool writes, and no more than the last two reports of a boot are kept.
THEOREM TypeCorrect == Spec => []TypeOK
BY Invariance, PTL DEF IInv

\* A boot that reads both slots finds the last environment saved or found, or
\* one tried since: the order of the steps of env_sf_save.
THEOREM DurableHolds == Spec => []Durable
<1>1. IInv => Durable
  <2> SUFFICES ASSUME TypeOK, InUse, ~blind
               PROVE  Holds(Chosen(Good)) \in {kept} \cup tried
    BY DEF IInv, Durable
  <2>1. Good \in SUBSET Slots
    BY GoodSlots
  <2>2. CASE valid = 0
    <3>1. Good = {} \/ Good = {1}
      BY <2>1, <2>2 DEF InUse, Good
    <3>2. CASE Good = {}
      BY <2>2, <3>2, ChosenNone DEF InUse, Holds
    <3>3. CASE Good = {1}
      <4>1. slot[1].state = "valid" /\ Chosen(Good) = 1
        BY <3>3, ChosenOne DEF Good
      <4> QED
        BY <2>2, <4>1 DEF InUse, Holds
    <3> QED
      BY <3>1, <3>2, <3>3
  <2>3. CASE valid # 0
    <3>1. New \in Slots /\ Old \in Slots /\ Slots = {New, Old}
      BY NewAndOld DEF TypeOK
    <3>2. Old \in Good
      BY <2>3, <3>1 DEF InUse, Good
    <3>3. Chosen(Good) \in Good
      BY <2>1, <3>2, ChosenAny
    <3>4. CASE Chosen(Good) = Old
      BY <2>3, <3>1, <3>4 DEF InUse, Holds
    <3>5. CASE Chosen(Good) # Old
      <4>1. Chosen(Good) = New /\ slot[New].state = "valid"
        BY <2>1, <3>1, <3>3, <3>5 DEF Good
      <4>2. slot[New].value \in tried
        BY <2>3, <3>5, <4>1 DEF InUse
      <4> QED
        BY <3>1, <4>1, <4>2 DEF Holds
    <3> QED
      BY <3>4, <3>5
  <2> QED
    BY <2>2, <2>3
<1> QED
  BY Invariance, <1>1, PTL

\* Two saves of one boot that report success leave both slots valid, the first
\* retired and the second selected: what uboot_env_accept.py concludes.
THEOREM AcceptedIsRedundantHolds == Spec => []AcceptedIsRedundant
<1>1. IInv => AcceptedIsRedundant
  <2> SUFFICES ASSUME TypeOK, Reported, Accepted PROVE AcceptedIsRedundant
    BY DEF IInv, AcceptedIsRedundant
  <2> DEFINE first == reports[1]
             second == reports[2]
  <2>1. Len(reports) = 2 /\ reports # <<>> /\ step = "idle"
    BY DEF Accepted
  <2>2. /\ valid = second[1] /\ valid # 0 /\ slot[valid].state = "valid"
        /\ slot[valid].value = second[2] /\ slot[valid].flags = 1
        /\ first[1] = New /\ slot[New] = Sound(0, first[2])
    BY <2>1 DEF Reported
  <2>3. valid \in Slots /\ New \in Slots /\ New # valid
    BY <2>2, NewAndOld, InUseIsOld DEF TypeOK
  <2>4. slot[valid] = Sound(1, second[2])
    BY <2>2, <2>3, SoundKnown
  <2>5. slot[New].flags = 0
    BY <2>2 DEF Sound
  <2>6. Chosen(Good) = valid
    BY <2>3, <2>4, <2>5, RetiredLoses
  <2> QED
    BY <2>2, <2>3, <2>4, <2>6 DEF AcceptedIsRedundant
<1> QED
  BY Invariance, <1>1, PTL

\* Two ways to compare two bytes.
LEMMA SameChoice ==
  ASSUME TypeOK
  PROVE  InspectorAgrees
<1>1. slot[1].flags \in 0 .. 255 /\ slot[2].flags \in 0 .. 255
  BY FlagsAreBytes
<1>2. CASE slot[1].state = "valid" /\ slot[2].state = "valid"
  <2>1. Good = Slots
    BY <1>2 DEF Good
  <2> QED
    BY <1>1, <1>2, <2>1 DEF InspectorAgrees, SelectSlot, Chosen
<1>3. CASE slot[1].state = "valid" /\ slot[2].state # "valid"
  <2>1. Good = {1}
    BY <1>3 DEF Good
  <2> QED
    BY <1>3, <2>1, ChosenOne DEF InspectorAgrees, SelectSlot
<1>4. CASE slot[1].state # "valid" /\ slot[2].state = "valid"
  <2>1. Good = {2}
    BY <1>4 DEF Good
  <2> QED
    BY <1>4, <2>1, ChosenOne DEF InspectorAgrees, SelectSlot
<1>5. CASE slot[1].state # "valid" /\ slot[2].state # "valid"
  <2>1. Good = {}
    BY <1>5 DEF Good
  <2> QED
    BY <1>5, <2>1, ChosenNone DEF InspectorAgrees, SelectSlot
<1> QED
  BY <1>2, <1>3, <1>4, <1>5

\* inspect_env.py names the slot U-Boot takes, at every moment of a save.
THEOREM InspectorAgreesHolds == Spec => []InspectorAgrees
BY TypeCorrect, SameChoice, PTL

-----------------------------------------------------------------------------
(* The refinement of EnvStore *)

LEMMA HoldsTyped ==
  ASSUME TypeOK, NEW good \in SUBSET Slots
  PROVE  Holds(Chosen(good)) \in Values \cup {Default}
<1>1. CASE good = {}
  BY <1>1, ChosenNone DEF Holds
<1>2. CASE good # {}
  <2>1. Chosen(good) \in Slots
    BY <1>2, ChosenAny
  <2>2. slot[Chosen(good)].value \in Values \cup {Default}
    BY <2>1, ValueTyped DEF TypeOK
  <2> QED
    BY <2>1, <2>2 DEF Holds
<1> QED
  BY <1>1, <1>2

\* What a boot finds after a step is in one of the slots, if one is valid.
LEMMA FoundAfter ==
  LET found == Holds(Chosen(Good))' IN
  \/ found = Default /\ \A s \in Slots : slot'[s].state # "valid"
  \/ \E s \in Slots : slot'[s].state = "valid" /\ found = slot'[s].value
<1> DEFINE good == {s \in Slots : slot'[s].state = "valid"}
<1>1. Good' = good
  BY DEF Good
<1>2. CASE good = {}
  <2>1. Chosen(Good)' = 0
    BY <1>1, <1>2 DEF Chosen
  <2> QED
    BY <1>2, <2>1 DEF Holds
<1>3. CASE good # {}
  <2>1. Chosen(Good)' \in good
    <3>1. CASE good = Slots
      BY <1>1, <3>1 DEF Chosen
    <3>2. CASE good # Slots
      <4>1. Chosen(Good)' = CHOOSE s \in good : TRUE
        BY <1>1, <1>3, <3>2 DEF Chosen
      <4> QED
        BY <1>3, <4>1
    <3> QED
      BY <3>1, <3>2
  <2> QED
    BY <2>1 DEF Holds
<1> QED
  BY <1>2, <1>3

\* A save writes what it saves into the slot that is not in use, or nothing
\* that is valid.
LEMMA FoundWhileWritten ==
  ASSUME TypeOK, InUse, ~blind, NEW c, slot' = [slot EXCEPT ![New] = c],
         c = slot[New] \/ c.state # "valid" \/ c.value = want
  PROVE  Holds(Chosen(Good))' \in {Holds(Chosen(Good)), kept, want}
<1>1. New \in Slots /\ Old \in Slots /\ Slots = {New, Old} /\ New # Old
  BY NewAndOld DEF TypeOK
<1>2. slot'[New] = c /\ slot'[Old] = slot[Old]
  BY <1>1 DEF TypeOK
<1>3. CASE c = slot[New]
  <2>1. slot' = slot
    BY <1>1, <1>3 DEF TypeOK
  <2>2. Chosen(Good)' = Chosen(Good)
    BY <2>1, ChoiceKept
  <2> QED
    BY <2>1, <2>2 DEF Holds
<1>4. CASE c.state # "valid" \/ c.value = want
  <2>1. slot[Old].state = "valid" => slot[Old].value = kept
    BY DEF InUse, Old, New
  <2>2. slot[Old].state # "valid" => kept = Default
    BY DEF InUse
  <2> QED
    BY <1>1, <1>2, <1>4, <2>1, <2>2, FoundAfter
<1> QED
  BY <1>3, <1>4

LEMMA FoundWhileRetired ==
  ASSUME TypeOK, InHand, InUse, ~blind, Obsolete
  PROVE  Holds(Chosen(Good))' \in {kept, want}
<1>1. New \in Slots /\ Old \in Slots /\ Slots = {New, Old} /\ New # Old
  BY NewAndOld DEF TypeOK
<1>2. PICK c \in {slot[Old], Retired(slot[Old])} : slot' = [slot EXCEPT ![Old] = c]
  BY DEF Obsolete, Becomes
<1>3. slot'[Old] = c /\ slot'[New] = slot[New]
  BY <1>1, <1>2 DEF TypeOK
<1>4. c.state = "valid" => c.value = kept
  <2>1. /\ c.state = "valid" <=> slot[Old].state = "valid"
        /\ slot[Old].state = "valid" => c.value = slot[Old].value
    BY <1>1, <1>2, RetiredHolds DEF TypeOK
  <2>2. slot[Old].state = "valid" => slot[Old].value = kept
    BY DEF InUse, Old, New
  <2> QED
    BY <2>1, <2>2
<1>5. slot'[New].state = "valid" /\ slot'[New].value = want
  BY <1>3 DEF Obsolete, InHand, Sound
<1> QED
  BY <1>1, <1>3, <1>4, <1>5, FoundAfter

LEMMA StoreInit == Init => Store!Init
<1> SUFFICES ASSUME Init PROVE Store!Init
  OBVIOUS
<1>1. Holds(Chosen(Good)) \in Values \cup {Default}
  BY TypeInit, GoodSlots, HoldsTyped
<1> QED
  BY <1>1 DEF Init, Store!Init, Store!Found

LEMMA StoreNext == IInv /\ IInv' /\ [Next]_vars => [Store!Next]_(Store!vars)
<1> SUFFICES ASSUME TypeOK, InHand, InUse, TypeOK', [Next]_vars PROVE [Store!Next]_(Store!vars)
  BY DEF IInv
<1> DEFINE found == Holds(Chosen(Good))
           busy  == step \notin {"off", "idle"}
<1>1. found \in Values \cup {Default} /\ busy \in BOOLEAN /\ busy' \in BOOLEAN
  BY GoodSlots, HoldsTyped
<1>2. found' \in Values \cup {Default}
  <2>1. \A s \in Slots : slot'[s].value \in Values \cup {Default}
    BY ValueTyped DEF TypeOK
  <2> QED
    BY <2>1, FoundAfter
<1>3. UNCHANGED slot => found' = found
  BY ChoiceKept DEF Holds
<1> HIDE DEF found, busy
<1>4. ASSUME busy, UNCHANGED <<kept, want, blind>>, blind \/ found' \in {found, kept, want}
      PROVE  Store!Attempt
  BY <1>1, <1>2, <1>4 DEF Store!Attempt, Store!Found, found, busy
<1>5. CASE Boot
  <2>1. PICK unread \in SUBSET Slots : /\ valid' = Chosen(Good \ unread)
                                       /\ blind' = (unread # {}) /\ kept' = Holds(valid')
    BY <1>5 DEF Boot
  <2>2. UNCHANGED <<slot, want>> /\ busy' = FALSE
    BY <1>5 DEF Boot, busy
  <2>3. Good \ unread \in SUBSET Slots
    BY GoodSlots
  <2>4. kept' \in Values \cup {Default}
    BY <2>1, <2>2, <2>3, HoldsTyped DEF Holds
  <2>5. unread = {} => kept' = found
    BY <2>1, <2>2 DEF found, Holds
  <2>6. Store!Boot
    BY <1>3, <2>1, <2>2, <2>4, <2>5 DEF Store!Boot, Store!Found, found, busy
  <2> QED
    BY <2>6 DEF Store!Next
<1>6. ASSUME NEW v \in Values, Save(v)
      PROVE  Store!Next
  <2>1. Store!Save(v)
    BY <1>3, <1>6 DEF Save, Store!Save, found, busy
  <2> QED
    BY <2>1 DEF Store!Next
<1>7. CASE Erase
  <2>1. PICK c \in Corrupt \cup {slot[New], Blank} : slot' = [slot EXCEPT ![New] = c]
    BY <1>7 DEF Erase, Becomes
  <2>2. c = slot[New] \/ c.state # "valid"
    BY <2>1 DEF Corrupt, Blank
  <2>3. blind \/ found' \in {found, kept, want}
    BY <2>1, <2>2, FoundWhileWritten DEF found
  <2>4. busy /\ UNCHANGED <<kept, want, blind>>
    BY <1>7 DEF Erase, Pending, busy
  <2> QED
    BY <1>4, <2>3, <2>4 DEF Store!Next
<1>8. CASE Write
  <2>1. PICK c \in Corrupt \cup {slot[New]} \cup (IF slot[New] = Blank THEN {Sound(1, want)} ELSE {}) :
          slot' = [slot EXCEPT ![New] = c]
    BY <1>8 DEF Write, Becomes
  <2>2. c = slot[New] \/ c.state # "valid" \/ c.value = want
    BY <2>1 DEF Corrupt, Sound
  <2>3. blind \/ found' \in {found, kept, want}
    BY <2>1, <2>2, FoundWhileWritten DEF found
  <2>4. busy /\ UNCHANGED <<kept, want, blind>>
    BY <1>8 DEF Write, Pending, busy
  <2> QED
    BY <1>4, <2>3, <2>4 DEF Store!Next
<1>9. CASE Verify
  <2>1. busy /\ UNCHANGED <<slot, kept, want, blind>>
    BY <1>9 DEF Verify, Pending, busy
  <2> QED
    BY <1>3, <1>4, <2>1 DEF Store!Next
<1>10. CASE Obsolete
  <2>1. blind \/ found' \in {kept, want}
    BY <1>10, FoundWhileRetired DEF found
  <2>2. busy /\ UNCHANGED <<kept, want, blind>>
    BY <1>10 DEF Obsolete, Pending, busy
  <2> QED
    BY <1>4, <2>1, <2>2 DEF Store!Next
<1>11. CASE Check
  <2>1. busy /\ UNCHANGED <<slot, want>>
    BY <1>11 DEF Check, busy
  <2>2. CASE UNCHANGED <<valid, kept, tried, blind>>
    BY <1>3, <1>4, <2>1, <2>2 DEF Store!Next
  <2>3. CASE slot[Old].flags = 0 /\ step' = "idle" /\ kept' = want /\ blind' = FALSE
    <3>1. slot[New] = Sound(1, want)
      BY <1>11 DEF Check, InHand
    <3>2. New \in Slots /\ Old \in Slots /\ New # Old
      BY NewAndOld DEF TypeOK
    <3>3. Chosen(Good) = New
      BY <2>3, <3>1, <3>2, RetiredLoses
    <3>4. found = want
      BY <3>1, <3>2, <3>3 DEF found, Holds, Sound
    <3>5. busy' = FALSE
      BY <2>3 DEF busy
    <3>6. Store!Report
      BY <1>3, <2>1, <2>3, <3>4, <3>5 DEF Store!Report, found, busy
    <3> QED
      BY <3>6 DEF Store!Next
  <2> QED
    BY <1>11, <2>2, <2>3 DEF Check
<1>12. CASE UNCHANGED vars
  BY <1>3, <1>12 DEF Store!vars, found
<1> QED
  BY <1>5, <1>6, <1>7, <1>8, <1>9, <1>10, <1>11, <1>12 DEF Next

\* Whatever the flash and the power do, a save goes from what was kept to what
\* is saved, never to an earlier attempt, and is reported when a boot finds it.
THEOREM EnvStoreImplemented == Spec => ImplementsEnvStore
<1>1. IInv /\ IInv' /\ [Next]_vars => [Store!Next]_(Store!vars)
  BY StoreNext
<1> QED
  BY Invariance, StoreInit, <1>1, PTL DEF Spec, ImplementsEnvStore
=============================================================================
