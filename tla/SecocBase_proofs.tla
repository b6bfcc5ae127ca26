---------------------------- MODULE SecocBase_proofs ----------------------------
(***************************************************************************)
(* Proofs about the two things a SecOC node is built on: its freshness     *)
(* store, for every set of epochs and every bound on the number of saves,  *)
(* and its frames, for every identifier, freshness value, PDU and MAC.     *)
(***************************************************************************)
EXTENDS FreshnessStore, SecocFrame, SequenceTheorems, TLAPS

(***************************************************************************)
(* The inductive invariant.  MirrorIsDurable alone is not inductive: that  *)
(* an accepted save makes the mirror durable rests on what the slot being  *)
(* written holds at each step of the save, and that a save never writes    *)
(* the newest slot on newest naming a real slot whenever there is one.     *)
(***************************************************************************)
Saving == pc \in {"erase", "body", "mark", "readback"}

\* The store is mounted and usable whenever a save runs, and the record being
\* saved is the mirror with one domain replaced.
SaveIsOneDomain ==
  Saving =>
    /\ status # "BROKEN"
    /\ \E d \in Domain, e \in Epoch : next = NextRecord(mirror, d, e)

\* What the slot under construction holds before each step.
SlotUnderSave ==
  /\ pc = "body" => slot[Target] = ErasedSlot
  /\ pc = "mark" => /\ slot[Target].mark = "blank"
                    /\ slot[Target].sound => slot[Target].body = next
  /\ pc = "readback" => /\ slot[Target].mark # "blank"
                        /\ slot[Target].sound => slot[Target].body = next

\* A store that found both slots blank uses slot 0 and leaves slot 1 blank.
FactoryLeavesSlotOne ==
  status = "FACTORY" =>
    newest = NoSlot /\ mirror = ZeroRecord /\ Empty(slot[1])

\* The static initialiser of s_store: an unmounted store is broken.
OffIsBroken == pc = "off" => status = "BROKEN"

IInv ==
  /\ TypeOK
  /\ OffIsBroken
  /\ MirrorIsDurable
  /\ SaveIsOneDomain
  /\ SlotUnderSave
  /\ FactoryLeavesSlotOne

-----------------------------------------------------------------------------
LEMMA ZeroRecordType == ZeroRecord \in Record
BY WorkFlashAssumption DEF ZeroRecord, Record, Domain

LEMMA ErasedSlotType == ErasedSlot \in SlotContent
BY ZeroRecordType DEF ErasedSlot, SlotContent

LEMMA NextRecordType ==
  ASSUME NEW r \in Record, NEW d \in Domain, NEW e \in Epoch, r.seq < MaxSeq
  PROVE  NextRecord(r, d, e) \in Record
BY WorkFlashAssumption DEF NextRecord, Record, Domain

\* Whatever the slots hold, the slot a mount selects is a valid one.
LEMMA NewestSlotFacts ==
  ASSUME NEW s \in [Slot -> SlotContent]
  PROVE  /\ NewestSlot(s) \in Slot \cup {NoSlot}
         /\ NewestSlot(s) # NoSlot => Valid(s[NewestSlot(s)])
         /\ NewestSlot(s) = NoSlot => \A i \in Slot : ~Valid(s[i])
BY DEF NewestSlot, Slot, NoSlot, Valid

LEMMA MountRecordType ==
  ASSUME NEW s \in [Slot -> SlotContent]
  PROVE  MountRecord(s) \in Record
BY NewestSlotFacts, ZeroRecordType DEF MountRecord, SlotContent, Slot, NoSlot

\* The slot a save writes is a real one and never the newest.
LEMMA TargetFacts ==
  ASSUME NEW n \in Slot \cup {NoSlot}
  PROVE  TargetOf(n) \in Slot /\ TargetOf(n) # n
BY DEF TargetOf, Slot, NoSlot

\* The content an operation leaves behind, complete or cut short, is a content.
LEMMA OutcomeTypes ==
  ASSUME NEW s \in SlotContent, NEW r \in Record
  PROVE  /\ EraseCut(s) \subseteq SlotContent
         /\ BodyDone(s, r) \cup BodyCut(s) \subseteq SlotContent
         /\ MarkDone(s) \cup MarkCut(s) \subseteq SlotContent
<1>1. EraseCut(s) \subseteq SlotContent
  BY ErasedSlotType DEF EraseCut, SlotContent
<1>2. BodyDone(s, r) \cup BodyCut(s) \subseteq SlotContent
  BY DEF BodyDone, BodyCut, SlotContent
<1>3. MarkDone(s) \cup MarkCut(s) \subseteq SlotContent
  BY DEF MarkDone, MarkCut, SlotContent
<1>4. QED
  BY <1>1, <1>2, <1>3

-----------------------------------------------------------------------------
LEMMA InitInv == Init => IInv
<1> SUFFICES ASSUME Init PROVE IInv
  OBVIOUS
<1>1. TypeOK
  BY ZeroRecordType, ErasedSlotType DEF Init, TypeOK
<1>2. QED
  BY <1>1 DEF Init, IInv, MirrorIsDurable, SaveIsOneDomain, SlotUnderSave,
              FactoryLeavesSlotOne, OffIsBroken, Saving

\* A node that loses its power forgets everything but its flash.
LEMMA ResetInv ==
  ASSUME slot' \in [Slot -> SlotContent], Reset
  PROVE  IInv'
BY ZeroRecordType DEF Reset, IInv, TypeOK, MirrorIsDurable, SaveIsOneDomain,
                      SlotUnderSave, FactoryLeavesSlotOne, OffIsBroken, Saving

\* A failed operation leaves the slot being saved in any state and the rest of
\* flash alone.
LEMMA FailInv ==
  ASSUME IInv, Saving, Fail,
         NEW c \in SlotContent, slot' = [slot EXCEPT ![Target] = c]
  PROVE  IInv'
<1>1. Target \in Slot /\ Target # newest
  BY TargetFacts DEF IInv, TypeOK, Target
<1>2. slot' \in [Slot -> SlotContent]
  BY DEF IInv, TypeOK
<1>3. CASE Reset
  BY <1>2, <1>3, ResetInv
<1>4. CASE pc' = "idle" /\ next' = ZeroRecord /\ UNCHANGED ram
  <2>1. TypeOK'
    BY <1>2, <1>4, ZeroRecordType DEF IInv, TypeOK, ram
  <2>2. MirrorIsDurable'
    BY <1>1, <1>4 DEF IInv, TypeOK, MirrorIsDurable, Saving, ram, Valid
  <2>3. FactoryLeavesSlotOne'
    <3>1. status = "FACTORY" => Target = 0
      BY DEF IInv, FactoryLeavesSlotOne, Target, TargetOf, NoSlot
    <3>2. QED
      BY <1>4, <3>1 DEF IInv, TypeOK, FactoryLeavesSlotOne, OffIsBroken, Saving, ram, Slot, Empty
  <2>4. QED
    BY <1>4, <2>1, <2>2, <2>3 DEF IInv, SaveIsOneDomain, SlotUnderSave, OffIsBroken, Saving
<1>5. QED
  BY <1>3, <1>4 DEF Fail

\* A completed operation takes the save to its next step.
LEMMA ContinueInv ==
  ASSUME IInv, Saving, NEW c \in SlotContent,
         slot' = [slot EXCEPT ![Target] = c],
         NEW step \in {"body", "mark", "readback"}, Continue(step),
         step = "body" => c = ErasedSlot,
         step = "mark" => c.mark = "blank" /\ (c.sound => c.body = next),
         step = "readback" => c.mark # "blank" /\ (c.sound => c.body = next)
  PROVE  IInv'
<1>1. Target \in Slot /\ Target # newest
  BY TargetFacts DEF IInv, TypeOK, Target
<1>2. Target' = Target /\ slot'[Target] = c
  BY <1>1 DEF Continue, ram, Target, IInv, TypeOK
<1>3. TypeOK'
  BY DEF IInv, TypeOK, Continue, ram
<1>4. MirrorIsDurable'
  BY <1>1 DEF IInv, TypeOK, MirrorIsDurable, Saving, Continue, ram, Valid
<1>5. SaveIsOneDomain'
  BY DEF IInv, SaveIsOneDomain, Saving, Continue, ram
<1>6. SlotUnderSave'
  BY <1>2 DEF SlotUnderSave, Continue
<1>7. FactoryLeavesSlotOne'
  <2>1. status = "FACTORY" => Target = 0
    BY DEF IInv, FactoryLeavesSlotOne, Target, TargetOf, NoSlot
  <2>2. QED
    BY <2>1 DEF IInv, TypeOK, FactoryLeavesSlotOne, OffIsBroken, Saving, Continue, ram, Slot, Empty
<1>8. QED
  BY <1>3, <1>4, <1>5, <1>6, <1>7 DEF IInv, OffIsBroken, Continue

LEMMA NextInv == IInv /\ [Next]_vars => IInv'
<1> SUFFICES ASSUME IInv, [Next]_vars PROVE IInv'
  OBVIOUS
<1> USE DEF IInv
<1>0. /\ Target \in Slot /\ Target # newest
      /\ slot[Target] \in SlotContent /\ next \in Record
  BY TargetFacts DEF TypeOK, Target
<1>1. CASE Mount
  <2>1. TypeOK'
    BY <1>1, NewestSlotFacts, MountRecordType DEF Mount, TypeOK, MountStatus
  <2>2. MirrorIsDurable'
    BY <1>1, NewestSlotFacts DEF Mount, TypeOK, MirrorIsDurable, MountStatus, MountRecord
  <2>3. FactoryLeavesSlotOne'
    BY <1>1 DEF Mount, TypeOK, FactoryLeavesSlotOne, MountStatus, MountRecord, Slot
  <2>4. QED
    BY <1>1, <2>1, <2>2, <2>3 DEF Mount, SaveIsOneDomain, SlotUnderSave, OffIsBroken, Saving
<1>2. ASSUME NEW d \in Domain, NEW e \in Epoch, Begin(d, e) PROVE IInv'
  <2>1. TypeOK'
    BY <1>2, NextRecordType DEF Begin, TypeOK, ram
  <2>2. QED
    BY <1>2, <2>1 DEF Begin, ram, MirrorIsDurable, SaveIsOneDomain, SlotUnderSave,
                      FactoryLeavesSlotOne, OffIsBroken, Saving
<1>3. CASE Erase
  <2>1. CASE slot' = [slot EXCEPT ![Target] = ErasedSlot] /\ Continue("body")
    BY <1>3, <2>1, ErasedSlotType, ContinueInv DEF Erase, Saving
  <2>2. ASSUME NEW c \in EraseCut(slot[Target]), slot' = [slot EXCEPT ![Target] = c], Fail
        PROVE  IInv'
    <3>1. c \in SlotContent
      BY <1>0, OutcomeTypes
    <3>2. QED
      BY <1>3, <2>2, <3>1, FailInv DEF Erase, Saving
  <2>3. QED
    BY <1>3, <2>1, <2>2 DEF Erase
<1>4. CASE ProgramBody
  <2>1. ASSUME NEW c \in BodyDone(slot[Target], next),
               slot' = [slot EXCEPT ![Target] = c], Continue("mark")
        PROVE  IInv'
    <3>1. c \in SlotContent
      BY <1>0, OutcomeTypes
    <3>2. c.mark = "blank" /\ (c.sound => c.body = next)
      <4>1. slot[Target].mark = "blank" /\ slot[Target].sound = FALSE
        BY <1>4 DEF ProgramBody, SlotUnderSave, ErasedSlot
      <4>2. CASE c = slot[Target]
        BY <4>1, <4>2
      <4>3. CASE c = [slot[Target] EXCEPT !.sound = TRUE, !.body = next]
        BY <1>0, <4>1, <4>3 DEF SlotContent
      <4>4. QED
        BY <2>1, <4>2, <4>3 DEF BodyDone
    <3>3. QED
      BY <1>4, <2>1, <3>1, <3>2, ContinueInv DEF ProgramBody, Saving
  <2>2. ASSUME NEW c \in BodyCut(slot[Target]), slot' = [slot EXCEPT ![Target] = c], Fail
        PROVE  IInv'
    <3>1. c \in SlotContent
      BY <1>0, OutcomeTypes
    <3>2. QED
      BY <1>4, <2>2, <3>1, FailInv DEF ProgramBody, Saving
  <2>3. QED
    BY <1>4, <2>1, <2>2 DEF ProgramBody
<1>5. CASE ProgramMark
  <2>1. ASSUME NEW c \in MarkDone(slot[Target]),
               slot' = [slot EXCEPT ![Target] = c], Continue("readback")
        PROVE  IInv'
    <3>1. c \in SlotContent
      BY <1>0, OutcomeTypes
    <3>2. c.mark # "blank" /\ (c.sound => c.body = next)
      BY <1>0, <1>5 DEF ProgramMark, SlotUnderSave, MarkDone, SlotContent
    <3>3. QED
      BY <1>5, <2>1, <3>1, <3>2, ContinueInv DEF ProgramMark, Saving
  <2>2. ASSUME NEW c \in MarkCut(slot[Target]), slot' = [slot EXCEPT ![Target] = c], Fail
        PROVE  IInv'
    <3>1. c \in SlotContent
      BY <1>0, OutcomeTypes
    <3>2. QED
      BY <1>5, <2>2, <3>1, FailInv DEF ProgramMark, Saving
  <2>3. QED
    BY <1>5, <2>1, <2>2 DEF ProgramMark
<1>6. CASE ReadBack
  <2>1. CASE Valid(slot[Target]) /\ slot[Target].body = next /\ Accept
    BY <1>0, <1>6, <2>1, ZeroRecordType
    DEF ReadBack, Accept, TypeOK, MirrorIsDurable, SaveIsOneDomain, SlotUnderSave,
        FactoryLeavesSlotOne, OffIsBroken, Saving
  <2>2. CASE Fail
    <3>1. slot' = [slot EXCEPT ![Target] = slot[Target]]
      BY <1>0, <1>6 DEF ReadBack, TypeOK
    <3>2. QED
      BY <1>0, <1>6, <2>2, <3>1, FailInv DEF ReadBack, Saving
  <2>3. QED
    BY <1>6, <2>1, <2>2 DEF ReadBack
<1>7. CASE PowerLoss
  BY <1>7, ResetInv DEF PowerLoss, TypeOK
<1>8. CASE UNCHANGED vars
  BY <1>8 DEF vars, ram, TypeOK, MirrorIsDurable, SaveIsOneDomain, SlotUnderSave,
              FactoryLeavesSlotOne, OffIsBroken, Saving, Target
<1>9. QED
  BY <1>1, <1>2, <1>3, <1>4, <1>5, <1>6, <1>7, <1>8 DEF Next

\* Type correctness of the store in every reachable state.
THEOREM TypeCorrect == Spec => []TypeOK
<1>1. IInv => TypeOK
  BY DEF IInv
<1>2. QED
  BY <1>1, InitInv, NextInv, PTL DEF Spec

\* No step of a save, failed or not, touches the slot the running node's record
\* came from: what load answers is always whole in flash.
THEOREM MirrorAlwaysDurable == Spec => []MirrorIsDurable
<1>1. IInv => MirrorIsDurable
  BY DEF IInv
<1>2. QED
  BY <1>1, InitInv, NextInv, PTL DEF Spec

\* Once a record was acknowledged, a power loss or a failing flash operation at
\* any step leaves flash in a state a mount accepts.
THEOREM AlwaysMountable == Spec => StaysMountable
<1>1. IInv /\ [Next]_vars => [status = "OK" => MountStatus(slot') = "OK"]_vars
  <2> SUFFICES ASSUME IInv, IInv', [Next]_vars, status = "OK"
               PROVE  MountStatus(slot') = "OK"
    BY NextInv
  <2>1. newest \in Slot /\ Valid(slot[newest]) /\ newest # NoSlot
    BY DEF IInv, MirrorIsDurable, Slot, NoSlot
  <2>2. Target # newest /\ Target \in Slot
    BY TargetFacts DEF IInv, TypeOK, Target
  <2>3. slot'[newest] = slot[newest]
    BY <2>1, <2>2 DEF Next, Mount, Begin, Erase, ProgramBody, ProgramMark, ReadBack,
                      PowerLoss, vars, IInv, OffIsBroken, TypeOK
  <2>4. slot' \in [Slot -> SlotContent]
    BY DEF IInv, TypeOK
  <2>5. NewestSlot(slot') # NoSlot
    BY <2>1, <2>3, <2>4, NewestSlotFacts
  <2>6. QED
    BY <2>5 DEF MountStatus
<1>2. QED
  BY <1>1, InitInv, NextInv, PTL DEF Spec, StaysMountable

-----------------------------------------------------------------------------
(***************************************************************************)
(* The store implements DurableStore.  A step of a save changes one slot,  *)
(* so everything rests on what a mount would find in flash after it.       *)
(***************************************************************************)
RecoveredFrom(s) ==
  IF MountStatus(s) = "BROKEN" THEN Lost ELSE View(MountRecord(s))

LEMMA ViewType ==
  ASSUME NEW r \in Record
  PROVE  View(r) \in Durable!Value /\ View(r) \notin {Off, Lost}
BY StoreAssumption DEF View, Record, Durable!Value

LEMMA ViewZero == View(ZeroRecord) = Durable!AllCold
BY DEF View, ZeroRecord, Durable!AllCold

LEMMA ViewNext ==
  ASSUME NEW r \in Record, NEW d \in Domain, NEW e \in Epoch
  PROVE  View(NextRecord(r, d, e)) = [View(r) EXCEPT ![d] = e]
BY DEF View, NextRecord, Record

\* What a mount finds when only the slot being saved differs.
LEMMA RecoveredDuringSave ==
  ASSUME IInv, Saving, NEW s \in [Slot -> SlotContent],
         \A i \in Slot \ {Target} : s[i] = slot[i]
  PROVE  /\ Valid(s[Target]) /\ s[Target].body = next => RecoveredFrom(s) = View(next)
         /\ ~Valid(s[Target]) /\ (status = "OK" \/ Empty(s[Target]))
              => RecoveredFrom(s) = View(mirror)
         /\ ~Valid(s[Target]) /\ status # "OK" /\ ~Empty(s[Target])
              => RecoveredFrom(s) = Lost /\ View(mirror) = Durable!AllCold
<1>0. Target \in Slot /\ Target # newest
  BY TargetFacts DEF IInv, TypeOK, Target
<1>1. CASE status = "OK"
  <2>1. /\ newest \in Slot /\ Valid(s[newest]) /\ s[newest].body = mirror
        /\ NoSlot \notin Slot
    BY <1>0, <1>1 DEF IInv, MirrorIsDurable, Slot, NoSlot
  <2>2. next.seq = mirror.seq + 1 /\ mirror.seq \in Nat /\ next.seq \in Nat
    BY WorkFlashAssumption DEF IInv, SaveIsOneDomain, NextRecord, TypeOK, Record
  <2>3. Valid(s[Target]) /\ s[Target].body = next => NewestSlot(s) = Target
    BY <1>0, <2>1, <2>2 DEF NewestSlot, Slot, NoSlot
  <2>4. ~Valid(s[Target]) => NewestSlot(s) = newest
    BY <1>0, <2>1 DEF NewestSlot, Slot, NoSlot
  <2>5. QED
    BY <1>0, <1>1, <2>1, <2>3, <2>4 DEF RecoveredFrom, MountStatus, MountRecord
<1>2. CASE status = "FACTORY"
  <2>1. newest = NoSlot /\ mirror = ZeroRecord /\ Target = 0 /\ Empty(s[1])
    BY <1>0, <1>2 DEF IInv, FactoryLeavesSlotOne, Target, TargetOf, NoSlot, Slot
  <2>2. Valid(s[0]) => NewestSlot(s) = 0
    BY <2>1 DEF NewestSlot, Valid, Empty
  <2>3. ~Valid(s[0]) => NewestSlot(s) = NoSlot
    BY <2>1 DEF NewestSlot, Valid, Empty
  <2>4. QED
    BY <1>2, <2>1, <2>2, <2>3, ViewZero
    DEF RecoveredFrom, MountStatus, MountRecord, Slot, NoSlot
<1>3. QED
  BY <1>1, <1>2 DEF IInv, SaveIsOneDomain, TypeOK

\* An operation of a save, complete or cut short, is a step of DurableStore.
LEMMA SaveStepRefines ==
  ASSUME IInv, IInv', Saving, NEW c \in SlotContent,
         slot' = [slot EXCEPT ![Target] = c],
         Valid(c) => c.body = next \/ c = slot[Target],
         Loaded' \in {Loaded, Off}
  PROVE  [Durable!Next]_(Durable!vars)
<1>0. Target \in Slot /\ slot' \in [Slot -> SlotContent] /\ slot'[Target] = c
  BY TargetFacts DEF IInv, TypeOK, Target
<1>1. Loaded = View(mirror) /\ Durable!Usable
  BY ViewType DEF Loaded, IInv, SaveIsOneDomain, Saving, TypeOK, Durable!Usable
<1>2. Recovered' = RecoveredFrom(slot') /\ Recovered = RecoveredFrom(slot)
  BY DEF Recovered, RecoveredFrom
<1>3. CASE c = slot[Target]
  <2>1. Recovered' = Recovered
    BY <1>0, <1>2, <1>3 DEF IInv, TypeOK
  <2>2. QED
    BY <1>1, <2>1 DEF Durable!Next, Durable!PowerLoss, Durable!vars, Durable!Usable
<1>4. CASE Valid(c) /\ c.body = next
  <2>1. PICK d \in Domain, e \in Epoch : next = NextRecord(mirror, d, e)
    BY DEF IInv, SaveIsOneDomain
  <2>2. Recovered' = [Loaded EXCEPT ![d] = e]
    <3>1. View(next) = [Loaded EXCEPT ![d] = e]
      BY <1>1, <2>1, ViewNext DEF IInv, TypeOK
    <3>2. \A i \in Slot \ {Target} : slot'[i] = slot[i]
      BY DEF IInv, TypeOK
    <3>3. Recovered' = View(next)
      BY <1>0, <1>2, <1>4, <3>2, RecoveredDuringSave
    <3>4. QED
      BY <3>1, <3>3
  <2>3. QED
    BY <1>1, <2>2 DEF Durable!Next, Durable!Harden
<1>5. CASE ~Valid(c) /\ (status = "OK" \/ Empty(c))
  <2>1. Recovered' = Loaded
    BY <1>0, <1>1, <1>2, <1>5, RecoveredDuringSave DEF IInv, TypeOK
  <2>2. QED
    BY <1>1, <2>1 DEF Durable!Next, Durable!Abandon
<1>6. CASE ~Valid(c) /\ status # "OK" /\ ~Empty(c)
  <2>1. Recovered' = Lost /\ Loaded = Durable!AllCold
    BY <1>0, <1>1, <1>2, <1>6, RecoveredDuringSave DEF IInv, TypeOK
  <2>2. QED
    BY <2>1 DEF Durable!Next, Durable!Spoil
<1>7. QED
  BY <1>3, <1>4, <1>5, <1>6

LEMMA InitRefines == Init => Durable!Init
<1> SUFFICES ASSUME Init PROVE Durable!Init
  OBVIOUS
<1>1. NewestSlot(slot) = NoSlot /\ MountStatus(slot) = "FACTORY"
  BY DEF Init, NewestSlot, MountStatus, Valid, Empty, ErasedSlot, Slot, NoSlot
<1>2. QED
  BY <1>1, ViewZero DEF Init, Durable!Init, Loaded, Recovered, MountRecord

LEMMA NextRefines == IInv /\ [Next]_vars => [Durable!Next]_(Durable!vars)
<1> SUFFICES ASSUME IInv, IInv', [Next]_vars PROVE [Durable!Next]_(Durable!vars)
  BY NextInv
<1>0. Target \in Slot /\ slot[Target] \in SlotContent /\ next \in Record
  BY TargetFacts DEF IInv, TypeOK, Target
<1>r. ASSUME Reset PROVE Loaded' = Off
  BY <1>r DEF Reset, Loaded
<1>f. ASSUME Fail, Saving PROVE Loaded' \in {Loaded, Off}
  BY <1>f, <1>r DEF Fail, Loaded, ram, View, Saving
<1>c. ASSUME NEW step \in {"body", "mark", "readback"}, Continue(step), Saving
      PROVE  Loaded' \in {Loaded, Off}
  BY <1>c DEF Continue, Loaded, ram, View, Saving
<1>1. CASE Mount
  <2>1. Loaded = Off /\ Recovered' = Recovered
    BY <1>1 DEF Mount, Loaded, Recovered
  <2>2. Loaded' = Recovered
    BY <1>1 DEF Mount, Loaded, Recovered
  <2>3. QED
    BY <2>1, <2>2 DEF Durable!Next, Durable!Mount
<1>2. ASSUME NEW d \in Domain, NEW e \in Epoch, Begin(d, e)
      PROVE  [Durable!Next]_(Durable!vars)
  BY <1>2 DEF Begin, ram, Loaded, Recovered, View, Durable!vars
<1>3. CASE Erase
  <2>1. PICK c : /\ c \in EraseCut(slot[Target]) \cup {ErasedSlot}
                 /\ slot' = [slot EXCEPT ![Target] = c]
                 /\ Continue("body") \/ Fail
    BY <1>3 DEF Erase
  <2>2. c \in SlotContent
    BY <1>0, <2>1, OutcomeTypes, ErasedSlotType
  <2>3. Valid(c) => c = slot[Target]
    BY <1>0, <2>1 DEF EraseCut, Valid, ErasedSlot, SlotContent
  <2>4. QED
    BY <1>3, <1>c, <1>f, <2>1, <2>2, <2>3, SaveStepRefines DEF Erase, Saving
<1>4. CASE ProgramBody
  <2>1. PICK c : /\ c \in BodyDone(slot[Target], next) \cup BodyCut(slot[Target])
                 /\ slot' = [slot EXCEPT ![Target] = c]
                 /\ Continue("mark") \/ Fail
    BY <1>4 DEF ProgramBody
  <2>2. c \in SlotContent
    BY <1>0, <2>1, OutcomeTypes
  <2>3. Valid(c) => c.body = next \/ c = slot[Target]
    <3>1. CASE c = slot[Target]
      BY <3>1
    <3>2. CASE c = [slot[Target] EXCEPT !.sound = TRUE, !.body = next]
      BY <1>0, <3>2 DEF SlotContent
    <3>3. QED
      BY <2>1, <3>1, <3>2 DEF BodyDone, BodyCut
  <2>4. QED
    BY <1>4, <1>c, <1>f, <2>1, <2>2, <2>3, SaveStepRefines DEF ProgramBody, Saving
<1>5. CASE ProgramMark
  <2>1. PICK c : /\ c \in MarkDone(slot[Target]) \cup MarkCut(slot[Target])
                 /\ slot' = [slot EXCEPT ![Target] = c]
                 /\ Continue("readback") \/ Fail
    BY <1>5 DEF ProgramMark
  <2>2. c \in SlotContent
    BY <1>0, <2>1, OutcomeTypes
  <2>3. Valid(c) => c.body = next
    BY <1>0, <1>5, <2>1
    DEF ProgramMark, IInv, SlotUnderSave, MarkDone, MarkCut, Valid, SlotContent
  <2>4. QED
    BY <1>5, <1>c, <1>f, <2>1, <2>2, <2>3, SaveStepRefines DEF ProgramMark, Saving
<1>6. CASE ReadBack
  <2>0. slot' = [slot EXCEPT ![Target] = slot[Target]]
    BY <1>0, <1>6 DEF ReadBack, IInv, TypeOK
  <2>1. CASE Fail
    BY <1>0, <1>6, <1>f, <2>0, <2>1, SaveStepRefines DEF ReadBack, Saving
  <2>2. CASE Valid(slot[Target]) /\ slot[Target].body = next /\ Accept
    <3>1. PICK d \in Domain, e \in Epoch : next = NextRecord(mirror, d, e)
      BY <1>6 DEF ReadBack, IInv, SaveIsOneDomain, Saving
    <3>2. Loaded = View(mirror) /\ Durable!Usable
      BY <1>6, ViewType
      DEF ReadBack, Loaded, IInv, SaveIsOneDomain, Saving, TypeOK, Durable!Usable
    <3>3. Recovered = View(next) /\ View(next) = [Loaded EXCEPT ![d] = e]
      BY <1>6, <2>2, <3>1, <3>2, RecoveredDuringSave, ViewNext
      DEF ReadBack, Saving, Recovered, RecoveredFrom, IInv, TypeOK
    <3>4. Recovered' = Recovered /\ Loaded' = View(next)
      BY <1>6, <2>2 DEF ReadBack, Accept, Recovered, Loaded, View
    <3>5. QED
      BY <3>2, <3>3, <3>4 DEF Durable!Next, Durable!Acknowledge
  <2>3. QED
    BY <1>6, <2>1, <2>2 DEF ReadBack
<1>7. CASE PowerLoss
  <2>1. Loaded' = Off /\ Recovered' = Recovered
    BY <1>7, <1>r DEF PowerLoss, Recovered
  <2>2. QED
    BY <2>1 DEF Durable!Next, Durable!PowerLoss, Durable!vars
<1>8. CASE UNCHANGED vars
  BY <1>8 DEF vars, Loaded, Recovered, View, Durable!vars
<1>9. QED
  BY <1>1, <1>2, <1>3, <1>4, <1>5, <1>6, <1>7, <1>8 DEF Next

\* The two-slot save of ADR-0024 implements the persistence port of ADR-0021 D8:
\* commits are atomic and durable before they return, whatever is interrupted.
THEOREM StoreImplementsPort == Spec => Implements
BY InitInv, NextInv, InitRefines, NextRefines, PTL DEF Spec, Implements, Durable!Spec

\* A save that was cut short is found whole by the next mount or not at all. It
\* is kept by every step: a step of a save leaves the slot it writes invalid or
\* with the record being saved, and a step that writes nothing changes nothing.
LEMMA AbortedStep ==
  ASSUME IInv, AbortedSaveIsWhole, [Next]_vars
  PROVE  AbortedSaveIsWhole'
<1> SUFFICES ASSUME status' = "OK"
             PROVE  \E d \in Domain, e \in Epoch :
                       Recovered' \in {View(mirror'), [View(mirror') EXCEPT ![d] = e]}
  BY DEF AbortedSaveIsWhole
<1>0. /\ Target \in Slot /\ Target # newest /\ slot[Target] \in SlotContent
      /\ slot \in [Slot -> SlotContent] /\ mirror \in Record /\ next \in Record
      /\ 0 \in Domain /\ 0 \in Epoch
  BY TargetFacts, WorkFlashAssumption DEF IInv, TypeOK, Target, Domain
\* Nothing that a mount reads has changed.
<1>a. ASSUME status = "OK", UNCHANGED <<slot, mirror>>
      PROVE  \E d \in Domain, e \in Epoch :
                Recovered' \in {View(mirror'), [View(mirror') EXCEPT ![d] = e]}
  BY <1>a DEF AbortedSaveIsWhole, Recovered, View
\* A step of a save that leaves content c.
<1>b. ASSUME Saving, UNCHANGED <<mirror, status>>, NEW c \in SlotContent,
             slot' = [slot EXCEPT ![Target] = c],
             c = slot[Target] \/ (Valid(c) => c.body = next)
      PROVE  \E d \in Domain, e \in Epoch :
                Recovered' \in {View(mirror'), [View(mirror') EXCEPT ![d] = e]}
  <2>1. CASE c = slot[Target]
    <3>1. slot' = slot
      BY <1>0, <1>b, <2>1
    <3> QED BY <1>a, <1>b, <3>1
  <2>2. CASE Valid(c) /\ c.body = next
    <3>1. PICK d \in Domain, e \in Epoch : next = NextRecord(mirror, d, e)
      BY <1>b DEF IInv, SaveIsOneDomain
    <3>2. slot'[Target] = c /\ slot' \in [Slot -> SlotContent]
          /\ \A i \in Slot \ {Target} : slot'[i] = slot[i]
      BY <1>0, <1>b
    <3>3. RecoveredFrom(slot') = View(next)
      BY <1>b, <2>2, <3>2, RecoveredDuringSave
    <3>4. View(next) = [View(mirror) EXCEPT ![d] = e]
      BY <1>0, <3>1, ViewNext
    <3> QED BY <1>b, <3>3, <3>4 DEF RecoveredFrom, Recovered, View
  <2>3. CASE ~Valid(c)
    <3>1. slot'[Target] = c /\ slot' \in [Slot -> SlotContent]
          /\ \A i \in Slot \ {Target} : slot'[i] = slot[i]
      BY <1>0, <1>b
    <3>2. RecoveredFrom(slot') = View(mirror)
      BY <1>b, <2>3, <3>1, RecoveredDuringSave
    <3> QED BY <1>0, <1>b, <3>2 DEF RecoveredFrom, Recovered, View
  <2> QED BY <1>b, <2>1, <2>2, <2>3
<1>f. Fail => UNCHANGED <<mirror, status>>
  BY DEF Fail, Reset, ram
<1>1. CASE Mount
  <2>1. Recovered' = View(mirror')
    BY <1>1 DEF Mount, Recovered, View
  <2> QED BY <1>0, <2>1
<1>2. ASSUME NEW d \in Domain, NEW e \in Epoch, Begin(d, e) PROVE UNCHANGED <<slot, mirror, status>>
  BY <1>2 DEF Begin, ram
<1>3. CASE Erase
  <2>1. PICK c \in EraseCut(slot[Target]) : slot' = [slot EXCEPT ![Target] = c] /\ UNCHANGED <<mirror, status>>
    BY <1>3, <1>f DEF Erase, Continue, ram, EraseCut
  <2>2. c \in SlotContent
    BY <1>0, <2>1, OutcomeTypes, ZeroRecordType
  <2>3. c = slot[Target] \/ ~Valid(c)
    BY <2>1 DEF EraseCut, ErasedSlot, Valid
  <2> QED BY <1>3, <1>b, <2>1, <2>2, <2>3 DEF Erase, Saving
<1>4. CASE ProgramBody
  <2>1. PICK c \in BodyDone(slot[Target], next) \cup BodyCut(slot[Target]) :
           slot' = [slot EXCEPT ![Target] = c] /\ UNCHANGED <<mirror, status>>
    BY <1>4, <1>f DEF ProgramBody, Continue, ram
  <2>2. c \in SlotContent
    BY <1>0, <2>1, OutcomeTypes, ZeroRecordType
  <2>3. c = slot[Target] \/ c = [slot[Target] EXCEPT !.sound = TRUE, !.body = next]
    BY <2>1 DEF BodyDone, BodyCut
  <2>4. c = slot[Target] \/ (Valid(c) => c.body = next)
    BY <1>0, <2>3 DEF SlotContent
  <2> QED BY <1>4, <1>b, <2>1, <2>2, <2>4 DEF ProgramBody, Saving
<1>5. CASE ProgramMark
  <2>1. PICK c \in MarkDone(slot[Target]) \cup MarkCut(slot[Target]) :
           slot' = [slot EXCEPT ![Target] = c] /\ UNCHANGED <<mirror, status>>
    BY <1>5, <1>f DEF ProgramMark, Continue, ram
  <2>2. c \in SlotContent
    BY <1>0, <2>1, OutcomeTypes, ZeroRecordType
  <2>3. Valid(c) => c.body = next
    BY <1>0, <1>5, <2>1 DEF ProgramMark, IInv, SlotUnderSave, MarkDone, MarkCut, Valid, SlotContent
  <2> QED BY <1>5, <1>b, <2>1, <2>2, <2>3 DEF ProgramMark, Saving
<1>6. CASE ReadBack
  <2>1. CASE Fail
    BY <1>6, <1>a, <1>f, <2>1 DEF ReadBack
  <2>2. CASE Valid(slot[Target]) /\ slot[Target].body = next /\ Accept
    <3>1. RecoveredFrom(slot) = View(next)
      BY <1>0, <1>6, <2>2, RecoveredDuringSave DEF ReadBack, Saving
    <3>2. Recovered' = View(mirror')
      BY <1>6, <2>2, <3>1 DEF ReadBack, Accept, RecoveredFrom, Recovered, View
    <3> QED BY <1>0, <3>2
  <2> QED BY <1>6, <2>1, <2>2 DEF ReadBack
<1>7. ~PowerLoss
  BY DEF PowerLoss, Reset
<1>8. CASE UNCHANGED vars
  BY <1>8, <1>a DEF vars
<1> QED BY <1>a, <1>1, <1>2, <1>3, <1>4, <1>5, <1>6, <1>7, <1>8 DEF Next

\* All or nothing of store_commit: after a save that failed or lost the power at
\* any step, a mount finds the mirror, or the mirror with one domain replaced.
THEOREM SavesAreAtomic == Spec => []AbortedSaveIsWhole
<1>1. Init => AbortedSaveIsWhole
  BY DEF Init, AbortedSaveIsWhole
<1> QED BY <1>1, InitInv, NextInv, AbortedStep, PTL DEF Spec

-----------------------------------------------------------------------------
(***************************************************************************)
(* What SecocFrame promises. Nothing is assumed of the MAC but that it is  *)
(* a function and that a tag has 16 bytes.                                 *)
(***************************************************************************)

(***************************************************************************)
(* The length code.                                                        *)
(***************************************************************************)
\* Smallest finds the least number of a set that has one.
LEMMA SmallestIs ==
  ASSUME NEW S \in SUBSET Nat, NEW x \in S, \A y \in S : x <= y
  PROVE  Smallest(S) = x
<1>1. \E z \in S : \A y \in S : z <= y
  OBVIOUS
<1>2. Smallest(S) \in S /\ \A y \in S : Smallest(S) <= y
  BY <1>1 DEF Smallest
<1>3. Smallest(S) \in Nat /\ x \in Nat /\ x <= Smallest(S) /\ Smallest(S) <= x
  BY <1>2
<1> QED
  BY <1>3

\* The lengths of the sixteen codes of dlc_to_len.
LEMMA DlcValues ==
  /\ \A d \in 0..8 : DlcToLen(d) = d
  /\ DlcToLen(9) = 12 /\ DlcToLen(10) = 16 /\ DlcToLen(11) = 20 /\ DlcToLen(12) = 24
  /\ DlcToLen(13) = 32 /\ DlcToLen(14) = 48 /\ DlcToLen(15) = 64
<1>1. \A d \in 0..8 : DlcToLen(d) = d
  <2> SUFFICES ASSUME NEW d \in 0..8 PROVE DlcToLen(d) = d
    OBVIOUS
  <2>1. d \in {0, 1, 2, 3, 4, 5, 6, 7, 8} /\ d % 16 = d
    OBVIOUS
  <2> QED
    BY <2>1 DEF DlcToLen
<1>2. /\ DlcToLen(9) = 12 /\ DlcToLen(10) = 16 /\ DlcToLen(11) = 20
      /\ DlcToLen(12) = 24
  BY DEF DlcToLen
<1>3. DlcToLen(13) = 32 /\ DlcToLen(14) = 48 /\ DlcToLen(15) = 64
  BY DEF DlcToLen
<1> QED
  BY <1>1, <1>2, <1>3

\* A code c is the one for n when its length holds n and that of no smaller code
\* does, and then the length is what secoc_fd_frame_len computes.
LEMMA CodeOf ==
  ASSUME NEW n \in 0..64, NEW c \in 0..15, n <= DlcToLen(c),
         \A d \in 0..15 : d < c => DlcToLen(d) < n,
         \A l \in FdLengths : l < DlcToLen(c) => l < n
  PROVE  LenToDlc(n) = c /\ FdFrameLen(n) = DlcToLen(c)
<1> DEFINE codes == {d \in 0..15 : n <= DlcToLen(d)} \cup {15}
           fits == {l \in FdLengths : n <= l}
<1>0. \A d \in 0..15 : DlcToLen(d) \in FdLengths
  BY DlcValues DEF FdLengths
<1>1. codes \in SUBSET Nat /\ c \in codes
  OBVIOUS
<1>2. \A d \in codes : c <= d
  BY <1>0 DEF FdLengths
<1>3. Smallest(codes) = c
  <2> HIDE DEF codes
  <2> QED BY <1>1, <1>2, SmallestIs
<1>4. fits \in SUBSET Nat /\ DlcToLen(c) \in fits
  BY <1>0 DEF FdLengths
<1>5. \A l \in fits : DlcToLen(c) <= l
  BY <1>4 DEF FdLengths
<1>6. Smallest(fits) = DlcToLen(c)
  <2> HIDE DEF fits
  <2> QED BY <1>4, <1>5, SmallestIs
<1> QED
  BY <1>3, <1>6 DEF LenToDlc, FdFrameLen

\* The two tables of the CAN tasks and the function of secoc.c agree: the frame a
\* controller makes of n bytes has the length the receiver calls the padded one.
THEOREM FdCode ==
  \A n \in 0..64 : /\ DlcToLen(LenToDlc(n)) = FdFrameLen(n)
                   /\ FdFrameLen(n) \in FdLengths /\ n <= FdFrameLen(n)
<1> SUFFICES ASSUME NEW n \in 0..64
             PROVE  \E c \in 0..15 : /\ LenToDlc(n) = c /\ FdFrameLen(n) = DlcToLen(c)
                                     /\ DlcToLen(c) \in FdLengths /\ n <= DlcToLen(c)
  OBVIOUS
<1>1. CASE n <= 8
  <2>1. LenToDlc(n) = n /\ FdFrameLen(n) = DlcToLen(n)
    BY <1>1, CodeOf, DlcValues
  <2> QED BY <1>1, <2>1, DlcValues DEF FdLengths
<1> DEFINE Fits(c) == n <= DlcToLen(c) /\ DlcToLen(c - 1) < n
<1>2. ASSUME NEW c \in 9..15, Fits(c)
      PROVE  /\ LenToDlc(n) = c /\ FdFrameLen(n) = DlcToLen(c)
             /\ DlcToLen(c) \in FdLengths /\ n <= DlcToLen(c)
  <2>1. c \in {9, 10, 11, 12, 13, 14, 15}
    OBVIOUS
  <2>2. \A d \in 0..15 : d < c => DlcToLen(d) < n
    BY <1>2, <2>1, DlcValues
  <2>3. \A l \in FdLengths : l < DlcToLen(c) => l < n
    BY <1>2, <2>1, DlcValues DEF FdLengths
  <2>4. LenToDlc(n) = c /\ FdFrameLen(n) = DlcToLen(c)
    BY <1>2, <2>2, <2>3, CodeOf
  <2> QED
    BY <1>2, <2>1, <2>4, DlcValues DEF FdLengths
<1>3. CASE n > 8
  <2>1. \E c \in 9..15 : Fits(c)
    BY <1>3, DlcValues
  <2> QED BY <1>2, <2>1
<1> QED
  BY <1>1, <1>3

(***************************************************************************)
(* The parts of a frame.                                                   *)
(***************************************************************************)
Length16 == \A input \in Seq(Byte) : Mac(input) \in [1..16 -> Byte]


\* A 16-bit value in two bytes, and back.
LEMMA U16Inverts ==
  \A v \in Word : /\ U16(v) \in Seq(Byte) /\ Len(U16(v)) = 2 /\ Value(U16(v)) = v
                  /\ U16(v)[1] = v % 256 /\ U16(v)[2] = v \div 256
<1> SUFFICES ASSUME NEW v \in Word
             PROVE  /\ U16(v) \in Seq(Byte) /\ Len(U16(v)) = 2 /\ Value(U16(v)) = v
                    /\ U16(v)[1] = v % 256 /\ U16(v)[2] = v \div 256
  OBVIOUS
<1>0. v \in Int /\ 0 <= v /\ v <= 65535
  BY DEF Word
<1>1. v % 256 \in 0..255
  BY <1>0
<1>2. v = (v % 256) + 256 * (v \div 256) /\ v \div 256 \in Int
  BY <1>0
<1>3. v \div 256 \in 0..255
  BY <1>0, <1>1, <1>2
<1>4. v % 256 \in Byte /\ v \div 256 \in Byte
  BY <1>1, <1>3 DEF Byte
<1> QED
  BY <1>2, <1>4 DEF U16, Value

\* A stretch of w that holds s, one by one, is s.
LEMMA StretchIs ==
  ASSUME NEW w, NEW lo \in Int, NEW hi \in Int, NEW s \in Seq(Byte),
         hi = lo + Len(s) - 1, \A j \in lo..hi : w[j] = s[j - lo + 1]
  PROVE  SubSeq(w, lo, hi) = s
<1>0. Len(s) \in Nat /\ \A i \in 1..Len(s) : s[i] \in Byte
  BY LenProperties, ElementOfSeq
<1>1. \A j \in lo..hi : j - lo + 1 \in 1..Len(s)
  BY <1>0
<1>2. \A j \in lo..hi : w[j] \in Byte
  BY <1>0, <1>1
<1>3. /\ SubSeq(w, lo, hi) \in Seq(Byte)
      /\ Len(SubSeq(w, lo, hi)) = IF lo <= hi THEN hi - lo + 1 ELSE 0
      /\ \A i \in 1..(hi - lo + 1) : SubSeq(w, lo, hi)[i] = w[lo + i - 1]
  BY <1>2, SubSeqProperties
<1>4. Len(SubSeq(w, lo, hi)) = Len(s)
  BY <1>0, <1>3
<1>5. \A i \in 1..Len(s) : SubSeq(w, lo, hi)[i] = s[i]
  <2> SUFFICES ASSUME NEW i \in 1..Len(s) PROVE SubSeq(w, lo, hi)[i] = s[i]
    OBVIOUS
  <2>1. i \in 1..(hi - lo + 1) /\ lo + i - 1 \in lo..hi /\ (lo + i - 1) - lo + 1 = i
    BY <1>0
  <2>2. w[lo + i - 1] = s[(lo + i - 1) - lo + 1]
    BY <2>1
  <2> QED BY <2>1, <2>2, <1>3
<1> QED
  BY <1>3, <1>4, <1>5, SeqEqual

Row(p, q, r) == p \o (q \o r)

\* Three sequences in a row, and anything behind them: each is found again.
LEMMA Parts ==
  ASSUME NEW p \in Seq(Byte), NEW q \in Seq(Byte), NEW r \in Seq(Byte), NEW w,
         \A j \in 1..(Len(p) + Len(q) + Len(r)) : w[j] = Row(p, q, r)[j]
  PROVE  /\ SubSeq(w, 1, Len(p)) = p
         /\ SubSeq(w, Len(p) + 1, Len(p) + Len(q)) = q
         /\ SubSeq(w, Len(p) + Len(q) + 1, Len(p) + Len(q) + Len(r)) = r
<1>0. Len(p) \in Nat /\ Len(q) \in Nat /\ Len(r) \in Nat
  BY LenProperties
<1>1. q \o r \in Seq(Byte) /\ Len(q \o r) = Len(q) + Len(r)
  BY ConcatProperties
<1>2. \A i \in 1..(Len(q) + Len(r)) :
         (q \o r)[i] = IF i <= Len(q) THEN q[i] ELSE r[i - Len(q)]
  BY ConcatProperties
<1>3. \A j \in 1..(Len(p) + Len(q \o r)) :
         Row(p, q, r)[j] = IF j <= Len(p) THEN p[j] ELSE (q \o r)[j - Len(p)]
  BY <1>1, ConcatProperties DEF Row
<1>4. ASSUME NEW j \in 1..Len(p)
      PROVE  w[j] = p[j - 1 + 1]
  <2>1. j \in 1..(Len(p) + Len(q) + Len(r)) /\ j <= Len(p) /\ j - 1 + 1 = j
    BY <1>0
  <2>2. w[j] = p[j]
    BY <2>1, <1>0, <1>1, <1>3
  <2> QED BY <2>1, <2>2
<1>5. ASSUME NEW j \in (Len(p) + 1)..(Len(p) + Len(q))
      PROVE  w[j] = q[j - (Len(p) + 1) + 1]
  <2>1. j \in 1..(Len(p) + Len(q) + Len(r)) /\ ~(j <= Len(p))
    BY <1>0
  <2>2. w[j] = (q \o r)[j - Len(p)]
    BY <2>1, <1>0, <1>1, <1>3
  <2>3. /\ j - Len(p) \in 1..(Len(q) + Len(r)) /\ j - Len(p) <= Len(q)
        /\ j - Len(p) = j - (Len(p) + 1) + 1
    BY <1>0
  <2>4. (q \o r)[j - Len(p)] = q[j - Len(p)]
    BY <2>3, <1>2
  <2> QED BY <2>2, <2>3, <2>4
<1>6. ASSUME NEW j \in (Len(p) + Len(q) + 1)..(Len(p) + Len(q) + Len(r))
      PROVE  w[j] = r[j - (Len(p) + Len(q) + 1) + 1]
  <2>1. j \in 1..(Len(p) + Len(q) + Len(r)) /\ ~(j <= Len(p))
    BY <1>0
  <2>2. w[j] = (q \o r)[j - Len(p)]
    BY <2>1, <1>0, <1>1, <1>3
  <2>3. /\ j - Len(p) \in 1..(Len(q) + Len(r)) /\ ~(j - Len(p) <= Len(q))
        /\ (j - Len(p)) - Len(q) = j - (Len(p) + Len(q) + 1) + 1
    BY <1>0
  <2>4. (q \o r)[j - Len(p)] = r[(j - Len(p)) - Len(q)]
    BY <2>3, <1>2
  <2> QED BY <2>2, <2>3, <2>4
<1>7. /\ Len(p) = 1 + Len(p) - 1
      /\ Len(p) + Len(q) = (Len(p) + 1) + Len(q) - 1
      /\ Len(p) + Len(q) + Len(r) = (Len(p) + Len(q) + 1) + Len(r) - 1
      /\ Len(p) + 1 \in Int /\ Len(p) + Len(q) \in Int
      /\ Len(p) + Len(q) + 1 \in Int /\ Len(p) + Len(q) + Len(r) \in Int
  BY <1>0
<1>8. SubSeq(w, 1, Len(p)) = p
  BY <1>0, <1>4, <1>7, StretchIs
<1>9. SubSeq(w, Len(p) + 1, Len(p) + Len(q)) = q
  BY <1>5, <1>7, StretchIs
<1>10. SubSeq(w, Len(p) + Len(q) + 1, Len(p) + Len(q) + Len(r)) = r
  BY <1>6, <1>7, StretchIs
<1> QED
  BY <1>8, <1>9, <1>10

\* The elements of p followed by t.
LEMMA RowOfTwo ==
  ASSUME NEW p \in Seq(Byte), NEW t \in Seq(Byte), NEW w, w = p \o t
  PROVE  /\ Len(w) = Len(p) + Len(t)
         /\ \A i \in 1..Len(p) : w[i] = p[i]
         /\ \A i \in 1..Len(t) : w[Len(p) + i] = t[i]
<1>0. Len(p) \in Nat /\ Len(t) \in Nat
  BY LenProperties
<1>1. /\ Len(w) = Len(p) + Len(t)
      /\ \A i \in 1..(Len(p) + Len(t)) : w[i] = IF i <= Len(p) THEN p[i] ELSE t[i - Len(p)]
  BY ConcatProperties
<1>2. \A i \in 1..Len(p) : w[i] = p[i]
  BY <1>0, <1>1
<1>3. ASSUME NEW i \in 1..Len(t) PROVE w[Len(p) + i] = t[i]
  <2> DEFINE j == Len(p) + i
  <2>1. j \in 1..(Len(p) + Len(t)) /\ ~(j <= Len(p)) /\ j - Len(p) = i
    BY <1>0
  <2> HIDE DEF j
  <2>2. w[j] = t[i]
    BY <2>1, <1>1
  <2> QED BY <2>2 DEF j
<1> QED
  BY <1>1, <1>2, <1>3

\* Two such rows with a first part of the same length are equal only part by part.
LEMMA SameTwo ==
  ASSUME NEW p1 \in Seq(Byte), NEW t1 \in Seq(Byte),
         NEW p2 \in Seq(Byte), NEW t2 \in Seq(Byte)
  PROVE  Len(p1) = Len(p2) /\ p1 \o t1 = p2 \o t2 => p1 = p2 /\ t1 = t2
<1> DEFINE w == p1 \o t1  v == p2 \o t2
<1> SUFFICES Len(p1) = Len(p2) /\ w = v => p1 = p2 /\ t1 = t2
  OBVIOUS
<1>a. w = p1 \o t1 /\ v = p2 \o t2
  OBVIOUS
<1> HIDE DEF w, v
<1>0. Len(p1) \in Nat /\ Len(t1) \in Nat /\ Len(t2) \in Nat
  BY LenProperties
<1>1. /\ Len(w) = Len(p1) + Len(t1)
      /\ \A i \in 1..Len(p1) : w[i] = p1[i]
      /\ \A i \in 1..Len(t1) : w[Len(p1) + i] = t1[i]
  BY <1>a, RowOfTwo
<1>2. /\ Len(v) = Len(p2) + Len(t2)
      /\ \A i \in 1..Len(p2) : v[i] = p2[i]
      /\ \A i \in 1..Len(t2) : v[Len(p2) + i] = t2[i]
  BY <1>a, RowOfTwo
<1> SUFFICES ASSUME Len(p1) = Len(p2), w = v PROVE p1 = p2 /\ t1 = t2
  OBVIOUS
<1>3. Len(t1) = Len(t2)
  BY <1>0, <1>1, <1>2
<1>4. \A i \in 1..Len(p1) : p1[i] = p2[i]
  BY <1>1, <1>2
<1>5. \A i \in 1..Len(t1) : t1[i] = t2[i]
  BY <1>1, <1>2, <1>3
<1>6. p1 = p2
  BY <1>4, SeqEqual
<1>7. t1 = t2
  BY <1>3, <1>5, SeqEqual
<1> QED
  BY <1>6, <1>7

\* The freshness value of a frame.
LEMMA FreshValue ==
  ASSUME NEW epoch \in Word, NEW counter \in Word
  PROVE  LET fresh == U16(epoch) \o U16(counter)
         IN  /\ fresh \in Seq(Byte) /\ Len(fresh) = 4
             /\ Value(fresh) = epoch /\ Value(SubSeq(fresh, 3, 4)) = counter
<1> DEFINE e == U16(epoch)  c == U16(counter)  fresh == e \o c
<1>1. e \in Seq(Byte) /\ c \in Seq(Byte) /\ Len(e) = 2 /\ Len(c) = 2
  BY U16Inverts
<1>2. Value(e) = epoch /\ Value(c) = counter
  BY U16Inverts
<1> HIDE DEF e, c
<1>3. /\ fresh \in Seq(Byte) /\ Len(fresh) = 4
      /\ \A i \in 1..4 : fresh[i] = IF i <= 2 THEN e[i] ELSE c[i - 2]
  <2>1. /\ fresh \in Seq(Byte) /\ Len(fresh) = Len(e) + Len(c)
        /\ \A i \in 1..(Len(e) + Len(c)) :
              fresh[i] = IF i <= Len(e) THEN e[i] ELSE c[i - Len(e)]
    BY <1>1, ConcatProperties
  <2>2. Len(e) + Len(c) = 4
    BY <1>1
  <2> QED BY <1>1, <2>1, <2>2
<1>4. fresh[1] = e[1] /\ fresh[2] = e[2]
  BY <1>3
<1>5. fresh[3] = c[1] /\ fresh[4] = c[2]
  BY <1>3
<1>6. SubSeq(fresh, 3, 4) = c
  <2>1. \A j \in 3..4 : fresh[j] = c[j - 3 + 1]
    <3> SUFFICES ASSUME NEW j \in 3..4 PROVE fresh[j] = c[j - 3 + 1]
      OBVIOUS
    <3>1. j = 3 \/ j = 4
      OBVIOUS
    <3>2. 3 - 3 + 1 = 1 /\ 4 - 3 + 1 = 2
      OBVIOUS
    <3> QED BY <3>1, <3>2, <1>5
  <2> HIDE DEF fresh
  <2> QED BY <2>1, <1>1, StretchIs
<1> HIDE DEF fresh
<1>7. Value(fresh) = epoch /\ Value(SubSeq(fresh, 3, 4)) = counter
  BY <1>2, <1>4, <1>6 DEF Value
<1> QED
  BY <1>3, <1>7 DEF fresh, e, c

\* A truncated tag is eight bytes.
LEMMA TagType ==
  ASSUME Length16, NEW id \in Word, NEW fresh \in Seq(Byte), NEW pdu \in Seq(Byte)
  PROVE  Tag(id, fresh, pdu) \in Seq(Byte) /\ Len(Tag(id, fresh, pdu)) = 8
<1>1. MacInput(id, fresh, pdu) \in Seq(Byte)
  BY U16Inverts, ConcatProperties DEF MacInput
<1> DEFINE mac == Mac(MacInput(id, fresh, pdu))
<1>2. \A i \in 1..8 : mac[i] \in Byte
  BY <1>1 DEF Length16
<1> HIDE DEF mac
<1>3. SubSeq(mac, 1, 8) \in Seq(Byte) /\ Len(SubSeq(mac, 1, 8)) = 8
  BY <1>2, SubSeqProperties
<1> QED
  BY <1>3 DEF Tag, MacLen, mac

(***************************************************************************)
(* What is secured is what is verified.                                    *)
(***************************************************************************)
\* What one node secures, in a buffer of this room, and its controller pads, verifies at
\* the other, to the same PDU and the same freshness value.
Delivers(id, epoch, counter, pdu, room, cap) ==
  VerifyLen(TRUE, id, OnWire(Secure(TRUE, id, epoch, counter, pdu, room)), Len(pdu), cap)
    = Ok(epoch, counter, pdu)

\* Every PDU that fits a CAN FD frame and the buffers is delivered: secoc_secure, the
\* CAN tasks and secoc_verify_len agree on where everything is.
THEOREM Delivered ==
  ASSUME Length16, NEW id \in Word, NEW epoch \in Word, NEW counter \in Word,
         NEW pdu \in Seq(Byte), Len(pdu) <= 52,
         NEW room \in Nat, Len(pdu) + TrailerLen <= room, NEW cap \in Nat, Len(pdu) <= cap
  PROVE  Delivers(id, epoch, counter, pdu, room, cap)
<1> DEFINE n == Len(pdu)  fresh == U16(epoch) \o U16(counter)  tag == Tag(id, fresh, pdu)
           frame == pdu \o (fresh \o tag)  wire == OnWire(frame)
<1>0. n \in Nat /\ n <= 52
  BY LenProperties
<1>1. fresh \in Seq(Byte) /\ Len(fresh) = 4
  BY FreshValue
<1>2. Value(fresh) = epoch /\ Value(SubSeq(fresh, 3, 4)) = counter
  BY FreshValue
<1> HIDE DEF fresh
<1>3. tag \in Seq(Byte) /\ Len(tag) = 8
  BY <1>1, TagType
<1>4. Secure(TRUE, id, epoch, counter, pdu, room) = frame
  BY <1>0 DEF Secure, MaxPdu, TrailerLen, FreshLen, MacLen, n, fresh
<1> HIDE DEF tag
<1> HIDE DEF n
<1>5. frame \in Seq(Byte) /\ Len(frame) = n + 12
  <2>1. fresh \o tag \in Seq(Byte) /\ Len(fresh \o tag) = Len(fresh) + Len(tag)
    BY <1>1, <1>3, ConcatProperties
  <2>2. Len(fresh \o tag) = 12
    BY <2>1, <1>1, <1>3
  <2>3. frame \in Seq(Byte) /\ Len(frame) = Len(pdu) + Len(fresh \o tag)
    BY <2>1, ConcatProperties
  <2> QED BY <2>2, <2>3 DEF n
<1>6. n + 12 \in 0..64 /\ n + 12 \in Nat
  BY <1>0
<1>7. /\ DlcToLen(LenToDlc(n + 12)) = FdFrameLen(n + 12)
      /\ FdFrameLen(n + 12) \in Nat /\ n + 12 <= FdFrameLen(n + 12)
  <2>1. /\ DlcToLen(LenToDlc(n + 12)) = FdFrameLen(n + 12)
        /\ FdFrameLen(n + 12) \in FdLengths /\ n + 12 <= FdFrameLen(n + 12)
    BY <1>6, FdCode
  <2>2. FdLengths \subseteq Nat
    BY DEF FdLengths
  <2> QED BY <2>1, <2>2
<1>8. /\ Len(wire) = FdFrameLen(n + 12)
      /\ \A j \in 1..(n + 12) : wire[j] = frame[j]
  <2> HIDE DEF frame
  <2>1. wire = [i \in 1..FdFrameLen(n + 12) |-> IF i <= n + 12 THEN frame[i] ELSE 0]
    BY <1>5, <1>7 DEF OnWire
  <2> HIDE DEF wire
  <2> QED BY <2>1, <1>6, <1>7
<1> HIDE DEF wire
<1>9. /\ SubSeq(wire, 1, n) = pdu
      /\ SubSeq(wire, n + 1, n + 4) = fresh
      /\ SubSeq(wire, n + 4 + 1, n + 4 + 8) = tag
  <2>1. n + 4 + 8 = n + 12
    BY <1>0
  <2>2. \A j \in 1..(n + 4 + 8) : wire[j] = Row(pdu, fresh, tag)[j]
    BY <1>8, <2>1 DEF Row
  <2> HIDE DEF frame
  <2>3. \A j \in 1..(Len(pdu) + Len(fresh) + Len(tag)) : wire[j] = Row(pdu, fresh, tag)[j]
    BY <2>2, <1>1, <1>3 DEF n
  <2>4. /\ SubSeq(wire, 1, Len(pdu)) = pdu
        /\ SubSeq(wire, Len(pdu) + 1, Len(pdu) + Len(fresh)) = fresh
        /\ SubSeq(wire, Len(pdu) + Len(fresh) + 1, Len(pdu) + Len(fresh) + Len(tag)) = tag
    BY <2>3, <1>1, <1>3, Parts
  <2> QED BY <2>4, <1>1, <1>3 DEF n
<1>10. Pdu(wire, n) = pdu /\ Fresh(wire, n) = fresh /\ RxMac(wire, n) = tag
  <2>1. n + 12 = n + 4 + 8
    BY <1>0
  <2> QED BY <1>9, <2>1 DEF Pdu, Fresh, RxMac, FreshLen, MacLen, TrailerLen
<1>11. VerifyCore(TRUE, id, wire, n) = Ok(epoch, counter, pdu)
  BY <1>10, <1>2 DEF VerifyCore, tag
<1>12. VerifyLen(TRUE, id, wire, n, cap) = VerifyCore(TRUE, id, wire, n)
  <2>1. n <= 64 /\ n <= cap /\ n + 12 <= Len(wire) /\ Len(wire) <= FdFrameLen(n + 12)
    BY <1>0, <1>7, <1>8 DEF n
  <2>2. Len(wire) \in Nat /\ FdFrameLen(n + 12) \in Nat
    BY <1>7, <1>8
  <2>3. FreshLen + MacLen = 12
    BY DEF FreshLen, MacLen
  <2>4. /\ ~(n > 64) /\ ~(n > cap) /\ ~(Len(wire) < n + 12)
        /\ ~(Len(wire) > FdFrameLen(n + 12))
    BY <2>1, <2>2, <1>0
  <2> QED BY <2>3, <2>4 DEF VerifyLen, MaxPdu, TrailerLen
<1> QED
  BY <1>4, <1>11, <1>12 DEF Delivers, wire, n

\* The MAC is over the identifier, the freshness value and the PDU, and over nothing
\* else: two inputs are equal only when all of these are, so a tag made for one
\* identifier, epoch, counter or PDU is a tag for no other (build_mac_input).
THEOREM MacInputBinds ==
  ASSUME NEW id1 \in Word, NEW epoch1 \in Word, NEW counter1 \in Word, NEW pdu1 \in Seq(Byte),
         NEW id2 \in Word, NEW epoch2 \in Word, NEW counter2 \in Word, NEW pdu2 \in Seq(Byte),
         MacInput(id1, U16(epoch1) \o U16(counter1), pdu1)
           = MacInput(id2, U16(epoch2) \o U16(counter2), pdu2)
  PROVE  id1 = id2 /\ epoch1 = epoch2 /\ counter1 = counter2 /\ pdu1 = pdu2
<1> DEFINE f1 == U16(epoch1) \o U16(counter1)  f2 == U16(epoch2) \o U16(counter2)
           u1 == U16(id1)  u2 == U16(id2)
<1>1. f1 \in Seq(Byte) /\ Len(f1) = 4 /\ f2 \in Seq(Byte) /\ Len(f2) = 4
  BY FreshValue
<1>2. /\ Value(f1) = epoch1 /\ Value(SubSeq(f1, 3, 4)) = counter1
      /\ Value(f2) = epoch2 /\ Value(SubSeq(f2, 3, 4)) = counter2
  BY FreshValue
<1>3. /\ u1 \in Seq(Byte) /\ Len(u1) = 2 /\ Value(u1) = id1
      /\ u2 \in Seq(Byte) /\ Len(u2) = 2 /\ Value(u2) = id2
  BY U16Inverts
<1>4. u1 \o (f1 \o pdu1) = u2 \o (f2 \o pdu2)
  BY DEF MacInput
<1> HIDE DEF f1, f2, u1, u2
<1>5. Len(u1) = Len(u2) /\ Len(f1) = Len(f2)
  BY <1>1, <1>3
<1>6. u1 \in Seq(Byte) /\ u2 \in Seq(Byte) /\ f1 \in Seq(Byte) /\ f2 \in Seq(Byte)
  BY <1>1, <1>3
<1> DEFINE t1 == f1 \o pdu1  t2 == f2 \o pdu2
<1>7. t1 \in Seq(Byte) /\ t2 \in Seq(Byte) /\ u1 \o t1 = u2 \o t2
  BY <1>4, <1>6, ConcatProperties
<1>8. u1 = u2 /\ t1 = t2
  <2> HIDE DEF t1, t2
  <2> QED BY <1>5, <1>6, <1>7, SameTwo
<1>9. f1 = f2 /\ pdu1 = pdu2
  BY <1>5, <1>6, <1>8, SameTwo
<1> QED
  BY <1>2, <1>3, <1>8, <1>9

\* The verdict, the freshness value and the PDU depend on the secured bytes alone:
\* two frames of acceptable length that agree on those get the same result, whatever
\* either carries behind them (secoc_verify_len).
THEOREM PaddingIsIgnored ==
  ASSUME NEW works \in BOOLEAN, NEW id \in Word, NEW len \in Nat, NEW cap \in Nat,
         NEW f \in Seq(Byte), NEW g \in Seq(Byte),
         len + TrailerLen <= Len(f), Len(f) <= FdFrameLen(len + TrailerLen),
         len + TrailerLen <= Len(g), Len(g) <= FdFrameLen(len + TrailerLen),
         \A i \in 1..(len + TrailerLen) : f[i] = g[i]
  PROVE  VerifyLen(works, id, f, len, cap) = VerifyLen(works, id, g, len, cap)
<1>0. FreshLen = 4 /\ MacLen = 8 /\ TrailerLen = 12
  BY DEF FreshLen, MacLen, TrailerLen
<1>1. ASSUME NEW lo \in Int, NEW hi \in Int, 1 <= lo, hi <= len + 12
      PROVE  SubSeq(f, lo, hi) = SubSeq(g, lo, hi)
  <2>1. \A i \in lo..hi : f[i] = g[i] /\ g[i] \in Byte
    <3> SUFFICES ASSUME NEW i \in lo..hi PROVE f[i] = g[i] /\ g[i] \in Byte
      OBVIOUS
    <3>1. i \in 1..(len + TrailerLen) /\ i \in 1..Len(g)
      BY <1>0, <1>1, LenProperties
    <3> QED BY <3>1, ElementOfSeq
  <2>2. \A i \in lo..hi : f[i] \in Byte /\ g[i] \in Byte
    BY <2>1
  <2>3. /\ SubSeq(f, lo, hi) \in Seq(Byte)
        /\ Len(SubSeq(f, lo, hi)) = IF lo <= hi THEN hi - lo + 1 ELSE 0
        /\ \A i \in 1..(hi - lo + 1) : SubSeq(f, lo, hi)[i] = f[lo + i - 1]
    BY <2>2, SubSeqProperties
  <2>4. /\ SubSeq(g, lo, hi) \in Seq(Byte)
        /\ Len(SubSeq(g, lo, hi)) = IF lo <= hi THEN hi - lo + 1 ELSE 0
        /\ \A i \in 1..(hi - lo + 1) : SubSeq(g, lo, hi)[i] = g[lo + i - 1]
    BY <2>2, SubSeqProperties
  <2>5. \A i \in 1..Len(SubSeq(f, lo, hi)) : SubSeq(f, lo, hi)[i] = SubSeq(g, lo, hi)[i]
    <3> SUFFICES ASSUME NEW i \in 1..Len(SubSeq(f, lo, hi))
                 PROVE  SubSeq(f, lo, hi)[i] = SubSeq(g, lo, hi)[i]
      OBVIOUS
    <3>1. i \in 1..(hi - lo + 1) /\ lo + i - 1 \in lo..hi
      BY <2>3
    <3>2. f[lo + i - 1] = g[lo + i - 1]
      BY <3>1, <2>1
    <3> QED BY <3>1, <3>2, <2>3, <2>4
  <2>6. Len(SubSeq(f, lo, hi)) = Len(SubSeq(g, lo, hi))
    BY <2>3, <2>4
  <2> QED
    BY <2>3, <2>4, <2>5, <2>6, SeqEqual
<1>2. Pdu(f, len) = Pdu(g, len)
  BY <1>1 DEF Pdu
<1>3. Fresh(f, len) = Fresh(g, len)
  <2>1. len + 1 \in Int /\ len + 4 \in Int /\ 1 <= len + 1 /\ len + 4 <= len + 12
    OBVIOUS
  <2> QED BY <2>1, <1>0, <1>1 DEF Fresh
<1>4. RxMac(f, len) = RxMac(g, len)
  <2>1. len + 4 + 1 \in Int /\ len + 12 \in Int /\ 1 <= len + 4 + 1 /\ len + 12 <= len + 12
    OBVIOUS
  <2> QED BY <2>1, <1>0, <1>1 DEF RxMac
<1>5. VerifyCore(works, id, f, len) = VerifyCore(works, id, g, len)
  BY <1>2, <1>3, <1>4 DEF VerifyCore
<1>6. /\ Len(f) \in Nat /\ Len(g) \in Nat /\ FdFrameLen(len + TrailerLen) \in Int
      /\ ~(Len(f) < len + TrailerLen) /\ ~(Len(f) > FdFrameLen(len + TrailerLen))
      /\ ~(Len(g) < len + TrailerLen) /\ ~(Len(g) > FdFrameLen(len + TrailerLen))
  <2>1. Len(f) \in Nat /\ Len(g) \in Nat
    BY LenProperties
  <2>2. FdFrameLen(len + TrailerLen) \in Int
    <3>1. CASE len + 12 > 64
      BY <3>1, <1>0 DEF FdFrameLen
    <3>2. CASE len + 12 <= 64
      <4>1. len + 12 \in 0..64
        BY <3>2
      <4>2. FdLengths \subseteq Int
        BY DEF FdLengths
      <4> QED BY <4>1, <4>2, <1>0, FdCode
    <3> QED BY <3>1, <3>2
  <2> QED BY <2>1, <2>2, <1>0
<1> QED
  BY <1>5, <1>6 DEF VerifyLen

(***************************************************************************)
(* The messages.                                                           *)
(***************************************************************************)
\* A sensor report and a light command that one node packs arrive: the other unpacks
\* the values that were packed (pack_*, body_msg_pdu_len, body_decode).
THEOREM MessagesArrive ==
  ASSUME Length16, NEW epoch \in Word, NEW counter \in Word
  PROVE  /\ \A ambient \in 0..1023, ajar \in 0..1 :
              LET pdu == PackReport(ambient, ajar)
                  wire == OnWire(Secure(TRUE, SENSOR_RPT, epoch, counter, pdu, 64))
              IN  /\ Received(TRUE, SENSOR_RPT, wire, 64) = Ok(epoch, counter, pdu)
                  /\ Decode(SENSOR_RPT, pdu)
                       = [kind |-> "SENSOR_REPORT", ambient |-> ambient, ajar |-> ajar]
         /\ \A pct \in 0..100 :
              LET pdu == PackLight(pct)
                  wire == OnWire(Secure(TRUE, LIGHT_CMD, epoch, counter, pdu, 64))
              IN  /\ Received(TRUE, LIGHT_CMD, wire, 64) = Ok(epoch, counter, pdu)
                  /\ Decode(LIGHT_CMD, pdu) = [kind |-> "LIGHT_CMD", pct |-> pct]
<1>0. /\ SENSOR_RPT \in Word /\ LIGHT_CMD \in Word
      /\ PduLenOf(SENSOR_RPT) = 3 /\ PduLenOf(LIGHT_CMD) = 1
      /\ SENSOR_RPT # LIGHT_CMD /\ SENSOR_RPT # DOOR_CMD /\ LIGHT_CMD # DOOR_CMD
  BY DEF SENSOR_RPT, LIGHT_CMD, DOOR_CMD, FRESHNESS_SYNC, GW_FRESHNESS_SYNC, PduLenOf, Word
<1>1. ASSUME NEW id \in Word, NEW pdu \in Seq(Byte), PduLenOf(id) = Len(pdu), Len(pdu) \in 1..3,
             NEW room \in Nat, room = 64
      PROVE  Received(TRUE, id, OnWire(Secure(TRUE, id, epoch, counter, pdu, room)), room)
               = Ok(epoch, counter, pdu)
  <2>1. Len(pdu) <= 52 /\ Len(pdu) + TrailerLen <= room /\ Len(pdu) <= room /\ Len(pdu) # 0
    BY <1>1 DEF TrailerLen, FreshLen, MacLen
  <2>2. Delivers(id, epoch, counter, pdu, room, room)
    BY <2>1, Delivered
  <2> QED
    BY <1>1, <2>1, <2>2 DEF Received, Delivers
<1>2. ASSUME NEW ambient \in 0..1023, NEW ajar \in 0..1
      PROVE  LET pdu == PackReport(ambient, ajar)
                 wire == OnWire(Secure(TRUE, SENSOR_RPT, epoch, counter, pdu, 64))
             IN  /\ Received(TRUE, SENSOR_RPT, wire, 64) = Ok(epoch, counter, pdu)
                 /\ Decode(SENSOR_RPT, pdu)
                      = [kind |-> "SENSOR_REPORT", ambient |-> ambient, ajar |-> ajar]
  <2> DEFINE pdu == PackReport(ambient, ajar)
  <2>1. pdu = << ambient \div 256, ambient % 256, ajar >>
    BY DEF PackReport
  <2>2. ambient % 256 \in 0..255 /\ ambient = (ambient % 256) + 256 * (ambient \div 256)
    OBVIOUS
  <2>3. ambient \div 256 \in Int
    OBVIOUS
  <2>4. ambient \div 256 \in 0..255
    BY <2>2, <2>3
  <2> HIDE DEF pdu
  <2>5. /\ pdu \in Seq(Byte) /\ Len(pdu) = 3
        /\ pdu[1] = ambient \div 256 /\ pdu[2] = ambient % 256 /\ pdu[3] = ajar
    BY <2>1, <2>2, <2>4 DEF Byte
  <2>6. 256 * pdu[1] + pdu[2] = ambient
    BY <2>2, <2>4, <2>5
  <2>7. Decode(SENSOR_RPT, pdu)
          = [kind |-> "SENSOR_REPORT", ambient |-> ambient, ajar |-> ajar]
    BY <2>5, <2>6, <1>0 DEF Decode
  <2>8. PduLenOf(SENSOR_RPT) = Len(pdu) /\ Len(pdu) \in 1..3 /\ SENSOR_RPT \in Word /\ 64 \in Nat
    BY <1>0, <2>5
  <2>9. Received(TRUE, SENSOR_RPT,
                 OnWire(Secure(TRUE, SENSOR_RPT, epoch, counter, pdu, 64)), 64)
          = Ok(epoch, counter, pdu)
    BY <2>5, <2>8, <1>1
  <2> QED
    BY <2>7, <2>9 DEF pdu
<1>3. ASSUME NEW pct \in 0..100
      PROVE  LET pdu == PackLight(pct)
                 wire == OnWire(Secure(TRUE, LIGHT_CMD, epoch, counter, pdu, 64))
             IN  /\ Received(TRUE, LIGHT_CMD, wire, 64) = Ok(epoch, counter, pdu)
                 /\ Decode(LIGHT_CMD, pdu) = [kind |-> "LIGHT_CMD", pct |-> pct]
  <2> DEFINE pdu == PackLight(pct)
  <2>1. pdu = << pct >>
    BY DEF PackLight
  <2> HIDE DEF pdu
  <2>2. pdu \in Seq(Byte) /\ Len(pdu) = 1 /\ pdu[1] = pct
    BY <2>1 DEF Byte
  <2>3. Decode(LIGHT_CMD, pdu) = [kind |-> "LIGHT_CMD", pct |-> pct]
    BY <2>2, <1>0 DEF Decode
  <2>4. PduLenOf(LIGHT_CMD) = Len(pdu) /\ Len(pdu) \in 1..3 /\ LIGHT_CMD \in Word /\ 64 \in Nat
    BY <1>0, <2>2
  <2>5. Received(TRUE, LIGHT_CMD,
                 OnWire(Secure(TRUE, LIGHT_CMD, epoch, counter, pdu, 64)), 64)
          = Ok(epoch, counter, pdu)
    BY <2>2, <2>4, <1>1
  <2> QED
    BY <2>3, <2>5 DEF pdu
<1> QED
  BY <1>2, <1>3
=============================================================================
