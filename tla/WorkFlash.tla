------------------------------ MODULE WorkFlash ------------------------------
(***************************************************************************)
(* The two work-flash slots of the freshness store, as the code sees them: *)
(* what a slot can hold after complete and interrupted operations, how     *)
(* read_slot classifies it and which slot a mount selects                  *)
(* (shared/secoc_store/src/secoc_store.c, port/wflash_port.c).             *)
(*                                                                         *)
(* A record is 5 words: seq, epochs, written bitmap, CRC and, programmed   *)
(* last, the commit mark.  What read_slot can tell apart is the mark       *)
(* (blank, half-programmed, set) and whether the body is sound, that is    *)
(* fully programmed, readable by the DMA transfer and carrying a right CRC *)
(* and clear reserved bits.  An unsound body has no content of interest.   *)
(*                                                                         *)
(* Definitions named Operator_Defect, here and in the other modules, are   *)
(* Operator with a plausible defect; no specification uses them.           *)
(***************************************************************************)
EXTENDS Integers

CONSTANTS
  Epoch,   \* the epoch values a domain may hold (uint16_t)
  MaxSeq   \* bound on the save sequence number (the endurance of the flash)

ASSUME WorkFlashAssumption ==
  /\ 0 \in Epoch
  /\ MaxSeq \in Nat \ {0}

Domain == 0..1         \* 0 = own sender epoch, 1 = floor of the peer
Slot   == 0..1
NoSlot == 255          \* NO_SLOT

Record == [seq : 0..MaxSeq, epoch : [Domain -> Epoch], written : SUBSET Domain]

\* What a mount puts in the mirror before it reads any slot.
ZeroRecord == [seq |-> 0, epoch |-> [d \in Domain |-> 0], written |-> {}]

SlotContent ==
  [mark : {"blank", "torn", "set"}, sound : BOOLEAN, body : Record]

ErasedSlot == [mark |-> "blank", sound |-> FALSE, body |-> ZeroRecord]

(***************************************************************************)
(* read_slot: SLOT_EMPTY, SLOT_VALID, and everything that is neither       *)
(* (SLOT_TORN and SLOT_CORRUPT, which a mount treats alike).               *)
(***************************************************************************)
Empty(s) == s.mark = "blank"

Valid(s) == s.mark = "set" /\ s.sound

(***************************************************************************)
(* The choice a mount makes: the higher seq of two valid slots, a tie goes *)
(* to slot 0; the only valid slot; or none.                                *)
(***************************************************************************)
NewestSlot_FirstValid(slots) ==
  IF Valid(slots[0]) THEN 0 ELSE IF Valid(slots[1]) THEN 1 ELSE NoSlot

NewestSlot(slots) ==
  IF Valid(slots[0]) /\ (Valid(slots[1]) => slots[1].body.seq <= slots[0].body.seq)
  THEN 0
  ELSE IF Valid(slots[1]) THEN 1 ELSE NoSlot

MountStatus(slots) ==
  IF NewestSlot(slots) # NoSlot THEN "OK"
  ELSE IF \A i \in Slot : Empty(slots[i]) THEN "FACTORY" ELSE "BROKEN"

MountRecord(slots) ==
  IF NewestSlot(slots) # NoSlot THEN slots[NewestSlot(slots)].body ELSE ZeroRecord

\* The record store_commit is about to save: the mirror with one domain changed.
NextRecord_ForgetsOther(r, d, e) ==
  [seq     |-> r.seq + 1,
   epoch   |-> [ZeroRecord.epoch EXCEPT ![d] = e],
   written |-> {d}]

NextRecord(r, d, e) ==
  [seq     |-> r.seq + 1,
   epoch   |-> [r.epoch EXCEPT ![d] = e],
   written |-> r.written \cup {d}]

\* "Never touch the newest valid record: write the other slot."
TargetOf_InPlace(newest) == IF newest = 1 THEN 1 ELSE 0
TargetOf(newest) == IF newest = 0 THEN 1 ELSE 0

(***************************************************************************)
(* The flash operations.  One that is cut short (it reports an error, or   *)
(* the power goes during it) leaves the slot in a state the manual calls   *)
(* unknown: any of the contents below.  A completed program operation may  *)
(* still have left a weak word, which only the read-back can notice.       *)
(***************************************************************************)
\* Cut before, during or after the mark word was cleared.
EraseCut(s) == {s, ErasedSlot, [ErasedSlot EXCEPT !.mark = "torn"],
                [ErasedSlot EXCEPT !.mark = s.mark]}

BodyDone(s, r) == {[s EXCEPT !.sound = TRUE, !.body = r], s}
BodyCut(s)     == {s}

MarkDone(s) == {[s EXCEPT !.mark = m] : m \in {"set", "torn"}}
MarkCut(s)  == {[s EXCEPT !.mark = m] : m \in {"set", "torn", "blank"}}
=============================================================================
