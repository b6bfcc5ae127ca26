--------------------------- MODULE FreshnessStore ---------------------------
(***************************************************************************)
(* The freshness store of one node with one caller at a time (Node B runs  *)
(* all of SecOC in one task): secoc_store_mount and store_commit of        *)
(* shared/secoc_store/src/secoc_store.c, each flash operation of a save a  *)
(* step of its own, any of which may fail or lose the power.               *)
(***************************************************************************)
EXTENDS WorkFlash

CONSTANTS Cold, Off, Lost   \* see DurableStore

\* The three markers are no epoch, no set of values and distinct.
ASSUME StoreAssumption ==
  /\ Cold \notin Epoch
  /\ Off # Lost
  /\ {Off, Lost} \cap [Domain -> Epoch \cup {Cold}] = {}

VARIABLES
  slot,     \* the two work-flash sectors
  status,   \* s_store.status
  newest,   \* s_store.newest
  mirror,   \* s_store.mirror
  pc,       \* what the node is doing: off, idle, or the step of a save
  next      \* the record being saved (ZeroRecord when there is none)

vars == <<slot, status, newest, mirror, pc, next>>

ram == <<status, newest, mirror>>

TypeOK ==
  /\ slot \in [Slot -> SlotContent]
  /\ status \in {"OK", "FACTORY", "BROKEN"}
  /\ newest \in Slot \cup {NoSlot}
  /\ mirror \in Record
  /\ pc \in {"off", "idle", "erase", "body", "mark", "readback"}
  /\ next \in Record

\* The static initialiser of s_store: unmounted = broken.
Reset ==
  /\ status' = "BROKEN"
  /\ newest' = NoSlot
  /\ mirror' = ZeroRecord
  /\ next' = ZeroRecord
  /\ pc' = "off"

Init ==
  /\ slot = [i \in Slot |-> ErasedSlot]
  /\ status = "BROKEN"
  /\ newest = NoSlot
  /\ mirror = ZeroRecord
  /\ next = ZeroRecord
  /\ pc = "off"

Target == TargetOf(newest)

\* A failing operation ends the save: store_commit returns false with the
\* mirror as it was, or the node is gone.
Fail ==
  \/ /\ pc' = "idle"
     /\ next' = ZeroRecord
     /\ UNCHANGED ram
  \/ Reset

Continue(step) ==
  /\ pc' = step
  /\ UNCHANGED <<next, ram>>

-----------------------------------------------------------------------------
Mount ==
  /\ pc = "off"
  /\ status' = MountStatus(slot)
  /\ newest' = NewestSlot(slot)
  /\ mirror' = MountRecord(slot)
  /\ pc' = "idle"
  /\ UNCHANGED <<slot, next>>

\* A broken store refuses: usable() is false and nothing changes.
Begin(d, e) ==
  /\ pc = "idle"
  /\ status # "BROKEN"
  /\ mirror.seq < MaxSeq
  /\ next' = NextRecord(mirror, d, e)
  /\ pc' = "erase"
  /\ UNCHANGED <<slot, ram>>

Erase ==
  /\ pc = "erase"
  /\ \/ /\ slot' = [slot EXCEPT ![Target] = ErasedSlot]
        /\ Continue("body")
     \/ /\ \E s \in EraseCut(slot[Target]) : slot' = [slot EXCEPT ![Target] = s]
        /\ Fail

ProgramBody ==
  /\ pc = "body"
  /\ \/ /\ \E s \in BodyDone(slot[Target], next) : slot' = [slot EXCEPT ![Target] = s]
        /\ Continue("mark")
     \/ /\ \E s \in BodyCut(slot[Target]) : slot' = [slot EXCEPT ![Target] = s]
        /\ Fail

ProgramMark ==
  /\ pc = "mark"
  /\ \/ /\ \E s \in MarkDone(slot[Target]) : slot' = [slot EXCEPT ![Target] = s]
        /\ Continue("readback")
     \/ /\ \E s \in MarkCut(slot[Target]) : slot' = [slot EXCEPT ![Target] = s]
        /\ Fail

\* Only now is the new value durable, so only now does RAM follow.
Accept ==
  /\ mirror' = next
  /\ newest' = Target
  /\ status' = "OK"
  /\ pc' = "idle"
  /\ next' = ZeroRecord

ReadBack_Unchecked ==
  /\ pc = "readback"
  /\ \/ Accept
     \/ Fail
  /\ UNCHANGED slot

ReadBack ==
  /\ pc = "readback"
  /\ \/ Valid(slot[Target]) /\ slot[Target].body = next /\ Accept
     \/ Fail     \* not valid, another record, or the read itself failed
  /\ UNCHANGED slot

PowerLoss ==
  /\ pc # "off"
  /\ Reset
  /\ UNCHANGED slot

Next ==
  \/ Mount
  \/ \E d \in Domain, e \in Epoch : Begin(d, e)
  \/ Erase
  \/ ProgramBody
  \/ ProgramMark
  \/ ReadBack
  \/ PowerLoss

Spec == Init /\ [][Next]_vars

-----------------------------------------------------------------------------
\* store_load for every domain: cold when the written bit is clear.
View(r) == [d \in Domain |-> IF d \in r.written THEN r.epoch[d] ELSE Cold]

\* What load answers now, and what it would answer after a restart.
Loaded ==
  IF pc = "off" THEN Off ELSE IF status = "BROKEN" THEN Lost ELSE View(mirror)

Recovered == IF MountStatus(slot) = "BROKEN" THEN Lost ELSE View(MountRecord(slot))

Durable == INSTANCE DurableStore WITH mem <- Loaded, disk <- Recovered

\* The store implements the promise of the port: every step of a mount or a
\* save is a step of DurableStore or changes nothing a caller can observe.
Implements == Durable!Spec

\* A running store with a record answers from a record that is whole in flash:
\* no step of a save, failed or not, has touched the slot the mirror came from.
MirrorIsDurable ==
  status = "OK" =>
    /\ newest \in Slot
    /\ Valid(slot[newest])
    /\ slot[newest].body = mirror

\* A save that was cut short shows up as a whole or not at all: what the next
\* mount finds is the mirror, or the mirror with exactly one domain replaced.
AbortedSaveIsWhole ==
  status = "OK" =>
    \E d \in Domain, e \in Epoch : Recovered \in {View(mirror), [View(mirror) EXCEPT ![d] = e]}

\* Once a mount or a commit has ended with a record, no later step, whatever it
\* interrupts, leaves flash a mount would call factory-fresh or broken.
StaysMountable ==
  [][status = "OK" => MountStatus(slot') = "OK"]_vars
=============================================================================
