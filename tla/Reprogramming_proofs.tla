------------------------- MODULE Reprogramming_proofs -------------------------
(***************************************************************************)
(* Theorems about Reprogramming, for every threshold, flash geometry and   *)
(* set of images and any number of faults. IInv: the boot-loop counter     *)
(* follows the crashes of the application, the request follows the         *)
(* handshake, and flash is written in programming mode only. ToolInv: what *)
(* the flash tool believes of the flash and of the download is so, however *)
(* frames are lost and the ECU is reset. TypeInv: every variable keeps its *)
(* type.                                                                   *)
(***************************************************************************)
EXTENDS Reprogramming, SequenceTheorems, TLAPS

\* The counter and the request while a boot is under way, in terms of the
\* cause c that the boot acts on and whether it finds a request.
Owed(c, requested) ==
    \/ c \in {"power_on", "other"} /\ crashes = 0
    \/ c = "software" /\ requested /\ crashes = 0
    \/ /\ c \in {"software", "watchdog"} /\ ~requested
       /\ breg.magic /\ breg.counter <= crashes /\ crashes <= breg.counter + 1
    \/ /\ c = "debug" /\ breg.magic
       /\ crashes <= breg.counter /\ breg.counter <= crashes + 1

Settled == breg.magic /\ crashes <= breg.counter /\ breg.counter <= crashes + 1

Requested == noinit = "programming_requested"

BootType ==
    /\ noinit \in Handshakes
    /\ breg \in [magic : BOOLEAN, counter : Nat]
    /\ cause \in Causes
    /\ phase \in {"start", "noinit", "counter", "decide", "programming", "reset", "app"}
    /\ boot \in [cause : Causes, requested : BOOLEAN]
    /\ crashes \in Nat
    /\ asked \in BOOLEAN
    /\ faults \in Nat

Booting ==
    /\ phase = "start" => /\ Owed(cause, Requested)
                          /\ asked <=> (Retained(cause) /\ Requested)
    /\ phase = "noinit" => /\ Owed(boot.cause, Requested)
                           /\ asked <=> (Retained(boot.cause) /\ Requested)
    /\ phase = "counter" => /\ Owed(boot.cause, boot.requested)
                            /\ asked <=> boot.requested
                            /\ boot.requested <=> Requested
    /\ phase = "decide" => /\ Settled
                           /\ asked <=> boot.requested
                           /\ boot.requested <=> Requested
    /\ phase \in {"programming", "reset"} => Settled /\ (asked <=> Requested)
    /\ phase = "app" => Settled /\ ~asked /\ ~Requested /\ breg.counter <= Threshold

OnlyProgrammingWrites == phase # "programming" => job.work.kind = "none"

IInv == BootType /\ Booting /\ OnlyProgrammingWrites /\ RunsWholeImage
-----------------------------------------------------------------------------
\* What the boot decision may start is whole, signed and sane.
LEMMA ValidIsWhole ==
    ASSUME NEW answered \in BOOLEAN, ImageValid(flash, answered)
    PROVE  \E i \in Images : /\ Holds(flash, i) /\ Image[i].signed
                            /\ VectorSane(Image[i].msp, Image[i].reset)
  BY DEF ImageValid, HeaderSane, Verdict

LEMMA InitIInv == Init => IInv
  <1> SUFFICES ASSUME Init PROVE IInv
    OBVIOUS
  <1>1. BootType
    BY DEF Init, BootType, Handshakes, Causes
  <1>2. Booting
    BY DEF Init, Booting, Owed, Requested, Retained
  <1>3. OnlyProgrammingWrites
    BY DEF Init, OnlyProgrammingWrites, NoJob, NoWork
  <1>4. RunsWholeImage
    BY DEF Init, RunsWholeImage
  <1> QED
    BY <1>1, <1>2, <1>3, <1>4 DEF IInv

\* The boot, the application and the resets.
LEMMA BootVarsStep ==
    ASSUME BootType, Booting, Next
    PROVE  BootType' /\ Booting'
  <1> USE DEF BootType, Booting, Owed, Requested, Settled, Causes, Handshakes, Retained
  <1>1. CASE ReadCause
    BY <1>1 DEF ReadCause
  <1>2. CASE ReconcileNoinit
    BY <1>2 DEF ReconcileNoinit, Reconciled
  <1>3. CASE UpdateCounter
    BY <1>3 DEF UpdateCounter, CounterUpdate, StoredCounter
  <1>4. CASE Stay
    BY <1>4 DEF Stay, EnterProgramming
  <1>5. CASE Knocked
    BY <1>5 DEF Knocked, EnterProgramming
  <1>6. CASE Validate
    BY <1>6, BootAssumption, ToolAssumption
       DEF Validate, EnterProgramming, MustStay, Answering, Unanswered
  <1>7. CASE Dispatch
    BY <1>7 DEF Dispatch, Respond
  <1>8. CASE EraseStep \/ WriteStep \/ FlashDone \/ CheckImage
    BY <1>8 DEF EraseStep, WriteStep, FlashDone, CheckImage, Unanswered, bootVars
  <1>9. CASE DiagReset
    <2>1. breg.magic /\ breg'.magic /\ breg'.counter = 0 /\ breg' \in [magic : BOOLEAN, counter : Nat]
      BY <1>9 DEF DiagReset
    <2>2. /\ phase' = "start" /\ cause' = "software" /\ crashes' = 0 /\ asked' = FALSE
          /\ noinit' = "boot_app" /\ UNCHANGED <<boot, faults>>
      BY <1>9 DEF DiagReset
    <2>3. BootType'
      BY <2>1, <2>2
    <2>4. Booting'
      BY <2>1, <2>2
    <2> QED
      BY <2>3, <2>4
  <1>10. CASE Expire
    BY <1>10 DEF Expire, bootVars
  <1>11. CASE AppRequests
    BY <1>11 DEF AppRequests
  <1>12. CASE AppCrashes
    BY <1>12 DEF AppCrashes
  <1>13. CASE PowerLoss
    <2>1. phase' = "start" /\ cause' = "power_on" /\ crashes' = 0 /\ asked' = FALSE
      BY <1>13 DEF PowerLoss, Disturbed
    <2>2. Booting'
      BY <2>1
    <2>3. noinit' = "invalid" /\ UNCHANGED boot /\ faults' \in Nat
      BY <1>13 DEF PowerLoss, Disturbed
    <2>4. breg' \in [magic : BOOLEAN, counter : Nat]
      <3>1. breg' = breg \/ breg' = [breg EXCEPT !.magic = FALSE]
        BY <1>13 DEF PowerLoss
      <3> QED
        BY <3>1
    <2>5. BootType'
      BY <2>1, <2>3, <2>4
    <2> QED
      BY <2>2, <2>5
  <1>14. CASE UnknownReset
    <2>1. phase' = "start" /\ cause' = "other" /\ crashes' = 0 /\ asked' = FALSE
      BY <1>14 DEF UnknownReset, Disturbed
    <2>2. Booting'
      BY <2>1
    <2>3. UNCHANGED <<noinit, breg, boot>> /\ faults' \in Nat
      BY <1>14 DEF UnknownReset, Disturbed
    <2>4. BootType'
      BY <2>1, <2>3
    <2> QED
      BY <2>2, <2>4
  <1>15. CASE DebuggerReset
    BY <1>15 DEF DebuggerReset, Disturbed
  <1>16. CASE StartTool \/ Send \/ Receive \/ Timeout \/ LoseFrame
    <2>1. UNCHANGED bootVars /\ (faults' = faults \/ faults' = faults + 1)
      BY <1>16, ZenonT(30) DEF StartTool, Send, Receive, Timeout, LoseFrame
    <2> QED
      BY <2>1 DEF bootVars
  <1> QED
    BY <1>1, <1>2, <1>3, <1>4, <1>5, <1>6, <1>7, <1>8, <1>9, <1>10, <1>11, <1>12, <1>13, <1>14,
       <1>15, <1>16 DEF Next, BootStep, ServerStep, ToolStep

\* Flash changes under a job or a reset only, and jobs end with programming.
LEMMA FlashStep ==
    ASSUME BootType, OnlyProgrammingWrites, RunsWholeImage, Next
    PROVE  OnlyProgrammingWrites' /\ RunsWholeImage'
  <1> USE DEF OnlyProgrammingWrites, RunsWholeImage, Holds
  <1>1. CASE ReadCause \/ ReconcileNoinit \/ UpdateCounter
    BY <1>1 DEF ReadCause, ReconcileNoinit, UpdateCounter
  <1>2. CASE Stay \/ Knocked
    BY <1>2 DEF Stay, Knocked, EnterProgramming
  <1>3. CASE Validate
    <2>1. PICK answered \in BOOLEAN :
             IF ImageValid(flash, answered) THEN phase' = "app" ELSE phase' = "programming"
      BY <1>3 DEF Validate, Answering, EnterProgramming
    <2>2. UNCHANGED <<flash, job>> /\ phase = "decide"
      BY <1>3 DEF Validate
    <2> QED
      BY <2>1, <2>2, ValidIsWhole
  <1>4. CASE Dispatch
    BY <1>4 DEF Dispatch, NoJob, NoWork
  <1>5. CASE EraseStep \/ WriteStep \/ FlashDone
    BY <1>5 DEF EraseStep, WriteStep, FlashDone, Finish, bootVars, NoJob, NoWork
  <1>6. CASE CheckImage
    BY <1>6 DEF CheckImage, Finish, bootVars, NoJob, NoWork
  <1>7. CASE DiagReset \/ AppRequests \/ AppCrashes
    BY <1>7 DEF DiagReset, AppRequests, AppCrashes
  <1>8. CASE PowerLoss \/ UnknownReset \/ DebuggerReset
    BY <1>8 DEF PowerLoss, UnknownReset, DebuggerReset, Disturbed, NoJob, NoWork
  <1>9. CASE StartTool \/ Send \/ Receive \/ Timeout \/ LoseFrame \/ Expire
    BY <1>9 DEF StartTool, Send, Receive, Timeout, LoseFrame, Expire, bootVars
  <1> QED
    BY <1>1, <1>2, <1>3, <1>4, <1>5, <1>6, <1>7, <1>8, <1>9 DEF Next, BootStep, ServerStep, ToolStep

LEMMA StepIInv == IInv /\ [Next]_vars => IInv'
  <1>1. ASSUME IInv, Next PROVE IInv'
    BY <1>1, BootVarsStep, FlashStep DEF IInv
  <1>2. ASSUME IInv, UNCHANGED vars PROVE IInv'
    BY <1>2 DEF IInv, BootType, Booting, OnlyProgrammingWrites, RunsWholeImage, Owed, Requested,
                Settled, Retained, Holds, vars, bootVars, busVars
  <1> QED
    BY <1>1, <1>2

THEOREM SpecIInv == Spec => []IInv
  BY InitIInv, StepIInv, PTL DEF Spec

\* The application runs after at most Threshold crashes
\* (fbl_counter_update and the second step of the decision tree).
THEOREM CrashLoopAlwaysEnds == Spec => []CrashLoopEnds
  <1>1. IInv => CrashLoopEnds
    BY BootAssumption DEF IInv, BootType, Booting, Settled, CrashLoopEnds
  <1> QED
    BY <1>1, SpecIInv, PTL

\* The application does not run while its request for programming stands
\* (the handshake of fbl_run_boot and fbl_diag_tick).
THEOREM RequestAlwaysKept == Spec => []RequestIsKept
  <1>1. IInv => RequestIsKept
    BY DEF IInv, BootType, Booting, RequestIsKept
  <1> QED
    BY <1>1, SpecIInv, PTL

\* The application that runs is whole, signed and sane
\* (fbl_app_image_valid, and nothing writes flash outside programming mode).
THEOREM AlwaysRunsWholeImage == Spec => []RunsWholeImage
  BY SpecIInv, PTL DEF IInv

\* The bootloader keeps a good image from running for a reason only
\* (the decision tree of fbl_run_boot with the counter cleared by ECUReset).
THEOREM NeverStaysNeedlessly == Spec => NoNeedlessStay
  <1> DEFINE Reason ==
        phase = "decide" /\ phase' = "programming" =>
          \/ asked
          \/ crashes >= Threshold
          \/ toEcu' # toEcu
          \/ faults' # faults
          \/ ~\E i \in Images : /\ Holds(flash, i) /\ Image[i].signed /\ HeaderSane(i)
                                /\ VectorSane(Image[i].msp, Image[i].reset)
  <1>1. ASSUME IInv, Next PROVE Reason
    <2> SUFFICES ASSUME phase = "decide", phase' = "programming" PROVE Reason
      OBVIOUS
    <2>0. BootType /\ Settled /\ (asked <=> boot.requested)
      BY <1>1 DEF IInv, Booting
    <2>1. CASE Stay
      BY <2>0, <2>1, BootAssumption DEF Stay, MustStay, BootType, Settled
    <2>2. CASE Knocked
      BY <2>2 DEF Knocked
    <2>3. CASE Validate
      <3>1. PICK answered \in BOOLEAN : /\ Unanswered(answered)
                                       /\ ~ImageValid(flash, answered)
        BY <2>3 DEF Validate, Answering
      <3>2. CASE ~answered
        BY <3>1, <3>2, <2>0 DEF Unanswered, BootType
      <3>3. ASSUME answered,
                   NEW i \in Images, Holds(flash, i), Image[i].signed, HeaderSane(i),
                   VectorSane(Image[i].msp, Image[i].reset)
            PROVE  FALSE
        <4>1. Image[i].body \in Nat /\ Image[i].body >= HeaderEnd /\ HeaderEnd \in Nat \ {0}
              /\ Trailer \in Nat /\ Base \in Nat
          BY <3>3, BootAssumption, FlashAssumption DEF HeaderSane, ImageType
        <4>2. flash[Base] = Cell(i, 0)
          BY <3>3, <4>1 DEF Holds
        <4>3. flash[Base].image = i
          BY <4>2 DEF Cell
        <4> QED
          BY <3>1, <3>3, <4>3 DEF ImageValid, Verdict
      <3> QED
        BY <3>1, <3>2, <3>3
    <2>4. CASE ReadCause \/ ReconcileNoinit \/ UpdateCounter \/ DiagReset
      BY <2>4 DEF ReadCause, ReconcileNoinit, UpdateCounter, DiagReset
    <2>5. CASE Dispatch \/ Expire
      BY <2>5 DEF Dispatch, Expire, bootVars
    <2>6. CASE EraseStep \/ WriteStep \/ FlashDone \/ CheckImage
      BY <2>6 DEF EraseStep, WriteStep, FlashDone, CheckImage, bootVars
    <2>7. CASE AppRequests \/ AppCrashes \/ PowerLoss \/ UnknownReset \/ DebuggerReset
      BY <2>7 DEF AppRequests, AppCrashes, PowerLoss, UnknownReset, DebuggerReset, Disturbed
    <2>8. CASE StartTool \/ Send \/ Receive \/ Timeout \/ LoseFrame
      BY <2>8 DEF StartTool, Send, Receive, Timeout, LoseFrame, bootVars
    <2> QED
      BY <1>1, <2>1, <2>2, <2>3, <2>4, <2>5, <2>6, <2>7, <2>8 DEF Next, BootStep, ServerStep, ToolStep
  <1>2. IInv /\ [Next]_vars => [Reason]_vars
    BY <1>1
  <1> QED
    BY <1>2, SpecIInv, PTL DEF Spec, NoNeedlessStay
-----------------------------------------------------------------------------
(* The flash tool. The types of the bus, of the job and of the tool.       *)

AnswerType == [sid : Services \cup {"unknown"}, nrc : Nrcs, seed : Nat]
WorkType == [kind : {"none", "erase", "write", "check"}, pos : Nat, end : Nat, at : Nat]
JobType == [work : WorkType, req : RequestType]
ToolType == [kind : {"idle", "flash", "session", "security"}, image : Images \cup {"none"},
             at : 1 .. 9, off : Nat, seq : Nat, seed : Nat, waits : BOOLEAN]

\* The last step of a script.
LastStep == [idle |-> 9, flash |-> 9, session |-> 4, security |-> 6]

\* Only the services that need flash leave a job behind.
JobKinds ==
    \/ job = NoJob
    \/ /\ job.work.kind \in {"erase", "write", "check"}
       /\ job.req.sid \in {"routine_control", "transfer_data"}

\* The record of a tool: it never gets past its script, and the flash tool never
\* past the end of its image.
ToolShape(t) ==
    /\ t \in ToolType /\ t.at <= LastStep[t.kind]
    /\ t.kind = "flash" => t.image \in Images /\ (t.at = 6 => t.off <= FullLen(t.image))
    /\ t.kind = "idle" => ~t.waits

ToolTypes ==
    /\ srv \in ServerType
    /\ job \in JobType /\ JobKinds
    /\ toEcu \in RequestType /\ (toEcu = NoRequest \/ toEcu.sid # "none")
    /\ toTool \in Seq(AnswerType)
    /\ ToolShape(tool)
-----------------------------------------------------------------------------
LEMMA Numbers ==
    /\ Base \in Nat /\ Size \in Nat /\ RowSize \in Nat \ {0} /\ LargeSector \in Nat \ {0}
    /\ SmallSector \in Nat \ {0} /\ Trailer \in Nat /\ SeqMod \in Nat \ {0} /\ BlockLen \in Nat
    /\ MaxFaults \in Nat /\ MaxRuns \in Nat
  BY FlashAssumption, BootAssumption, UdsAssumption, ToolAssumption

LEMMA RoundUp ==
    ASSUME NEW n \in Nat, NEW r \in Nat \ {0}
    PROVE  ((n + r - 1) \div r) * r \in Nat /\ ((n + r - 1) \div r) * r >= n
  <1> DEFINE m == n + r - 1
             q == m \div r
  <1>1. m \in Nat /\ q \in Nat /\ m = r * q + (m % r) /\ m % r \in 0 .. r - 1
    OBVIOUS
  <1> HIDE DEF q
  <1>2. q * r = r * q /\ q * r \in Nat
    BY <1>1
  <1>3. q * r >= n
    BY <1>1, <1>2
  <1> QED
    BY <1>2, <1>3 DEF q

LEMMA Lengths ==
    ASSUME NEW i \in Images
    PROVE  /\ FullLen(i) \in Nat /\ EraseLen(i) \in Nat /\ FullLen(i) <= EraseLen(i)
           /\ Image[i].body + Trailer \in Nat /\ Image[i].body + Trailer <= FullLen(i)
  <1>1. Image[i].body + Trailer \in Nat
    BY Numbers, BootAssumption DEF ImageType
  <1>2. FullLen(i) \in Nat /\ Image[i].body + Trailer <= FullLen(i)
    BY <1>1, Numbers, RoundUp DEF FullLen, Padded
  <1>3. EraseLen(i) \in Nat /\ FullLen(i) <= EraseLen(i)
    BY <1>2, Numbers, RoundUp DEF EraseLen
  <1> QED
    BY <1>1, <1>2, <1>3

LEMMA Scripts ==
    /\ Script["flash"] = <<"session", "seed", "key", "erase", "download", "data", "exit", "check", "reset">>
    /\ Script["session"] = <<"session", "default", "unknown", "reset">>
    /\ Script["security"] = <<"seed", "key", "again", "seed", "wrong", "key">>
    /\ DOMAIN Script = {"idle", "flash", "session", "security"}
  BY DEF Script

LEMMA Lasts ==
    /\ LastStep["flash"] = 9 /\ LastStep["session"] = 4 /\ LastStep["security"] = 6 /\ LastStep["idle"] = 9
  BY DEF LastStep

\* The nine requests of the flash tool.
LEMMA FlashRequests ==
    ASSUME NEW t \in ToolType, t.kind = "flash"
    PROVE  /\ t.at = 1 => StepRequest(t) = Request("session_control", 2, 0, 0)
           /\ t.at = 2 => StepRequest(t) = Request("security_access", 1, 0, 0)
           /\ t.at = 3 => StepRequest(t) = Request("security_access", 2, t.seed, 0)
           /\ t.at = 4 => StepRequest(t) = Request("routine_control", Erase, Base, EraseLen(t.image))
           /\ t.at = 5 => StepRequest(t) = Request("request_download", 0, Base, FullLen(t.image))
           /\ t.at = 6 => StepRequest(t) = [Request("transfer_data", t.seq % SeqMod, t.off,
                                               Min(BlockLen, FullLen(t.image) - t.off)) EXCEPT !.image = t.image]
           /\ t.at = 7 => StepRequest(t) = Request("transfer_exit", 0, 0, 0)
           /\ t.at = 8 => StepRequest(t) = Request("routine_control", Check, 0, 0)
           /\ t.at = 9 => StepRequest(t) = Request("ecu_reset", 1, 0, 0)
           /\ Script[t.kind][t.at] = <<"session", "seed", "key", "erase", "download", "data", "exit",
                                       "check", "reset">>[t.at]
  BY Scripts DEF StepRequest

LEMMA RequestIs ==
    ASSUME NEW sid \in Services \cup {"unknown"}, NEW sub \in Nat, NEW a \in Nat, NEW b \in Nat
    PROVE  /\ Request(sid, sub, a, b) \in RequestType /\ Request(sid, sub, a, b) # NoRequest
           /\ Request(sid, sub, a, b).sid = sid /\ Request(sid, sub, a, b).sub = sub
           /\ Request(sid, sub, a, b).a = a /\ Request(sid, sub, a, b).b = b
           /\ Request(sid, sub, a, b).whole /\ Request(sid, sub, a, b).image = "none"
  BY DEF Request, RequestType, NoRequest, Services

\* The length of the next block of the image.
Block(t) == Min(BlockLen, FullLen(t.image) - t.off)

LEMMA BlockIs ==
    ASSUME NEW t, ToolShape(t), t.kind = "flash", t.at = 6
    PROVE  /\ Block(t) \in Nat /\ Block(t) <= FullLen(t.image) - t.off /\ t.off \in Nat /\ t.seq \in Nat
           /\ t.seq % SeqMod \in 0 .. SeqMod - 1 /\ FullLen(t.image) \in Nat
           /\ t.off <= FullLen(t.image) /\ t.off + Block(t) <= FullLen(t.image)
           /\ StepRequest(t) \in RequestType /\ StepRequest(t).sid = "transfer_data"
           /\ StepRequest(t).sub = t.seq % SeqMod /\ StepRequest(t).whole
           /\ StepRequest(t).a = t.off /\ StepRequest(t).b = Block(t) /\ StepRequest(t).image = t.image
  <1>1. t \in ToolType /\ t.off \in Nat /\ t.seq \in Nat /\ t.image \in Images /\ t.off <= FullLen(t.image)
    BY DEF ToolShape, ToolType
  <1>2. FullLen(t.image) \in Nat
    BY <1>1, Lengths
  <1>3. /\ Block(t) \in Nat /\ Block(t) <= FullLen(t.image) - t.off
    BY <1>1, <1>2, Numbers DEF Block, Min
  <1>4. t.seq % SeqMod \in 0 .. SeqMod - 1 /\ t.seq % SeqMod \in Nat
    BY <1>1, Numbers
  <1>5. StepRequest(t) = [Request("transfer_data", t.seq % SeqMod, t.off, Block(t)) EXCEPT !.image = t.image]
    BY <1>1, FlashRequests DEF Block
  <1>6. "transfer_data" \in Services \cup {"unknown"}
    BY DEF Services
  <1> DEFINE r == Request("transfer_data", t.seq % SeqMod, t.off, Block(t))
  <1>7. /\ r \in RequestType /\ r.sid = "transfer_data" /\ r.sub = t.seq % SeqMod /\ r.a = t.off
        /\ r.b = Block(t) /\ r.whole
    BY <1>1, <1>3, <1>4, <1>6, RequestIs
  <1>8. StepRequest(t) = [r EXCEPT !.image = t.image]
    BY <1>5
  <1> HIDE DEF r
  <1>9. /\ StepRequest(t) \in RequestType /\ StepRequest(t).sid = "transfer_data"
        /\ StepRequest(t).sub = t.seq % SeqMod /\ StepRequest(t).whole
        /\ StepRequest(t).a = t.off /\ StepRequest(t).b = Block(t) /\ StepRequest(t).image = t.image
    BY <1>1, <1>7, <1>8 DEF RequestType
  <1>10. t.off + Block(t) <= FullLen(t.image)
    BY <1>1, <1>2, <1>3
  <1> QED
    BY <1>1, <1>2, <1>3, <1>4, <1>9, <1>10

\* A request of a tool.
Proper(r) == r \in RequestType /\ r # NoRequest /\ r.sid # "none"

LEMMA RequestsTyped ==
    ASSUME NEW t, ToolShape(t), t.kind # "idle"
    PROVE  Proper(StepRequest(t))
  <1>1. t \in ToolType /\ t.seed \in Nat /\ t.at \in 1 .. 9 /\ t.at <= LastStep[t.kind]
        /\ t.kind \in {"flash", "session", "security"}
    BY DEF ToolShape, ToolType
  <1>2. ASSUME NEW sid \in Services \cup {"unknown"}, NEW sub \in Nat, NEW a \in Nat, NEW b \in Nat
        PROVE  Proper(Request(sid, sub, a, b))
    <2>1. sid # "none"
      BY DEF Services
    <2> QED
      BY <2>1, RequestIs DEF Proper
  <1>3. /\ 0 \in Nat /\ 1 \in Nat /\ 2 \in Nat
        /\ "session_control" \in Services \cup {"unknown"} /\ "ecu_reset" \in Services \cup {"unknown"}
        /\ "security_access" \in Services \cup {"unknown"} /\ "request_download" \in Services \cup {"unknown"}
        /\ "transfer_exit" \in Services \cup {"unknown"} /\ "routine_control" \in Services \cup {"unknown"}
        /\ "unknown" \in Services \cup {"unknown"}
        /\ Erase \in Nat /\ Check \in Nat /\ t.seed + 1 \in Nat /\ Base \in Nat
    BY <1>1, Numbers DEF Services, Erase, Check
  <1>4. CASE t.kind = "flash"
    <2>1. t.image \in Images /\ EraseLen(t.image) \in Nat /\ FullLen(t.image) \in Nat
      BY <1>4, Lengths DEF ToolShape
    <2>2. CASE t.at = 6
      BY <1>4, <2>2, BlockIs DEF Proper, NoRequest, Request
    <2>3. Proper(Request("session_control", 2, 0, 0)) /\ Proper(Request("security_access", 1, 0, 0))
      BY <1>2, <1>3
    <2>4. Proper(Request("security_access", 2, t.seed, 0)) /\ Proper(Request("ecu_reset", 1, 0, 0))
      BY <1>1, <1>2, <1>3
    <2>5. Proper(Request("routine_control", Erase, Base, EraseLen(t.image)))
      BY <1>2, <1>3, <2>1
    <2>6. Proper(Request("request_download", 0, Base, FullLen(t.image)))
      BY <1>2, <1>3, <2>1
    <2>7. Proper(Request("transfer_exit", 0, 0, 0)) /\ Proper(Request("routine_control", Check, 0, 0))
      BY <1>2, <1>3
    <2>8. t.at \in {1, 2, 3, 4, 5, 6, 7, 8, 9}
      BY <1>1
    <2> QED
      BY <1>1, <1>4, <2>2, <2>3, <2>4, <2>5, <2>6, <2>7, <2>8, FlashRequests
  <1>5. CASE t.kind = "session"
    <2>1. t.at \in {1, 2, 3, 4}
      BY <1>1, <1>5, Lasts
    <2>2. /\ t.at = 1 => StepRequest(t) = Request("session_control", 2, 0, 0)
          /\ t.at = 2 => StepRequest(t) = Request("session_control", 1, 0, 0)
          /\ t.at = 3 => StepRequest(t) = Request("unknown", 0, 0, 0)
          /\ t.at = 4 => StepRequest(t) = Request("ecu_reset", 1, 0, 0)
      BY <1>5, Scripts DEF StepRequest
    <2>3. Proper(Request("session_control", 2, 0, 0)) /\ Proper(Request("session_control", 1, 0, 0))
      BY <1>2, <1>3
    <2>4. Proper(Request("unknown", 0, 0, 0)) /\ Proper(Request("ecu_reset", 1, 0, 0))
      BY <1>2, <1>3
    <2> QED
      BY <2>1, <2>2, <2>3, <2>4
  <1>6. CASE t.kind = "security"
    <2>1. t.at \in {1, 2, 3, 4, 5, 6}
      BY <1>1, <1>6, Lasts
    <2>2. /\ t.at \in {1, 4} => StepRequest(t) = Request("security_access", 1, 0, 0)
          /\ t.at \in {2, 6} => StepRequest(t) = Request("security_access", 2, t.seed, 0)
          /\ t.at = 3 => StepRequest(t) = Request("security_access", 2, 0, 0)
          /\ t.at = 5 => StepRequest(t) = Request("security_access", 2, t.seed + 1, 0)
      <3>1. t.at \in {1, 4} => Script[t.kind][t.at] = "seed"
        BY <1>6, Scripts
      <3>2. t.at \in {2, 6} => Script[t.kind][t.at] = "key"
        BY <1>6, Scripts
      <3>3. (t.at = 3 => Script[t.kind][t.at] = "again") /\ (t.at = 5 => Script[t.kind][t.at] = "wrong")
        BY <1>6, Scripts
      <3> QED
        BY <3>1, <3>2, <3>3 DEF StepRequest
    <2>3. Proper(Request("security_access", 1, 0, 0)) /\ Proper(Request("security_access", 2, 0, 0))
      BY <1>2, <1>3
    <2>4. Proper(Request("security_access", 2, t.seed, 0)) /\ Proper(Request("security_access", 2, t.seed + 1, 0))
      BY <1>1, <1>2, <1>3
    <2> QED
      BY <2>1, <2>2, <2>3, <2>4
  <1> QED
    BY <1>1, <1>4, <1>5, <1>6

LEMMA IdleIsTool == ToolShape(Idle) /\ Idle.kind = "idle"
  BY Lasts DEF ToolShape, Idle, ToolType

\* Field by field, what an answer does to the record of a tool.
ToolRecord == [kind : {"idle", "flash", "session", "security"}, image : Images \cup {"none"},
               at : Nat, off : Nat, seq : Nat, seed : Nat, waits : BOOLEAN]

SameTool(u, t) == u \in ToolRecord /\ u.kind = t.kind /\ u.image = t.image

LEMMA AtSet ==
    ASSUME NEW v \in ToolRecord, NEW n \in Nat
    PROVE  LET u == [v EXCEPT !.at = n]
           IN  SameTool(u, v) /\ u.at = n /\ u.off = v.off /\ u.seq = v.seq
  BY DEF ToolRecord, SameTool

LEMMA OffSet ==
    ASSUME NEW v \in ToolRecord, NEW n \in Nat
    PROVE  LET u == [v EXCEPT !.off = n]
           IN  SameTool(u, v) /\ u.at = v.at /\ u.off = n /\ u.seq = v.seq
  BY DEF ToolRecord, SameTool

LEMMA SeqSet ==
    ASSUME NEW v \in ToolRecord, NEW n \in Nat
    PROVE  LET u == [v EXCEPT !.seq = n]
           IN  SameTool(u, v) /\ u.at = v.at /\ u.off = v.off /\ u.seq = n
  BY DEF ToolRecord, SameTool

LEMMA SeedSet ==
    ASSUME NEW v \in ToolRecord, NEW n \in Nat
    PROVE  LET u == [v EXCEPT !.seed = n]
           IN  SameTool(u, v) /\ u.at = v.at /\ u.off = v.off /\ u.seq = v.seq
  BY DEF ToolRecord, SameTool

LEMMA Unwaits ==
    ASSUME NEW v \in ToolRecord, v.at \in 1 .. 9
    PROVE  LET u == [v EXCEPT !.waits = FALSE]
           IN  /\ u \in ToolType /\ u.kind = v.kind /\ u.image = v.image /\ u.at = v.at
               /\ u.off = v.off /\ u.seq = v.seq /\ u.waits = FALSE
  BY DEF ToolType, ToolRecord

LEMMA Waits ==
    ASSUME NEW v \in ToolType
    PROVE  LET u == [v EXCEPT !.waits = TRUE]
           IN  /\ u \in ToolType /\ u.kind = v.kind /\ u.image = v.image /\ u.at = v.at
               /\ u.off = v.off /\ u.seq = v.seq /\ u.seed = v.seed /\ u.waits = TRUE
  BY DEF ToolType

Moved(t, answer) ==
    LET step == Script[t.kind][t.at]
        off  == t.off + StepRequest(t).b
    IN  CASE step = "seed"     -> [t EXCEPT !.seed = answer.seed, !.at = @ + 1]
          [] step = "download" -> [t EXCEPT !.seq = 1, !.off = 0, !.at = @ + 1]
          [] step = "data"     ->
               IF off < FullLen(t.image)
               THEN [t EXCEPT !.off = off, !.seq = @ + 1]
               ELSE [t EXCEPT !.off = off, !.seq = @ + 1, !.at = @ + 1]
          [] OTHER             -> [t EXCEPT !.at = @ + 1]

LEMMA AdvancedIs ==
    ASSUME NEW t, NEW answer
    PROVE  Advanced(t, answer) = IF Moved(t, answer).at > Len(Script[t.kind]) THEN Idle
                                 ELSE [Moved(t, answer) EXCEPT !.waits = FALSE]
  BY DEF Advanced, Moved

LEMMA MovedIs ==
    ASSUME NEW t \in ToolType, NEW answer \in AnswerType
    PROVE  LET step == Script[t.kind][t.at]
               u    == Moved(t, answer)
           IN  /\ step \notin {"download", "data"} => SameTool(u, t) /\ u.at = t.at + 1
               /\ step = "download" => SameTool(u, t) /\ u.at = t.at + 1 /\ u.off = 0 /\ u.seq = 1
               /\ step = "data" /\ StepRequest(t).b \in Nat =>
                    /\ SameTool(u, t) /\ u.off = t.off + StepRequest(t).b /\ u.seq = t.seq + 1
                    /\ u.at = IF t.off + StepRequest(t).b < FullLen(t.image) THEN t.at ELSE t.at + 1
  <1> DEFINE step == Script[t.kind][t.at]
             u    == Moved(t, answer)
             off  == t.off + StepRequest(t).b
  <1>1. /\ t \in ToolRecord /\ t.at \in Nat /\ t.at + 1 \in Nat /\ t.seq \in Nat /\ t.seq + 1 \in Nat
        /\ t.off \in Nat /\ answer.seed \in Nat /\ 0 \in Nat /\ 1 \in Nat
    BY DEF ToolType, ToolRecord, AnswerType
  <1>2. CASE step \notin {"seed", "download", "data"}
    <2>1. u = [t EXCEPT !.at = t.at + 1]
      BY <1>2 DEF Moved
    <2>2. SameTool(u, t) /\ u.at = t.at + 1
      BY <1>1, <2>1, AtSet
    <2> QED
      BY <1>2, <2>2
  <1>3. CASE step = "seed"
    <2> DEFINE v == [t EXCEPT !.seed = answer.seed]
    <2>1. u = [v EXCEPT !.at = t.at + 1]
      BY <1>3 DEF Moved
    <2>2. SameTool(v, t) /\ v \in ToolRecord
      BY <1>1, SeedSet DEF SameTool
    <2> HIDE DEF v, u
    <2>3. SameTool(u, v) /\ u.at = t.at + 1
      BY <1>1, <2>1, <2>2, AtSet
    <2>4. SameTool(u, t)
      BY <2>2, <2>3 DEF SameTool
    <2> QED
      BY <1>3, <2>3, <2>4 DEF u
  <1>4. CASE step = "download"
    <2> DEFINE v == [t EXCEPT !.seq = 1]
               w == [v EXCEPT !.off = 0]
    <2>1. u = [w EXCEPT !.at = t.at + 1]
      BY <1>4 DEF Moved
    <2>2. SameTool(v, t) /\ v \in ToolRecord /\ v.seq = 1
      BY <1>1, SeqSet DEF SameTool
    <2> HIDE DEF v
    <2>3. SameTool(w, v) /\ w \in ToolRecord /\ w.seq = 1 /\ w.off = 0
      BY <1>1, <2>2, OffSet DEF SameTool
    <2> HIDE DEF w, u
    <2>4. SameTool(u, w) /\ u.at = t.at + 1 /\ u.seq = 1 /\ u.off = 0
      BY <1>1, <2>1, <2>3, AtSet
    <2>5. SameTool(u, t)
      BY <2>2, <2>3, <2>4 DEF SameTool
    <2> QED
      BY <1>4, <2>4, <2>5 DEF u
  <1>5. CASE step = "data" /\ StepRequest(t).b \in Nat
    <2> DEFINE v == [t EXCEPT !.off = off]
               w == [v EXCEPT !.seq = t.seq + 1]
    <2>1. off \in Nat
      BY <1>1, <1>5
    <2>2. u = IF off < FullLen(t.image) THEN w ELSE [w EXCEPT !.at = t.at + 1]
      BY <1>5 DEF Moved
    <2>3. SameTool(v, t) /\ v \in ToolRecord /\ v.at = t.at /\ v.off = off
      BY <1>1, <2>1, OffSet DEF SameTool
    <2> HIDE DEF v, off
    <2>4. SameTool(w, v) /\ w \in ToolRecord /\ w.at = t.at /\ w.seq = t.seq + 1 /\ w.off = off
      BY <1>1, <2>1, <2>3, SeqSet DEF SameTool
    <2> HIDE DEF w, u
    <2>5. SameTool(w, t)
      BY <2>3, <2>4 DEF SameTool
    <2>6. CASE off < FullLen(t.image)
      BY <1>5, <2>2, <2>4, <2>5, <2>6 DEF u, off
    <2>7. CASE ~(off < FullLen(t.image))
      <3>1. u = [w EXCEPT !.at = t.at + 1]
        BY <2>2, <2>7
      <3>2. SameTool(u, w) /\ u.at = t.at + 1 /\ u.off = w.off /\ u.seq = w.seq
        BY <1>1, <2>4, <3>1, AtSet
      <3>3. SameTool(u, t)
        BY <2>5, <3>2 DEF SameTool
      <3> QED
        BY <1>5, <2>4, <2>7, <3>2, <3>3 DEF u, off
    <2> QED
      BY <2>6, <2>7
  <1> QED
    BY <1>2, <1>3, <1>4, <1>5

\* The flash tool after an answer it accepts.
LEMMA FlashAdvances ==
    ASSUME NEW t, ToolShape(t), t.kind = "flash", t.at # 9, NEW answer \in AnswerType
    PROVE  LET u == Advanced(t, answer) IN
           /\ ToolShape(u) /\ u.kind = "flash" /\ u.image = t.image /\ u.waits = FALSE
           /\ t.at # 6 => u.at = t.at + 1
           /\ t.at = 5 => u.off = 0 /\ u.seq = 1
           /\ t.at = 6 => /\ u.off = t.off + Block(t) /\ u.seq = t.seq + 1
                          /\ u.at = IF t.off + Block(t) < FullLen(t.image) THEN 6 ELSE 7
  <1> DEFINE u == Advanced(t, answer)
             v == Moved(t, answer)
             step == Script[t.kind][t.at]
  <1>1. t \in ToolType /\ t.at \in {1, 2, 3, 4, 5, 6, 7, 8} /\ t.image \in Images /\ FullLen(t.image) \in Nat
    BY Lengths DEF ToolShape, ToolType
  <1>2. Len(Script[t.kind]) = 9
    BY Scripts
  <1>3. /\ t.at = 5 => step = "download"
        /\ t.at = 6 => step = "data"
        /\ t.at \notin {5, 6} => step \notin {"download", "data"}
    BY <1>1, Scripts
  <1>4. t.at = 6 => StepRequest(t).b = Block(t) /\ Block(t) \in Nat /\ t.off + Block(t) <= FullLen(t.image)
    BY BlockIs
  <1>5. /\ SameTool(v, t)
        /\ t.at # 6 => v.at = t.at + 1
        /\ t.at = 5 => v.off = 0 /\ v.seq = 1
        /\ t.at = 6 => /\ v.off = t.off + Block(t) /\ v.seq = t.seq + 1
                       /\ v.at = IF t.off + Block(t) < FullLen(t.image) THEN 6 ELSE 7
    BY <1>1, <1>3, <1>4, MovedIs
  <1>6. u = IF v.at > 9 THEN Idle ELSE [v EXCEPT !.waits = FALSE]
    BY <1>2, AdvancedIs
  <1> HIDE DEF u, v, step
  <1>7. v.at \in 1 .. 9
    BY <1>1, <1>5
  <1>8. /\ u \in ToolType /\ u.kind = t.kind /\ u.image = t.image /\ u.at = v.at
        /\ u.off = v.off /\ u.seq = v.seq /\ u.waits = FALSE
    <2>1. u = [v EXCEPT !.waits = FALSE]
      BY <1>6, <1>7
    <2> QED
      BY <1>5, <1>7, <2>1, Unwaits DEF SameTool
  <1>9. u.at <= LastStep[u.kind] /\ (u.at = 6 => u.off <= FullLen(t.image))
    BY <1>1, <1>4, <1>5, <1>7, <1>8, Lasts
  <1>10. ToolShape(u)
    BY <1>1, <1>8, <1>9 DEF ToolShape
  <1> QED
    BY <1>5, <1>8, <1>10 DEF u

LEMMA ProbeAdvances ==
    ASSUME NEW t, ToolShape(t), t.kind \in {"session", "security"}, NEW answer \in AnswerType
    PROVE  ToolShape(Advanced(t, answer)) /\ Advanced(t, answer).kind # "flash"
  <1> DEFINE u == Advanced(t, answer)
             v == Moved(t, answer)
             last == LastStep[t.kind]
  <1>1. t \in ToolType /\ t.at \in 1 .. 9 /\ t.at <= last
    BY DEF ToolShape, ToolType
  <1>2. Len(Script[t.kind]) = last /\ last \in {4, 6} /\ Script[t.kind][t.at] \notin {"download", "data"}
    <2>1. CASE t.kind = "session"
      <3>1. t.at \in {1, 2, 3, 4} /\ last = 4
        BY <1>1, <2>1, Lasts
      <3> QED
        BY <2>1, <3>1, Scripts
    <2>2. CASE t.kind = "security"
      <3>1. t.at \in {1, 2, 3, 4, 5, 6} /\ last = 6
        BY <1>1, <2>2, Lasts
      <3> QED
        BY <2>2, <3>1, Scripts
    <2> QED
      BY <2>1, <2>2
  <1>3. SameTool(v, t) /\ v.at = t.at + 1
    BY <1>1, <1>2, MovedIs
  <1>4. u = IF v.at > last THEN Idle ELSE [v EXCEPT !.waits = FALSE]
    BY <1>2, AdvancedIs
  <1> HIDE DEF u, v
  <1>5. CASE v.at > last
    BY <1>4, <1>5, IdleIsTool DEF u
  <1>6. CASE ~(v.at > last)
    <2>1. u = [v EXCEPT !.waits = FALSE] /\ v.at \in 1 .. 9 /\ v.at <= last
      BY <1>1, <1>2, <1>3, <1>4, <1>6
    <2>2. u \in ToolType /\ u.kind = t.kind /\ u.at = v.at
      BY <1>3, <2>1, Unwaits DEF SameTool
    <2> QED
      BY <2>1, <2>2 DEF ToolShape, u
  <1> QED
    BY <1>5, <1>6
-----------------------------------------------------------------------------
(* The invariant, with flash f, download dl, job j, the request e and the  *)
(* answers q on the bus and the tool t as arguments.                       *)

\* The first n bytes of image i are in flash; from n to m flash is erased.
Programmed(f, i, n) == \A a \in Region : a < Base + n => f[a] = Cell(i, a - Base)
Erased(f, n, m) == \A a \in Region : Base + n <= a /\ a < Base + m => f[a] = Blank

\* The download once t.off bytes have arrived.
Expecting(t) == Download("active", Base, FullLen(t.image), t.off, t.seq % SeqMod)

\* What the flash tool counts on when it is about to send step t.at.
Ready(f, dl, t) ==
    /\ t.at = 5 => Erased(f, 0, FullLen(t.image))
    /\ t.at = 6 => /\ t.off <= Size
                   /\ Programmed(f, t.image, t.off) /\ Erased(f, t.off, FullLen(t.image))
                   /\ dl.state = "active" => dl = Expecting(t)
    /\ t.at >= 7 => FullLen(t.image) <= Size /\ Programmed(f, t.image, FullLen(t.image))

\* How far the job j of the request that t waits for has got.
Working(f, dl, j, t) ==
    /\ j.req = StepRequest(t)
    /\ t.at \in {4, 6, 8}
    /\ t.at = 4 => /\ j.work.kind = "erase" /\ j.work.end = Base + EraseLen(t.image)
                   /\ Base <= j.work.pos /\ Erased(f, 0, j.work.pos - Base)
    /\ t.at = 6 => /\ j.work.kind = "write" /\ j.work.end = Base + t.off + Block(t)
                   /\ j.work.end <= Base + Size
                   /\ Base + t.off <= j.work.pos /\ j.work.pos <= j.work.end
                   /\ (j.work.end - j.work.pos) % RowSize = 0
                   /\ j.work.at = j.work.pos - Base
                   /\ Programmed(f, t.image, j.work.pos - Base)
                   /\ Erased(f, j.work.pos - Base, FullLen(t.image))
                   /\ dl = Expecting(t)
    /\ t.at = 8 => j.work.kind = "check" /\ Ready(f, dl, t)

IsSession(x) == x.sid = "session_control"

\* Before its session is answered, earlier runs may still get answers, one of them
\* for a session; then only this run's own may follow.
First(j, e, q, t) ==
    /\ t.waits => e \in {NoRequest, StepRequest(t)}
    /\ \A k \in 1 .. Len(q) : IsSession(q[k]) =>
         /\ j = NoJob
         /\ k = Len(q) => t.waits \/ e = NoRequest
         /\ k # Len(q) => k = Len(q) - 1 /\ IsSession(q[Len(q)]) /\ t.waits /\ e = NoRequest

\* Later the own request, its job and its answer exclude each other; an answer for a
\* session before them ends the run.
NoOwn(q) == Len(q) = 0 \/ (Len(q) = 1 /\ IsSession(q[1]))
OneOwn(q) ==
    \/ Len(q) = 1 /\ ~IsSession(q[1])
    \/ Len(q) = 2 /\ IsSession(q[1]) /\ ~IsSession(q[2])

Later(f, dl, j, e, q, t) ==
    /\ ~t.waits => /\ NoOwn(q) /\ j = NoJob
                   /\ e # NoRequest => IsSession(e) /\ t.at = 2 /\ Len(q) = 0
                   /\ Ready(f, dl, t)
    /\ t.waits =>
         /\ e \in {NoRequest, StepRequest(t)}
         /\ NoOwn(q) \/ OneOwn(q)
         /\ e # NoRequest => j = NoJob /\ NoOwn(q) /\ Ready(f, dl, t)
         /\ j # NoJob => NoOwn(q) /\ Working(f, dl, j, t)
         /\ OneOwn(q) /\ q[Len(q)].nrc = "none" => Ready(f, dl, Advanced(t, q[Len(q)]))

\* What holds of the flash tool; the two probes are told nothing about flash.
Follows(f, dl, j, e, q, t) ==
    t.kind = "flash" =>
        /\ t.at = 1 => First(j, e, q, t)
        /\ t.at >= 2 => Later(f, dl, j, e, q, t)
        /\ t.at = 9 => ~t.waits
-----------------------------------------------------------------------------
LEMMA ReadyKept ==
    ASSUME NEW f, NEW dl, NEW dl2, NEW t, Ready(f, dl, t), dl2 = dl \/ dl2.state # "active"
    PROVE  Ready(f, dl2, t)
  BY DEF Ready

\* The steps of Next in terms of Follows. A request is lost, or the server starts afresh while it is idle.
LEMMA QuietKeeps ==
    ASSUME NEW f, NEW dl, NEW dl2, NEW j, NEW e, NEW e2, NEW q, NEW t,
           Follows(f, dl, j, e, q, t), e2 \in {e, NoRequest},
           dl2 = dl \/ (j = NoJob /\ dl2.state # "active")
    PROVE  Follows(f, dl2, j, e2, q, t)
  <1> SUFFICES ASSUME t.kind = "flash" PROVE Follows(f, dl2, j, e2, q, t)
    BY DEF Follows
  <1>1. ASSUME t.at = 1 PROVE First(j, e2, q, t)
    <2>1. First(j, e, q, t)
      BY <1>1 DEF Follows
    <2> QED
      BY <2>1 DEF First
  <1>2. ASSUME t.at >= 2 PROVE Later(f, dl2, j, e2, q, t)
    <2>1. Later(f, dl, j, e, q, t)
      BY <1>2 DEF Follows
    <2>2. \A u : Ready(f, dl, u) => Ready(f, dl2, u)
      BY ReadyKept
    <2>3. j # NoJob => dl2 = dl
      OBVIOUS
    <2> QED
      BY <2>1, <2>2, <2>3 DEF Later
  <1> QED
    BY <1>1, <1>2 DEF Follows

\* A reset drops the request and the job: a run that had one sees no success any more.
LEMMA ResetKeeps ==
    ASSUME NEW f, NEW f2, NEW dl, NEW dl2, NEW j, NEW e, NEW q, NEW t,
           Follows(f, dl, j, e, q, t), j = NoJob => f2 = f, dl2.state # "active"
    PROVE  Follows(f2, dl2, NoJob, NoRequest, q, t)
  <1>1. CASE j = NoJob
    BY <1>1, QuietKeeps
  <1>2. CASE j # NoJob
    <2>1. ASSUME t.kind = "flash", t.at = 1 PROVE First(NoJob, NoRequest, q, t)
      BY <1>2, <2>1 DEF Follows, First
    <2>2. ASSUME t.kind = "flash", t.at >= 2 PROVE Later(f2, dl2, NoJob, NoRequest, q, t)
      BY <1>2, <2>2 DEF Follows, Later, NoOwn, OneOwn
    <2> QED
      BY <2>1, <2>2 DEF Follows
  <1> QED
    BY <1>1, <1>2

LEMMA Appended ==
    ASSUME NEW q \in Seq(AnswerType), NEW x \in AnswerType
    PROVE  /\ Append(q, x) \in Seq(AnswerType) /\ Len(q) \in Nat /\ Len(Append(q, x)) = Len(q) + 1
           /\ \A k \in 1 .. Len(q) : Append(q, x)[k] = q[k]
           /\ Append(q, x)[Len(q) + 1] = x
  BY AppendProperties, LenProperties

LEMMA OwnAppended ==
    ASSUME NEW q \in Seq(AnswerType), NEW x \in AnswerType, NoOwn(q), ~IsSession(x)
    PROVE  OneOwn(Append(q, x)) /\ Append(q, x)[Len(Append(q, x))] = x
  <1> DEFINE p == Append(q, x)
  <1>1. /\ Len(q) \in Nat /\ Len(p) = Len(q) + 1 /\ p[Len(q) + 1] = x
        /\ \A k \in 1 .. Len(q) : p[k] = q[k]
    BY Appended
  <1> HIDE DEF p
  <1>2. CASE Len(q) = 0
    BY <1>1, <1>2 DEF OneOwn, p
  <1>3. CASE Len(q) = 1 /\ IsSession(q[1])
    <2>1. p[1] = q[1] /\ p[2] = x /\ Len(p) = 2
      BY <1>1, <1>3
    <2> QED
      BY <1>3, <2>1 DEF OneOwn, p
  <1> QED
    BY <1>2, <1>3 DEF NoOwn

\* The tool asks for its session first, and never again.
LEMMA SessionIsFirst ==
    ASSUME NEW t, ToolShape(t), t.kind = "flash"
    PROVE  /\ t.at = 1 <=> IsSession(StepRequest(t))
           /\ t.at \in 1 .. 9
  <1>1. t \in ToolType /\ t.at \in {1, 2, 3, 4, 5, 6, 7, 8, 9}
    BY DEF ToolShape, ToolType
  <1>2. /\ t.at = 1 => StepRequest(t).sid = "session_control"
        /\ t.at \in {2, 3} => StepRequest(t).sid = "security_access"
        /\ t.at \in {4, 8} => StepRequest(t).sid = "routine_control"
        /\ t.at = 5 => StepRequest(t).sid = "request_download"
        /\ t.at = 7 => StepRequest(t).sid = "transfer_exit"
        /\ t.at = 9 => StepRequest(t).sid = "ecu_reset"
    <2>1. \A sid, sub, a, b : Request(sid, sub, a, b).sid = sid
      BY DEF Request
    <2> QED
      BY <1>1, <2>1, FlashRequests
  <1>3. t.at = 6 => StepRequest(t).sid = "transfer_data"
    BY BlockIs
  <1> QED
    BY <1>1, <1>2, <1>3 DEF IsSession

\* A request that needs no flash is answered.
LEMMA AnsweredKeeps ==
    ASSUME NEW f, NEW dl, NEW dl2, NEW e \in RequestType, NEW q \in Seq(AnswerType), NEW t,
           NEW x \in AnswerType,
           Follows(f, dl, NoJob, e, q, t), e # NoRequest, x.sid = e.sid,
           IsSession(e) => dl2 = dl,
           t.kind = "flash" /\ t.at \in 2 .. 8 /\ e = StepRequest(t) /\ Ready(f, dl, t) /\ x.nrc = "none"
             => Ready(f, dl2, Advanced(t, x)),
           ToolShape(t)
    PROVE  Follows(f, dl2, NoJob, NoRequest, Append(q, x), t)
  <1> DEFINE p == Append(q, x)
  <1>1. /\ Len(q) \in Nat /\ Len(p) = Len(q) + 1 /\ p[Len(q) + 1] = x
        /\ \A k \in 1 .. Len(q) : p[k] = q[k]
    BY Appended
  <1>2. IsSession(x) <=> IsSession(e)
    BY DEF IsSession
  <1>3. ASSUME t.kind = "flash", t.at = 1 PROVE First(NoJob, NoRequest, p, t)
    <2>1. First(NoJob, e, q, t)
      BY <1>3 DEF Follows
    <2> SUFFICES ASSUME NEW k \in 1 .. Len(p), IsSession(p[k])
                 PROVE  k # Len(p) => k = Len(p) - 1 /\ IsSession(p[Len(p)]) /\ t.waits
      BY DEF First
    <2> SUFFICES ASSUME k # Len(p) PROVE k = Len(p) - 1 /\ IsSession(p[Len(p)]) /\ t.waits
      OBVIOUS
    <2> HIDE DEF p
    <2>2. k \in 1 .. Len(q) /\ p[k] = q[k] /\ p[Len(p)] = x
      BY <1>1
    <2>3. IsSession(q[k])
      BY <2>2
    <2>4. k = Len(q) /\ t.waits
      BY <2>1, <2>2, <2>3 DEF First
    <2>5. e = StepRequest(t)
      BY <2>1, <2>4 DEF First
    <2> QED
      BY <1>1, <1>2, <1>3, <2>2, <2>4, <2>5, SessionIsFirst
  <1>4. ASSUME t.kind = "flash", t.at >= 2 PROVE Later(f, dl2, NoJob, NoRequest, p, t) /\ (t.at = 9 => ~t.waits)
    <2>1. Later(f, dl, NoJob, e, q, t) /\ (t.at = 9 => ~t.waits)
      BY <1>4 DEF Follows
    <2>2. CASE ~t.waits
      <3>1. IsSession(e) /\ Len(q) = 0 /\ Ready(f, dl, t)
        BY <2>1, <2>2 DEF Later
      <3>2. Len(p) = 1 /\ p[1] = x /\ IsSession(x) /\ dl2 = dl
        BY <1>1, <1>2, <3>1
      <3> HIDE DEF p
      <3>3. NoOwn(p)
        BY <3>2 DEF NoOwn
      <3> QED
        BY <2>1, <2>2, <3>1, <3>2, <3>3 DEF Later
    <2>3. CASE t.waits
      <3>1. e = StepRequest(t) /\ NoOwn(q) /\ Ready(f, dl, t)
        BY <2>1, <2>3 DEF Later
      <3>2. ~IsSession(x)
        <4>1. t.at # 1
          BY <1>4, SessionIsFirst
        <4> QED
          BY <1>2, <1>4, <3>1, <4>1, SessionIsFirst
      <3>3. OneOwn(p) /\ p[Len(p)] = x
        BY <3>1, <3>2, OwnAppended
      <3>4. x.nrc = "none" => Ready(f, dl2, Advanced(t, x))
        <4>1. t.at \in 2 .. 8
          BY <1>4, <2>1, <2>3, SessionIsFirst
        <4> QED
          BY <1>4, <3>1, <4>1
      <3> HIDE DEF p
      <3> QED
        BY <2>1, <2>3, <3>3, <3>4 DEF Later
    <2> QED
      BY <2>2, <2>3
  <1> QED
    BY <1>3, <1>4 DEF Follows

\* A request that needs flash becomes a job.
LEMMA TakenKeeps ==
    ASSUME NEW f, NEW dl, NEW e \in RequestType, NEW q, NEW t, NEW j,
           Follows(f, dl, NoJob, e, q, t), e # NoRequest, ~IsSession(e), ToolShape(t),
           t.kind = "flash" /\ t.at \in 2 .. 8 /\ e = StepRequest(t) /\ Ready(f, dl, t) => Working(f, dl, j, t)
    PROVE  Follows(f, dl, j, NoRequest, q, t)
  <1>1. ASSUME t.kind = "flash", t.at = 1 PROVE First(j, NoRequest, q, t)
    <2>1. First(NoJob, e, q, t) /\ IsSession(StepRequest(t))
      BY <1>1, SessionIsFirst DEF Follows
    <2>2. \A k \in 1 .. Len(q) : ~IsSession(q[k])
      BY <2>1 DEF First
    <2> QED
      BY <2>2 DEF First
  <1>2. ASSUME t.kind = "flash", t.at >= 2 PROVE Later(f, dl, j, NoRequest, q, t)
    <2>1. Later(f, dl, NoJob, e, q, t)
      BY <1>2 DEF Follows
    <2>2. t.waits /\ e = StepRequest(t) /\ NoOwn(q) /\ Ready(f, dl, t)
      BY <2>1 DEF Later
    <2>3. Working(f, dl, j, t)
      <3>1. t.at \in 2 .. 8
        BY <1>2, <2>2, SessionIsFirst DEF Follows
      <3> QED
        BY <1>2, <2>2, <3>1
    <2>4. ~OneOwn(q)
      BY <2>2 DEF NoOwn, OneOwn
    <2> QED
      BY <2>2, <2>3, <2>4 DEF Later
  <1> QED
    BY <1>1, <1>2 DEF Follows

\* The job ends with an answer.
LEMMA FinishedKeeps ==
    ASSUME NEW f, NEW f2, NEW dl, NEW dl2, NEW e, NEW q \in Seq(AnswerType), NEW t, NEW j,
           NEW x \in AnswerType,
           Follows(f, dl, j, e, q, t), j # NoJob, ~IsSession(x), ToolShape(t),
           t.kind = "flash" /\ Working(f, dl, j, t) /\ x.nrc = "none" => Ready(f2, dl2, Advanced(t, x))
    PROVE  Follows(f2, dl2, NoJob, e, Append(q, x), t)
  <1> DEFINE p == Append(q, x)
  <1>1. /\ Len(q) \in Nat /\ Len(p) = Len(q) + 1 /\ p[Len(q) + 1] = x
        /\ \A k \in 1 .. Len(q) : p[k] = q[k]
    BY Appended
  <1>2. ASSUME t.kind = "flash", t.at = 1 PROVE First(NoJob, e, p, t)
    <2>1. First(j, e, q, t)
      BY <1>2 DEF Follows
    <2> HIDE DEF p
    <2>2. ASSUME NEW k \in 1 .. Len(p) PROVE ~IsSession(p[k])
      <3>1. CASE k \in 1 .. Len(q)
        BY <1>1, <2>1, <3>1 DEF First
      <3>2. CASE k = Len(q) + 1
        BY <1>1, <3>2
      <3> QED
        BY <1>1, <3>1, <3>2
    <2> QED
      BY <2>1, <2>2 DEF First
  <1>3. ASSUME t.kind = "flash", t.at >= 2 PROVE Later(f2, dl2, NoJob, e, p, t)
    <2>1. Later(f, dl, j, e, q, t)
      BY <1>3 DEF Follows
    <2>2. t.waits /\ NoOwn(q) /\ Working(f, dl, j, t) /\ e = NoRequest
      BY <2>1 DEF Later
    <2>3. OneOwn(p) /\ p[Len(p)] = x
      BY <2>2, OwnAppended
    <2>4. x.nrc = "none" => Ready(f2, dl2, Advanced(t, x))
      BY <1>3, <2>2
    <2> HIDE DEF p
    <2> QED
      BY <2>2, <2>3, <2>4 DEF Later
  <1> QED
    BY <1>2, <1>3 DEF Follows

\* The job gets on.
LEMMA ProgressKeeps ==
    ASSUME NEW f, NEW f2, NEW dl, NEW e, NEW q, NEW t, NEW j, NEW j2,
           Follows(f, dl, j, e, q, t), j # NoJob,
           t.kind = "flash" /\ Working(f, dl, j, t) => Working(f2, dl, j2, t)
    PROVE  Follows(f2, dl, j2, e, q, t)
  <1>1. ASSUME t.kind = "flash", t.at = 1 PROVE First(j2, e, q, t)
    BY <1>1 DEF Follows, First
  <1>2. ASSUME t.kind = "flash", t.at >= 2 PROVE Later(f2, dl, j2, e, q, t)
    <2>1. Later(f, dl, j, e, q, t)
      BY <1>2 DEF Follows
    <2>2. t.waits /\ NoOwn(q) /\ Working(f, dl, j, t) /\ e = NoRequest
      BY <2>1 DEF Later
    <2>3. ~OneOwn(q)
      BY <2>2 DEF NoOwn, OneOwn
    <2> QED
      BY <1>2, <2>2, <2>3 DEF Later
  <1> QED
    BY <1>1, <1>2 DEF Follows

\* The tool sends.
LEMMA SentKeeps ==
    ASSUME NEW f, NEW dl, NEW j, NEW e, NEW e2, NEW q, NEW t, NEW u,
           Follows(f, dl, j, e, q, t), ~t.waits, t.at # 9, StepRequest(u) = StepRequest(t),
           u.kind = t.kind, u.at = t.at, u.image = t.image, u.off = t.off, u.seq = t.seq, u.waits,
           e2 \in {NoRequest, StepRequest(t)}
    PROVE  Follows(f, dl, j, e2, q, u)
  <1>1. ASSUME t.kind = "flash", t.at = 1 PROVE First(j, e2, q, u)
    BY <1>1 DEF Follows, First
  <1>2. ASSUME t.kind = "flash", t.at >= 2 PROVE Later(f, dl, j, e2, q, u)
    <2>1. j = NoJob /\ NoOwn(q) /\ Ready(f, dl, t)
      BY <1>2 DEF Follows, Later
    <2>2. Ready(f, dl, u)
      BY <2>1 DEF Ready, Expecting
    <2>3. ~OneOwn(q)
      BY <2>1 DEF NoOwn, OneOwn
    <2> QED
      BY <2>1, <2>2, <2>3 DEF Later
  <1> QED
    BY <1>1, <1>2 DEF Follows

LEMMA Tailed ==
    ASSUME NEW q \in Seq(AnswerType), q # <<>>
    PROVE  /\ Head(q) = q[1] /\ q[1] \in AnswerType /\ Len(q) \in Nat \ {0}
           /\ Tail(q) \in Seq(AnswerType) /\ Len(Tail(q)) = Len(q) - 1
           /\ \A k \in 1 .. Len(q) - 1 : Tail(q)[k] = q[k + 1]
  BY HeadTailProperties, EmptySeq

\* The tool takes an answer that belongs to its request.
LEMMA ReceivedKeeps ==
    ASSUME NEW f, NEW dl, NEW j, NEW e, NEW q \in Seq(AnswerType), NEW t, ToolShape(t), q # <<>>,
           Follows(f, dl, j, e, q, t), t.kind = "flash", t.waits,
           q[1].nrc = "none", q[1].sid = StepRequest(t).sid
    PROVE  t.at # 9 /\ Follows(f, dl, j, e, Tail(q), Advanced(t, q[1]))
  <1> DEFINE p == Tail(q)
             u == Advanced(t, q[1])
  <1>1. /\ q[1] \in AnswerType /\ Len(q) \in Nat \ {0} /\ Len(p) = Len(q) - 1
        /\ \A k \in 1 .. Len(q) - 1 : p[k] = q[k + 1]
    BY Tailed
  <1>2. t.at # 9 /\ t.at \in 1 .. 9
    BY SessionIsFirst DEF Follows
  <1>3. /\ u.kind = "flash" /\ u.waits = FALSE /\ u.at \in 2 .. 9
        /\ t.at = 1 => u.at = 2
    <2>1. /\ u.kind = "flash" /\ u.waits = FALSE
          /\ t.at # 6 => u.at = t.at + 1
          /\ t.at = 6 => u.at = IF t.off + Block(t) < FullLen(t.image) THEN 6 ELSE 7
      BY <1>1, <1>2, FlashAdvances
    <2> HIDE DEF u
    <2> QED
      BY <1>2, <2>1
  <1>4. IsSession(q[1]) <=> IsSession(StepRequest(t))
    BY DEF IsSession
  <1> HIDE DEF p, u
  <1>5. Later(f, dl, j, e, p, u)
    <2>1. CASE t.at = 1
      <3>1. First(j, e, q, t) /\ IsSession(q[1]) /\ IsSession(StepRequest(t))
        BY <1>4, <2>1, SessionIsFirst DEF Follows
      <3>2. Ready(f, dl, u)
        BY <1>3, <2>1 DEF Ready
      <3>3. j = NoJob /\ e \in {NoRequest, StepRequest(t)}
        BY <1>1, <3>1 DEF First
      <3>4. CASE Len(q) = 1
        BY <1>1, <1>3, <2>1, <3>1, <3>2, <3>3, <3>4 DEF Later, NoOwn
      <3>5. CASE Len(q) # 1
        <4>1. 1 = Len(q) - 1 /\ IsSession(q[Len(q)]) /\ e = NoRequest
          BY <1>1, <3>1, <3>5 DEF First
        <4>2. Len(p) = 1 /\ p[1] = q[2] /\ IsSession(p[1])
          <5>1. Len(q) = 2
            <6>1. 1 = Len(q) - 1 /\ Len(q) \in Nat
              BY <1>1, <4>1
            <6> QED
              BY <6>1
          <5>2. Len(p) = 1 /\ p[1] = q[2] /\ IsSession(q[2])
            BY <1>1, <4>1, <5>1
          <5> QED
            BY <5>2
        <4> QED
          BY <1>3, <3>2, <3>3, <4>1, <4>2 DEF Later, NoOwn
      <3> QED
        BY <3>4, <3>5
    <2>2. CASE t.at # 1
      <3>1. Later(f, dl, j, e, q, t) /\ ~IsSession(q[1])
        BY <1>2, <1>4, <2>2, SessionIsFirst DEF Follows
      <3>2. ~NoOwn(q)
        BY <1>1, <3>1 DEF NoOwn
      <3>3. OneOwn(q) /\ e = NoRequest /\ j = NoJob
        BY <3>1, <3>2 DEF Later
      <3>4. Len(q) = 1
        BY <3>1, <3>3 DEF OneOwn
      <3>5. Ready(f, dl, u)
        BY <3>1, <3>3, <3>4 DEF Later, u
      <3>6. NoOwn(p)
        BY <1>1, <3>4 DEF NoOwn
      <3> QED
        BY <1>3, <3>3, <3>5, <3>6 DEF Later
    <2> QED
      BY <2>1, <2>2
  <1> QED
    BY <1>2, <1>3, <1>5 DEF Follows, p, u

\* An answer is lost.
LEMMA LostKeeps ==
    ASSUME NEW f, NEW dl, NEW j, NEW e, NEW q \in Seq(AnswerType), NEW t, q # <<>>,
           Follows(f, dl, j, e, q, t)
    PROVE  Follows(f, dl, j, e, Tail(q), t)
  <1> DEFINE p == Tail(q)
  <1>1. /\ Len(q) \in Nat \ {0} /\ Len(p) = Len(q) - 1
        /\ \A k \in 1 .. Len(q) - 1 : p[k] = q[k + 1]
    BY Tailed
  <1> HIDE DEF p
  <1>2. ASSUME t.kind = "flash", t.at = 1 PROVE First(j, e, p, t)
    <2>1. First(j, e, q, t)
      BY <1>2 DEF Follows
    <2>2. ASSUME NEW k \in 1 .. Len(p), IsSession(p[k])
          PROVE  /\ j = NoJob
                 /\ k = Len(p) => t.waits \/ e = NoRequest
                 /\ k # Len(p) => k = Len(p) - 1 /\ IsSession(p[Len(p)]) /\ t.waits /\ e = NoRequest
      <3>1. k + 1 \in 1 .. Len(q) /\ p[k] = q[k + 1]
        BY <1>1
      <3>2. /\ j = NoJob
            /\ k + 1 = Len(q) => t.waits \/ e = NoRequest
            /\ k + 1 # Len(q) => k + 1 = Len(q) - 1 /\ IsSession(q[Len(q)]) /\ t.waits /\ e = NoRequest
        BY <2>1, <2>2, <3>1 DEF First
      <3>3. Len(p) >= 1 => p[Len(p)] = q[Len(q)]
        BY <1>1
      <3> QED
        BY <1>1, <3>1, <3>2, <3>3
    <2> QED
      BY <2>1, <2>2 DEF First
  <1>3. ASSUME t.kind = "flash", t.at >= 2 PROVE Later(f, dl, j, e, p, t)
    <2>1. Later(f, dl, j, e, q, t)
      BY <1>3 DEF Follows
    <2>2. NoOwn(q) => Len(p) = 0 /\ NoOwn(p) /\ ~OneOwn(p)
      BY <1>1 DEF NoOwn, OneOwn
    <2>3. OneOwn(q) => \/ Len(p) = 0 /\ NoOwn(p) /\ ~OneOwn(p)
                       \/ Len(p) = 1 /\ OneOwn(p) /\ ~NoOwn(p) /\ p[Len(p)] = q[Len(q)]
      <3>1. Len(q) = 2 => p[1] = q[2]
        BY <1>1
      <3> QED
        BY <1>1, <3>1 DEF NoOwn, OneOwn
    <2>4. CASE NoOwn(q)
      <3>1. Len(p) = 0 /\ NoOwn(p) /\ ~OneOwn(p)
        BY <2>2, <2>4
      <3> QED
        BY <2>1, <2>4, <3>1 DEF Later
    <2>5. CASE ~NoOwn(q)
      <3>1. OneOwn(q) /\ t.waits /\ e = NoRequest /\ j = NoJob
        BY <2>1, <2>5 DEF Later
      <3> QED
        BY <2>1, <2>3, <3>1 DEF Later
    <2> QED
      BY <2>4, <2>5
  <1> QED
    BY <1>2, <1>3 DEF Follows, p
-----------------------------------------------------------------------------
\* What a handler makes of the server.
Flashes(w) == w.kind \in {"erase", "write", "check"} /\ w \in WorkType

LEMMA ResultIs ==
    ASSUME NEW u, NEW nrc, NEW w
    PROVE  /\ Result(u, nrc, w).u = u /\ Result(u, nrc, w).nrc = nrc /\ Result(u, nrc, w).work = w
           /\ Positive(u).u = u /\ Positive(u).nrc = "none" /\ Positive(u).work = NoWork
           /\ Refused(u, nrc).u = u /\ Refused(u, nrc).nrc = nrc /\ Refused(u, nrc).work = NoWork
  BY DEF Result, Positive, Refused

DlType == [state : {"idle", "active", "done"}, addr : Nat, total : Nat, written : Nat, seq : 0 .. SeqMod - 1]

LEMMA ServerFields ==
    ASSUME NEW u \in ServerType, NEW d \in DlType, NEW n \in Nat \ {0}
    PROVE  /\ u.dl \in DlType /\ u.next \in Nat \ {0} /\ u.seed \in Nat
           /\ [u EXCEPT !.dl = d] \in ServerType /\ [u EXCEPT !.dl = d].dl = d
           /\ Locked(u) \in ServerType /\ Locked(u).dl = u.dl
           /\ [u EXCEPT !.security = "unlocked"] \in ServerType
           /\ [u EXCEPT !.security = "seed_sent"] \in ServerType
           /\ [u EXCEPT !.seed = n] \in ServerType
           /\ [u EXCEPT !.next = n] \in ServerType
  BY DEF ServerType, DlType, Locked

LEMMA SessionFields ==
    ASSUME NEW u \in ServerType
    PROVE  /\ [u EXCEPT !.session = "default"] \in ServerType
           /\ [u EXCEPT !.session = "default"].dl = u.dl
           /\ [u EXCEPT !.session = "programming"] \in ServerType
           /\ [u EXCEPT !.session = "programming"].dl = u.dl
  BY DEF ServerType

LEMMA ExpiredIs ==
    ASSUME NEW u \in ServerType
    PROVE  Expired(u) \in ServerType /\ Expired(u).dl = u.dl
  <1> DEFINE v == Locked(u)
  <1>1. v \in ServerType /\ v.dl = u.dl
    BY DEF Locked, ServerType
  <1>2. Expired(u) = [v EXCEPT !.session = "default"]
    BY DEF Expired
  <1> HIDE DEF v
  <1> QED
    BY <1>1, <1>2, SessionFields

LEMMA FollowUpIs ==
    ASSUME NEW u \in ServerType, NEW req
    PROVE  FollowUp(u, req) \in ServerType /\ FollowUp(u, req).dl = u.dl
  <1>1. CASE req.sid = "session_control" /\ req.sub = 1
    <2>1. FollowUp(u, req) = Expired(u)
      BY <1>1 DEF FollowUp, Expired
    <2> QED
      BY <2>1, ExpiredIs
  <1>2. CASE req.sid = "session_control" /\ req.sub = 2
    <2>1. FollowUp(u, req) = [u EXCEPT !.session = "programming"]
      BY <1>2 DEF FollowUp
    <2> QED
      BY <2>1, SessionFields
  <1>3. CASE ~(req.sid = "session_control" /\ req.sub \in {1, 2})
    BY <1>3 DEF FollowUp
  <1> QED
    BY <1>1, <1>2, <1>3

LEMMA BootedIs == Booted \in ServerType /\ Booted.dl.state # "active"
  BY Numbers DEF Booted, ServerType, Download

\* Service by service.
Handled(u, r) ==
    /\ r.u \in ServerType /\ r.nrc \in Nrcs
    /\ r.work # NoWork => r.u = u /\ Flashes(r.work)

LEMMA SessionHandled ==
    ASSUME NEW u \in ServerType, NEW req \in RequestType
    PROVE  LET r == SessionControl(u, req) IN Handled(u, r) /\ r.work = NoWork /\ r.u = u
  BY ResultIs DEF SessionControl, Handled, Nrcs

LEMMA ResetHandled ==
    ASSUME NEW u \in ServerType, NEW req \in RequestType
    PROVE  LET r == EcuReset(u, req) IN Handled(u, r) /\ r.work = NoWork
  BY ResultIs DEF EcuReset, Handled, Nrcs

LEMMA AccessHandled ==
    ASSUME NEW u \in ServerType, NEW req \in RequestType
    PROVE  LET r == SecurityAccess(u, req) IN Handled(u, r) /\ r.work = NoWork
  <1> DEFINE r == SecurityAccess(u, req)
             v == [u EXCEPT !.seed = u.next, !.next = u.next + 1, !.security = "seed_sent"]
  <1>1. v \in ServerType
    <2> DEFINE x == [u EXCEPT !.seed = u.next]
               y == [x EXCEPT !.next = u.next + 1]
    <2>1. u.next \in Nat /\ u.next + 1 \in Nat \ {0}
      BY DEF ServerType
    <2>2. v = [y EXCEPT !.security = "seed_sent"]
      OBVIOUS
    <2>3. x \in ServerType
      BY <2>1 DEF ServerType
    <2> HIDE DEF x
    <2>4. y \in ServerType
      BY <2>1, <2>3 DEF ServerType
    <2> HIDE DEF y, v
    <2> QED
      BY <2>2, <2>4 DEF ServerType
  <1>2. Locked(u) \in ServerType /\ [u EXCEPT !.security = "unlocked"] \in ServerType
    BY DEF ServerType, Locked
  <1>3. /\ r.u \in {u, v, Locked(u), [u EXCEPT !.security = "unlocked"]}
        /\ r.nrc \in Nrcs /\ r.work = NoWork
    <2>1. \/ r = Refused(u, "out_of_range")
          \/ r = Positive(v)
          \/ r = Refused(Locked(u), "sequence_error")
          \/ r = Refused(Locked(u), "invalid_key")
          \/ r = Positive([u EXCEPT !.security = "unlocked"])
      BY DEF SecurityAccess, RequestType
    <2> QED
      BY <2>1, ResultIs DEF Nrcs
  <1> QED
    BY <1>1, <1>2, <1>3 DEF Handled

LEMMA DownloadHandled ==
    ASSUME NEW u \in ServerType, NEW req \in RequestType
    PROVE  LET r == RequestDownload(u, req)
           IN  /\ Handled(u, r) /\ r.work = NoWork
               /\ r.nrc = "none" => r.u.dl = Download("active", req.a, req.b, 0, 1 % SeqMod)
  <1> DEFINE d == Download("active", req.a, req.b, 0, 1 % SeqMod)
             r == RequestDownload(u, req)
  <1>1. d \in DlType
    <2>1. 1 % SeqMod \in 0 .. SeqMod - 1
      BY Numbers
    <2> QED
      BY <2>1 DEF DlType, Download, RequestType
  <1>2. r = Positive([u EXCEPT !.dl = d]) \/ r = Refused(u, "out_of_range")
    BY DEF RequestDownload
  <1> HIDE DEF d
  <1>3. [u EXCEPT !.dl = d] \in ServerType /\ [u EXCEPT !.dl = d].dl = d
    BY <1>1 DEF ServerType, DlType
  <1> HIDE DEF r
  <1>4. CASE r = Positive([u EXCEPT !.dl = d])
    <2>1. r.u = [u EXCEPT !.dl = d] /\ r.nrc = "none" /\ r.work = NoWork
      BY <1>4, ResultIs
    <2> QED
      BY <1>3, <2>1 DEF Handled, Nrcs, r, d
  <1>5. CASE r = Refused(u, "out_of_range")
    <2>1. r.u = u /\ r.nrc = "out_of_range" /\ r.work = NoWork
      BY <1>5, ResultIs
    <2> QED
      BY <2>1 DEF Handled, Nrcs, r
  <1> QED
    BY <1>2, <1>4, <1>5

LEMMA ExitHandled ==
    ASSUME NEW u \in ServerType, NEW req \in RequestType
    PROVE  LET r == TransferExit(u, req) IN Handled(u, r) /\ r.work = NoWork
  <1>1. [u EXCEPT !.dl.state = "idle"] \in ServerType /\ [u EXCEPT !.dl.state = "done"] \in ServerType
    BY DEF ServerType
  <1> QED
    BY <1>1, ResultIs DEF TransferExit, Handled, Nrcs

LEMMA TransferHandled ==
    ASSUME NEW u \in ServerType, NEW req \in RequestType
    PROVE  LET r == TransferData(u, req)
               addr == u.dl.addr + u.dl.written
           IN  /\ Handled(u, r) /\ r.u = u
               /\ r.work = NoWork => r.nrc # "none"
               /\ r.work # NoWork =>
                    /\ r.work = [kind |-> "write", pos |-> addr, end |-> addr + req.b, at |-> req.a]
                    /\ u.dl.state = "active" /\ WriteAccepted(addr, req.b)
  <1> DEFINE addr == u.dl.addr + u.dl.written
             w == [kind |-> "write", pos |-> addr, end |-> addr + req.b, at |-> req.a]
             r == TransferData(u, req)
  <1>1. \/ \E nrc \in Nrcs \ {"none"} : r = Refused(u, nrc)
        \/ r = Result(u, "none", w) /\ u.dl.state = "active" /\ WriteAccepted(addr, req.b)
    BY DEF TransferData, Nrcs
  <1>2. w # NoWork /\ w.kind = "write"
    BY DEF NoWork
  <1>3. w \in WorkType
    <2>1. addr \in Nat /\ addr + req.b \in Nat /\ req.a \in Nat
      BY DEF ServerType, RequestType
    <2> HIDE DEF addr
    <2> QED
      BY <2>1 DEF WorkType
  <1> HIDE DEF w, addr, r
  <1>4. CASE \E nrc \in Nrcs \ {"none"} : r = Refused(u, nrc)
    BY <1>4, ResultIs DEF Handled, r, addr
  <1>5. CASE r = Result(u, "none", w) /\ u.dl.state = "active" /\ WriteAccepted(addr, req.b)
    BY <1>2, <1>3, <1>5, ResultIs DEF Handled, Flashes, r, addr, w, Nrcs
  <1> QED
    BY <1>1, <1>4, <1>5

LEMMA RoutineHandled ==
    ASSUME NEW u \in ServerType, NEW req \in RequestType
    PROVE  LET r == RoutineControl(u, req)
           IN  /\ Handled(u, r) /\ r.u = u
               /\ r.work = NoWork => r.nrc # "none"
               /\ r.work # NoWork =>
                    \/ /\ req.sub = Erase /\ EraseAccepted(req.a, req.b)
                       /\ r.work = [kind |-> "erase", pos |-> req.a, end |-> req.a + req.b, at |-> 0]
                    \/ req.sub = Check /\ r.work.kind = "check"
  <1> DEFINE w == [kind |-> "erase", pos |-> req.a, end |-> req.a + req.b, at |-> 0]
             c == [NoWork EXCEPT !.kind = "check"]
             r == RoutineControl(u, req)
  <1>1. \/ \E nrc \in Nrcs \ {"none"} : r = Refused(u, nrc)
        \/ r = Result(u, "none", w) /\ req.sub = Erase /\ EraseAccepted(req.a, req.b)
        \/ r = Result(u, "none", c) /\ req.sub = Check
    <2>1. CASE req.whole /\ req.sub = Erase /\ EraseAccepted(req.a, req.b)
      BY <2>1 DEF RoutineControl, Erase, Check
    <2>2. CASE req.whole /\ req.sub = Erase /\ ~EraseAccepted(req.a, req.b)
      BY <2>2 DEF RoutineControl, Nrcs, Erase, Check
    <2>3. CASE req.whole /\ req.sub = Check
      BY <2>3 DEF RoutineControl, Erase, Check
    <2>4. CASE ~(req.whole /\ req.sub \in {Erase, Check})
      BY <2>4 DEF RoutineControl, Nrcs
    <2> QED
      BY <2>1, <2>2, <2>3, <2>4
  <1>2. w # NoWork /\ c # NoWork /\ c.kind = "check"
    BY DEF NoWork
  <1>3. Flashes(w) /\ Flashes(c)
    <2>1. req.a \in Nat /\ req.b \in Nat /\ req.a + req.b \in Nat
      BY DEF RequestType
    <2> QED
      BY <2>1 DEF Flashes, WorkType, NoWork
  <1>4. CASE \E nrc \in Nrcs \ {"none"} : r = Refused(u, nrc)
    <2> HIDE DEF w, c, r
    <2> QED
      BY <1>4, ResultIs DEF Handled, r
  <1>5. CASE r = Result(u, "none", w) /\ req.sub = Erase /\ EraseAccepted(req.a, req.b)
    <2>1. r.u = u /\ r.nrc = "none" /\ r.work = w
      BY <1>5, ResultIs
    <2> HIDE DEF c, r
    <2> QED
      BY <1>2, <1>3, <1>5, <2>1 DEF Handled, Nrcs, r
  <1>6. CASE r = Result(u, "none", c) /\ req.sub = Check
    <2>1. r.u = u /\ r.nrc = "none" /\ r.work = c
      BY <1>6, ResultIs
    <2> HIDE DEF w, r, c
    <2> QED
      BY <1>2, <1>3, <1>6, <2>1 DEF Handled, Nrcs, r
  <1> QED
    BY <1>1, <1>4, <1>5, <1>6

LEMMA HandleIs ==
    ASSUME NEW u \in ServerType, NEW req \in RequestType
    PROVE  LET r == Handle(u, req)
           IN  /\ Handled(u, r)
               /\ r.work # NoWork => req.sid \in {"routine_control", "transfer_data"}
               /\ IsSession(req) => r.u = u
  <1> DEFINE r == Handle(u, req)
  <1>1. CASE req.sid \in {"session_control", "ecu_reset", "security_access"}
    BY <1>1, SessionHandled, ResetHandled, AccessHandled DEF Handle, IsSession
  <1>2. CASE req.sid \in {"request_download", "transfer_exit"}
    BY <1>2, DownloadHandled, ExitHandled DEF Handle, IsSession
  <1>3. CASE req.sid \in {"routine_control", "transfer_data"}
    BY <1>3, TransferHandled, RoutineHandled DEF Handle, IsSession
  <1>4. CASE req.sid \notin Services
    <2>1. r = Refused(u, "service_not_supported")
      BY <1>4 DEF Handle, Services
    <2> QED
      BY <1>4, <2>1, ResultIs DEF Handled, Nrcs, IsSession, Services
  <1> QED
    BY <1>1, <1>2, <1>3, <1>4 DEF Services
-----------------------------------------------------------------------------
\* Counters that wrap, and multiples of the row.
LEMMA DivMod ==
    ASSUME NEW a \in Int, NEW b \in Nat \ {0}
    PROVE  a = b * (a \div b) + (a % b) /\ a % b \in 0 .. b - 1 /\ a \div b \in Int
  OBVIOUS

LEMMA ModIs ==
    ASSUME NEW b \in Nat \ {0}, NEW q \in Int, NEW r \in 0 .. b - 1
    PROVE  (b * q + r) % b = r
  OBVIOUS

LEMMA ModAdds ==
    ASSUME NEW b \in Nat \ {0}, NEW q \in Int, NEW x \in Int
    PROVE  (b * q + x) % b = x % b
  <1> DEFINE p == x \div b
             r == x % b
  <1>1. x = b * p + r /\ r \in 0 .. b - 1 /\ p \in Int
    BY DivMod
  <1> HIDE DEF p, r
  <1>2. b * q + x = b * (q + p) + r /\ q + p \in Int
    <2>1. b * (q + p) = b * q + b * p
      BY <1>1
    <2> QED
      BY <1>1, <2>1
  <1>3. (b * (q + p) + r) % b = r
    BY <1>1, <1>2, ModIs
  <1> QED
    BY <1>2, <1>3 DEF r

LEMMA ModPlus ==
    ASSUME NEW w \in Nat \ {0}, NEW x \in Int, NEW y \in Int
    PROVE  ((x % w) + y) % w = (x + y) % w
  <1> DEFINE q == x \div w
             r == x % w
  <1>1. x = w * q + r /\ r \in Int /\ q \in Int
    BY DivMod
  <1> HIDE DEF q, r
  <1>2. x + y = w * q + (r + y)
    BY <1>1
  <1>3. (w * q + (r + y)) % w = (r + y) % w
    <2> DEFINE z == r + y
    <2>1. z \in Int
      BY <1>1
    <2> HIDE DEF z
    <2>2. (w * q + z) % w = z % w
      BY <1>1, <2>1, ModAdds
    <2> QED
      BY <2>2 DEF z
  <1>4. (x + y) % w = (r + y) % w
    BY <1>2, <1>3
  <1> QED
    BY <1>4 DEF r

LEMMA RowsLeft ==
    ASSUME NEW r \in Nat \ {0}, NEW n \in Nat, n > 0, n % r = 0
    PROVE  n >= r /\ (n - r) % r = 0
  <1> DEFINE q == n \div r
  <1>1. n = r * q + 0 /\ q \in Int
    BY DivMod
  <1> HIDE DEF q
  <1>2. q >= 1
    <2>1. ~(q <= 0)
      BY <1>1
    <2> QED
      BY <1>1, <2>1
  <1>3. n >= r
    <2>1. q - 1 \in Nat /\ r * (q - 1) \in Nat
      BY <1>1, <1>2
    <2>2. r * q = r * (q - 1) + r
      BY <1>1
    <2> QED
      BY <1>1, <2>1, <2>2
  <1>4. n - r = r * (-1) + n /\ n \in Int
    BY <1>1
  <1>5. (r * (-1) + n) % r = n % r
    <2>1. -1 \in Int
      OBVIOUS
    <2> QED
      BY <1>4, <2>1, ModAdds
  <1> QED
    BY <1>3, <1>4, <1>5

LEMMA BlockWrittenIs ==
    ASSUME NEW u \in ServerType, NEW n \in Nat
    PROVE  /\ BlockWritten(u, n) \in ServerType
           /\ BlockWritten(u, n).dl = Download(u.dl.state, u.dl.addr, u.dl.total, u.dl.written + n,
                                               (u.dl.seq + 1) % SeqMod)
  <1> DEFINE d == u.dl
             seq == (d.seq + 1) % SeqMod
             e == Download(d.state, d.addr, d.total, d.written + n, seq)
  <1>1. d \in DlType
    BY DEF ServerType, DlType
  <1>2. d.written + n \in Nat /\ seq \in 0 .. SeqMod - 1
    BY <1>1, Numbers DEF DlType
  <1>3. e = [[d EXCEPT !.written = d.written + n] EXCEPT !.seq = seq]
    <2> DEFINE w == Download(d.state, d.addr, d.total, d.written + n, d.seq)
    <2> HIDE DEF d, seq
    <2>1. w = [d EXCEPT !.written = d.written + n]
      BY <1>1 DEF DlType, Download
    <2>2. e = [w EXCEPT !.seq = seq]
      BY DEF Download
    <2> QED
      BY <2>1, <2>2
  <1>4. BlockWritten(u, n) = [u EXCEPT !.dl = e]
    <2>1. BlockWritten(u, n) = [u EXCEPT !.dl = [[u.dl EXCEPT !.written = u.dl.written + n]
                                                    EXCEPT !.seq = (u.dl.seq + 1) % SeqMod]]
      BY DEF BlockWritten, ServerType
    <2> QED
      BY <1>3, <2>1
  <1>5. e \in DlType
    <2> HIDE DEF d, seq
    <2> QED
      BY <1>1, <1>2 DEF DlType, Download
  <1> HIDE DEF e
  <1>6. [u EXCEPT !.dl = e] \in ServerType /\ [u EXCEPT !.dl = e].dl = e
    BY <1>5 DEF ServerType, DlType
  <1> QED
    BY <1>4, <1>6 DEF e
-----------------------------------------------------------------------------
\* The handler of the own request, where it needs no flash.
LEMMA OwnAnswered ==
    ASSUME NEW f, NEW u \in ServerType, NEW t, ToolShape(t), t.kind = "flash", t.at \in 2 .. 8,
           NEW x \in AnswerType, Ready(f, u.dl, t), Handle(u, StepRequest(t)).work = NoWork,
           Handle(u, StepRequest(t)).nrc = "none"
    PROVE  Ready(f, Handle(u, StepRequest(t)).u.dl, Advanced(t, x))
  <1> DEFINE req == StepRequest(t)
             r == Handle(u, req)
             v == Advanced(t, x)
  <1>1. /\ ToolShape(v) /\ v.image = t.image /\ (t.at # 6 => v.at = t.at + 1)
        /\ t.at = 5 => v.off = 0 /\ v.seq = 1
    <2>1. t.at # 9
      OBVIOUS
    <2> QED
      BY <2>1, FlashAdvances
  <1>2. req \in RequestType
    BY RequestsTyped DEF Proper
  <1>3. t.at \notin {4, 6, 8}
    <2>1. CASE t.at \in {4, 8}
      <3>1. req.sid = "routine_control"
        <4>1. \A sid, sub, a, b : Request(sid, sub, a, b).sid = sid
          BY DEF Request
        <4> QED
          BY <2>1, <4>1, FlashRequests DEF ToolShape
      <3>2. r = RoutineControl(u, req)
        BY <3>1 DEF Handle
      <3> QED
        <4>1. LET z == RoutineControl(u, req) IN z.work = NoWork => z.nrc # "none"
          BY <1>2, RoutineHandled
        <4> QED
          BY <3>2, <4>1
    <2>2. CASE t.at = 6
      <3>1. req.sid = "transfer_data"
        BY <2>2, BlockIs
      <3>2. r = TransferData(u, req)
        BY <3>1 DEF Handle
      <3> QED
        <4>1. LET z == TransferData(u, req) IN z.work = NoWork => z.nrc # "none"
          BY <1>2, TransferHandled
        <4> QED
          BY <3>2, <4>1
    <2> QED
      BY <2>1, <2>2
  <1> HIDE DEF v
  <1>4. CASE t.at \in {2, 3}
    BY <1>1, <1>4 DEF Ready, v
  <1>5. CASE t.at = 5
    <2>1. req = Request("request_download", 0, Base, FullLen(t.image))
      BY <1>5, FlashRequests DEF ToolShape
    <2>2. req.sid = "request_download" /\ req.a = Base /\ req.b = FullLen(t.image)
      BY <2>1 DEF Request
    <2>3. r = RequestDownload(u, req)
      BY <2>2 DEF Handle
    <2>4. r.u.dl = Download("active", Base, FullLen(t.image), 0, 1 % SeqMod)
      BY <1>2, <2>2, <2>3, DownloadHandled
    <2>5. r.u.dl = Expecting(v)
      BY <1>1, <1>5, <2>4 DEF Expecting
    <2>6. Erased(f, 0, FullLen(t.image))
      BY <1>5 DEF Ready
    <2>7. Programmed(f, t.image, 0)
      BY Numbers DEF Programmed, Region
    <2>8. v.at = 6 /\ v.off = 0 /\ 0 <= Size
      BY <1>1, <1>5, Numbers
    <2> HIDE DEF r
    <2> QED
      BY <1>1, <2>5, <2>6, <2>7, <2>8 DEF Ready, v, r
  <1>6. CASE t.at = 7
    <2>1. FullLen(t.image) <= Size /\ Programmed(f, t.image, FullLen(t.image))
      BY <1>6 DEF Ready
    <2>2. v.at = 8 /\ v.image = t.image
      BY <1>1, <1>6
    <2> HIDE DEF r
    <2> QED
      BY <2>1, <2>2 DEF Ready, v, r
  <1> QED
    BY <1>3, <1>4, <1>5, <1>6

\* And where it does.
LEMMA OwnTaken ==
    ASSUME NEW f, NEW u \in ServerType, NEW t, ToolShape(t), t.kind = "flash", t.at \in 2 .. 8,
           Ready(f, u.dl, t), Handle(u, StepRequest(t)).work # NoWork
    PROVE  Working(f, u.dl, [work |-> Handle(u, StepRequest(t)).work, req |-> StepRequest(t)], t)
  <1> DEFINE req == StepRequest(t)
             r == Handle(u, req)
             j == [work |-> r.work, req |-> req]
  <1>1. req \in RequestType
    BY RequestsTyped DEF Proper
  <1>2. j.req = req /\ j.work = r.work
    OBVIOUS
  <1>3. \A sid, sub, a, b : /\ Request(sid, sub, a, b).sid = sid /\ Request(sid, sub, a, b).sub = sub
                            /\ Request(sid, sub, a, b).a = a /\ Request(sid, sub, a, b).b = b
    BY DEF Request
  <1>4. t \in ToolType /\ t.image \in Images /\ FullLen(t.image) \in Nat /\ EraseLen(t.image) \in Nat
    BY Lengths DEF ToolShape
  <1>5. CASE t.at \in {2, 3, 5, 7}
    <2>1. req.sid \notin {"routine_control", "transfer_data"}
      BY <1>3, <1>4, <1>5, FlashRequests
    <2> QED
      BY <1>1, <2>1, HandleIs
  <1>6. CASE t.at = 4
    <2>1. req.sid = "routine_control" /\ req.sub = Erase /\ req.a = Base /\ req.b = EraseLen(t.image)
      BY <1>3, <1>4, <1>6, FlashRequests
    <2>2. r = RoutineControl(u, req)
      BY <2>1 DEF Handle
    <2>3. r.work = [kind |-> "erase", pos |-> Base, end |-> Base + EraseLen(t.image), at |-> 0]
      BY <1>1, <2>1, <2>2, RoutineHandled DEF Erase, Check
    <2>4. Erased(f, 0, Base - Base)
      BY Numbers DEF Erased, Region
    <2> HIDE DEF r, req
    <2>5. j.work.kind = "erase" /\ j.work.end = Base + EraseLen(t.image) /\ j.work.pos = Base
      BY <1>2, <2>3
    <2>6. Base <= Base
      BY Numbers
    <2> HIDE DEF j
    <2> QED
      BY <1>2, <1>6, <2>4, <2>5, <2>6 DEF Working, j, r, req
  <1>7. CASE t.at = 8
    <2>1. req.sid = "routine_control" /\ req.sub = Check
      BY <1>3, <1>4, <1>7, FlashRequests
    <2>2. r = RoutineControl(u, req)
      BY <2>1 DEF Handle
    <2> DEFINE z == RoutineControl(u, req)
    <2>3. z.work = NoWork \/ (req.sub = Erase /\ EraseAccepted(req.a, req.b)) \/ z.work.kind = "check"
      BY <1>1, RoutineHandled
    <2>4. z.work # NoWork /\ Erase # Check
      BY <2>2 DEF Erase, Check
    <2>5. r.work.kind = "check"
      BY <2>1, <2>2, <2>3, <2>4
    <2> HIDE DEF r, req, j
    <2> QED
      BY <1>2, <1>7, <2>5 DEF Working, j, r, req
  <1>8. CASE t.at = 6
    <2>1. /\ req.sid = "transfer_data" /\ req.a = t.off /\ req.b = Block(t) /\ Block(t) \in Nat
          /\ t.off \in Nat /\ t.off <= FullLen(t.image)
      BY <1>8, BlockIs
    <2>2. r = TransferData(u, req)
      BY <2>1 DEF Handle
    <2> DEFINE addr == u.dl.addr + u.dl.written
    <2>3. /\ r.work = [kind |-> "write", pos |-> addr, end |-> addr + req.b, at |-> req.a]
          /\ u.dl.state = "active" /\ WriteAccepted(addr, req.b)
      BY <1>1, <2>2, TransferHandled
    <2>4. /\ u.dl = Expecting(t) /\ Programmed(f, t.image, t.off) /\ Erased(f, t.off, FullLen(t.image))
      BY <1>8, <2>3 DEF Ready
    <2>5. addr = Base + t.off
      BY <2>4 DEF Expecting, Download
    <2> HIDE DEF addr, r, req
    <2>6. /\ j.work.kind = "write" /\ j.work.pos = Base + t.off /\ j.work.end = Base + t.off + Block(t)
          /\ j.work.at = t.off
      BY <1>2, <2>1, <2>3, <2>5
    <2>7. /\ addr - Base <= Size - Block(t) /\ Block(t) % RowSize = 0
      BY <2>1, <2>3 DEF WriteAccepted, InAppRegion
    <2> HIDE DEF j
    <2>8. /\ j.work.end <= Base + Size /\ Base + t.off <= j.work.pos /\ j.work.pos <= j.work.end
          /\ j.work.end - j.work.pos = Block(t) /\ j.work.pos - Base = t.off
      BY <2>1, <2>5, <2>6, <2>7, Numbers
    <2> QED
      BY <1>2, <1>8, <2>4, <2>6, <2>7, <2>8 DEF Working, j, r, req
  <1> QED
    BY <1>5, <1>6, <1>7, <1>8
-----------------------------------------------------------------------------
\* The job of the own request gets on.
Changed(f, cells, at) == [a \in Region |-> IF a \in cells THEN at[a] ELSE f[a]]

SectorErased(f, j) == Changed(f, Sector(j.work.pos), [a \in Region |-> Blank])

RowWritten(f, j) ==
    LET data == [a \in Region |-> Cell(j.req.image, j.work.at + a - j.work.pos)]
    IN  Changed(f, Row(j.work.pos), [a \in Region |-> IF f[a] \in {Blank, data[a]} THEN data[a] ELSE Torn])

JobTo(j, n) == [j EXCEPT !.work.pos = n]
JobAt(j, n, m) == [j EXCEPT !.work.pos = n, !.work.at = m]

LEMMA JobMoved ==
    ASSUME NEW j \in JobType, NEW n \in Nat
    PROVE  LET k == JobTo(j, n)
           IN  /\ k \in JobType /\ k.req = j.req /\ k.work.kind = j.work.kind
               /\ k.work.end = j.work.end /\ k.work.pos = n
  BY DEF JobType, WorkType, JobTo

LEMMA JobMovedOn ==
    ASSUME NEW j \in JobType, NEW n \in Nat, NEW m \in Nat
    PROVE  /\ JobAt(j, n, m) \in JobType /\ JobAt(j, n, m).req = j.req
           /\ JobAt(j, n, m).work.kind = j.work.kind /\ JobAt(j, n, m).work.end = j.work.end
           /\ JobAt(j, n, m).work.pos = n /\ JobAt(j, n, m).work.at = m
  <1> DEFINE l == JobTo(j, n)
             k == [l EXCEPT !.work.at = m]
  <1>1. k = JobAt(j, n, m)
    BY DEF JobAt, JobTo
  <1>2. l \in JobType /\ l.req = j.req /\ l.work.kind = j.work.kind /\ l.work.end = j.work.end /\ l.work.pos = n
    BY JobMoved
  <1> HIDE DEF l
  <1>3. /\ k \in JobType /\ k.req = l.req /\ k.work.kind = l.work.kind
        /\ k.work.end = l.work.end /\ k.work.pos = l.work.pos /\ k.work.at = m
    BY <1>2 DEF JobType, WorkType
  <1> HIDE DEF k
  <1> QED
    BY <1>1, <1>2, <1>3

LEMMA EraseMoves ==
    ASSUME NEW f, NEW dl, NEW t, NEW j \in JobType, NEW pos, pos = j.work.pos,
           Working(f, dl, j, t), j.work.kind = "erase", pos < j.work.end
    PROVE  Working(SectorErased(f, j), dl, JobTo(j, pos + SectorSize(pos)), t)
  <1> DEFINE g == Changed(f, Sector(pos), [a \in Region |-> Blank])
             next == pos + SectorSize(pos)
             k == JobTo(j, next)
  <1>1. t.at = 4
    BY DEF Working
  <1>2. pos \in Nat /\ SectorSize(pos) \in Nat /\ next \in Nat /\ Base \in Nat /\ pos <= next
    BY FlashAssumption DEF JobType, WorkType, SectorSize
  <1>3. /\ j.req = StepRequest(t) /\ j.work.end = Base + EraseLen(t.image)
        /\ Base <= pos /\ Erased(f, 0, pos - Base)
    BY <1>1 DEF Working
  <1>4. k.req = j.req /\ k.work.kind = j.work.kind /\ k.work.end = j.work.end /\ k.work.pos = next
    BY <1>2, JobMoved
  <1>5. Erased(g, 0, next - Base)
    <2> SUFFICES ASSUME NEW a \in Region, Base + 0 <= a, a < Base + (next - Base) PROVE g[a] = Blank
      BY DEF Erased
    <2>1. g[a] = IF a \in Sector(pos) THEN Blank ELSE f[a]
      BY DEF Changed
    <2>2. a \in Int /\ a < next
      BY <1>2 DEF Region
    <2>3. CASE a < pos
      <3>1. f[a] = Blank
        BY <1>2, <1>3, <2>2, <2>3 DEF Erased
      <3> QED
        BY <2>1, <3>1
    <2>4. CASE ~(a < pos)
      <3>1. a \in Sector(pos)
        BY <1>2, <2>2, <2>4 DEF Sector
      <3> QED
        BY <2>1, <3>1
    <2> QED
      BY <2>3, <2>4
  <1>6. Base <= next
    BY <1>2, <1>3
  <1> HIDE DEF g, k, next
  <1>7. Working(g, dl, k, t)
    BY <1>1, <1>3, <1>4, <1>5, <1>6 DEF Working
  <1> QED
    <2>1. g = SectorErased(f, j)
      BY DEF g, SectorErased
    <2> QED
      BY <1>7, <2>1 DEF k, next

LEMMA WriteMoves ==
    ASSUME NEW f, NEW dl, NEW t, NEW j \in JobType, NEW pos, pos = j.work.pos,
           ToolShape(t), t.kind = "flash",
           Working(f, dl, j, t), j.work.kind = "write", pos < j.work.end
    PROVE  Working(RowWritten(f, j), dl, JobAt(j, pos + RowSize, j.work.at + RowSize), t)
  <1> DEFINE data == [a \in Region |-> Cell(j.req.image, j.work.at + a - pos)]
             g == Changed(f, Row(pos), [a \in Region |-> IF f[a] \in {Blank, data[a]} THEN data[a] ELSE Torn])
             next == pos + RowSize
             at == j.work.at + RowSize
             k == JobAt(j, next, at)
             len == FullLen(t.image)
  <1>1. t.at = 6
    BY DEF Working
  <1>2. /\ pos \in Nat /\ RowSize \in Nat \ {0} /\ next \in Nat /\ Base \in Nat /\ Size \in Nat
        /\ j.work.at \in Nat /\ at \in Nat /\ j.work.end \in Nat
    BY Numbers DEF JobType, WorkType
  <1>3. Block(t) \in Nat /\ t.off \in Nat /\ len \in Nat /\ t.off + Block(t) <= len /\ j.req.image = t.image
    BY <1>1, BlockIs DEF Working
  <1>4. /\ j.req = StepRequest(t) /\ j.work.end = Base + t.off + Block(t) /\ j.work.end <= Base + Size
        /\ Base + t.off <= pos /\ (j.work.end - pos) % RowSize = 0 /\ j.work.at = pos - Base
        /\ Programmed(f, t.image, pos - Base) /\ Erased(f, pos - Base, len) /\ dl = Expecting(t)
    BY <1>1 DEF Working
  <1>5. /\ k.req = j.req /\ k.work.kind = j.work.kind /\ k.work.end = j.work.end /\ k.work.pos = next
        /\ k.work.at = at
    <2>1. next \in Nat /\ at \in Nat
      BY <1>2
    <2> HIDE DEF next, at
    <2> QED
      BY <2>1, JobMovedOn
  <1>6. /\ next <= j.work.end /\ (j.work.end - next) % RowSize = 0
    <2> DEFINE n == j.work.end - pos
    <2>1. n \in Nat /\ n > 0 /\ n % RowSize = 0
      BY <1>2, <1>4
    <2> HIDE DEF n
    <2>2. n >= RowSize /\ (n - RowSize) % RowSize = 0
      BY <1>2, <2>1, RowsLeft
    <2>3. n = j.work.end - pos
      BY DEF n
    <2>4. j.work.end - next = n - RowSize
      BY <1>2, <2>3
    <2> HIDE DEF next
    <2>5. (j.work.end - next) % RowSize = 0
      BY <2>2, <2>4
    <2>6. next <= j.work.end
      BY <1>2, <2>2, <2>3 DEF next
    <2> QED
      BY <2>5, <2>6
  <1>7. at = next - Base /\ Base + t.off <= next
    BY <1>2, <1>3, <1>4
  <1>8. ASSUME NEW a \in Region
        PROVE  /\ a < pos => g[a] = f[a]
               /\ next <= a => g[a] = f[a]
               /\ pos <= a /\ a < next => g[a] = Cell(t.image, a - Base)
    <2>1. /\ a \notin Row(pos) => g[a] = f[a]
          /\ a \in Row(pos) => g[a] = IF f[a] \in {Blank, data[a]} THEN data[a] ELSE Torn
      BY DEF Changed
    <2>2. a \in Int /\ Base <= a
      BY <1>2 DEF Region
    <2>3. a \in Row(pos) <=> pos <= a /\ a < next
      BY <1>2, <2>2 DEF Row
    <2>4. ASSUME pos <= a, a < next PROVE g[a] = Cell(t.image, a - Base)
      <3>1. data[a] = Cell(t.image, a - Base)
        <4>1. data[a] = Cell(t.image, j.work.at + a - pos)
          BY <1>3
        <4>2. j.work.at + a - pos = a - Base
          BY <1>2, <1>4, <2>2
        <4> QED
          BY <4>1, <4>2
      <3>2. f[a] = Blank
        <4>1. Base + (pos - Base) <= a /\ a < Base + len
          BY <1>2, <1>3, <1>4, <1>6, <2>2, <2>4
        <4> QED
          BY <1>4, <4>1 DEF Erased
      <3> HIDE DEF data, g
      <3> QED
        BY <2>1, <2>3, <2>4, <3>1, <3>2
    <2> HIDE DEF g
    <2> QED
      BY <1>2, <2>1, <2>2, <2>3, <2>4
  <1> HIDE DEF data, g
  <1>9. Programmed(g, t.image, next - Base)
    <2> SUFFICES ASSUME NEW a \in Region, a < Base + (next - Base) PROVE g[a] = Cell(t.image, a - Base)
      BY DEF Programmed
    <2>1. a \in Int /\ a < next
      BY <1>2 DEF Region
    <2>2. a < pos => f[a] = Cell(t.image, a - Base)
      BY <1>2, <1>4, <2>1 DEF Programmed
    <2> QED
      BY <1>2, <1>8, <2>1, <2>2
  <1>10. Erased(g, next - Base, len)
    <2> SUFFICES ASSUME NEW a \in Region, Base + (next - Base) <= a, a < Base + len PROVE g[a] = Blank
      BY DEF Erased
    <2>1. a \in Int /\ next <= a /\ Base + (pos - Base) <= a
      BY <1>2 DEF Region
    <2>2. f[a] = Blank
      BY <1>4, <2>1 DEF Erased
    <2> QED
      BY <1>8, <2>1, <2>2
  <1> HIDE DEF k, next, at
  <1>11. Working(g, dl, k, t)
    BY <1>1, <1>4, <1>5, <1>6, <1>7, <1>9, <1>10 DEF Working
  <1> QED
    <2>1. g = RowWritten(f, j)
      BY DEF g, data, RowWritten
    <2> QED
      BY <1>11, <2>1 DEF k, next, at
-----------------------------------------------------------------------------
\* The job of the own request is done.
LEMMA OwnErased ==
    ASSUME NEW f, NEW dl, NEW t, NEW j \in JobType, NEW x \in AnswerType,
           ToolShape(t), t.kind = "flash",
           Working(f, dl, j, t), j.work.kind = "erase", j.work.pos >= j.work.end
    PROVE  Ready(f, dl, Advanced(t, x))
  <1> DEFINE v == Advanced(t, x)
  <1>1. /\ t.at = 4 /\ j.work.end = Base + EraseLen(t.image) /\ Erased(f, 0, j.work.pos - Base)
    BY DEF Working
  <1>2. /\ FullLen(t.image) \in Nat /\ EraseLen(t.image) \in Nat /\ FullLen(t.image) <= EraseLen(t.image)
        /\ j.work.pos \in Nat /\ Base \in Nat
    BY Lengths, Numbers DEF ToolShape, JobType, WorkType
  <1>3. v.at = 5 /\ v.image = t.image
    <2>1. t.at # 9 /\ t.at # 6 /\ t.at + 1 = 5
      BY <1>1
    <2>2. v.at = t.at + 1 /\ v.image = t.image
      BY <2>1, FlashAdvances
    <2> HIDE DEF v
    <2> QED
      BY <2>1, <2>2
  <1>4. Erased(f, 0, FullLen(t.image))
    <2> SUFFICES ASSUME NEW a \in Region, Base + 0 <= a, a < Base + FullLen(t.image) PROVE f[a] = Blank
      BY DEF Erased
    <2>1. a \in Int /\ a < Base + (j.work.pos - Base)
      BY <1>1, <1>2 DEF Region
    <2> QED
      BY <1>1, <2>1 DEF Erased
  <1> HIDE DEF v
  <1> QED
    BY <1>3, <1>4 DEF Ready, v

LEMMA OwnWritten ==
    ASSUME NEW f, NEW u \in ServerType, NEW t, NEW j \in JobType, NEW x \in AnswerType,
           ToolShape(t), t.kind = "flash",
           Working(f, u.dl, j, t), j.work.kind = "write", j.work.pos >= j.work.end
    PROVE  Ready(f, BlockWritten(u, j.req.b).dl, Advanced(t, x))
  <1> DEFINE v == Advanced(t, x)
             len == FullLen(t.image)
             dl == BlockWritten(u, j.req.b).dl
  <1>1. /\ t.at = 6 /\ j.req = StepRequest(t) /\ j.work.end = Base + t.off + Block(t)
        /\ j.work.end <= Base + Size /\ j.work.pos <= j.work.end
        /\ Programmed(f, t.image, j.work.pos - Base) /\ Erased(f, j.work.pos - Base, len)
        /\ u.dl = Expecting(t)
    BY DEF Working
  <1>2. /\ Block(t) \in Nat /\ t.off \in Nat /\ t.seq \in Nat /\ len \in Nat /\ t.off + Block(t) <= len
        /\ j.req.b = Block(t) /\ j.work.pos \in Nat /\ j.work.end \in Nat /\ Base \in Nat /\ Size \in Nat
    BY <1>1, BlockIs, Numbers DEF JobType, WorkType
  <1>3. j.work.pos - Base = t.off + Block(t) /\ t.off + Block(t) <= Size
    BY <1>1, <1>2
  <1>4. /\ v.image = t.image /\ v.off = t.off + Block(t) /\ v.seq = t.seq + 1
        /\ v.at = IF t.off + Block(t) < len THEN 6 ELSE 7
    <2>1. t.at # 9
      BY <1>1
    <2> QED
      BY <1>1, <2>1, FlashAdvances
  <1> HIDE DEF v
  <1>5. dl = Expecting(v)
    <2>1. dl = Download(u.dl.state, u.dl.addr, u.dl.total, u.dl.written + Block(t), (u.dl.seq + 1) % SeqMod)
      BY <1>2, BlockWrittenIs
    <2>2. /\ u.dl.state = "active" /\ u.dl.addr = Base /\ u.dl.total = len /\ u.dl.written = t.off
          /\ u.dl.seq = t.seq % SeqMod
      BY <1>1 DEF Expecting, Download
    <2>3. ((t.seq % SeqMod) + 1) % SeqMod = (t.seq + 1) % SeqMod
      BY <1>2, Numbers, ModPlus
    <2> HIDE DEF dl, len
    <2> QED
      BY <1>4, <2>1, <2>2, <2>3 DEF Expecting, len
  <1> HIDE DEF dl
  <1>6. CASE t.off + Block(t) < len
    BY <1>1, <1>3, <1>4, <1>5, <1>6 DEF Ready, v, dl
  <1>7. CASE ~(t.off + Block(t) < len)
    <2>1. v.at = 7 /\ t.off + Block(t) = len
      BY <1>2, <1>4, <1>7
    <2>2. len <= Size /\ Programmed(f, t.image, len)
      BY <1>1, <1>3, <2>1
    <2> QED
      BY <1>4, <2>1, <2>2 DEF Ready, v, dl
  <1> QED
    BY <1>6, <1>7

LEMMA OwnChecked ==
    ASSUME NEW f, NEW dl, NEW t, NEW j, NEW x \in AnswerType, ToolShape(t), t.kind = "flash",
           Working(f, dl, j, t), j.work.kind = "check"
    PROVE  Ready(f, dl, Advanced(t, x))
  <1> DEFINE v == Advanced(t, x)
  <1>1. t.at = 8 /\ FullLen(t.image) <= Size /\ Programmed(f, t.image, FullLen(t.image))
    BY DEF Working, Ready
  <1>2. v.at = 9 /\ v.image = t.image
    <2>1. t.at # 9 /\ t.at # 6 /\ t.at + 1 = 9
      BY <1>1
    <2>2. v.at = t.at + 1 /\ v.image = t.image
      BY <2>1, FlashAdvances
    <2> HIDE DEF v
    <2> QED
      BY <2>1, <2>2
  <1> HIDE DEF v
  <1> QED
    BY <1>1, <1>2 DEF Ready, v
-----------------------------------------------------------------------------
\* An ECU that is not in programming mode leaves no request waiting.
Unheard == ~Listening => toEcu = NoRequest

ToolFollows == Follows(flash, srv.dl, job, toEcu, toTool, tool)

ToolInv == ToolTypes /\ Unheard /\ ToolFollows

LEMMA AnswerIs ==
    ASSUME NEW req \in RequestType, req.sid # "none", NEW nrc \in Nrcs, NEW u \in ServerType
    PROVE  LET x == Answer(req, nrc, u) IN x \in AnswerType /\ x.sid = req.sid /\ x.nrc = nrc
  <1>2. u.seed \in Nat /\ req.sid \in Services \cup {"unknown"}
    BY DEF ServerType, RequestType
  <1> QED
    BY <1>2 DEF Answer, AnswerType

LEMMA NoJobIs == NoJob \in JobType /\ NoJob.work = NoWork /\ NoRequest \in RequestType
  <1>1. NoRequest \in RequestType
    BY DEF NoRequest, Request, RequestType
  <1>2. NoWork \in WorkType
    BY DEF NoWork, WorkType
  <1> QED
    BY <1>1, <1>2 DEF NoJob, JobType

LEMMA InitToolInv == Init => ToolInv
  <1> SUFFICES ASSUME Init PROVE ToolInv
    OBVIOUS
  <1>1. ToolTypes
    BY NoJobIs, BootedIs, IdleIsTool DEF Init, ToolTypes, JobKinds
  <1>2. Unheard
    BY DEF Init, Unheard
  <1>3. ToolFollows
    BY IdleIsTool DEF Init, ToolFollows, Follows
  <1> QED
    BY <1>1, <1>2, <1>3 DEF ToolInv

\* A request or the download is dropped at most.
LEMMA QuietStep ==
    ASSUME ToolInv, flash' = flash, job' = job, toTool' = toTool, tool' = tool, toEcu' \in {toEcu, NoRequest},
           srv' \in ServerType, srv'.dl = srv.dl \/ (job = NoJob /\ srv'.dl.state # "active"), Unheard'
    PROVE  ToolInv'
  <1>1. ToolTypes'
    BY NoJobIs DEF ToolInv, ToolTypes, JobKinds
  <1>2. ToolFollows'
    BY QuietKeeps DEF ToolInv, ToolFollows
  <1> QED
    BY <1>1, <1>2 DEF ToolInv

\* The boot, the application, and what the server does of its own accord.
LEMMA BootKeeps ==
    ASSUME ToolInv, OnlyProgrammingWrites,
           BootStep \/ DiagReset \/ Expire \/ AppRequests \/ AppCrashes
    PROVE  ToolInv'
  <1> DEFINE Keeps == /\ flash' = flash /\ job' = job /\ toTool' = toTool /\ tool' = tool
                      /\ toEcu' \in {toEcu, NoRequest} /\ Unheard'
  <1>1. phase # "programming" => job = NoJob
    BY DEF OnlyProgrammingWrites, ToolInv, ToolTypes, JobKinds
  <1>2. srv \in ServerType
    BY DEF ToolInv, ToolTypes
  <1>3. CASE ReadCause \/ ReconcileNoinit \/ UpdateCounter \/ AppRequests \/ AppCrashes
    <2>1. Keeps /\ srv' = srv
      BY <1>3 DEF ReadCause, ReconcileNoinit, UpdateCounter, AppRequests, AppCrashes, busVars, Unheard, Listening
    <2> QED
      BY <1>2, <2>1, QuietStep
  <1>4. CASE Stay \/ Knocked
    <2>1. Keeps /\ srv' = Booted /\ phase = "decide"
      BY <1>4 DEF Stay, Knocked, EnterProgramming, busVars, Unheard, Listening
    <2> QED
      BY <1>1, <2>1, QuietStep, BootedIs
  <1>5. CASE Validate
    <2>1. PICK answered \in BOOLEAN :
             IF ImageValid(flash, answered)
             THEN phase' = "app" /\ toEcu' = NoRequest /\ srv' = srv
             ELSE phase' = "programming" /\ srv' = Booted /\ toEcu' = toEcu
      BY <1>5 DEF Validate, Answering, EnterProgramming
    <2>2. phase = "decide" /\ UNCHANGED <<flash, job, toTool, tool>>
      BY <1>5 DEF Validate
    <2>3. Keeps /\ (srv' = srv \/ srv' = Booted)
      BY <2>1, <2>2 DEF Unheard, Listening
    <2> QED
      BY <1>1, <1>2, <2>2, <2>3, QuietStep, BootedIs
  <1>6. CASE DiagReset
    <2>1. Keeps /\ srv' = Booted /\ phase = "reset"
      BY <1>6 DEF DiagReset, Unheard, Listening
    <2> QED
      BY <1>1, <2>1, QuietStep, BootedIs
  <1>7. CASE Expire
    <2>1. Keeps /\ srv' = Expired(srv)
      BY <1>7 DEF Expire, bootVars, busVars, Unheard, Listening, ToolInv
    <2> QED
      BY <1>2, <2>1, QuietStep, ExpiredIs
  <1> QED
    BY <1>3, <1>4, <1>5, <1>6, <1>7 DEF BootStep

LEMMA ResetsKeep ==
    ASSUME ToolInv, PowerLoss \/ UnknownReset \/ DebuggerReset
    PROVE  ToolInv'
  <1>1. /\ flash' \in CutShort /\ phase' = "start" /\ srv' = Booted /\ job' = NoJob
        /\ toEcu' = NoRequest /\ toTool' = toTool /\ tool' = tool
    BY DEF PowerLoss, UnknownReset, DebuggerReset, Disturbed
  <1>2. job = NoJob => flash' = flash
    BY <1>1 DEF CutShort, NoJob, NoWork
  <1>3. ToolTypes'
    BY <1>1, NoJobIs, BootedIs DEF ToolInv, ToolTypes, JobKinds
  <1>4. Unheard'
    BY <1>1 DEF Unheard
  <1>5. ToolFollows'
    BY <1>1, <1>2, ResetKeeps, BootedIs DEF ToolInv, ToolFollows
  <1> QED
    BY <1>3, <1>4, <1>5 DEF ToolInv

LEMMA DispatchKeeps ==
    ASSUME ToolInv, Dispatch
    PROVE  ToolInv'
  <1> DEFINE e == toEcu
             r == Handle(srv, e)
  <1>1. /\ srv \in ServerType /\ e \in RequestType /\ e # NoRequest /\ e.sid # "none" /\ job = NoJob
        /\ toTool \in Seq(AnswerType) /\ ToolShape(tool) /\ Follows(flash, srv.dl, NoJob, e, toTool, tool)
        /\ toEcu' = NoRequest /\ flash' = flash /\ tool' = tool
    BY DEF Dispatch, ToolInv, ToolTypes, ToolFollows
  <1>2. /\ r.u \in ServerType /\ r.nrc \in Nrcs
        /\ r.work # NoWork => /\ r.u = srv /\ Flashes(r.work)
                              /\ e.sid \in {"routine_control", "transfer_data"}
        /\ IsSession(e) => r.u = srv
    BY <1>1, HandleIs DEF Handled
  <1>3. Unheard'
    BY <1>1 DEF Unheard
  <1>4. ASSUME r.work = NoWork PROVE ToolInv'
    <2> DEFINE x == Answer(e, r.nrc, r.u)
    <2>1. srv' = (IF r.nrc = "none" THEN FollowUp(r.u, e) ELSE r.u) /\ job' = NoJob
          /\ toTool' = IF tool.kind = "idle" THEN toTool ELSE Append(toTool, x)
      BY <1>1, <1>4 DEF Dispatch, Respond
    <2>2. srv' \in ServerType /\ srv'.dl = r.u.dl
      <3> HIDE DEF r
      <3> QED
        BY <1>2, <2>1, FollowUpIs
    <2>3. x \in AnswerType /\ x.sid = e.sid /\ x.nrc = r.nrc
      BY <1>1, <1>2, AnswerIs
    <2>4. tool.kind = "flash" /\ tool.at \in 2 .. 8 /\ e = StepRequest(tool) /\ Ready(flash, srv.dl, tool)
             /\ x.nrc = "none" => Ready(flash, srv'.dl, Advanced(tool, x))
      <3> SUFFICES ASSUME tool.kind = "flash", tool.at \in 2 .. 8, e = StepRequest(tool),
                          Ready(flash, srv.dl, tool), x.nrc = "none"
                   PROVE  Ready(flash, r.u.dl, Advanced(tool, x))
        BY <2>2
      <3>1. Handle(srv, StepRequest(tool)).work = NoWork /\ Handle(srv, StepRequest(tool)).nrc = "none"
        BY <1>4, <2>3
      <3> HIDE DEF x
      <3>2. Ready(flash, Handle(srv, StepRequest(tool)).u.dl, Advanced(tool, x))
        BY <1>1, <2>3, <3>1, OwnAnswered
      <3> QED
        BY <3>2
    <2> HIDE DEF x, r
    <2>5. toTool' \in Seq(AnswerType)
      BY <1>1, <2>1, <2>3, Appended
    <2>6. ToolTypes'
      BY <1>1, <2>1, <2>2, <2>5, NoJobIs DEF ToolTypes, JobKinds
    <2>7. Follows(flash, srv'.dl, NoJob, NoRequest, toTool', tool)
      <3>1. CASE tool.kind = "idle"
        BY <3>1 DEF Follows
      <3>2. CASE tool.kind # "idle"
        <4>1. IsSession(e) => srv'.dl = srv.dl
          BY <1>2, <2>2 DEF r
        <4>2. Follows(flash, srv'.dl, NoJob, NoRequest, Append(toTool, x), tool)
          BY <1>1, <2>3, <2>4, <4>1, AnsweredKeeps
        <4> QED
          BY <2>1, <3>2, <4>2
      <3> QED
        BY <3>1, <3>2
    <2> QED
      BY <1>1, <1>3, <2>1, <2>6, <2>7 DEF ToolInv, ToolFollows
  <1>5. ASSUME r.work # NoWork PROVE ToolInv'
    <2> DEFINE j == [work |-> r.work, req |-> e]
    <2>1. srv' = srv /\ job' = j /\ toTool' = toTool
      BY <1>1, <1>2, <1>5 DEF Dispatch
    <2>2. j \in JobType /\ j.work.kind \in {"erase", "write", "check"}
          /\ j.req.sid \in {"routine_control", "transfer_data"}
      BY <1>1, <1>2, <1>5 DEF JobType, Flashes
    <2>3. ~IsSession(e)
      BY <1>2, <1>5 DEF IsSession
    <2>4. tool.kind = "flash" /\ tool.at \in 2 .. 8 /\ e = StepRequest(tool) /\ Ready(flash, srv.dl, tool)
             => Working(flash, srv.dl, j, tool)
      <3> SUFFICES ASSUME tool.kind = "flash", tool.at \in 2 .. 8, e = StepRequest(tool),
                          Ready(flash, srv.dl, tool)
                   PROVE  Working(flash, srv.dl, j, tool)
        OBVIOUS
      <3>1. Handle(srv, StepRequest(tool)).work # NoWork
        BY <1>5
      <3>2. Working(flash, srv.dl, [work |-> Handle(srv, StepRequest(tool)).work, req |-> StepRequest(tool)], tool)
        BY <1>1, <3>1, OwnTaken
      <3> QED
        BY <3>2
    <2> HIDE DEF j, r
    <2>5. ToolTypes'
      BY <1>1, <2>1, <2>2, NoJobIs DEF ToolTypes, JobKinds
    <2>6. Follows(flash, srv.dl, j, NoRequest, toTool, tool)
      BY <1>1, <2>3, <2>4, TakenKeeps
    <2> QED
      BY <1>1, <1>3, <2>1, <2>5, <2>6 DEF ToolInv, ToolFollows
  <1> QED
    BY <1>4, <1>5

\* A job that ends, well or badly.
LEMMA FinishKeeps ==
    ASSUME ToolInv, job # NoJob, NEW nrc \in Nrcs, NEW u \in ServerType, Finish(nrc, u),
           UNCHANGED <<toEcu, tool, phase>>,
           \A x \in AnswerType :
              tool.kind = "flash" /\ Working(flash, srv.dl, job, tool) /\ nrc = "none"
                => Ready(flash', u.dl, Advanced(tool, x))
    PROVE  ToolInv'
  <1> DEFINE x == Answer(job.req, nrc, u)
  <1>1. /\ job.req \in RequestType /\ job.req.sid \in {"routine_control", "transfer_data"}
        /\ toTool \in Seq(AnswerType) /\ ToolShape(tool)
        /\ Follows(flash, srv.dl, job, toEcu, toTool, tool)
    BY DEF ToolInv, ToolTypes, ToolFollows, JobKinds, JobType
  <1>2. /\ srv' = u /\ job' = NoJob /\ toEcu' = toEcu /\ tool' = tool
        /\ toTool' = IF tool.kind = "idle" THEN toTool ELSE Append(toTool, x)
    BY DEF Finish, Respond
  <1>3. x \in AnswerType /\ x.sid = job.req.sid /\ x.nrc = nrc
    BY <1>1, AnswerIs
  <1> HIDE DEF x
  <1>4. toTool' \in Seq(AnswerType)
    BY <1>1, <1>2, <1>3, Appended
  <1>5. ToolTypes'
    BY <1>2, <1>4, NoJobIs DEF ToolInv, ToolTypes, JobKinds
  <1>6. Unheard'
    BY <1>2 DEF ToolInv, Unheard, Listening
  <1>7. Follows(flash', u.dl, NoJob, toEcu, toTool', tool)
    <2>1. CASE tool.kind = "idle"
      BY <2>1 DEF Follows
    <2>2. CASE tool.kind # "idle"
      <3>1. ~IsSession(x)
        BY <1>1, <1>3 DEF IsSession
      <3>2. tool.kind = "flash" /\ Working(flash, srv.dl, job, tool) /\ x.nrc = "none"
              => Ready(flash', u.dl, Advanced(tool, x))
        BY <1>3
      <3>3. Follows(flash', u.dl, NoJob, toEcu, Append(toTool, x), tool)
        BY <1>1, <1>3, <3>1, <3>2, FinishedKeeps
      <3> QED
        BY <1>2, <2>2, <3>3
    <2> QED
      BY <2>1, <2>2
  <1> QED
    BY <1>2, <1>5, <1>6, <1>7 DEF ToolInv, ToolFollows

\* A job that gets on.
LEMMA JobKeeps ==
    ASSUME ToolInv, job # NoJob, job' \in JobType, job'.req = job.req, job'.work.kind = job.work.kind,
           UNCHANGED <<srv, toEcu, toTool, tool, phase>>,
           tool.kind = "flash" /\ Working(flash, srv.dl, job, tool) => Working(flash', srv.dl, job', tool)
    PROVE  ToolInv'
  <1>1. ToolTypes'
    BY DEF ToolInv, ToolTypes, JobKinds
  <1>2. Unheard'
    BY DEF ToolInv, Unheard, Listening
  <1>3. Follows(flash', srv.dl, job', toEcu, toTool, tool)
    BY ProgressKeeps DEF ToolInv, ToolFollows
  <1> QED
    BY <1>1, <1>2, <1>3 DEF ToolInv, ToolFollows

LEMMA FlashKeeps ==
    ASSUME ToolInv, EraseStep \/ WriteStep \/ FlashDone \/ CheckImage
    PROVE  ToolInv'
  <1> DEFINE pos == job.work.pos
  <1>1. /\ job \in JobType /\ srv \in ServerType /\ ToolShape(tool) /\ pos \in Nat /\ job.work.at \in Nat
        /\ job.req.b \in Nat
    BY DEF ToolInv, ToolTypes, JobType, WorkType, RequestType
  <1>2. job # NoJob /\ UNCHANGED <<toEcu, tool, phase>>
    BY DEF EraseStep, WriteStep, FlashDone, CheckImage, bootVars, NoJob, NoWork
  <1>3. "none" \in Nrcs /\ "programming_failure" \in Nrcs
    BY DEF Nrcs
  <1>4. ASSUME Finish("programming_failure", srv) PROVE ToolInv'
    BY <1>1, <1>2, <1>3, <1>4, FinishKeeps
  <1>5. CASE EraseStep
    <2>1. job.work.kind = "erase" /\ pos < job.work.end
      BY <1>5 DEF EraseStep
    <2>2. \/ Finish("programming_failure", srv)
          \/ /\ flash' = SectorErased(flash, job) /\ job' = JobTo(job, pos + SectorSize(pos))
             /\ UNCHANGED <<srv, toTool>>
      BY <1>5 DEF EraseStep, SectorErased, JobTo, Set, Changed
    <2>3. SectorSize(pos) \in Nat
      BY FlashAssumption DEF SectorSize
    <2>4. pos + SectorSize(pos) \in Nat
      BY <1>1, <2>3
    <2>5. LET k == JobTo(job, pos + SectorSize(pos))
          IN  k \in JobType /\ k.req = job.req /\ k.work.kind = job.work.kind
      BY <1>1, <2>4, JobMoved
    <2>6. Working(flash, srv.dl, job, tool)
            => Working(SectorErased(flash, job), srv.dl, JobTo(job, pos + SectorSize(pos)), tool)
      BY <1>1, <2>1, EraseMoves
    <2> HIDE DEF pos
    <2> QED
      BY <1>2, <1>4, <2>2, <2>5, <2>6, JobKeeps
  <1>6. CASE WriteStep
    <2>1. job.work.kind = "write" /\ pos < job.work.end
      BY <1>6 DEF WriteStep
    <2>2. \/ Finish("programming_failure", srv)
          \/ /\ flash' = RowWritten(flash, job) /\ job' = JobAt(job, pos + RowSize, job.work.at + RowSize)
             /\ UNCHANGED <<srv, toTool>>
      BY <1>6 DEF WriteStep, RowWritten, JobAt, Set, Changed
    <2>3. pos + RowSize \in Nat /\ job.work.at + RowSize \in Nat
      BY <1>1, Numbers
    <2>4. LET k == JobAt(job, pos + RowSize, job.work.at + RowSize)
          IN  k \in JobType /\ k.req = job.req /\ k.work.kind = job.work.kind
      <3> DEFINE n == pos + RowSize
                 m == job.work.at + RowSize
      <3>1. n \in Nat /\ m \in Nat
        BY <2>3
      <3> HIDE DEF n, m
      <3>2. job \in JobType
        BY <1>1
      <3>3. /\ JobAt(job, n, m) \in JobType
            /\ JobAt(job, n, m).req = job.req
            /\ JobAt(job, n, m).work.kind = job.work.kind
        BY <3>1, <3>2, JobMovedOn
      <3> QED
        BY <3>3 DEF n, m
    <2>5. tool.kind = "flash" /\ Working(flash, srv.dl, job, tool)
            => Working(RowWritten(flash, job), srv.dl, JobAt(job, pos + RowSize, job.work.at + RowSize), tool)
      BY <1>1, <2>1, WriteMoves
    <2> HIDE DEF pos
    <2> QED
      BY <1>2, <1>4, <2>2, <2>4, <2>5, JobKeeps
  <1>7. CASE FlashDone
    <2>1. /\ job.work.kind \in {"erase", "write"} /\ pos >= job.work.end /\ flash' = flash
          /\ Finish("none", IF job.work.kind = "write" THEN BlockWritten(srv, job.req.b) ELSE srv)
      BY <1>7 DEF FlashDone
    <2>2. CASE job.work.kind = "write"
      <3>1. Finish("none", BlockWritten(srv, job.req.b)) /\ BlockWritten(srv, job.req.b) \in ServerType
        BY <1>1, <2>1, <2>2, BlockWrittenIs
      <3>2. \A x \in AnswerType :
              tool.kind = "flash" /\ Working(flash, srv.dl, job, tool)
                => Ready(flash', BlockWritten(srv, job.req.b).dl, Advanced(tool, x))
        BY <1>1, <2>1, <2>2, OwnWritten
      <3> QED
        BY <1>2, <1>3, <3>1, <3>2, FinishKeeps
    <2>3. CASE job.work.kind = "erase"
      <3>1. Finish("none", srv)
        BY <2>1, <2>3
      <3>2. \A x \in AnswerType :
              tool.kind = "flash" /\ Working(flash, srv.dl, job, tool)
                => Ready(flash', srv.dl, Advanced(tool, x))
        BY <1>1, <2>1, <2>3, OwnErased
      <3> QED
        BY <1>1, <1>2, <1>3, <3>1, <3>2, FinishKeeps
    <2> QED
      BY <2>1, <2>2, <2>3
  <1>8. CASE CheckImage
    <2>1. job.work.kind = "check" /\ flash' = flash
          /\ (Finish("none", srv) \/ Finish("programming_failure", srv))
      BY <1>8 DEF CheckImage
    <2>2. \A x \in AnswerType :
            tool.kind = "flash" /\ Working(flash, srv.dl, job, tool)
              => Ready(flash', srv.dl, Advanced(tool, x))
      BY <1>1, <2>1, OwnChecked
    <2> QED
      BY <1>1, <1>2, <1>3, <1>4, <2>1, <2>2, FinishKeeps
  <1> QED
    BY <1>5, <1>6, <1>7, <1>8

LEMMA KindSet ==
    ASSUME NEW v \in ToolType, NEW k \in {"idle", "flash", "session", "security"}
    PROVE  LET u == [v EXCEPT !.kind = k]
           IN  u \in ToolType /\ u.kind = k /\ u.at = v.at /\ u.waits = v.waits
  BY DEF ToolType

LEMMA ImageSet ==
    ASSUME NEW v \in ToolType, NEW i \in Images
    PROVE  LET u == [v EXCEPT !.image = i]
           IN  u \in ToolType /\ u.kind = v.kind /\ u.image = i /\ u.at = v.at /\ u.waits = v.waits
  BY DEF ToolType

LEMMA StartedIs ==
    /\ \A i \in Images : LET t == [Idle EXCEPT !.kind = "flash", !.image = i]
                         IN  ToolShape(t) /\ t.kind = "flash" /\ t.at = 1 /\ ~t.waits
    /\ \A k \in {"session", "security"} : LET t == [Idle EXCEPT !.kind = k]
                                          IN  ToolShape(t) /\ t.kind # "flash"
  <1>0. Idle \in ToolType /\ Idle.at = 1 /\ ~Idle.waits
    BY DEF Idle, ToolType
  <1>1. ASSUME NEW i \in Images
        PROVE  LET t == [Idle EXCEPT !.kind = "flash", !.image = i]
               IN  ToolShape(t) /\ t.kind = "flash" /\ t.at = 1 /\ ~t.waits
    <2> DEFINE u == [Idle EXCEPT !.kind = "flash"]
               t == [u EXCEPT !.image = i]
    <2>1. t = [Idle EXCEPT !.kind = "flash", !.image = i]
      OBVIOUS
    <2>2. u \in ToolType /\ u.kind = "flash" /\ u.at = 1 /\ ~u.waits
      <3>1. "flash" \in {"idle", "flash", "session", "security"}
        OBVIOUS
      <3> QED
        BY <1>0, <3>1, KindSet
    <2> HIDE DEF u
    <2>3. t \in ToolType /\ t.kind = "flash" /\ t.image \in Images /\ t.at = 1 /\ ~t.waits
      BY <2>2, ImageSet
    <2> HIDE DEF t
    <2>4. ToolShape(t)
      BY <2>3, Lasts DEF ToolShape
    <2> QED
      BY <2>1, <2>3, <2>4
  <1>2. ASSUME NEW k \in {"session", "security"}
        PROVE  LET t == [Idle EXCEPT !.kind = k] IN ToolShape(t) /\ t.kind # "flash"
    <2> DEFINE t == [Idle EXCEPT !.kind = k]
    <2>1. t \in ToolType /\ t.kind = k /\ t.at = 1 /\ ~t.waits
      <3>1. k \in {"idle", "flash", "session", "security"}
        OBVIOUS
      <3> QED
        BY <1>0, <3>1, KindSet
    <2> HIDE DEF t
    <2>2. ToolShape(t) /\ t.kind # "flash"
      BY <2>1, Lasts DEF ToolShape
    <2> QED
      BY <2>2 DEF t
  <1> QED
    BY <1>1, <1>2

\* The tools.
LEMMA StartKeeps ==
    ASSUME ToolInv, StartTool
    PROVE  ToolInv'
  <1>1. /\ toTool' = <<>> /\ UNCHANGED <<flash, srv, job, toEcu, phase>>
    BY DEF StartTool, bootVars
  <1>2. ToolShape(tool') /\ (tool'.kind = "flash" => tool'.at = 1 /\ ~tool'.waits)
    BY StartedIs DEF StartTool
  <1>3. <<>> \in Seq(AnswerType) /\ Len(<<>>) = 0
    BY EmptySeq
  <1>4. ToolTypes'
    BY <1>1, <1>2, <1>3 DEF ToolInv, ToolTypes, JobKinds
  <1>5. Unheard'
    BY <1>1 DEF ToolInv, Unheard, Listening
  <1>6. Follows(flash, srv.dl, job, toEcu, <<>>, tool')
    BY <1>2, <1>3 DEF Follows, First
  <1> QED
    BY <1>1, <1>4, <1>5, <1>6 DEF ToolInv, ToolFollows

\* Waiting does not change what a tool asks for.
LEMMA WaitsIs ==
    ASSUME NEW t, ToolShape(t), t.kind # "idle"
    PROVE  LET u == [t EXCEPT !.waits = TRUE]
           IN  /\ ToolShape(u) /\ u.kind = t.kind /\ u.image = t.image /\ u.at = t.at
               /\ u.off = t.off /\ u.seq = t.seq /\ u.waits = TRUE /\ StepRequest(u) = StepRequest(t)
  <1> DEFINE u == [t EXCEPT !.waits = TRUE]
  <1>1. /\ u \in ToolType /\ u.kind = t.kind /\ u.image = t.image /\ u.at = t.at
        /\ u.off = t.off /\ u.seq = t.seq /\ u.seed = t.seed /\ u.waits = TRUE
    BY Waits DEF ToolShape
  <1> HIDE DEF u
  <1>2. ToolShape(u)
    BY <1>1 DEF ToolShape
  <1>3. StepRequest(u) = StepRequest(t)
    BY <1>1 DEF StepRequest
  <1> QED
    BY <1>1, <1>2, <1>3 DEF u

LEMMA SendKeeps ==
    ASSUME ToolInv, Send
    PROVE  ToolInv'
  <1>1. /\ tool.kind # "idle" /\ ~tool.waits /\ UNCHANGED <<flash, srv, job, toTool, phase>>
        /\ toEcu' = (IF Listening THEN StepRequest(tool) ELSE toEcu)
        /\ tool' = IF Expected(tool) THEN [tool EXCEPT !.waits = TRUE] ELSE Idle
    BY DEF Send, bootVars
  <1>2. /\ ToolShape(tool) /\ srv \in ServerType /\ job \in JobType /\ JobKinds
        /\ toTool \in Seq(AnswerType) /\ Follows(flash, srv.dl, job, toEcu, toTool, tool)
        /\ Unheard /\ toEcu \in RequestType
    BY DEF ToolInv, ToolTypes, ToolFollows
  <1>3. Proper(StepRequest(tool))
    BY <1>1, <1>2, RequestsTyped
  <1>4. toEcu' \in {NoRequest, StepRequest(tool)} /\ Unheard'
    BY <1>1, <1>2 DEF Unheard, Listening
  <1>5. CASE Expected(tool)
    <2>1. /\ ToolShape(tool') /\ tool'.kind = tool.kind /\ tool'.image = tool.image /\ tool'.at = tool.at
          /\ tool'.off = tool.off /\ tool'.seq = tool.seq /\ tool'.waits = TRUE
          /\ StepRequest(tool') = StepRequest(tool)
      BY <1>1, <1>2, <1>5, WaitsIs
    <2>2. tool.kind = "flash" => tool.at # 9
      <3>1. Script["flash"][9] = "reset"
        BY Scripts
      <3> QED
        BY <1>5, <3>1 DEF Expected
    <2>3. Follows(flash, srv.dl, job, toEcu', toTool, tool')
      <3>1. CASE tool.kind = "flash"
        BY <1>1, <1>2, <1>4, <2>1, <2>2, <3>1, SentKeeps
      <3>2. CASE tool.kind # "flash"
        BY <2>1, <3>2 DEF Follows
      <3> QED
        BY <3>1, <3>2
    <2>4. ToolTypes'
      BY <1>1, <1>2, <1>3, <1>4, <2>1, NoJobIs DEF ToolTypes, JobKinds, Proper
    <2> QED
      BY <1>1, <1>4, <2>3, <2>4 DEF ToolInv, ToolFollows
  <1>6. CASE ~Expected(tool)
    <2>1. tool' = Idle
      BY <1>1, <1>6
    <2>2. ToolTypes'
      BY <1>1, <1>2, <1>3, <1>4, <2>1, NoJobIs, IdleIsTool DEF ToolTypes, JobKinds, Proper
    <2>3. ToolFollows'
      BY <2>1, IdleIsTool DEF ToolFollows, Follows
    <2> QED
      BY <1>4, <2>2, <2>3 DEF ToolInv
  <1> QED
    BY <1>5, <1>6

LEMMA ReceiveKeeps ==
    ASSUME ToolInv, Receive
    PROVE  ToolInv'
  <1> DEFINE x == Head(toTool)
  <1>1. /\ tool.waits /\ toTool # <<>> /\ toTool' = Tail(toTool)
        /\ UNCHANGED <<flash, srv, job, toEcu, phase>>
    BY DEF Receive, bootVars
  <1>2. /\ ToolShape(tool) /\ srv \in ServerType /\ job \in JobType /\ JobKinds
        /\ toTool \in Seq(AnswerType) /\ Follows(flash, srv.dl, job, toEcu, toTool, tool)
        /\ Unheard /\ toEcu \in RequestType /\ (toEcu = NoRequest \/ toEcu.sid # "none")
    BY DEF ToolInv, ToolTypes, ToolFollows
  <1>3. x = toTool[1] /\ x \in AnswerType /\ Tail(toTool) \in Seq(AnswerType)
    BY <1>1, <1>2, Tailed
  <1>4. \/ tool' = Idle
        \/ tool' = Advanced(tool, x) /\ tool.kind = "flash" /\ x.nrc = "none" /\ x.sid = StepRequest(tool).sid
        \/ tool' = Advanced(tool, x) /\ tool.kind # "flash"
    BY DEF Receive
  <1> HIDE DEF x
  <1>5. ToolShape(tool') /\ Follows(flash, srv.dl, job, toEcu, Tail(toTool), tool')
    <2>1. CASE tool' = Idle
      BY <2>1, IdleIsTool DEF Follows
    <2>2. CASE /\ tool' = Advanced(tool, x) /\ tool.kind = "flash"
               /\ x.nrc = "none" /\ x.sid = StepRequest(tool).sid
      <3>2. tool.at # 9 /\ Follows(flash, srv.dl, job, toEcu, Tail(toTool), Advanced(tool, x))
        BY <1>1, <1>2, <1>3, <2>2, ReceivedKeeps
      <3>3. ToolShape(Advanced(tool, x))
        BY <1>2, <1>3, <2>2, <3>2, FlashAdvances
      <3> QED
        BY <2>2, <3>2, <3>3
    <2>3. CASE tool' = Advanced(tool, x) /\ tool.kind \in {"session", "security"}
      BY <1>2, <1>3, <2>3, ProbeAdvances DEF Follows
    <2>4. tool.kind \in {"flash", "session", "security"}
      <3>1. tool.kind \in {"idle", "flash", "session", "security"}
        BY <1>2 DEF ToolShape, ToolType
      <3>2. tool.kind # "idle"
        BY <1>1, <1>2 DEF ToolShape
      <3> QED
        BY <3>1, <3>2
    <2> QED
      BY <1>4, <2>1, <2>2, <2>3, <2>4
  <1>6. ToolTypes'
    BY <1>1, <1>2, <1>3, <1>5 DEF ToolTypes, JobKinds
  <1>7. Unheard'
    BY <1>1, <1>2 DEF Unheard, Listening
  <1> QED
    BY <1>1, <1>5, <1>6, <1>7 DEF ToolInv, ToolFollows

LEMMA LossKeeps ==
    ASSUME ToolInv, Timeout \/ LoseFrame
    PROVE  ToolInv'
  <1>1. UNCHANGED <<flash, srv, job, phase>>
    BY DEF Timeout, LoseFrame, bootVars
  <1>2. /\ ToolShape(tool) /\ srv \in ServerType /\ job \in JobType /\ JobKinds
        /\ toTool \in Seq(AnswerType) /\ Follows(flash, srv.dl, job, toEcu, toTool, tool)
        /\ Unheard /\ toEcu \in RequestType /\ (toEcu = NoRequest \/ toEcu.sid # "none")
    BY DEF ToolInv, ToolTypes, ToolFollows
  <1>3. CASE Timeout
    <2>1. tool' = Idle /\ UNCHANGED <<toEcu, toTool>>
      BY <1>3 DEF Timeout, busVars
    <2>2. ToolTypes'
      BY <1>1, <1>2, <2>1, IdleIsTool DEF ToolTypes, JobKinds
    <2>3. ToolFollows' /\ Unheard'
      BY <1>1, <1>2, <2>1, IdleIsTool DEF ToolFollows, Follows, Unheard, Listening
    <2> QED
      BY <2>2, <2>3 DEF ToolInv
  <1>4. CASE LoseFrame /\ toTool' = toTool
    <2>1. tool' = tool /\ toEcu' \in {toEcu, NoRequest}
      BY <1>4 DEF LoseFrame
    <2>2. Unheard'
      BY <1>1, <1>2, <2>1 DEF Unheard, Listening
    <2> QED
      BY <1>1, <1>2, <1>4, <2>1, <2>2, QuietStep
  <1>5. CASE LoseFrame /\ toTool' # toTool
    <2>1. tool' = tool /\ toEcu' = toEcu /\ toTool # <<>> /\ toTool' = Tail(toTool)
      BY <1>5 DEF LoseFrame
    <2>2. Tail(toTool) \in Seq(AnswerType) /\ Follows(flash, srv.dl, job, toEcu, Tail(toTool), tool)
      BY <1>2, <2>1, Tailed, LostKeeps
    <2>3. ToolTypes'
      BY <1>1, <1>2, <2>1, <2>2 DEF ToolTypes, JobKinds
    <2>4. ToolFollows' /\ Unheard'
      BY <1>1, <1>2, <2>1, <2>2 DEF ToolFollows, Unheard, Listening
    <2> QED
      BY <2>3, <2>4 DEF ToolInv
  <1> QED
    BY <1>3, <1>4, <1>5

LEMMA StepToolInv == IInv /\ ToolInv /\ [Next]_vars => ToolInv'
  <1>1. ASSUME IInv, ToolInv, Next PROVE ToolInv'
    <2>1. OnlyProgrammingWrites
      BY <1>1 DEF IInv
    <2> QED
      BY <1>1, <2>1, BootKeeps, ResetsKeep, DispatchKeeps, FlashKeeps, StartKeeps, SendKeeps, ReceiveKeeps,
         LossKeeps DEF Next, ServerStep, ToolStep
  <1>2. ASSUME ToolInv, UNCHANGED vars PROVE ToolInv'
    <2>1. /\ flash' = flash /\ job' = job /\ toTool' = toTool /\ tool' = tool /\ toEcu' = toEcu
          /\ srv' = srv /\ phase' = phase
      BY <1>2 DEF vars, bootVars, busVars
    <2>2. srv \in ServerType /\ Unheard
      BY <1>2 DEF ToolInv, ToolTypes
    <2>3. Unheard'
      BY <2>1, <2>2 DEF Unheard, Listening
    <2> QED
      BY <1>2, <2>1, <2>2, <2>3, QuietStep
  <1> QED
    BY <1>1, <1>2

\* What the flash tool counts on is so. A run that is past its session request has
\* at most one answer of an earlier run ahead of it, and that one ends the run; its
\* own request, job and answer follow each other, and flash holds what they say
\* (uds_flash.py request() and flash(), uds_server.c, uds_download.c).
THEOREM SpecToolInv == Spec => []ToolInv
  BY InitToolInv, StepToolInv, SpecIInv, PTL DEF Spec

\* When the flash tool goes on to the reset, the image it was told to write is in
\* flash, whatever was lost, refused or reset on the way (uds_flash.py flash(): every
\* step ends the run unless it is answered; uds_download.c transfer_data_handle).
THEOREM ToolIsAlwaysRight == Spec => []ToolIsRight
  <1>1. ToolInv => ToolIsRight
    <2> SUFFICES ASSUME ToolInv, tool.kind = "flash", tool.at = 9 PROVE Holds(flash, tool.image)
      BY DEF ToolIsRight
    <2>1. ToolShape(tool) /\ ~tool.waits /\ Ready(flash, srv.dl, tool)
      BY DEF ToolInv, ToolTypes, ToolFollows, Follows, Later
    <2> DEFINE i == tool.image
               len == Image[i].body + Trailer
    <2>2. i \in Images /\ FullLen(i) <= Size /\ Programmed(flash, i, FullLen(i))
      BY <2>1 DEF ToolShape, Ready
    <2>3. FullLen(i) \in Nat /\ len \in Nat /\ len <= FullLen(i) /\ Base \in Nat /\ Size \in Nat
      BY <2>2, Lengths, Numbers
    <2> HIDE DEF i
    <2>4. ASSUME NEW n \in 0 .. Image[i].body + Trailer - 1 PROVE flash[Base + n] = Cell(i, n)
      <3> DEFINE a == Base + n
      <3>0. n \in Nat /\ n < FullLen(i)
        <4>1. Image[i].body \in Nat /\ Trailer \in Nat
          BY <2>2, BootAssumption DEF ImageType
        <4> QED
          BY <2>3, <4>1
      <3>1. a \in Region /\ a < Base + FullLen(i) /\ a - Base = n
        BY <2>2, <2>3, <3>0 DEF Region
      <3> HIDE DEF a
      <3>2. flash[a] = Cell(i, a - Base)
        BY <2>2, <3>1 DEF Programmed
      <3> QED
        BY <3>1, <3>2 DEF a
    <2>5. \A n \in 0 .. Image[i].body + Trailer - 1 : flash[Base + n] = Cell(i, n)
      BY <2>4
    <2>6. Holds(flash, i)
      BY <2>5 DEF Holds
    <2> QED
      BY <2>6 DEF i
  <1> QED
    BY <1>1, SpecToolInv, PTL
-----------------------------------------------------------------------------
\* Type correctness. The counter and the crashes stop one above the threshold:
\* a boot that is going to count a crash finds at most the threshold.
Counts(c) == c \in {"software", "watchdog"} => breg.counter <= Threshold

Counted ==
    /\ breg.counter <= Threshold + 1 /\ crashes <= Threshold + 1
    /\ phase = "start" => Counts(cause)
    /\ phase \in {"noinit", "counter"} => Counts(boot.cause)

FlashTyped == flash \in [Region -> CellType]

Spent ==
    /\ calm \in BOOLEAN
    /\ faults \in 0 .. MaxFaults /\ runs \in 0 .. MaxRuns

TypeInv == Counted /\ FlashTyped /\ Spent

LEMMA CellIs ==
    /\ \A i \in Images \cup {"none"} : \A n \in Nat : Cell(i, n) \in CellType
    /\ Blank \in CellType /\ Torn \in CellType
  BY DEF Cell, CellType, Blank, Torn

LEMMA InitTypeInv == Init => TypeInv
  <1> SUFFICES ASSUME Init PROVE TypeInv
    OBVIOUS
  <1>1. Counted
    <2>1. breg.counter = 0 /\ crashes = 0 /\ Threshold \in Nat
      BY BootAssumption DEF Init
    <2> QED
      BY <2>1 DEF Counted, Counts
  <1>3. Spent
    <2>1. calm \in BOOLEAN
      BY DEF Init
    <2>2. faults = 0 /\ runs = 0
      BY DEF Init
    <2>3. faults \in 0 .. MaxFaults /\ runs \in 0 .. MaxRuns
      BY <2>2, Numbers
    <2> QED
      BY <2>1, <2>3 DEF Spent
  <1>2. FlashTyped
    <2>1. \A a \in Region : a - Base \in Nat
      BY Numbers DEF Region
    <2>2. \/ flash = [a \in Region |-> Blank]
          \/ \E i \in Images : flash = [a \in Region |-> IF a - Base < Image[i].body + Trailer
                                                        THEN Cell(i, a - Base) ELSE Blank]
      BY DEF Init
    <2> QED
      BY <2>1, <2>2, CellIs DEF FlashTyped
  <1> QED
    BY <1>1, <1>2, <1>3 DEF TypeInv

LEMMA CountedStep ==
    ASSUME IInv, Counted, Next
    PROVE  Counted'
  <1>1. /\ breg \in [magic : BOOLEAN, counter : Nat] /\ crashes \in Nat /\ Threshold \in Nat
        /\ phase \in {"start", "noinit", "counter", "decide", "programming", "reset", "app"}
        /\ phase = "app" => breg.counter <= Threshold /\ crashes <= breg.counter
    BY BootAssumption DEF IInv, BootType, Booting, Settled
  <1> USE DEF Counted, Counts
  <1>2. CASE ReadCause \/ ReconcileNoinit \/ Stay \/ Knocked
    <2>1. boot \in [cause : Causes, requested : BOOLEAN]
      BY DEF IInv, BootType
    <2>2. CASE ReadCause
      <3>1. boot'.cause = cause /\ phase = "start" /\ phase' = "noinit" /\ UNCHANGED <<breg, crashes>>
        BY <2>1, <2>2 DEF ReadCause
      <3> QED
        BY <1>1, <3>1
    <2>3. CASE ReconcileNoinit
      <3>1. boot'.cause = boot.cause /\ phase = "noinit" /\ phase' = "counter" /\ UNCHANGED <<breg, crashes>>
        BY <2>1, <2>3 DEF ReconcileNoinit
      <3> QED
        BY <1>1, <3>1
    <2>4. CASE Stay \/ Knocked
      <3>1. phase' = "programming" /\ UNCHANGED <<breg, crashes>>
        BY <2>4 DEF Stay, Knocked, EnterProgramming
      <3> QED
        BY <1>1, <3>1
    <2> QED
      BY <1>2, <2>2, <2>3, <2>4
  <1>3. CASE UpdateCounter
    <2>1. /\ breg'.counter = CounterUpdate(boot.cause, boot.requested, StoredCounter(breg))
          /\ phase = "counter" /\ phase' = "decide" /\ UNCHANGED <<boot, cause, crashes>>
      BY <1>3 DEF UpdateCounter
    <2>2. StoredCounter(breg) \in Nat /\ StoredCounter(breg) <= Threshold + 1
          /\ (boot.cause \in {"software", "watchdog"} => StoredCounter(breg) <= Threshold)
      BY <1>1, <2>1 DEF StoredCounter
    <2>3. breg'.counter <= Threshold + 1
      BY <1>1, <2>1, <2>2 DEF CounterUpdate
    <2> QED
      BY <1>1, <2>1, <2>3
  <1>4. CASE Validate
    <2>1. phase' \in {"app", "programming"} /\ UNCHANGED <<breg, crashes>>
      BY <1>4 DEF Validate, EnterProgramming
    <2> QED
      BY <1>1, <2>1
  <1>5. CASE Dispatch
    <2>1. phase = "programming" /\ phase' \in {"programming", "reset"} /\ UNCHANGED <<breg, crashes>>
      BY <1>5 DEF Dispatch
    <2> QED
      BY <1>1, <2>1
  <1>6. CASE DiagReset
    <2>1. breg'.counter = 0 /\ crashes' = 0 /\ phase' = "start"
      BY <1>1, <1>6 DEF DiagReset
    <2> QED
      BY <1>1, <2>1
  <1>7. CASE AppRequests
    BY <1>1, <1>7 DEF AppRequests
  <1>8. CASE AppCrashes
    <2>1. phase = "app" /\ crashes' = crashes + 1 /\ phase' = "start" /\ UNCHANGED breg
      BY <1>8 DEF AppCrashes
    <2> QED
      BY <1>1, <2>1
  <1>9. CASE PowerLoss \/ UnknownReset \/ DebuggerReset
    <2>1. /\ phase' = "start" /\ cause' \in {"power_on", "other", "debug"}
          /\ crashes' \in {0, crashes}
      BY <1>9 DEF PowerLoss, UnknownReset, DebuggerReset, Disturbed
    <2>2. breg' = breg \/ breg' = [breg EXCEPT !.magic = FALSE]
      BY <1>9 DEF PowerLoss, UnknownReset, DebuggerReset
    <2>3. breg'.counter = breg.counter
      BY <1>1, <2>2
    <2> QED
      BY <1>1, <2>1, <2>3
  <1>10. CASE \/ Expire \/ EraseStep \/ WriteStep \/ FlashDone \/ CheckImage
              \/ StartTool \/ Send \/ Receive \/ Timeout \/ LoseFrame
    <2>1. UNCHANGED bootVars
      BY <1>10 DEF Expire, EraseStep, WriteStep, FlashDone, CheckImage, StartTool, Send, Receive, Timeout, LoseFrame
    <2> QED
      BY <2>1 DEF bootVars
  <1> QED
    BY <1>2, <1>3, <1>4, <1>5, <1>6, <1>7, <1>8, <1>9, <1>10 DEF Next, BootStep, ServerStep, ToolStep

LEMMA SetTyped ==
    ASSUME FlashTyped, NEW cells, NEW at, \A a \in Region : a \in cells => at[a] \in CellType
    PROVE  Set(cells, at) \in [Region -> CellType]
  BY DEF FlashTyped, Set

LEMMA FlashTypedStep ==
    ASSUME FlashTyped, ToolInv, Next
    PROVE  FlashTyped'
  <1> DEFINE pos == job.work.pos
  <1>1. pos \in Nat /\ job.work.at \in Nat /\ job.req.image \in Images \cup {"none"}
    BY DEF ToolInv, ToolTypes, JobType, WorkType, RequestType
  <1>2. \A cells : Set(cells, [a \in Region |-> Blank]) \in [Region -> CellType]
    BY CellIs, SetTyped
  <1>3. \A cells : Set(cells, [a \in Region |-> Torn]) \in [Region -> CellType]
    BY CellIs, SetTyped
  <1>4. CASE EraseStep
    BY <1>2, <1>3, <1>4 DEF EraseStep, FlashTyped
  <1>5. CASE WriteStep
    <2> DEFINE data == [a \in Region |-> Cell(job.req.image, job.work.at + a - pos)]
               at == [a \in Region |-> IF flash[a] \in {Blank, data[a]} THEN data[a] ELSE Torn]
    <2>1. flash' = Set(Row(pos), at) \/ flash' = Set(Row(pos), [a \in Region |-> Torn])
      BY <1>5 DEF WriteStep
    <2>2. ASSUME NEW a \in Region, a \in Row(pos) PROVE at[a] \in CellType
      <3>1. job.work.at + a - pos \in Nat
        <4>1. a \in Int /\ pos <= a
          BY <1>1, <2>2, Numbers DEF Row, Region
        <4> QED
          BY <1>1, <4>1
      <3>2. data[a] \in CellType
        BY <1>1, <3>1, CellIs
      <3> HIDE DEF data
      <3> QED
        BY <3>2, CellIs
    <2> HIDE DEF at, pos
    <2>3. Set(Row(pos), at) \in [Region -> CellType]
      BY <2>2, SetTyped
    <2> QED
      BY <1>3, <2>1, <2>3 DEF FlashTyped
  <1>6. CASE PowerLoss \/ UnknownReset \/ DebuggerReset
    <2>1. flash' \in CutShort
      BY <1>6 DEF PowerLoss, UnknownReset, DebuggerReset, Disturbed
    <2>2. \/ flash' = flash
          \/ flash' = Set(Sector(pos), [a \in Region |-> Torn])
          \/ flash' = Set(Row(pos), [a \in Region |-> Torn])
      BY <2>1 DEF CutShort
    <2> QED
      BY <1>3, <2>2 DEF FlashTyped
  <1>7. ASSUME flash' = flash PROVE FlashTyped'
    BY <1>7 DEF FlashTyped
  <1>8. CASE BootStep \/ Dispatch \/ FlashDone \/ CheckImage \/ DiagReset \/ Expire \/ AppRequests \/ AppCrashes
    BY <1>7, <1>8 DEF BootStep, ReadCause, ReconcileNoinit, UpdateCounter, Stay, Knocked, Validate, Dispatch,
                      FlashDone, CheckImage, DiagReset, Expire, AppRequests, AppCrashes
  <1>9. CASE StartTool \/ Send \/ Receive \/ Timeout \/ LoseFrame
    BY <1>7, <1>9 DEF StartTool, Send, Receive, Timeout, LoseFrame
  <1> QED
    BY <1>4, <1>5, <1>6, <1>8, <1>9 DEF Next, ServerStep, ToolStep

LEMMA SpentStep ==
    ASSUME Spent, Next
    PROVE  Spent'
  <1>1. MaxFaults \in Nat /\ MaxRuns \in Nat
    BY Numbers
  <1>2. calm' \in BOOLEAN
    BY DEF Spent, Next, BootStep, ServerStep, ToolStep, ReadCause, ReconcileNoinit, UpdateCounter, Stay, Knocked,
           Validate, Unanswered, Expire, Dispatch, EraseStep, WriteStep, FlashDone, CheckImage, DiagReset,
           AppRequests, AppCrashes, PowerLoss, UnknownReset, DebuggerReset, Disturbed, StartTool, Send, Receive,
           Timeout, LoseFrame
  <1>3. faults' = faults \/ (faults < MaxFaults /\ faults' = faults + 1)
    BY DEF Next, BootStep, ServerStep, ToolStep, ReadCause, ReconcileNoinit, UpdateCounter, Stay, Knocked,
           Validate, Unanswered, Answering, Expire, Dispatch, EraseStep, WriteStep, FlashDone, CheckImage, DiagReset,
           AppRequests, AppCrashes, PowerLoss, UnknownReset, DebuggerReset, Disturbed, StartTool, Send, Receive,
           Timeout, LoseFrame
  <1>4. runs' = runs \/ (runs < MaxRuns /\ runs' = runs + 1)
    BY DEF Next, BootStep, ServerStep, ToolStep, ReadCause, ReconcileNoinit, UpdateCounter, Stay, Knocked,
           Validate, Expire, Dispatch, EraseStep, WriteStep, FlashDone, CheckImage, DiagReset,
           AppRequests, AppCrashes, PowerLoss, UnknownReset, DebuggerReset, Disturbed, StartTool, Send, Receive,
           Timeout, LoseFrame
  <1> QED
    BY <1>1, <1>2, <1>3, <1>4 DEF Spent

LEMMA StepTypeInv == IInv /\ ToolInv /\ TypeInv /\ [Next]_vars => TypeInv'
  <1>1. ASSUME IInv, ToolInv, TypeInv, Next PROVE TypeInv'
    BY <1>1, CountedStep, FlashTypedStep, SpentStep DEF TypeInv
  <1>2. ASSUME TypeInv, UNCHANGED vars PROVE TypeInv'
    BY <1>2 DEF TypeInv, Counted, Counts, FlashTyped, Spent, vars, bootVars
  <1> QED
    BY <1>1, <1>2

\* Every variable of Reprogramming keeps its type, and the boot-loop counter stops
\* one above the threshold (fbl_counter_update under the decision tree).
THEOREM ReprogrammingTypeCorrect == Spec => []TypeOK
  <1>1. Spec => []TypeInv
    BY InitTypeInv, StepTypeInv, SpecIInv, SpecToolInv, PTL DEF Spec
  <1>2. IInv /\ ToolInv /\ TypeInv => TypeOK
    <2> SUFFICES ASSUME IInv, ToolInv, TypeInv PROVE TypeOK
      OBVIOUS
    <2>1. /\ noinit \in Handshakes /\ cause \in Causes
          /\ phase \in {"start", "noinit", "counter", "decide", "programming", "reset", "app"}
          /\ boot \in [cause : Causes, requested : BOOLEAN] /\ asked \in BOOLEAN
          /\ breg \in [magic : BOOLEAN, counter : Nat] /\ crashes \in Nat
      BY DEF IInv, BootType
    <2>2. breg \in [magic : BOOLEAN, counter : 0 .. Threshold + 1] /\ crashes \in 0 .. Threshold + 1
      <3>1. breg.counter \in 0 .. Threshold + 1 /\ crashes \in 0 .. Threshold + 1
        BY <2>1, BootAssumption DEF TypeInv, Counted
      <3> QED
        BY <2>1, <3>1
    <2>3. srv \in ServerType /\ job \in JobType /\ toEcu \in RequestType /\ toTool \in Seq(AnswerType)
          /\ tool \in ToolType
      BY DEF ToolInv, ToolTypes, ToolShape
    <2>4. tool \in [kind : DOMAIN Script, image : Images \cup {"none"}, at : 1 .. 9, off : Nat,
                    seq : Nat, seed : Nat, waits : BOOLEAN]
      BY <2>3, Scripts DEF ToolType
    <2>5. /\ job \in [work : [kind : {"none", "erase", "write", "check"}, pos : Nat, end : Nat, at : Nat],
                      req : RequestType]
          /\ toTool \in Seq([sid : Services \cup {"unknown"}, nrc : Nrcs, seed : Nat])
      BY <2>3 DEF JobType, WorkType, AnswerType
    <2>6. /\ flash \in [Region -> CellType] /\ calm \in BOOLEAN
          /\ faults \in 0 .. MaxFaults /\ runs \in 0 .. MaxRuns
      BY DEF TypeInv, FlashTyped, Spent
    <2> QED
      BY <2>1, <2>2, <2>3, <2>4, <2>5, <2>6 DEF TypeOK
  <1> QED
    BY <1>1, <1>2, SpecIInv, SpecToolInv, PTL
=============================================================================
