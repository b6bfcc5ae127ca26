---------------------------- MODULE Reprogramming ----------------------------
(***************************************************************************)
(* Node A between its bootloader and its application: fbl_main.c with the  *)
(* boot decision, programming mode with the UDS server and the flash port, *)
(* the application's request to be reprogrammed, and the workstation tools *)
(* that talk to the bootloader (uds_flash.py and the two UDS probes).      *)
(*                                                                         *)
(* Power may go at any point. The CAN is a request slot and a queue of     *)
(* answers that may be lost; ISO-TP is the subject of the module IsoTp. A  *)
(* request that meets a busy server waits, and the last one is handled.    *)
(***************************************************************************)
EXTENDS BootDecision, UdsServer, Sequences

CONSTANTS
    BlockLen,       \* bytes of a transferData block, a multiple of the row
    Lifecycle,      \* what fbl_port_lifecycle reads
    MaxFaults,      \* bound on power losses, resets, failures and lost messages
    MaxRuns         \* bound on the runs of a tool

ASSUME ToolAssumption ==
    /\ BlockLen \in Nat \ {0} /\ BlockLen % RowSize = 0
    /\ Lifecycle \in Lifecycles
    /\ MaxFaults \in Nat /\ MaxRuns \in Nat

VARIABLES
    flash,          \* cells of the application region
    noinit,         \* the handshake of App and bootloader
    breg,           \* the backup registers: magic and boot-loop counter
    cause,          \* the reset-cause register
    phase,          \* where the application core is
    boot,           \* locals of fbl_run_boot: cause and programming_requested
    srv,            \* static variables of the UDS server
    job,            \* request whose flash work is under way
    toEcu,          \* request on the bus or in the receive FIFO
    toTool,         \* answers on the bus or in the driver of the tool
    tool,           \* the tool that runs, and where it is
    crashes,        \* history: crashes since a clean start
    asked,          \* history: the application asked to be reprogrammed
    calm,           \* history: nothing disturbed this run of the flash tool: no
                    \* frame was lost or mistaken, and nothing timed out
    faults, runs    \* spent of the bounds

bootVars == <<noinit, breg, cause, phase, boot, crashes, asked>>
busVars  == <<toEcu, toTool>>
vars == <<flash, bootVars, srv, job, busVars, tool, calm, faults, runs>>

NoRequest == Request("none", 0, 0, 0)
NoJob == [work |-> NoWork, req |-> NoRequest]
Blank == Cell("none", 0)
Torn  == Cell("none", 1)

Padded(n) == ((n + RowSize - 1) \div RowSize) * RowSize

\* Bytes of a download: build_download_image pads to whole rows.
FullLen(image) == Padded(Image[image].body + Trailer)

\* What flash() erases: whole large sectors.
EraseLen(image) == ((FullLen(image) + LargeSector - 1) \div LargeSector) * LargeSector

Script ==
    [idle     |-> <<>>,
     flash    |-> <<"session", "seed", "key", "erase", "download", "data", "exit", "check", "reset">>,
     session  |-> <<"session", "default", "unknown", "reset">>,
     security |-> <<"seed", "key", "again", "seed", "wrong", "key">>]

Idle == [kind |-> "idle", image |-> "none", at |-> 1, off |-> 0, seq |-> 0, seed |-> 0, waits |-> FALSE]

Min(a, b) == IF a < b THEN a ELSE b

\* The request of a step. The block counter of the tool is not bounded; the
\* byte on the wire is.
StepRequest(t) ==
    LET step == Script[t.kind][t.at]
    IN  CASE step = "session"  -> Request("session_control", 2, 0, 0)
          [] step = "default"  -> Request("session_control", 1, 0, 0)
          [] step = "unknown"  -> Request("unknown", 0, 0, 0)
          [] step = "seed"     -> Request("security_access", 1, 0, 0)
          [] step = "key"      -> Request("security_access", 2, t.seed, 0)
          [] step = "again"    -> Request("security_access", 2, 0, 0)
          [] step = "wrong"    -> Request("security_access", 2, t.seed + 1, 0)
          [] step = "erase"    -> Request("routine_control", Erase, Base, EraseLen(t.image))
          [] step = "download" -> Request("request_download", 0, Base, FullLen(t.image))
          [] step = "data"     -> [Request("transfer_data", t.seq % SeqMod, t.off,
                                           Min(BlockLen, FullLen(t.image) - t.off))
                                     EXCEPT !.image = t.image]
          [] step = "exit"     -> Request("transfer_exit", 0, 0, 0)
          [] step = "check"    -> Request("routine_control", Check, 0, 0)
          [] step = "reset"    -> Request("ecu_reset", 1, 0, 0)

\* The flash tool does not wait for the answer to its reset.
Expected(t) == ~(t.kind = "flash" /\ Script[t.kind][t.at] = "reset")

\* The tool after an answer it accepted.
Advanced(t, answer) ==
    LET step == Script[t.kind][t.at]
        off  == t.off + StepRequest(t).b
        u == CASE step = "seed"     -> [t EXCEPT !.seed = answer.seed, !.at = @ + 1]
               [] step = "download" -> [t EXCEPT !.seq = 1, !.off = 0, !.at = @ + 1]
               [] step = "data"     ->
                    IF off < FullLen(t.image)
                    THEN [t EXCEPT !.off = off, !.seq = @ + 1]
                    ELSE [t EXCEPT !.off = off, !.seq = @ + 1, !.at = @ + 1]
               [] OTHER             -> [t EXCEPT !.at = @ + 1]
    IN  IF u.at > Len(Script[t.kind]) THEN Idle ELSE [u EXCEPT !.waits = FALSE]

Init ==
    /\ flash \in {[a \in Region |-> Blank]} \cup
                 {[a \in Region |-> IF a - Base < Image[i].body + Trailer
                                    THEN Cell(i, a - Base) ELSE Blank] : i \in Images}
    /\ noinit = "invalid"
    /\ breg = [magic |-> FALSE, counter |-> 0]
    /\ cause = "power_on"
    /\ phase = "start"
    /\ boot = [cause |-> "power_on", requested |-> FALSE]
    /\ srv = Booted
    /\ job = NoJob
    /\ toEcu = NoRequest
    /\ toTool = <<>>
    /\ tool = Idle
    /\ crashes = 0
    /\ asked = FALSE
    /\ calm = FALSE
    /\ faults = 0
    /\ runs = 0
-----------------------------------------------------------------------------
(* The boot decision. *)

ReadCause ==
    /\ phase = "start"
    /\ boot' = [boot EXCEPT !.cause = cause]
    /\ cause' = "other"         \* the cleared register names no cause
    /\ phase' = "noinit"
    /\ UNCHANGED <<flash, noinit, breg, srv, job, busVars, tool, crashes, asked, calm, faults, runs>>

ReconcileNoinit ==
    /\ phase = "noinit"
    /\ noinit' = Reconciled(boot.cause, noinit)
    /\ boot' = [boot EXCEPT !.requested = noinit' = "programming_requested"]
    /\ phase' = "counter"
    /\ UNCHANGED <<flash, breg, cause, srv, job, busVars, tool, crashes, asked, calm, faults, runs>>

UpdateCounter ==
    /\ phase = "counter"
    /\ breg' = [magic   |-> TRUE,
                counter |-> CounterUpdate(boot.cause, boot.requested, StoredCounter(breg))]
    /\ phase' = "decide"
    /\ UNCHANGED <<flash, noinit, cause, boot, srv, job, busVars, tool, crashes, asked, calm, faults, runs>>

\* fbl_port_enter_programming_mode: everything of the server starts afresh.
EnterProgramming ==
    /\ phase' = "programming"
    /\ srv' = Booted

Stay ==
    /\ phase = "decide"
    /\ MustStay(boot.requested, breg.counter)
    /\ EnterProgramming
    /\ UNCHANGED <<flash, noinit, breg, cause, boot, job, busVars, tool, crashes, asked, calm, faults, runs>>

\* A frame of a tool during the dwell keeps the bootloader resident; the
\* dwell consumes the frame, so its tool gets no answer.
Knocked ==
    /\ phase = "decide"
    /\ ~MustStay(boot.requested, breg.counter)
    /\ boot.cause = "power_on" /\ KnockAllowed(Lifecycle)
    /\ toEcu # NoRequest
    /\ toEcu' = NoRequest
    /\ EnterProgramming
    /\ UNCHANGED <<flash, noinit, breg, cause, boot, job, toTool, tool, crashes, asked, calm, faults, runs>>

\* Whether the CM0+ answers. It may be dead, or late.
Answering == IF faults < MaxFaults THEN BOOLEAN ELSE {TRUE}
Unanswered(answered) ==
    /\ faults' = IF answered THEN faults ELSE faults + 1
    /\ calm' = (calm /\ answered)

\* No knock, or none in time: the image decides. The jump leaves the CAN
\* frames that nobody read behind.
Validate ==
    /\ phase = "decide"
    /\ ~MustStay(boot.requested, breg.counter)
    /\ \E answered \in Answering :
          /\ Unanswered(answered)
          /\ IF ImageValid(flash, answered)
             THEN /\ phase' = "app"
                  /\ toEcu' = NoRequest
                  /\ UNCHANGED srv
             ELSE /\ EnterProgramming
                  /\ UNCHANGED toEcu
    /\ UNCHANGED <<flash, noinit, breg, cause, boot, job, toTool, tool, crashes, asked, runs>>
-----------------------------------------------------------------------------
(* Programming mode. *)

\* isotp_send: somebody listens while a tool has the bus open.
Respond(req, nrc, u) ==
    toTool' = IF tool.kind = "idle" THEN toTool ELSE Append(toTool, Answer(req, nrc, u))

Expire ==
    /\ phase = "programming"
    /\ job = NoJob
    /\ srv.session # "default"
    /\ srv' = Expired(srv)
    /\ calm' = FALSE
    /\ UNCHANGED <<flash, bootVars, job, busVars, tool, faults, runs>>

\* uds_session_tick takes a request that needs no flash. An accepted
\* ECUReset is followed by EcuReset.
Dispatch ==
    /\ phase = "programming"
    /\ job = NoJob
    /\ toEcu # NoRequest
    /\ toEcu' = NoRequest
    /\ LET r == Handle(srv, toEcu)
       IN  IF r.work = NoWork
           THEN /\ srv' = IF r.nrc = "none" THEN FollowUp(r.u, toEcu) ELSE r.u
                /\ Respond(toEcu, r.nrc, r.u)
                /\ phase' = IF toEcu.sid = "ecu_reset" /\ r.nrc = "none" THEN "reset" ELSE phase
                /\ UNCHANGED job
           ELSE /\ srv' = r.u
                /\ job' = [work |-> r.work, req |-> toEcu]
                /\ UNCHANGED <<phase, toTool>>
    /\ UNCHANGED <<flash, noinit, breg, cause, boot, tool, crashes, asked, calm, faults, runs>>

Finish(nrc, u) ==
    /\ Respond(job.req, nrc, u)
    /\ srv' = u
    /\ job' = NoJob

Set(cells, at) == [a \in Region |-> IF a \in cells THEN at[a] ELSE flash[a]]

\* One sector of hal_erase_range.
EraseStep ==
    /\ job.work.kind = "erase" /\ job.work.pos < job.work.end
    /\ LET pos == job.work.pos
       IN  \/ /\ SectorFits(pos, job.work.end)
              /\ flash' = Set(Sector(pos), [a \in Region |-> Blank])
              /\ job' = [job EXCEPT !.work.pos = pos + SectorSize(pos)]
              /\ UNCHANGED <<srv, toTool, calm, faults>>
           \/ /\ ~SectorFits(pos, job.work.end)
              /\ Finish("programming_failure", srv)
              /\ UNCHANGED <<flash, calm, faults>>
           \/ /\ SectorFits(pos, job.work.end)
              /\ faults < MaxFaults
              /\ faults' = faults + 1
              /\ calm' = FALSE
              /\ flash' = Set(Sector(pos), [a \in Region |-> Torn])
              /\ Finish("programming_failure", srv)
    /\ UNCHANGED <<bootVars, toEcu, tool, runs>>

\* One row of hal_write; a failure leaves the row torn and the count alone.
WriteStep ==
    /\ job.work.kind = "write" /\ job.work.pos < job.work.end
    /\ LET pos  == job.work.pos
           data == [a \in Region |-> Cell(job.req.image, job.work.at + a - pos)]
       IN  \/ /\ flash' = Set(Row(pos), [a \in Region |->
                                IF flash[a] \in {Blank, data[a]} THEN data[a] ELSE Torn])
              /\ job' = [job EXCEPT !.work.pos = pos + RowSize, !.work.at = @ + RowSize]
              /\ UNCHANGED <<srv, toTool, calm, faults>>
           \/ /\ faults < MaxFaults
              /\ faults' = faults + 1
              /\ calm' = FALSE
              /\ flash' = Set(Row(pos), [a \in Region |-> Torn])
              /\ Finish("programming_failure", srv)
    /\ UNCHANGED <<bootVars, toEcu, tool, runs>>

FlashDone ==
    /\ job.work.kind \in {"erase", "write"} /\ job.work.pos >= job.work.end
    /\ Finish("none", IF job.work.kind = "write" THEN BlockWritten(srv, job.req.b) ELSE srv)
    /\ UNCHANGED <<flash, bootVars, toEcu, tool, calm, faults, runs>>

CheckImage ==
    /\ job.work.kind = "check"
    /\ \E answered \in Answering :
          /\ Unanswered(answered)
          /\ Finish(IF ImageValid(flash, answered) THEN "none" ELSE "programming_failure", srv)
    /\ UNCHANGED <<flash, bootVars, toEcu, tool, runs>>

\* fbl_diag_tick: the request and the counter are cleared before the reset.
DiagReset_KeepsCounter ==
    /\ phase = "reset"
    /\ noinit' = "boot_app"
    /\ cause' = "software"
    /\ phase' = "start"
    /\ srv' = Booted
    /\ toEcu' = NoRequest
    /\ asked' = FALSE
    /\ crashes' = 0
    /\ UNCHANGED <<flash, breg, boot, job, toTool, tool, calm, faults, runs>>

DiagReset ==
    /\ phase = "reset"
    /\ noinit' = "boot_app"
    /\ breg' = [breg EXCEPT !.counter = 0]
    /\ cause' = "software"
    /\ phase' = "start"
    /\ srv' = Booted
    /\ toEcu' = NoRequest
    /\ asked' = FALSE
    /\ crashes' = 0
    /\ UNCHANGED <<flash, boot, job, toTool, tool, calm, faults, runs>>
-----------------------------------------------------------------------------
(* The application, and what may happen to the ECU. *)

\* app_request_reprogram.
AppRequests ==
    /\ phase = "app"
    /\ noinit' = "programming_requested"
    /\ cause' = "software"
    /\ phase' = "start"
    /\ asked' = TRUE
    /\ crashes' = 0
    /\ calm' = FALSE
    /\ UNCHANGED <<flash, breg, boot, srv, job, busVars, tool, faults, runs>>

AppCrashes ==
    /\ phase = "app"
    /\ cause' \in {"software", "watchdog"}
    /\ phase' = "start"
    /\ crashes' = crashes + 1
    /\ calm' = FALSE
    /\ UNCHANGED <<flash, noinit, breg, boot, srv, job, busVars, tool, asked, faults, runs>>

\* A flash operation that is cut short leaves its sector or row torn.
CutShort ==
    CASE job.work.kind = "erase" /\ job.work.pos < job.work.end ->
            {flash, Set(Sector(job.work.pos), [a \in Region |-> Torn])}
      [] job.work.kind = "write" /\ job.work.pos < job.work.end ->
            {flash, Set(Row(job.work.pos), [a \in Region |-> Torn])}
      [] OTHER -> {flash}

\* The backup registers survive an external reset and may not survive a
\* loss of the supply; a warm reset by the debugger leaves everything.
Disturbed(c) ==
    /\ faults < MaxFaults
    /\ faults' = faults + 1
    /\ flash' \in CutShort
    /\ cause' = c
    /\ phase' = "start"
    /\ srv' = Booted
    /\ job' = NoJob
    /\ toEcu' = NoRequest
    /\ calm' = FALSE
    /\ UNCHANGED <<boot, toTool, tool, runs>>

PowerLoss ==
    /\ Disturbed("power_on")
    /\ noinit' = "invalid"
    /\ \/ UNCHANGED breg
       \/ breg' = [breg EXCEPT !.magic = FALSE]
    /\ crashes' = 0
    /\ asked' = FALSE

UnknownReset ==
    /\ phase \in {"programming", "app"}
    /\ Disturbed("other")
    /\ crashes' = 0
    /\ asked' = FALSE
    /\ UNCHANGED <<noinit, breg>>

DebuggerReset ==
    /\ phase \in {"programming", "app"}
    /\ Disturbed("debug")
    /\ UNCHANGED <<noinit, breg, crashes, asked>>
-----------------------------------------------------------------------------
(* The tools and the bus. *)

Listening == phase \notin {"app", "reset"}

StartTool ==
    /\ tool.kind = "idle"
    /\ runs < MaxRuns
    /\ runs' = runs + 1
    /\ \/ \E image \in Images : tool' = [Idle EXCEPT !.kind = "flash", !.image = image]
       \/ \E kind \in {"session", "security"} : tool' = [Idle EXCEPT !.kind = kind]
    /\ toTool' = <<>>
    /\ calm' = (phase = "programming" /\ job = NoJob /\ toEcu = NoRequest)
    /\ UNCHANGED <<flash, bootVars, srv, job, toEcu, faults>>

Send ==
    /\ tool.kind # "idle"
    /\ ~tool.waits
    /\ toEcu' = IF Listening THEN StepRequest(tool) ELSE toEcu
    /\ tool' = IF Expected(tool) THEN [tool EXCEPT !.waits = TRUE] ELSE Idle
    /\ UNCHANGED <<flash, bootVars, srv, job, toTool, calm, faults, runs>>

\* request() and flash() give up at a refusal and at an answer to something
\* else; the probes note it and go on.
Receive ==
    /\ tool.waits
    /\ toTool # <<>>
    /\ toTool' = Tail(toTool)
    /\ LET answer == Head(toTool)
           good == answer.nrc = "none" /\ answer.sid = StepRequest(tool).sid
       IN  tool' = IF good \/ tool.kind # "flash" THEN Advanced(tool, answer) ELSE Idle
    /\ UNCHANGED <<flash, bootVars, srv, job, toEcu, calm, faults, runs>>

\* The tool gives up; it disturbs itself if the answer was still to come.
Timeout ==
    /\ tool.waits
    /\ toTool = <<>>
    /\ tool' = Idle
    /\ calm' = FALSE
    /\ UNCHANGED <<flash, bootVars, srv, job, busVars, faults, runs>>

LoseFrame ==
    /\ faults < MaxFaults
    /\ faults' = faults + 1
    /\ calm' = FALSE
    /\ \/ toEcu # NoRequest /\ toEcu' = NoRequest /\ UNCHANGED toTool
       \/ toTool # <<>> /\ toTool' = Tail(toTool) /\ UNCHANGED toEcu
    /\ UNCHANGED <<flash, bootVars, srv, job, tool, runs>>

BootStep == ReadCause \/ ReconcileNoinit \/ UpdateCounter \/ Stay \/ Knocked \/ Validate
ServerStep == Dispatch \/ EraseStep \/ WriteStep \/ FlashDone \/ CheckImage \/ DiagReset
ToolStep == Send \/ Receive

Next ==
    \/ BootStep \/ ServerStep \/ Expire
    \/ AppRequests \/ AppCrashes
    \/ PowerLoss \/ UnknownReset \/ DebuggerReset
    \/ StartTool \/ ToolStep \/ Timeout \/ LoseFrame

\* The application core runs, and a tool that was started goes on.
Spec == Init /\ [][Next]_vars /\ WF_vars(BootStep) /\ WF_vars(ServerStep) /\ WF_vars(ToolStep)
-----------------------------------------------------------------------------
(* Properties. *)

CellType == [image : Images \cup {"none"}, at : Nat]

RequestType == [sid : Services \cup {"unknown", "none"}, sub : Nat, whole : BOOLEAN,
                a : Nat, b : Nat, image : Images \cup {"none"}]

\* Type correctness. The boot-loop counter never passes the threshold by
\* more than one: with it there, the application does not run to crash.
TypeOK ==
    /\ flash \in [Region -> CellType]
    /\ noinit \in Handshakes
    /\ breg \in [magic : BOOLEAN, counter : 0 .. Threshold + 1]
    /\ cause \in Causes
    /\ phase \in {"start", "noinit", "counter", "decide", "programming", "reset", "app"}
    /\ boot \in [cause : Causes, requested : BOOLEAN]
    /\ srv \in ServerType
    /\ job \in [work : [kind : {"none", "erase", "write", "check"}, pos : Nat, end : Nat, at : Nat],
                req : RequestType]
    /\ toEcu \in RequestType
    /\ toTool \in Seq([sid : Services \cup {"unknown"}, nrc : Nrcs, seed : Nat])
    /\ tool \in [kind : DOMAIN Script, image : Images \cup {"none"}, at : 1 .. 9, off : Nat,
                 seq : Nat, seed : Nat, waits : BOOLEAN]
    /\ crashes \in 0 .. Threshold + 1
    /\ asked \in BOOLEAN /\ calm \in BOOLEAN
    /\ faults \in 0 .. MaxFaults /\ runs \in 0 .. MaxRuns

\* While the application runs, flash holds a whole, signed image with sane
\* vectors, wherever downloads were cut short before
\* (fbl_app_image_valid; the write gate opens in programming mode only).
RunsWholeImage ==
    phase = "app" => \E i \in Images :
        /\ Holds(flash, i)
        /\ Image[i].signed
        /\ VectorSane(Image[i].msp, Image[i].reset)

\* An application that keeps crashing runs again at most Threshold times
\* before the bootloader keeps control (fbl_counter_update, D4 of ADR-0007).
CrashLoopEnds == phase = "app" => crashes <= Threshold

\* A request for programming is not lost on the way through the reset: the
\* application does not run again while it stands (ADR-0007 D1, D10).
RequestIsKept == phase = "app" => ~asked

\* The bootloader does not keep a good image from running without a reason:
\* a request, Threshold crashes, a knock, or a CM0+ that does not answer.
\* In particular not after the ECUReset of a download (ADR-0007 D10a).
NoNeedlessStay ==
    [][phase = "decide" /\ phase' = "programming" =>
          \/ asked
          \/ crashes >= Threshold
          \/ toEcu' # toEcu
          \/ faults' # faults
          \/ ~\E i \in Images : /\ Holds(flash, i) /\ Image[i].signed /\ HeaderSane(i)
                                /\ VectorSane(Image[i].msp, Image[i].reset)]_vars

\* When the flash tool goes on to the reset, the image it was told to write
\* is in flash: no refusal, late answer of an earlier run or restart of the
\* bootloader in between made it believe so (uds_flash.py, uds_download.c).
ToolIsRight == (tool.kind = "flash" /\ tool.at = 9) => Holds(flash, tool.image)

Good(i) == Image[i].signed /\ HeaderSane(i) /\ VectorSane(Image[i].msp, Image[i].reset)

\* A run of the flash tool that starts against an idle bootloader and is not
\* disturbed ends with the new image running, whatever runs before it left. A
\* frame of another node that isotp_poll reads as ISO-TP is a disturbance.
UndisturbedRunFlashes ==
    \A i \in Images :
        (Good(i) /\ calm /\ tool.kind = "flash" /\ tool.image = i)
            ~> (~calm \/ (phase = "app" /\ Holds(flash, i)))
=============================================================================
