-------------------------------- MODULE IsoTp --------------------------------
(***************************************************************************)
(* The ISO-TP transport of the bootloader (isotp.c) over its CAN port, and *)
(* the tool at the other end (UdsClient of uds_flash.py): single, first,   *)
(* consecutive and flow-control frames on an ordered bus that may lose     *)
(* frames, a bounded receive FIFO, and timeouts on both sides.             *)
(*                                                                         *)
(* The tool takes the frames of the ECU only (_recv_frame). The bootloader *)
(* takes what comes: its controller accepts every identifier into the FIFO *)
(* (design.modus), and neither the port nor isotp.c looks at it. So the    *)
(* frames that other nodes send meanwhile are read as ISO-TP: Foreign.     *)
(*                                                                         *)
(* The content of a message is its number and, per frame, its part; its    *)
(* length is kept, because the receiver derives from it how much of a      *)
(* frame is payload. isotp_poll drains the FIFO before anything is taken,  *)
(* so Take and RxTimeout need it empty.                                    *)
(***************************************************************************)
EXTENDS Integers, Sequences

CONSTANTS
    Kinds,          \* kinds of requests
    Length,         \* bytes of a request of each kind
    AnswerLength,   \* bytes of its answer
    Silent,         \* kinds whose answer the tool does not wait for
    Scripts,        \* what the tool may send in one run
    Foreign,        \* frames of other nodes, as isotp_poll reads them
    SingleMax, FirstLen, ChunkLen,  \* 62, 59 and 63 bytes
    MaxPayload,     \* ISOTP_MAX_PAYLOAD
    BlockSize,      \* ISOTP_BLOCK_SIZE
    SeqMod,         \* 16: the sequence number is a nibble
    FifoSize,       \* elements of the receive FIFO
    MaxForeign,     \* bound on frames of other nodes
    MaxLost,        \* bound on lost frames
    MaxRuns         \* bound on runs of the tool

\* What isotp_poll tells apart: SF, FF, CF, flow control that is clear to send
\* (FC) or says overflow (OVF), and what it does nothing about (flow control that
\* says wait, and unknown types).
FrameTypes == {"SF", "FF", "CF", "FC", "OVF", "none"}

ASSUME IsoTpAssumption ==
    /\ Length \in [Kinds -> Nat \ {0}] /\ AnswerLength \in [Kinds -> Nat \ {0}]
    /\ Silent \subseteq Kinds
    /\ \A s \in Scripts : s \in Seq(Kinds) /\ s # <<>>
    /\ ChunkLen \in Nat \ {0} /\ MaxPayload \in Nat /\ SingleMax \in 0 .. MaxPayload
    /\ FirstLen \in 1 .. SingleMax
    /\ BlockSize \in Nat /\ BlockSize <= 255 /\ SeqMod \in Nat \ {0} /\ FifoSize \in Nat \ {0}
    /\ MaxForeign \in Nat /\ MaxLost \in Nat /\ MaxRuns \in Nat
    /\ \A f \in Foreign :
         /\ f \in [type : FrameTypes, msg : {0}, part : {0}, n : Nat]
         /\ f.type = "SF" => f.n <= MaxPayload
         /\ f.type = "FC" => f.n <= 255

VARIABLES
    rx,             \* g_state and the reassembly variables of isotp.c
    tx,             \* its segmentation variables
    fifo,           \* frames in the receive FIFO, in order
    wire,           \* frames from the ECU that the tool has not read
    tool,           \* where UdsClient is
    offered,        \* messages the tool began to send
    kindOf,         \* what they are
    taken,          \* the last message of the tool handed to the server
    takes,          \* how many of them were
    strays,         \* how many messages of other nodes were
    intruded,       \* first frames of other nodes that isotp_poll has read
    calm,           \* history: nothing disturbed this run of the tool, frames
                    \* of other nodes included
    alone,          \* history: no frame of another node since the FIFO was
                    \* empty and no message under way at the start of a run
    lost, foreign, runs      \* spent of the bounds

ecuVars  == <<rx, tx, taken, takes, strays, intruded>>
toolVars == <<tool, offered, kindOf, runs>>
pastVars == <<calm, alone>>
busVars  == <<lost, foreign>>
isoVars == <<ecuVars, fifo, wire, toolVars, pastVars, busVars>>

Min(a, b) == IF a < b THEN a ELSE b

CanFrame(type, msg, part, n) == [type |-> type, msg |-> msg, part |-> part, n |-> n]
FlowControl(bs) == CanFrame("FC", 0, 0, bs)
NoLimit == 65535     \* UINT16_MAX: more frames than there are

\* The part of a message that its k-th consecutive frame carries.
Consecutive(msg, k) == CanFrame("CF", msg, k, k % SeqMod)

\* Consecutive frames of a message of len bytes.
Chunks(len) == (len - FirstLen + ChunkLen - 1) \div ChunkLen

\* The content of a message of len bytes, frame by frame.
Content(msg, len) ==
    IF len <= SingleMax THEN <<<<msg, 0>>>>
    ELSE [k \in 1 .. Chunks(len) + 1 |-> <<msg, k - 1>>]

NoTool == [stage |-> "idle", script |-> <<>>, at |-> 1, k |-> 0, got |-> 0, total |-> 0, from |-> 0]

IsoInit ==
    /\ rx = [state |-> "idle", buf |-> <<>>, received |-> 0, total |-> 0, next |-> 0,
             complete |-> FALSE]
    /\ tx = [msg |-> 0, total |-> 0, sent |-> 0, k |-> 0, pending |-> FALSE, block |-> 0]
    /\ fifo = <<>>
    /\ wire = <<>>
    /\ tool = NoTool
    /\ offered = 0
    /\ kindOf = <<>>
    /\ taken = <<>>
    /\ takes = 0
    /\ strays = 0
    /\ intruded = 0
    /\ calm = FALSE
    /\ alone = TRUE
    /\ lost = 0
    /\ foreign = 0
    /\ runs = 0
-----------------------------------------------------------------------------
(* isotp.c. *)

\* tx_send_block: frames from where the transmission is, as far as the block
\* allows.
BlockFrames(t) == Min(t.block, (t.total - t.sent + ChunkLen - 1) \div ChunkLen)

SentBlock(t) ==
    LET n    == BlockFrames(t)
        sent == Min(t.sent + n * ChunkLen, t.total)
    IN  [t EXCEPT !.sent = sent, !.k = @ + n, !.block = @ - n,
                  !.pending = @ /\ sent < t.total]

HandleSf(f) ==
    /\ rx' = [rx EXCEPT !.buf = <<<<f.msg, f.part>>>>, !.received = f.n,
                        !.complete = TRUE, !.state = "complete"]
    /\ UNCHANGED <<tx, wire>>

HandleFf_KeepsSequence(f) ==
    IF f.n > MaxPayload
    THEN rx' = [rx EXCEPT !.state = "overflow"] /\ UNCHANGED <<tx, wire>>
    ELSE /\ rx' = [rx EXCEPT !.buf = <<<<f.msg, f.part>>>>, !.received = FirstLen, !.total = f.n,
                             !.state = "in_progress"]
         /\ wire' = Append(wire, FlowControl(BlockSize))
         /\ UNCHANGED tx

HandleFf_KeepsReceived(f) ==
    IF f.n > MaxPayload
    THEN rx' = [rx EXCEPT !.state = "overflow"] /\ UNCHANGED <<tx, wire>>
    ELSE /\ rx' = [rx EXCEPT !.buf = <<<<f.msg, f.part>>>>, !.total = f.n,
                             !.next = 1 % SeqMod, !.state = "in_progress"]
         /\ wire' = Append(wire, FlowControl(BlockSize))
         /\ UNCHANGED tx

\* A message that is complete and not yet taken is overwritten, and stays
\* marked complete.
HandleFf(f) ==
    IF f.n > MaxPayload
    THEN rx' = [rx EXCEPT !.state = "overflow"] /\ UNCHANGED <<tx, wire>>
    ELSE /\ rx' = [rx EXCEPT !.buf = <<<<f.msg, f.part>>>>, !.received = FirstLen, !.total = f.n,
                             !.next = 1 % SeqMod, !.state = "in_progress"]
         /\ wire' = Append(wire, FlowControl(BlockSize))
         /\ UNCHANGED tx

Extended(f) ==
    LET received == Min(rx.received + ChunkLen, rx.total)
        done     == received >= rx.total
    IN  [rx EXCEPT !.buf = Append(@, <<f.msg, f.part>>), !.received = received,
                   !.next = (@ + 1) % SeqMod,
                   !.complete = @ \/ done,
                   !.state = IF done THEN "complete" ELSE @]

HandleCf(f) ==
    /\ rx' = CASE rx.state # "in_progress" -> rx
               [] rx.state = "in_progress" /\ f.n # rx.next -> [rx EXCEPT !.state = "error"]
               [] OTHER -> Extended(f)
    /\ UNCHANGED <<tx, wire>>

HandleFc_FromZero(f) ==
    /\ IF tx.pending
       THEN LET t == [tx EXCEPT !.block = IF f.n = 0 THEN NoLimit ELSE f.n]
            IN  /\ tx' = SentBlock(t)
                /\ wire' = wire \o [i \in 1 .. BlockFrames(t) |-> Consecutive(t.msg, t.k + i - 1)]
       ELSE UNCHANGED <<tx, wire>>
    /\ UNCHANGED rx

\* Clear to send; the block size 0 means no limit.
HandleFc(f) ==
    /\ IF tx.pending
       THEN LET t == [tx EXCEPT !.block = IF f.n = 0 THEN NoLimit ELSE f.n]
            IN  /\ tx' = SentBlock(t)
                /\ wire' = wire \o [i \in 1 .. BlockFrames(t) |-> Consecutive(t.msg, t.k + i)]
       ELSE UNCHANGED <<tx, wire>>
    /\ UNCHANGED rx

\* Flow control that says overflow gives up the transmission.
HandleOverflow ==
    /\ tx.pending
    /\ tx' = [tx EXCEPT !.pending = FALSE]
    /\ rx' = [rx EXCEPT !.state = "overflow"]
    /\ UNCHANGED wire

\* The first frame of a message of another node.
Intrudes(f) == f.type \in {"SF", "FF"} /\ f.msg = 0

\* One turn of the loop of isotp_poll.
PollFrame ==
    /\ fifo # <<>>
    /\ fifo' = Tail(fifo)
    /\ LET f == Head(fifo)
       IN  /\ \/ f.type = "SF" /\ HandleSf(f)
              \/ f.type = "FF" /\ HandleFf(f)
              \/ f.type = "CF" /\ HandleCf(f)
              \/ f.type = "FC" /\ HandleFc(f)
              \/ f.type = "OVF" /\ HandleOverflow
              \/ (f.type = "OVF" => ~tx.pending) /\ f.type \in {"OVF", "none"} /\ UNCHANGED <<rx, tx, wire>>
           /\ intruded' = IF Intrudes(f) THEN intruded + 1 ELSE intruded
    /\ UNCHANGED <<taken, takes, strays, toolVars, pastVars, busVars>>

RxTimeout_ConsecutiveOnly ==
    /\ fifo = <<>>
    /\ rx.state = "in_progress" /\ rx.received > FirstLen
    /\ rx' = [rx EXCEPT !.state = "timeout"]
    /\ calm' = FALSE
    /\ UNCHANGED <<tx, taken, takes, strays, intruded, fifo, wire, toolVars, alone, busVars>>

\* N_Cr passed since the last frame of the reception.
RxTimeout ==
    /\ fifo = <<>>
    /\ rx.state = "in_progress"
    /\ rx' = [rx EXCEPT !.state = "timeout"]
    /\ calm' = FALSE
    /\ UNCHANGED <<tx, taken, takes, strays, intruded, fifo, wire, toolVars, alone, busVars>>

\* isotp_send. What meets a pending transmission is refused.
Send(msg, len) ==
    IF len > MaxPayload \/ tx.pending
    THEN UNCHANGED <<tx, wire>>
    ELSE IF len <= SingleMax
         THEN wire' = Append(wire, CanFrame("SF", msg, 0, len)) /\ UNCHANGED tx
         ELSE /\ wire' = Append(wire, CanFrame("FF", msg, 0, len))
              /\ tx' = [msg |-> msg, total |-> len, sent |-> FirstLen, k |-> 0,
                        pending |-> TRUE, block |-> 0]

\* A message begun by a frame of another node is answered in one frame.
AnswerOf(msg) == IF msg = 0 THEN 1 ELSE AnswerLength[kindOf[msg]]

Take_KeepsComplete ==
    /\ fifo = <<>>
    /\ rx.complete
    /\ rx' = [rx EXCEPT !.state = "idle"]
    /\ LET msg == rx.buf[1][1]
       IN  \/ /\ rx.received > 0
              /\ IF msg = 0 THEN strays' = strays + 1 /\ UNCHANGED <<taken, takes>>
                 ELSE taken' = rx.buf /\ takes' = takes + 1 /\ UNCHANGED strays
              /\ Send(msg, AnswerOf(msg))
           \/ rx.received = 0 /\ UNCHANGED <<taken, takes, strays, tx, wire>>
    /\ UNCHANGED <<intruded, fifo, toolVars, pastVars, busVars>>

\* isotp_take_received and the answer of uds_session_tick, which drops a message
\* of no bytes.
Take ==
    /\ fifo = <<>>
    /\ rx.complete
    /\ rx' = [rx EXCEPT !.complete = FALSE, !.state = "idle"]
    /\ LET msg == rx.buf[1][1]
       IN  \/ /\ rx.received > 0
              /\ IF msg = 0 THEN strays' = strays + 1 /\ UNCHANGED <<taken, takes>>
                 ELSE taken' = rx.buf /\ takes' = takes + 1 /\ UNCHANGED strays
              /\ Send(msg, AnswerOf(msg))
           \/ rx.received = 0 /\ UNCHANGED <<taken, takes, strays, tx, wire>>
    /\ UNCHANGED <<intruded, fifo, toolVars, pastVars, busVars>>
-----------------------------------------------------------------------------
(* UdsClient. *)

Kind == tool.script[tool.at]

\* A frame of the tool. The FIFO does not take what it has no room for.
Post(f) ==
    IF Len(fifo) < FifoSize
    THEN fifo' = Append(fifo, f) /\ UNCHANGED calm
    ELSE calm' = FALSE /\ UNCHANGED fifo

\* The next request of the script, or the end of the run.
Proceed(t) ==
    IF t.at = Len(t.script) THEN NoTool
    ELSE [NoTool EXCEPT !.stage = "send", !.script = t.script, !.at = t.at + 1]

AfterRequest(t) == IF Kind \in Silent THEN Proceed(t) ELSE [t EXCEPT !.stage = "answer"]

StartRun ==
    /\ tool.stage = "idle"
    /\ runs < MaxRuns
    /\ runs' = runs + 1
    /\ \E s \in Scripts : tool' = [NoTool EXCEPT !.stage = "send", !.script = s]
    /\ wire' = <<>>
    /\ calm' = (fifo = <<>> /\ ~rx.complete /\ ~tx.pending)
    /\ alone' = (alone \/ (fifo = <<>> /\ ~rx.complete /\ rx.state # "in_progress"))
    /\ UNCHANGED <<ecuVars, fifo, offered, kindOf, busVars>>

SendFirst ==
    /\ tool.stage = "send"
    /\ offered' = offered + 1
    /\ kindOf' = Append(kindOf, Kind)
    /\ IF Length[Kind] <= SingleMax
       THEN /\ Post(CanFrame("SF", offered', 0, Length[Kind]))
            /\ tool' = AfterRequest(tool)
       ELSE /\ Post(CanFrame("FF", offered', 0, Length[Kind]))
            /\ tool' = [tool EXCEPT !.stage = "flow"]
    /\ UNCHANGED <<ecuVars, wire, runs, alone, busVars>>

\* One flow control is awaited, and its block size is not looked at.
GetFlowControl ==
    /\ tool.stage = "flow"
    /\ wire # <<>>
    /\ wire' = Tail(wire)
    /\ tool' = IF Head(wire).type = "FC" THEN [tool EXCEPT !.stage = "rest", !.k = 1] ELSE NoTool
    /\ UNCHANGED <<ecuVars, fifo, offered, kindOf, runs, pastVars, busVars>>

SendRest ==
    /\ tool.stage = "rest"
    /\ Post(Consecutive(offered, tool.k))
    /\ tool' = IF tool.k = Chunks(Length[Kind]) THEN AfterRequest(tool) ELSE [tool EXCEPT !.k = @ + 1]
    /\ UNCHANGED <<ecuVars, wire, offered, kindOf, runs, alone, busVars>>

\* request() goes on if the answer names the service that was asked for, which
\* the answer to a message of another node may do by accident.
Answered(t, msg) == IF kindOf[msg] = Kind THEN Proceed(t) ELSE NoTool

GetAnswer ==
    /\ tool.stage = "answer"
    /\ wire # <<>>
    /\ wire' = Tail(wire)
    /\ LET f == Head(wire)
       IN  \/ /\ f.type = "SF" /\ f.msg # 0
              /\ tool' = Answered(tool, f.msg)
              /\ UNCHANGED <<fifo, calm>>
           \/ /\ f.type = "SF" /\ f.msg = 0
              /\ tool' \in {Proceed(tool), NoTool}
              /\ UNCHANGED <<fifo, calm>>
           \/ /\ f.type = "FF"
              /\ tool' = [tool EXCEPT !.stage = "collect", !.k = 1, !.got = FirstLen,
                                      !.total = f.n, !.from = f.msg]
              /\ Post(FlowControl(BlockSize))
           \/ /\ f.type \in {"CF", "FC"}
              /\ tool' = NoTool
              /\ UNCHANGED <<fifo, calm>>
    /\ UNCHANGED <<ecuVars, offered, kindOf, runs, alone, busVars>>

Collect ==
    /\ tool.stage = "collect"
    /\ wire # <<>>
    /\ wire' = Tail(wire)
    /\ LET f   == Head(wire)
           got == Min(tool.got + ChunkLen, tool.total)
       IN  tool' = IF f.type # "CF" \/ f.n # tool.k % SeqMod THEN NoTool
                   ELSE IF got >= tool.total THEN Answered(tool, tool.from)
                   ELSE [tool EXCEPT !.got = got, !.k = @ + 1]
    /\ UNCHANGED <<ecuVars, fifo, offered, kindOf, runs, pastVars, busVars>>

\* _recv_frame finds nothing in time, or somebody stops the tool.
ToolGivesUp ==
    /\ tool.stage # "idle"
    /\ tool.stage \in {"flow", "answer", "collect"} => wire = <<>>
    /\ tool' = NoTool
    /\ calm' = FALSE
    /\ UNCHANGED <<ecuVars, fifo, wire, offered, kindOf, runs, alone, busVars>>
-----------------------------------------------------------------------------
LoseFrame ==
    /\ lost < MaxLost
    /\ lost' = lost + 1
    /\ calm' = FALSE
    /\ \/ fifo # <<>> /\ fifo' = Tail(fifo) /\ UNCHANGED wire
       \/ wire # <<>> /\ wire' = Tail(wire) /\ UNCHANGED fifo
    /\ UNCHANGED <<ecuVars, toolVars, alone, foreign>>

\* Another node sends, and there is room in the FIFO.
ForeignFrame ==
    /\ foreign < MaxForeign
    /\ Len(fifo) < FifoSize
    /\ foreign' = foreign + 1
    /\ \E f \in Foreign : fifo' = Append(fifo, f)
    /\ calm' = FALSE
    /\ alone' = FALSE
    /\ UNCHANGED <<ecuVars, wire, toolVars, lost>>

ToolStep == SendFirst \/ GetFlowControl \/ SendRest \/ GetAnswer \/ Collect

IsoNext ==
    \/ PollFrame \/ RxTimeout \/ Take
    \/ StartRun \/ ToolStep \/ ToolGivesUp
    \/ LoseFrame \/ ForeignFrame

\* The super-loop polls, its clock runs, and a tool that was started goes on.
IsoSpec ==
    /\ IsoInit /\ [][IsoNext]_isoVars
    /\ WF_isoVars(PollFrame) /\ WF_isoVars(Take) /\ WF_isoVars(RxTimeout) /\ WF_isoVars(ToolStep)
-----------------------------------------------------------------------------
(* Properties. *)

Cells == (0 .. offered) \X Nat

\* Type correctness. In particular what was received never passes the
\* payload buffer, whatever frames of whatever messages follow each other.
IsoTypeOK ==
    /\ rx.state \in {"idle", "in_progress", "complete", "error", "overflow", "timeout"}
    /\ rx.buf \in Seq(Cells)
    /\ rx.received \in 0 .. MaxPayload /\ rx.total \in 0 .. MaxPayload
    /\ rx.next \in 0 .. SeqMod - 1 /\ rx.complete \in BOOLEAN
    /\ tx.sent \in 0 .. tx.total /\ tx.total \in 0 .. MaxPayload
    /\ tx.pending \in BOOLEAN /\ tx.block \in 0 .. NoLimit
    /\ Len(fifo) <= FifoSize
    /\ tool.stage \in {"idle", "send", "flow", "rest", "answer", "collect"}
    /\ kindOf \in Seq(Kinds) /\ Len(kindOf) = offered
    /\ takes \in Nat /\ strays \in Nat /\ intruded \in Nat
    /\ lost \in 0 .. MaxLost /\ foreign \in 0 .. MaxForeign /\ runs \in 0 .. MaxRuns

\* The scripts of the tools of the repository: the first two requests fit one
\* frame and ask for different services (a session and a seed), longer ones
\* come after both, and only the last one (ECUReset) is not waited for.
Long(kind) == Length[kind] > SingleMax /\ Length[kind] <= MaxPayload
SilentLast(s) == \A i \in 1 .. Len(s) : s[i] \in Silent => i = Len(s)
Orderly(s) ==
    /\ SilentLast(s) /\ Length[s[1]] <= SingleMax
    /\ \A i \in 1 .. Len(s) : Long(s[i]) => i >= 3 /\ s[1] # s[2]

\* What isotp_take_received hands to the server is one whole message of the
\* tool, however many frames were lost (D5 of ADR-0012), as long as no frame of
\* another node comes; and again after such frames, from the first run on that
\* finds the FIFO empty and nothing under way.
InFull(buf) == buf = Content(buf[1][1], Length[kindOf[buf[1][1]]])
TakenIsWhole ==
    [][alone => /\ takes' # takes => InFull(taken')
                /\ strays' = strays]_isoVars

Channel == INSTANCE MessageChannel WITH
    delivered  <- IF taken = <<>> THEN 0 ELSE taken[1][1],
    deliveries <- takes

\* The server gets the messages of the tool in order and once, and no more
\* messages of other nodes than they began.
ImplementsChannel == Channel!Spec

\* A reception does not outlive its sender (N_Cr, isotp_poll).
ReceptionEnds == (rx.state = "in_progress") ~> (rx.state # "in_progress")

\* Requests that fit, with answers whose consecutive frames are one block:
\* the tool sends one flow control and the ECU needs one per block.
Sendable(script) == \A i \in 1 .. Len(script) :
    /\ Length[script[i]] <= MaxPayload
    /\ AnswerLength[script[i]] <= FirstLen + BlockSize * ChunkLen

\* A run of the tool that begins against an idle transport and is not
\* disturbed gets to its end, whatever earlier runs left in the transport. A
\* frame of another node is a disturbance, as is a timeout of the ECU.
UndisturbedRunEnds ==
    (calm /\ tool.stage = "send" /\ tool.at = 1 /\ Sendable(tool.script))
        ~> (~calm \/ tool.stage = "idle")

\* It ends with success: nothing is refused or mistaken for an answer, and
\* the server has the last request.
UndisturbedRunSucceeds ==
    [][calm /\ tool.stage # "idle" /\ calm' /\ tool'.stage = "idle" =>
          /\ tool.at = Len(tool.script)
          /\ Kind \notin Silent => taken # <<>> /\ taken[1][1] = offered]_isoVars
=============================================================================
