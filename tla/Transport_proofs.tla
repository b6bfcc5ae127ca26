--------------------------- MODULE Transport_proofs ---------------------------
(***************************************************************************)
(* Proofs about the three components that carry data from one party to     *)
(* another: the crypto mailbox between a core's tasks and the CM0+, the    *)
(* ISO-TP transport between the flash tool and the bootloader, and the     *)
(* body control between the actuator's door and the gateway's light.  They *)
(* share no variable; each part below stands alone.                        *)
(***************************************************************************)
EXTENDS IpcMailbox, IsoTp, BodyControl, SequenceTheorems, TLAPS

-----------------------------------------------------------------------------
(***************************************************************************)
(* The crypto mailbox, for any number of client tasks and of calls.        *)
(***************************************************************************)
(***************************************************************************)
(* The inductive invariant.  The hardware lock keeps the clients apart     *)
(* whatever happens; the status word keeps the lock holder and the CM0+    *)
(* apart only until someone gives up.  Until then the two alternate, and   *)
(* what the halves hold follows from where they both are.                  *)
(***************************************************************************)
LockIsHeld == \A c \in Client : lock = c <=> ~At(c, "idle")

Halves(a, b) == half[1] = a /\ half[2] = b

\* The holder is preparing its request: the CM0+ has nothing to do.
Preparing(c) ==
  /\ status = "IDLE" /\ server.pc = "poll"
  /\ At(c, "second") => half[1] = Request(client[c].call)
  /\ At(c, "notify") => Halves(Request(client[c].call), Request(client[c].call))

\* The holder waits: the CM0+ has the request, works on it, or has answered.
Waiting(c) ==
  LET r == Request(client[c].call)
      t == Tag(client[c].call)
  IN \/ status = "REQUEST" /\ server.pc = "poll" /\ Halves(r, r)
     \/ status = "REQUEST" /\ server.pc = "first" /\ server.answer = t /\ Halves(r, r)
     \/ status = "REQUEST" /\ server.pc = "second" /\ server.answer = t /\ Halves(t, r)
     \/ status = "REQUEST" /\ server.pc = "done" /\ Halves(t, t)
     \/ status = "RESPONSE" /\ server.pc = "poll" /\ Halves(t, t)

\* The holder leaves with its answer.
Leaving(c) ==
  /\ status # "REQUEST" /\ server.pc = "poll"
  /\ At(c, "read") => Halves(Tag(client[c].call), Tag(client[c].call))
  /\ At(c, "unlock") => status = "IDLE"

Alternating == ~late =>
  /\ lock = NoClient => status = "IDLE" /\ server.pc = "poll"
  /\ \A c \in Client :
       /\ client[c].pc \in {"first", "second", "notify"} => Preparing(c)
       /\ At(c, "wait") => Waiting(c)
       /\ client[c].pc \in {"read", "giveup", "unlock"} => Leaving(c)

IInv == TypeOK /\ LockIsHeld /\ Alternating /\ TimelyAnswerIsOwn

-----------------------------------------------------------------------------
LEMMA MessageTypes ==
  /\ Garbage \in Message /\ Error \in Message /\ Nothing \in Message
  /\ \A k \in Call : Request(k) \in Message /\ Tag(k) \in Message
BY MailboxAssumption DEF Garbage, Error, Nothing, Request, Tag, Message, Call

LEMMA AnswerFacts ==
  ASSUME NEW w \in BOOLEAN, NEW m \in Message
  PROVE  /\ Answer(w, m) \subseteq Message
         /\ w /\ m.kind = "request" => Answer(w, m) = {Tag(m.call)}
<1>1. m.kind = "request" => m.call \in Call
  BY DEF Message
<1>2. QED
  BY <1>1, MessageTypes DEF Answer

LEMMA TypeInit == Init => TypeOK
<1> SUFFICES ASSUME Init PROVE TypeOK
  OBVIOUS
<1>1. 0 \in Call /\ Nothing \in Message
  BY MessageTypes, MailboxAssumption DEF Call
<1>2. [pc |-> "idle", call |-> 0, result |-> "none", got |-> Nothing] \in ClientState
  BY <1>1 DEF ClientState
<1>3. [pc |-> "poll", answer |-> Nothing] \in ServerState
  BY <1>1 DEF ServerState
<1>4. QED
  BY <1>1, <1>2, <1>3 DEF Init, TypeOK

LEMMA TypeStep == TypeOK /\ [Next]_vars => TypeOK'
<1> SUFFICES ASSUME TypeOK, [Next]_vars PROVE TypeOK'
  OBVIOUS
<1>1. CASE UNCHANGED vars
  BY <1>1 DEF vars, TypeOK
<1>2. ASSUME NEW c \in Client, Transact(c) PROVE TypeOK'
  <2>1. client[c] \in ClientState /\ client[c].call \in Call /\ 0 \in Call
    BY MailboxAssumption DEF TypeOK, ClientState, Call
  <2>2. CASE Acquire(c)
    <3>1. calls + 1 \in Call
      BY <2>2, MailboxAssumption DEF Acquire, TypeOK, Call
    <3>2. QED
      BY <2>1, <2>2, <3>1, MessageTypes DEF Acquire, TypeOK, ClientState
  <2>3. CASE Refused(c)
    BY <2>1, <2>3, MessageTypes DEF Refused, TypeOK, ClientState
  <2>4. CASE WriteFirst(c)
    BY <2>1, <2>4, MessageTypes DEF WriteFirst, Goto, TypeOK, ClientState
  <2>5. CASE WriteSecond(c)
    BY <2>1, <2>5, MessageTypes DEF WriteSecond, Goto, TypeOK, ClientState
  <2>6. CASE Notify(c) \/ Ready(c)
    BY <2>1, <2>6 DEF Notify, Ready, Goto, TypeOK, ClientState
  <2>7. CASE GiveUp(c)
    <3>1. [client[c] EXCEPT !.pc = "giveup", !.result = "TIMEOUT"] \in ClientState
      BY <2>1 DEF ClientState
    <3>2. client' = [client EXCEPT ![c] = [client[c] EXCEPT !.pc = "giveup", !.result = "TIMEOUT"]]
      BY <2>7 DEF GiveUp, TypeOK
    <3>3. QED
      BY <2>7, <3>1, <3>2 DEF GiveUp, TypeOK
  <2>8. CASE Read(c)
    <3> DEFINE m == IF Whole THEN half[1] ELSE Nothing
               v == IF Whole /\ half[1].kind \in {"tag", "garbage"} THEN "OK" ELSE "FAILED"
    <3>1. m \in Message /\ v \in {"OK", "FAILED"}
      BY MessageTypes DEF TypeOK
    <3>2. [client[c] EXCEPT !.pc = "giveup", !.got = m, !.result = v] \in ClientState
      <4> HIDE DEF m, v
      <4> QED
        BY <2>1, <3>1 DEF ClientState
    <3>3. client' = [client EXCEPT ![c] = [client[c] EXCEPT !.pc = "giveup", !.got = m, !.result = v]]
      BY <2>8 DEF Read, TypeOK
    <3>4. QED
      BY <2>8, <3>2, <3>3 DEF Read, TypeOK
  <2>9. CASE Reset(c) \/ Unlock(c)
    BY <2>1, <2>9 DEF Reset, Unlock, Goto, TypeOK, ClientState
  <2>10. QED
    BY <1>2, <2>2, <2>3, <2>4, <2>5, <2>6, <2>7, <2>8, <2>9 DEF Transact
<1>3. ASSUME Service PROVE TypeOK'
  <2>1. server \in ServerState /\ half[1] \in Message /\ Whole \in BOOLEAN
    BY DEF TypeOK, Whole
  <2>2. CASE Serve
    <3>1. PICK a \in Answer(Whole, half[1]) : server' = [pc |-> "first", answer |-> a]
      BY <2>2 DEF Serve
    <3>2. a \in Message
      BY <2>1, <3>1, AnswerFacts
    <3>3. QED
      BY <2>2, <3>1, <3>2 DEF Serve, TypeOK, ServerState
  <2>3. CASE ReplyFirst \/ ReplySecond
    BY <2>1, <2>3 DEF ReplyFirst, ReplySecond, TypeOK, ServerState
  <2>4. CASE Respond
    BY <2>4, MessageTypes DEF Respond, TypeOK, ServerState
  <2>5. QED
    BY <1>3, <2>2, <2>3, <2>4 DEF Service
<1>4. QED
  BY <1>1, <1>2, <1>3 DEF Next

\* The mailbox, the clients and the CM0+ keep their types for any number of
\* clients and calls: no tag is of a call that was not made.
THEOREM MailboxTypeCorrect == Spec => []TypeOK
BY TypeInit, TypeStep, PTL DEF Spec

-----------------------------------------------------------------------------
LEMMA InvInit == Init => IInv
BY TypeInit, MailboxAssumption
   DEF Init, IInv, LockIsHeld, Alternating, TimelyAnswerIsOwn, AnswerIsOwn, At

\* What the lock holder and the CM0+ are in is all that Alternating asks for.
LEMMA HolderAlternates ==
  ASSUME NEW c \in Client, NoClient \notin Client, lock' = c,
         \A k \in Client \ {c} : client'[k].pc = "idle",
         ~late' => /\ client'[c].pc \in {"first", "second", "notify"} => Preparing(c)'
                   /\ client'[c].pc = "wait" => Waiting(c)'
                   /\ client'[c].pc \in {"read", "giveup", "unlock"} => Leaving(c)'
  PROVE  Alternating'
BY DEF Alternating, At

\* A step of a client moves that client only.
LEMMA ClientInv ==
  ASSUME IInv, TypeOK', NEW c \in Client, Transact(c)
  PROVE  LockIsHeld' /\ Alternating' /\ TimelyAnswerIsOwn'
<1>1. /\ TypeOK /\ client[c] \in ClientState /\ client[c].call \in Call /\ NoClient \notin Client
      /\ LockIsHeld /\ Alternating /\ (~late => AnswerIsOwn)
  BY MailboxAssumption DEF IInv, TypeOK, ClientState, TimelyAnswerIsOwn
<1>2. \A k \in Client \ {c} : client'[k] = client[k]
  BY <1>1 DEF Transact, Acquire, Refused, WriteFirst, WriteSecond, Notify, Ready, GiveUp,
              Read, Reset, Unlock, Goto, TypeOK
<1>3. \A k \in Client : ~At(k, "idle") => lock = k
  BY <1>1 DEF LockIsHeld
<1>4. CASE Acquire(c)
  BY <1>1, <1>2, <1>3, <1>4
     DEF Acquire, LockIsHeld, Alternating, TimelyAnswerIsOwn, AnswerIsOwn, At, Preparing, TypeOK
<1>5. CASE Refused(c)
  <2>1. /\ client'[c].pc = "idle" /\ client'[c].result = "BUSY"
        /\ UNCHANGED <<lock, status, half, server, late>>
    BY <1>1, <1>5 DEF Refused, At, TypeOK, ClientState
  <2>2. client[c].pc = "idle"
    BY <1>5 DEF Refused, At
  <2>3. LockIsHeld' /\ TimelyAnswerIsOwn'
    BY <1>1, <1>2, <2>1, <2>2 DEF LockIsHeld, TimelyAnswerIsOwn, AnswerIsOwn, At
  <2>4. \A k \in Client : client'[k].pc # "idle" => client'[k] = client[k]
    BY <1>2, <2>1
  <2>5. Alternating'
    BY <1>1, <2>1, <2>4 DEF Alternating, At, Preparing, Waiting, Leaving, Halves
  <2>6. QED
    BY <2>3, <2>5
<1>6. CASE WriteFirst(c) \/ WriteSecond(c) \/ Notify(c) \/ Ready(c) \/ Reset(c)
  <2>1. /\ client'[c].call = client[c].call /\ client'[c].result = client[c].result
        /\ client'[c].got = client[c].got /\ client'[c].pc # "idle" /\ ~At(c, "idle")
        /\ UNCHANGED <<lock, late, server>>
    BY <1>1, <1>6 DEF WriteFirst, WriteSecond, Notify, Ready, Reset, Goto, At, TypeOK, ClientState
  <2>2. LockIsHeld' /\ TimelyAnswerIsOwn'
    BY <1>1, <1>2, <2>1 DEF LockIsHeld, TimelyAnswerIsOwn, AnswerIsOwn, At
  <2>3. lock = c /\ \A k \in Client \ {c} : client'[k].pc = "idle"
    BY <1>2, <1>3, <2>1 DEF At
  <2>4. CASE WriteFirst(c)
    <3>1. client[c].pc = "first" /\ client'[c].pc = "second" /\ half'[1] = Request(client[c].call)
      BY <1>1, <2>4 DEF WriteFirst, Goto, At, TypeOK, ClientState
    <3>2. ~late => Preparing(c)'
      BY <1>1, <2>1, <2>4, <3>1 DEF WriteFirst, Alternating, Preparing, At
    <3>3. QED
      BY <1>1, <2>1, <2>2, <2>3, <3>1, <3>2, HolderAlternates
  <2>5. CASE WriteSecond(c)
    <3>1. /\ client[c].pc = "second" /\ client'[c].pc = "notify"
          /\ half'[1] = half[1] /\ half'[2] = Request(client[c].call)
      BY <1>1, <2>5 DEF WriteSecond, Goto, At, TypeOK, ClientState
    <3>2. ~late => Preparing(c)'
      BY <1>1, <2>1, <2>5, <3>1 DEF WriteSecond, Alternating, Preparing, Halves, At
    <3>3. QED
      BY <1>1, <2>1, <2>2, <2>3, <3>1, <3>2, HolderAlternates
  <2>6. CASE Notify(c)
    <3>1. client[c].pc = "notify" /\ client'[c].pc = "wait"
      BY <1>1, <2>6 DEF Notify, Goto, At, TypeOK, ClientState
    <3>2. ~late => Waiting(c)'
      BY <1>1, <2>1, <2>6, <3>1 DEF Notify, Alternating, Preparing, Waiting, Halves, At
    <3>3. QED
      BY <1>1, <2>1, <2>2, <2>3, <3>1, <3>2, HolderAlternates
  <2>7. CASE Ready(c)
    <3>1. client[c].pc = "wait" /\ client'[c].pc = "read"
      BY <1>1, <2>7 DEF Ready, Goto, At, TypeOK, ClientState
    <3>2. ~late => Leaving(c)'
      BY <1>1, <2>1, <2>7, <3>1 DEF Ready, Alternating, Waiting, Leaving, Halves, At
    <3>3. QED
      BY <1>1, <2>1, <2>2, <2>3, <3>1, <3>2, HolderAlternates
  <2>8. CASE Reset(c)
    <3>1. client[c].pc = "giveup" /\ client'[c].pc = "unlock"
      BY <1>1, <2>8 DEF Reset, Goto, At, TypeOK, ClientState
    <3>2. ~late => Leaving(c)'
      BY <1>1, <2>1, <2>8, <3>1 DEF Reset, Alternating, Leaving, At
    <3>3. QED
      BY <1>1, <2>1, <2>2, <2>3, <3>1, <3>2, HolderAlternates
  <2>9. QED
    BY <1>6, <2>2, <2>4, <2>5, <2>6, <2>7, <2>8
<1>7. CASE GiveUp(c)
  BY <1>1, <1>2, <1>7
     DEF GiveUp, LockIsHeld, Alternating, TimelyAnswerIsOwn, At, TypeOK, ClientState
<1>8. CASE Read(c)
  <2>1. lock = c /\ \A k \in Client \ {c} : client'[k].pc = "idle"
    BY <1>2, <1>3, <1>8 DEF Read, At
  <2>2. /\ client'[c].pc = "giveup" /\ client'[c].call = client[c].call
        /\ client'[c].got = IF Whole THEN half[1] ELSE Nothing
        /\ UNCHANGED <<lock, status, half, server, late>>
    BY <1>1, <1>8 DEF Read, TypeOK, ClientState
  <2>3. ~late => status # "REQUEST" /\ server.pc = "poll" /\ Whole /\ half[1] = Tag(client[c].call)
    BY <1>1, <1>8 DEF Read, Alternating, Leaving, Halves, Whole, At
  <2>4. LockIsHeld'
    BY <1>1, <1>2, <2>2, <1>8 DEF LockIsHeld, Read, At
  <2>5. TimelyAnswerIsOwn'
    BY <1>1, <1>2, <2>2, <2>3 DEF TimelyAnswerIsOwn, AnswerIsOwn
  <2>6. Alternating'
    <3>1. ~late' => Leaving(c)'
      BY <2>2, <2>3 DEF Leaving, At
    <3>2. QED
      BY <1>1, <2>1, <2>2, <3>1, HolderAlternates
  <2>7. QED
    BY <2>4, <2>5, <2>6
<1>9. CASE Unlock(c)
  <2>1. /\ client'[c].pc = "idle" /\ client'[c].call = client[c].call
        /\ client'[c].result = client[c].result /\ client'[c].got = client[c].got
        /\ lock' = NoClient /\ UNCHANGED <<status, half, server, late>>
    BY <1>1, <1>9 DEF Unlock, Goto, TypeOK, ClientState
  <2>2. lock = c /\ \A k \in Client \ {c} : client'[k].pc = "idle"
    BY <1>2, <1>3, <1>9 DEF Unlock, At
  <2>3. ~late => status = "IDLE" /\ server.pc = "poll"
    BY <1>1, <1>9 DEF Unlock, Alternating, Leaving, At
  <2>4. QED
    BY <1>1, <1>2, <2>1, <2>2, <2>3
       DEF LockIsHeld, Alternating, TimelyAnswerIsOwn, AnswerIsOwn, At
<1>10. QED
  BY <1>4, <1>5, <1>6, <1>7, <1>8, <1>9 DEF Transact

\* Until someone gave up the CM0+ only acts for a waiting lock holder.
LEMMA ServiceInv ==
  ASSUME IInv, Service
  PROVE  LockIsHeld' /\ Alternating' /\ TimelyAnswerIsOwn'
<1>1. /\ TypeOK /\ LockIsHeld /\ Alternating /\ NoClient \notin Client
      /\ UNCHANGED <<lock, client, calls, late>>
  BY MailboxAssumption DEF IInv, Service, Serve, ReplyFirst, ReplySecond, Respond
<1>2. LockIsHeld' /\ TimelyAnswerIsOwn'
  BY <1>1 DEF IInv, LockIsHeld, TimelyAnswerIsOwn, AnswerIsOwn, At
<1>3. Alternating'
  <2> SUFFICES ASSUME ~late PROVE Alternating'
    BY <1>1 DEF Alternating
  <2>1. status # "IDLE" \/ server.pc # "poll"
    BY DEF Service, Serve, ReplyFirst, ReplySecond, Respond
  <2>2. PICK c \in Client : lock = c
    BY <1>1, <2>1 DEF Alternating, TypeOK
  <2>3. client[c] \in ClientState /\ client[c].call \in Call /\ ~At(c, "idle")
    BY <1>1, <2>2 DEF TypeOK, ClientState, LockIsHeld
  <2>4. At(c, "wait") /\ Waiting(c)
    <3>1. client[c].pc \notin {"first", "second", "notify"}
      BY <1>1, <2>1 DEF Alternating, Preparing
    <3>2. client[c].pc \notin {"read", "giveup", "unlock"}
      BY <1>1 DEF Alternating, Leaving, Service, Serve, ReplyFirst, ReplySecond, Respond
    <3>3. QED
      BY <1>1, <2>3, <3>1, <3>2 DEF Alternating, At, ClientState
  <2>5. Waiting(c)'
    <3>1. CASE Serve
      <4>1. server.pc = "poll" /\ status = "REQUEST" /\ Halves(Request(client[c].call), Request(client[c].call))
        BY <2>4, <3>1 DEF Serve, Waiting
      <4>2. Whole /\ half[1] \in Message /\ half[1].kind = "request" /\ half[1].call = client[c].call
        BY <1>1, <4>1 DEF Halves, Whole, Request, TypeOK
      <4>3. server' = [pc |-> "first", answer |-> Tag(client[c].call)]
        BY <3>1, <4>2, AnswerFacts DEF Serve
      <4>4. QED
        BY <1>1, <3>1, <4>1, <4>3 DEF Serve, Waiting, Halves
    <3>2. CASE ReplyFirst
      BY <1>1, <2>4, <3>2 DEF ReplyFirst, Waiting, Halves, TypeOK, ServerState
    <3>3. CASE ReplySecond
      BY <1>1, <2>4, <3>3 DEF ReplySecond, Waiting, Halves, TypeOK, ServerState
    <3>4. CASE Respond
      BY <1>1, <2>4, <3>4 DEF Respond, Waiting, Halves
    <3>5. QED
      BY <3>1, <3>2, <3>3, <3>4 DEF Service
  <2>6. \A k \in Client \ {c} : client[k].pc = "idle"
    BY <1>1, <2>2 DEF LockIsHeld, At
  <2>7. QED
    BY <1>1, <2>2, <2>4, <2>5, <2>6 DEF Alternating, At
<1>4. QED
  BY <1>2, <1>3

LEMMA InvStep == IInv /\ [Next]_vars => IInv'
<1> SUFFICES ASSUME IInv, [Next]_vars PROVE IInv'
  OBVIOUS
<1>1. TypeOK'
  BY TypeStep DEF IInv
<1>2. CASE UNCHANGED vars
  BY <1>1, <1>2 DEF vars, IInv, LockIsHeld, Alternating, TimelyAnswerIsOwn, AnswerIsOwn, At,
                    Preparing, Waiting, Leaving, Halves
<1>3. QED
  BY <1>1, <1>2, ClientInv, ServiceInv DEF Next, IInv

LEMMA InvAlways == Spec => []IInv
BY InvInit, InvStep, PTL DEF Spec

\* A caller that is given a tag is given the tag of its own request, as long as
\* no client has given up on an answer, for any number of clients and calls.
THEOREM MailboxAnswersOwn == Spec => []TimelyAnswerIsOwn
BY InvAlways, PTL DEF IInv

\* Clients past the lock exclude each other always; until someone gives up, what
\* the mailbox holds while a client waits is its request or its answer.
THEOREM MailboxOneOutstanding == Spec => []OneOutstanding
<1>1. IInv => OneOutstanding
  <2> SUFFICES ASSUME IInv, NEW c \in Client
               PROVE  /\ ~At(c, "idle") => lock = c
                      /\ At(c, "wait") /\ ~late =>
                           \A i \in 1..2 : half[i] \in {Request(client[c].call), Tag(client[c].call)}
    BY DEF OneOutstanding
  <2>1. ~At(c, "idle") => lock = c
    BY DEF IInv, LockIsHeld
  <2>2. At(c, "wait") /\ ~late => Waiting(c)
    BY DEF IInv, Alternating
  <2>3. QED
    BY <2>1, <2>2 DEF Waiting, Halves
<1>2. QED
  BY <1>1, InvAlways, PTL

-----------------------------------------------------------------------------
(***************************************************************************)
(* The ISO-TP transport, for any scripts of the tool, any lengths of       *)
(* requests and answers, any FIFO and any number of losses and runs.       *)
(*                                                                         *)
(* The inductive invariant: the frames of the tool in the FIFO begin       *)
(* messages in the order of their numbers, all later than the message in   *)
(* the receive buffer, or than what was delivered if that message is of    *)
(* another node; a message of the tool has not been delivered while it is  *)
(* being received or waits to be taken.  Nothing is said of the content of *)
(* a message: frames of several messages, and of several nodes, may follow *)
(* each other in any way.                                                  *)
(***************************************************************************)
FrameType == [type : {"SF", "FF", "CF", "FC", "OVF", "none"}, msg : Nat, part : Nat, n : Nat]
RxType == [state : {"idle", "in_progress", "complete", "error", "overflow", "timeout"},
           buf : Seq(Cells), received : 0 .. MaxPayload, total : 0 .. MaxPayload,
           next : 0 .. SeqMod - 1, complete : BOOLEAN]
TxType == [msg : Nat, total : 0 .. MaxPayload, sent : Nat, k : Nat, pending : BOOLEAN,
           block : 0 .. NoLimit]
ToolType == [stage : {"idle", "send", "flow", "rest", "answer", "collect"}, script : Seq(Kinds),
             at : Nat, k : Nat, got : Nat, total : Nat, from : Nat]

Begins(f) == f.type \in {"SF", "FF"}

\* A frame that begins a message of the tool.
Opener(f) == Begins(f) /\ f.msg > 0

\* A frame on its way.
Posted(f, hi) ==
    /\ f.msg <= hi
    /\ f.type = "SF" => f.n <= MaxPayload
    /\ f.type = "FC" => f.n <= 255

\* Messages of the tool begin in the order of their numbers, and after number lo.
Queue(q, lo, hi) ==
    /\ q \in Seq(FrameType)
    /\ \A i \in 1 .. Len(q) : Posted(q[i], hi) /\ (Opener(q[i]) => lo < q[i].msg)
    /\ \A i, j \in 1 .. Len(q) : i < j /\ Opener(q[i]) /\ Opener(q[j]) => q[i].msg < q[j].msg

IsoTypes ==
    /\ rx \in RxType
    /\ tx \in TxType /\ tx.sent <= tx.total
    /\ Len(fifo) <= FifoSize
    /\ wire \in Seq(FrameType)
    /\ tool \in ToolType
    /\ tool.stage # "idle" => tool.at \in 1 .. Len(tool.script)
    /\ tool.stage \in {"flow", "rest"} => offered > 0
    /\ offered \in Nat
    /\ kindOf \in Seq(Kinds) /\ Len(kindOf) = offered
    /\ takes \in Nat /\ strays \in Nat /\ intruded \in Nat
    /\ lost \in 0 .. MaxLost /\ foreign \in 0 .. MaxForeign /\ runs \in 0 .. MaxRuns

Begun     == IF rx.buf = <<>> THEN 0 ELSE rx.buf[1][1]
Delivered == IF taken = <<>> THEN 0 ELSE taken[1][1]

Floor     == IF Begun = 0 THEN Delivered ELSE Begun

\* What is being received, or waits to be taken, has not been delivered: a message of
\* the tool, or one that another node began.
Active == rx.complete \/ rx.state = "in_progress"
InOrder ==
    /\ Queue(fifo, Floor, offered)
    /\ Delivered \in Nat /\ Delivered <= Floor /\ Floor <= offered
    /\ strays <= intruded
    /\ Active => /\ rx.buf # <<>>
                 /\ Begun > 0 => Delivered < Begun
                 /\ Begun = 0 => strays < intruded

IsoInv == IsoTypes /\ InOrder
-----------------------------------------------------------------------------
LEMMA QueueHead ==
    ASSUME NEW q, NEW lo \in Nat, NEW hi \in Nat, Queue(q, lo, hi), q # <<>>
    PROVE  /\ Head(q) \in FrameType /\ Posted(Head(q), hi)
           /\ Queue(Tail(q), lo, hi) /\ Len(Tail(q)) < Len(q)
           /\ Opener(Head(q)) => lo < Head(q).msg /\ Queue(Tail(q), Head(q).msg, hi)
  <1>1. q \in Seq(FrameType) /\ Len(q) \in Nat /\ Len(q) > 0
    BY EmptySeq DEF Queue
  <1>2. Head(q) = q[1] /\ 1 \in 1 .. Len(q) /\ q[1] \in FrameType
    BY <1>1
  <1>3. /\ Tail(q) \in Seq(FrameType)
        /\ Len(Tail(q)) = Len(q) - 1
        /\ \A i \in 1 .. Len(q) - 1 : Tail(q)[i] = q[i + 1]
    BY <1>1
  <1>4. \A i \in 1 .. Len(q) - 1 : i + 1 \in 1 .. Len(q) /\ 1 < i + 1
    BY <1>1
  <1>5. \A i, j \in 1 .. Len(q) - 1 : i < j => i + 1 < j + 1
    BY <1>1
  <1>6. Queue(Tail(q), lo, hi)
    BY <1>3, <1>4, <1>5 DEF Queue
  <1>7. Opener(q[1]) => lo < q[1].msg /\ Queue(Tail(q), q[1].msg, hi)
    BY <1>2, <1>3, <1>4, <1>6 DEF Queue
  <1> QED
    BY <1>1, <1>2, <1>3, <1>6, <1>7 DEF Queue

LEMMA QueueAppend ==
    ASSUME NEW q, NEW lo \in Nat, NEW hi \in Nat, Queue(q, lo, hi),
           NEW f \in FrameType, NEW top \in Nat, hi <= top, lo <= hi, Posted(f, top),
           Opener(f) => hi < f.msg
    PROVE  Queue(Append(q, f), lo, top) /\ Len(Append(q, f)) = Len(q) + 1
  <1>1. q \in Seq(FrameType) /\ Len(q) \in Nat
    BY DEF Queue
  <1>2. /\ Append(q, f) \in Seq(FrameType)
        /\ Len(Append(q, f)) = Len(q) + 1
        /\ \A i \in 1 .. Len(q) : Append(q, f)[i] = q[i]
        /\ Append(q, f)[Len(q) + 1] = f
    BY <1>1
  <1>3. \A i \in 1 .. Len(q) + 1 : i \in 1 .. Len(q) \/ i = Len(q) + 1
    BY <1>1
  <1>4. \A i \in 1 .. Len(q) : q[i] \in FrameType /\ Posted(q[i], hi)
    BY <1>1 DEF Queue
  <1>5. \A i \in 1 .. Len(q) : Posted(q[i], top) /\ q[i].msg <= hi
    BY <1>4 DEF Posted, FrameType
  <1>6. f.msg \in Nat /\ (Opener(f) => lo < f.msg)
    BY DEF FrameType
  <1>7. \A i \in 1 .. Len(q) + 1 : Posted(Append(q, f)[i], top)
                                 /\ (Opener(Append(q, f)[i]) => lo < Append(q, f)[i].msg)
    BY <1>2, <1>3, <1>5, <1>6 DEF Queue
  <1>8. ASSUME NEW i \in 1 .. Len(q) + 1, NEW j \in 1 .. Len(q) + 1, i < j,
               Opener(Append(q, f)[i]), Opener(Append(q, f)[j])
        PROVE  Append(q, f)[i].msg < Append(q, f)[j].msg
    <2>1. i \in 1 .. Len(q) /\ Append(q, f)[i] = q[i]
      BY <1>1, <1>2, <1>8
    <2>2. CASE j \in 1 .. Len(q)
      BY <1>2, <1>8, <2>1, <2>2 DEF Queue
    <2>3. CASE j = Len(q) + 1
      <3>1. q[i].msg \in Nat /\ q[i].msg <= hi
        BY <1>4, <1>5, <2>1 DEF FrameType
      <3>2. hi < f.msg
        BY <1>2, <1>8, <2>3
      <3> QED
        BY <1>2, <1>6, <2>1, <2>3, <3>1, <3>2
    <2> QED
      BY <1>3, <2>2, <2>3
  <1> QED
    BY <1>2, <1>7, <1>8 DEF Queue

\* The arithmetic of tx_send_block.
LEMMA Quotient ==
    ASSUME NEW x \in Nat, NEW y \in Nat \ {0}
    PROVE  x \div y \in Nat
  OBVIOUS

LEMMA Product ==
    ASSUME NEW x \in Nat, NEW y \in Nat
    PROVE  x * y \in Nat
  OBVIOUS

LEMMA MinIs ==
    ASSUME NEW x \in Int, NEW y \in Int
    PROVE  Min(x, y) \in {x, y} /\ Min(x, y) <= x /\ Min(x, y) <= y
  BY DEF Min

LEMMA BlockIs ==
    ASSUME NEW t \in TxType, t.sent <= t.total, t.pending, IsoTpAssumption
    PROVE  /\ BlockFrames(t) \in Nat
           /\ SentBlock(t) \in TxType /\ SentBlock(t).sent <= SentBlock(t).total
  <1>0. ChunkLen \in Nat \ {0} /\ MaxPayload \in Nat /\ NoLimit \in Nat
    BY DEF IsoTpAssumption, NoLimit
  <1>a. t.sent \in Nat /\ t.k \in Nat /\ t.total \in 0 .. MaxPayload /\ t.block \in 0 .. NoLimit
    BY DEF TxType
  <1>1. /\ t.sent \in Nat /\ t.total \in Nat /\ t.total <= MaxPayload /\ t.block \in Nat /\ t.k \in Nat
        /\ ChunkLen \in Nat \ {0} /\ MaxPayload \in Nat /\ t.block <= NoLimit /\ NoLimit \in Nat
    BY <1>0, <1>a
  <1> DEFINE x == t.total - t.sent + ChunkLen - 1
  <1>2. x \in Nat
    BY <1>1
  <1>3. x \div ChunkLen \in Nat
    BY <1>1, <1>2, Quotient
  <1>4. BlockFrames(t) \in Nat /\ BlockFrames(t) <= t.block
    <2>1. BlockFrames(t) = Min(t.block, x \div ChunkLen)
      BY DEF BlockFrames
    <2> HIDE DEF x
    <2> QED
      BY <1>1, <1>3, <2>1, MinIs
  <1>5. BlockFrames(t) * ChunkLen \in Nat
    BY <1>1, <1>4, Product
  <1> DEFINE s == Min(t.sent + BlockFrames(t) * ChunkLen, t.total)
  <1>6. s \in Nat /\ s <= t.total
    <2> DEFINE y == t.sent + BlockFrames(t) * ChunkLen
    <2>1. y \in Nat
      BY <1>1, <1>5
    <2> HIDE DEF y
    <2>2. Min(y, t.total) \in {y, t.total} /\ Min(y, t.total) <= t.total
      BY <1>1, <2>1, MinIs
    <2> QED
      BY <1>1, <2>1, <2>2 DEF y
  <1>7. SentBlock(t) = [t EXCEPT !.sent = s, !.k = t.k + BlockFrames(t), !.block = t.block - BlockFrames(t),
                                 !.pending = t.pending /\ s < t.total]
    BY DEF SentBlock
  <1> HIDE DEF s, x
  <1>8. t.block - BlockFrames(t) \in 0 .. NoLimit /\ t.k + BlockFrames(t) \in Nat
    <2>1. t.block - BlockFrames(t) \in Nat /\ t.block - BlockFrames(t) <= NoLimit
      BY <1>1, <1>4
    <2>2. t.k + BlockFrames(t) \in Nat
      BY <1>1, <1>4
    <2> QED
      BY <2>1, <2>2
  <1>9. (t.pending /\ s < t.total) \in BOOLEAN
    OBVIOUS
  <1> QED
    <2>1. t = [msg |-> t.msg, total |-> t.total, sent |-> t.sent, k |-> t.k, pending |-> t.pending, block |-> t.block]
      BY DEF TxType
    <2>2. SentBlock(t) = [msg |-> t.msg, total |-> t.total, sent |-> s, k |-> t.k + BlockFrames(t),
                          pending |-> t.pending /\ s < t.total, block |-> t.block - BlockFrames(t)]
      BY <1>7, <2>1
    <2>3. t.msg \in Nat
      BY DEF TxType
    <2> QED
      BY <1>4, <1>6, <1>8, <1>9, <1>a, <2>2, <2>3 DEF TxType
-----------------------------------------------------------------------------
LEMMA Constants ==
    /\ ChunkLen \in Nat \ {0} /\ MaxPayload \in Nat /\ SingleMax \in Nat /\ SingleMax <= MaxPayload
    /\ FirstLen \in Nat /\ FirstLen <= SingleMax /\ FirstLen <= MaxPayload
    /\ BlockSize \in Nat /\ BlockSize <= 255 /\ NoLimit \in Nat /\ 255 <= NoLimit
    /\ SeqMod \in Nat /\ SeqMod > 0 /\ FifoSize \in Nat /\ FifoSize > 0 /\ MaxLost \in Nat /\ MaxForeign \in Nat /\ MaxRuns \in Nat
    /\ \A x \in Nat : x % SeqMod \in 0 .. SeqMod - 1 /\ x % SeqMod \in Nat
  <1>1. SeqMod \in Nat /\ SeqMod > 0
    BY IsoTpAssumption DEF IsoTpAssumption
  <1>2. \A x \in Nat : x % SeqMod \in 0 .. SeqMod - 1 /\ x % SeqMod \in Nat
    BY <1>1
  <1>3. FirstLen \in 1 .. SingleMax /\ SingleMax \in 0 .. MaxPayload /\ MaxPayload \in Nat
    BY IsoTpAssumption DEF IsoTpAssumption
  <1>4. FirstLen \in Nat /\ FirstLen <= SingleMax /\ SingleMax \in Nat /\ SingleMax <= MaxPayload
    BY <1>3
  <1>5. FirstLen <= MaxPayload
    BY <1>3, <1>4
  <1>6. /\ ChunkLen \in Nat \ {0} /\ BlockSize \in Nat /\ BlockSize <= 255
        /\ FifoSize \in Nat /\ FifoSize > 0 /\ MaxLost \in Nat /\ MaxForeign \in Nat /\ MaxRuns \in Nat
    BY IsoTpAssumption DEF IsoTpAssumption
  <1> QED
    BY <1>1, <1>2, <1>3, <1>4, <1>5, <1>6 DEF NoLimit

ChannelStep == Channel!Next \/ UNCHANGED <<offered, Delivered, takes, intruded, strays>>

LEMMA Unfold ==
    ASSUME IsoInv
    PROVE  /\ rx \in RxType /\ tx \in TxType /\ tx.sent <= tx.total
           /\ Len(fifo) <= FifoSize /\ wire \in Seq(FrameType) /\ tool \in ToolType
           /\ (tool.stage # "idle" => tool.at \in 1 .. Len(tool.script))
           /\ (tool.stage \in {"flow", "rest"} => offered > 0)
           /\ offered \in Nat /\ kindOf \in Seq(Kinds) /\ Len(kindOf) = offered
           /\ takes \in Nat /\ strays \in Nat /\ intruded \in Nat
           /\ lost \in 0 .. MaxLost /\ foreign \in 0 .. MaxForeign /\ runs \in 0 .. MaxRuns
           /\ Queue(fifo, Floor, offered)
           /\ Delivered \in Nat /\ Floor \in Nat /\ Delivered <= Floor /\ Floor <= offered
           /\ Begun \in Nat /\ Begun <= offered /\ (Begun > 0 => Floor = Begun)
           /\ strays <= intruded
           /\ (Active => rx.buf # <<>>)
           /\ (Active /\ Begun > 0 => Delivered < Begun)
           /\ (Active /\ Begun = 0 => strays < intruded)
           /\ (rx.buf # <<>> => Len(rx.buf) \in Nat /\ Len(rx.buf) > 0 /\ rx.buf[1] \in Cells)
  <1>1. rx.buf \in Seq(Cells) /\ offered \in Nat
    BY DEF IsoInv, IsoTypes, RxType
  <1>2. rx.buf # <<>> => Len(rx.buf) \in Nat /\ Len(rx.buf) > 0
    BY <1>1, EmptySeq
  <1>3. rx.buf # <<>> => rx.buf[1] \in Cells
    BY <1>1, <1>2, ElementOfSeq
  <1>4. Begun \in Nat /\ Begun <= offered
    BY <1>1, <1>3 DEF Begun, Cells
  <1>5. Floor \in Nat /\ (Begun > 0 => Floor = Begun)
    BY <1>4 DEF Floor, IsoInv, InOrder
  <1> QED
    BY <1>2, <1>3, <1>4, <1>5 DEF IsoInv, IsoTypes, InOrder

LEMMA RxIs ==
    ASSUME rx \in RxType
    PROVE  /\ rx = [state |-> rx.state, buf |-> rx.buf, received |-> rx.received, total |-> rx.total,
                    next |-> rx.next, complete |-> rx.complete]
           /\ rx.state \in {"idle", "in_progress", "complete", "error", "overflow", "timeout"}
           /\ rx.buf \in Seq(Cells) /\ rx.received \in 0 .. MaxPayload /\ rx.total \in 0 .. MaxPayload
           /\ rx.next \in 0 .. SeqMod - 1 /\ rx.complete \in BOOLEAN
  BY DEF RxType

\* What a turn of the loop of isotp_poll has to leave for the invariant to hold.
LEMMA PolledStep ==
    ASSUME IsoInv, fifo # <<>>, fifo' = Tail(fifo), UNCHANGED <<taken, takes, strays, toolVars, busVars>>,
           intruded' = IF Intrudes(Head(fifo)) THEN intruded + 1 ELSE intruded,
           tx' \in TxType, tx'.sent <= tx'.total, rx' \in RxType, wire' \in Seq(FrameType),
           \/ Begun' = Begun /\ (Active' => Active /\ rx'.buf # <<>>)
           \/ Begins(Head(fifo)) /\ Begun' = Head(fifo).msg /\ rx'.buf # <<>>
    PROVE  IsoInv' /\ ChannelStep
  <1>u. UNCHANGED <<taken, takes, strays, tool, offered, kindOf, runs, lost, foreign>>
    BY DEF toolVars, busVars
  <1> DEFINE f == Head(fifo)
  <1>q. /\ Len(fifo) \in Nat /\ Len(Tail(fifo)) < Len(fifo) /\ Len(Tail(fifo)) \in Nat
        /\ Queue(Tail(fifo), Floor, offered) /\ f.msg \in Nat /\ f.msg <= offered
        /\ Opener(f) => Floor < f.msg /\ Queue(Tail(fifo), f.msg, offered)
    <2>1. Queue(fifo, Floor, offered) /\ Floor \in Nat /\ offered \in Nat
      BY Unfold
    <2>2. /\ f \in FrameType /\ Posted(f, offered) /\ Queue(Tail(fifo), Floor, offered) /\ Len(Tail(fifo)) < Len(fifo)
          /\ Opener(f) => Floor < f.msg /\ Queue(Tail(fifo), f.msg, offered)
      BY <2>1, QueueHead
    <2>3. fifo \in Seq(FrameType) /\ Tail(fifo) \in Seq(FrameType)
      BY <2>1, <2>2 DEF Queue
    <2> HIDE DEF f
    <2> QED
      BY <2>2, <2>3 DEF FrameType, Posted
  <1>i. /\ intruded \in Nat /\ strays \in Nat /\ intruded' \in Nat /\ intruded <= intruded' /\ strays <= intruded
        /\ Begins(f) /\ f.msg = 0 => intruded' = intruded + 1
        /\ intruded' # intruded => intruded' = intruded + 1
    <2>1. intruded \in Nat /\ strays \in Nat /\ strays <= intruded
      BY Unfold
    <2>2. Begins(f) /\ f.msg = 0 => Intrudes(f)
      BY DEF Intrudes, Begins
    <2> QED
      BY <2>1, <2>2
  <1>d. Delivered' = Delivered /\ Delivered \in Nat /\ Delivered <= Floor /\ Floor <= offered /\ Floor \in Nat
    BY <1>u, Unfold DEF Delivered
  <1> HIDE DEF f
  <1>1. /\ Queue(Tail(fifo), Floor', offered) /\ Delivered <= Floor' /\ Floor' <= offered
        /\ Active' => /\ rx'.buf # <<>>
                      /\ Begun' > 0 => Delivered < Begun'
                      /\ Begun' = 0 => strays < intruded'
    <2>1. CASE Begun' = Begun /\ (Active' => Active /\ rx'.buf # <<>>)
      <3>1. Floor' = Floor
        BY <1>d, <2>1 DEF Floor
      <3>2. /\ Active => rx.buf # <<>>
            /\ Active /\ Begun > 0 => Delivered < Begun
            /\ Active /\ Begun = 0 => strays < intruded
        BY Unfold
      <3> QED
        BY <1>q, <1>i, <1>d, <2>1, <3>1, <3>2
    <2>2. CASE Begins(f) /\ Begun' = f.msg /\ rx'.buf # <<>>
      <3>1. CASE f.msg = 0
        <4>1. Floor' = Delivered /\ strays < intruded'
          BY <1>i, <1>d, <2>2, <3>1 DEF Floor
        <4>2. Queue(Tail(fifo), Delivered, offered)
          <5>1. \A i \in 1 .. Len(Tail(fifo)) : Tail(fifo)[i].msg \in Nat
            <6>1. Tail(fifo) \in Seq(FrameType)
              BY <1>q DEF Queue
            <6>2. \A i \in 1 .. Len(Tail(fifo)) : Tail(fifo)[i] \in FrameType
              BY <6>1, ElementOfSeq
            <6> QED
              BY <6>2 DEF FrameType
          <5> QED
            BY <1>q, <1>d, <5>1 DEF Queue
        <4> QED
          <5>1. Delivered <= offered
            <6>1. offered \in Nat
              BY Unfold
            <6> QED
              BY <1>d, <6>1
          <5>2. Begun' = 0 /\ rx'.buf # <<>>
            BY <2>2, <3>1
          <5> QED
            BY <1>d, <4>1, <4>2, <5>1, <5>2
      <3>2. CASE f.msg # 0
        <4>1. Opener(f) /\ Floor' = f.msg
          BY <1>q, <2>2, <3>2 DEF Opener, Floor
        <4> QED
          BY <1>q, <1>d, <2>2, <3>2, <4>1
      <3> QED
        BY <3>1, <3>2
    <2> QED
      BY <2>1, <2>2 DEF f
  <1>2. Len(Tail(fifo)) <= FifoSize
    BY <1>q, Unfold, Constants
  <1>3. rx' \in RxType'
    BY <1>u DEF RxType, Cells
  <1>4. IsoTypes'
    BY <1>2, <1>3, <1>i, <1>u, Unfold DEF IsoTypes, TxType, ToolType, FrameType
  <1>6. InOrder'
    BY <1>1, <1>d, <1>i, <1>u DEF InOrder
  <1>7. ChannelStep
    BY <1>d, <1>i, <1>u DEF ChannelStep, Channel!Next, Channel!Intrude, Delivered
  <1> QED
    BY <1>4, <1>6, <1>7 DEF IsoInv

\* The frame at the head of the FIFO.
LEMMA HeadIs ==
    ASSUME IsoInv, fifo # <<>>
    PROVE  /\ Head(fifo) \in FrameType
           /\ Head(fifo).msg \in Nat /\ Head(fifo).part \in Nat /\ Head(fifo).n \in Nat
           /\ <<Head(fifo).msg, Head(fifo).part>> \in Cells
           /\ Head(fifo).type = "SF" => Head(fifo).n \in 0 .. MaxPayload
           /\ Head(fifo).type = "FC" => Head(fifo).n <= NoLimit
  <1> DEFINE f == Head(fifo)
  <1>1. f \in FrameType /\ Posted(f, offered)
    BY Unfold, QueueHead
  <1> HIDE DEF f
  <1>2. f.msg \in Nat /\ f.part \in Nat /\ f.n \in Nat /\ f.msg <= offered
    BY <1>1 DEF FrameType, Posted
  <1>3. <<f.msg, f.part>> \in Cells
    <2>1. offered \in Nat
      BY Unfold
    <2> QED
      BY <1>2, <2>1 DEF Cells
  <1>4. f.type = "SF" => f.n \in 0 .. MaxPayload
    BY <1>1, <1>2, Constants DEF Posted
  <1>5. f.type = "FC" => f.n <= NoLimit
    BY <1>1, <1>2, Constants DEF Posted
  <1> QED
    BY <1>1, <1>2, <1>3, <1>4, <1>5 DEF f

\* What isotp_poll leaves alone.
Polled ==
    /\ UNCHANGED <<taken, takes, strays, toolVars, pastVars, busVars>>
    /\ intruded' = IF Intrudes(Head(fifo)) THEN intruded + 1 ELSE intruded

LEMMA SfStep ==
    ASSUME IsoInv, fifo # <<>>, fifo' = Tail(fifo), Head(fifo).type = "SF", HandleSf(Head(fifo)),
           Polled
    PROVE  IsoInv' /\ ChannelStep
  <1> DEFINE f == Head(fifo)
  <1>1. rx' = [state |-> "complete", buf |-> <<<<f.msg, f.part>>>>, received |-> f.n, total |-> rx.total,
               next |-> rx.next, complete |-> TRUE]
    BY Unfold, RxIs DEF HandleSf
  <1>2. f.n \in 0 .. MaxPayload /\ <<f.msg, f.part>> \in Cells /\ Begins(f)
    BY HeadIs DEF Begins
  <1> HIDE DEF f
  <1>3. <<<<f.msg, f.part>>>> \in Seq(Cells)
    BY <1>2
  <1>4. rx' \in RxType
    BY <1>1, <1>2, <1>3, Unfold, RxIs DEF RxType
  <1>5. Begun' = f.msg /\ rx'.buf # <<>>
    BY <1>1 DEF Begun
  <1>6. UNCHANGED <<tx, wire>>
    BY DEF HandleSf
  <1> QED
    BY <1>2, <1>4, <1>5, <1>6, Unfold, PolledStep DEF Polled, f

LEMMA FfStep ==
    ASSUME IsoInv, fifo # <<>>, fifo' = Tail(fifo), Head(fifo).type = "FF", HandleFf(Head(fifo)),
           Polled
    PROVE  IsoInv' /\ ChannelStep
  <1> DEFINE f == Head(fifo)
  <1>2. f.n \in Nat /\ <<f.msg, f.part>> \in Cells /\ Begins(f)
    BY HeadIs DEF Begins
  <1>3. CASE f.n > MaxPayload
    <2>1. rx' = [state |-> "overflow", buf |-> rx.buf, received |-> rx.received, total |-> rx.total,
                 next |-> rx.next, complete |-> rx.complete] /\ UNCHANGED <<tx, wire>>
      BY <1>3, Unfold, RxIs DEF HandleFf
    <2>2. rx' \in RxType
      BY <2>1, Unfold, RxIs DEF RxType
    <2>3. Begun' = Begun /\ (Active' => Active /\ rx'.buf # <<>>)
      BY <2>1, Unfold DEF Begun, Active
    <2> QED
      BY <2>1, <2>2, <2>3, Unfold, PolledStep DEF Polled
  <1>4. CASE ~(f.n > MaxPayload)
    <2>1. /\ rx' = [state |-> "in_progress", buf |-> <<<<f.msg, f.part>>>>, received |-> FirstLen,
                    total |-> f.n, next |-> 1 % SeqMod, complete |-> rx.complete]
          /\ wire' = Append(wire, FlowControl(BlockSize)) /\ UNCHANGED tx
      BY <1>4, Unfold, RxIs DEF HandleFf
    <2> HIDE DEF f
    <2>2. <<<<f.msg, f.part>>>> \in Seq(Cells)
      BY <1>2
    <2>3. f.n \in 0 .. MaxPayload /\ FirstLen \in 0 .. MaxPayload /\ 1 % SeqMod \in 0 .. SeqMod - 1
      BY <1>2, <1>4, Constants
    <2>4. rx' \in RxType
      BY <2>1, <2>2, <2>3, Unfold, RxIs DEF RxType
    <2>5. Begun' = f.msg /\ rx'.buf # <<>>
      BY <2>1 DEF Begun
    <2>6. wire' \in Seq(FrameType)
      <3>1. FlowControl(BlockSize) \in FrameType
        BY Constants DEF FlowControl, CanFrame, FrameType
      <3> QED
        BY <2>1, <3>1, Unfold
    <2> QED
      BY <1>2, <2>1, <2>4, <2>5, <2>6, Unfold, PolledStep DEF Polled, f
  <1> QED
    BY <1>3, <1>4

LEMMA CfStep ==
    ASSUME IsoInv, fifo # <<>>, fifo' = Tail(fifo), Head(fifo).type = "CF", HandleCf(Head(fifo)),
           Polled
    PROVE  IsoInv' /\ ChannelStep
  <1> DEFINE f == Head(fifo)
  <1>1. <<f.msg, f.part>> \in Cells
    BY HeadIs
  <1>2. UNCHANGED <<tx, wire>>
    BY DEF HandleCf
  <1>3. CASE rx.state # "in_progress"
    <2>1. rx' = rx
      BY <1>3 DEF HandleCf
    <2> QED
      BY <1>2, <2>1, Unfold, PolledStep DEF Polled, Begun, Active
  <1>4. CASE rx.state = "in_progress" /\ f.n # rx.next
    <2>1. rx' = [state |-> "error", buf |-> rx.buf, received |-> rx.received, total |-> rx.total,
                 next |-> rx.next, complete |-> rx.complete]
      BY <1>4, Unfold, RxIs DEF HandleCf
    <2>2. rx' \in RxType
      BY <2>1, Unfold, RxIs DEF RxType
    <2>3. Begun' = Begun /\ (Active' => Active /\ rx'.buf # <<>>)
      BY <2>1, Unfold DEF Begun, Active
    <2> QED
      BY <1>2, <2>1, <2>2, <2>3, Unfold, PolledStep DEF Polled
  <1>5. CASE rx.state = "in_progress" /\ f.n = rx.next
    <2> DEFINE r == Min(rx.received + ChunkLen, rx.total)
               done == r >= rx.total
    <2>1. rx' = [rx EXCEPT !.buf = Append(rx.buf, <<f.msg, f.part>>), !.received = r,
                           !.next = (rx.next + 1) % SeqMod, !.complete = rx.complete \/ done,
                           !.state = IF done THEN "complete" ELSE rx.state]
      BY <1>5 DEF HandleCf, Extended
    <2>2. r \in 0 .. MaxPayload
      <3>1. rx.received \in Nat /\ rx.total \in Nat /\ rx.total <= MaxPayload
        <4>1. rx.received \in 0 .. MaxPayload /\ rx.total \in 0 .. MaxPayload /\ MaxPayload \in Nat
          BY Unfold, RxIs, Constants
        <4> QED
          BY <4>1
      <3>2. rx.received + ChunkLen \in Nat
        BY <3>1, Constants
      <3>3. r \in Nat /\ r <= rx.total
        BY <3>1, <3>2, MinIs
      <3> HIDE DEF r
      <3> QED
        BY <3>1, <3>3, Constants
    <2>3. (rx.complete \/ done) \in BOOLEAN
      OBVIOUS
    <2> HIDE DEF r, done, f
    <2>4. (rx.next + 1) % SeqMod \in 0 .. SeqMod - 1
      <3>1. rx.next + 1 \in Nat
        <4>1. rx.next \in 0 .. SeqMod - 1 /\ SeqMod \in Nat
          BY Unfold, RxIs, Constants
        <4> QED
          BY <4>1
      <3> QED
        BY <3>1, Constants
    <2>5. /\ Append(rx.buf, <<f.msg, f.part>>) \in Seq(Cells)
          /\ Append(rx.buf, <<f.msg, f.part>>) # <<>>
          /\ Append(rx.buf, <<f.msg, f.part>>)[1] = rx.buf[1]
      <3>1. rx.buf \in Seq(Cells) /\ rx.buf # <<>> /\ Len(rx.buf) \in Nat /\ Len(rx.buf) > 0
        BY <1>5, Unfold, RxIs DEF Active
      <3>2. 1 \in 1 .. Len(rx.buf)
        BY <3>1
      <3> QED
        BY <1>1, <3>1, <3>2, AppendProperties
    <2>6. rx' = [state |-> IF done THEN "complete" ELSE rx.state, buf |-> Append(rx.buf, <<f.msg, f.part>>),
                 received |-> r, total |-> rx.total, next |-> (rx.next + 1) % SeqMod,
                 complete |-> rx.complete \/ done]
      BY <2>1, Unfold, RxIs
    <2>7. rx' \in RxType
      BY <2>2, <2>3, <2>4, <2>5, <2>6, Unfold, RxIs DEF RxType
    <2>8. Begun' = Begun /\ rx'.buf # <<>> /\ Active
      BY <1>5, <2>5, <2>6, Unfold DEF Begun, Active
    <2> QED
      BY <1>2, <2>7, <2>8, Unfold, PolledStep DEF Polled
  <1> QED
    BY <1>3, <1>4, <1>5

LEMMA FcStep ==
    ASSUME IsoInv, fifo # <<>>, fifo' = Tail(fifo), Head(fifo).type = "FC", HandleFc(Head(fifo)),
           Polled
    PROVE  IsoInv' /\ ChannelStep
  <1> DEFINE f == Head(fifo)
  <1>1. UNCHANGED rx /\ Begun' = Begun /\ (Active' => Active /\ rx'.buf # <<>>)
    BY Unfold DEF HandleFc, Begun, Active
  <1>2. CASE ~tx.pending
    BY <1>1, <1>2, Unfold, PolledStep DEF Polled, HandleFc
  <1>3. CASE tx.pending
    <2> DEFINE t == [tx EXCEPT !.block = IF f.n = 0 THEN NoLimit ELSE f.n]
    <2>1. tx' = SentBlock(t) /\ wire' = wire \o [i \in 1 .. BlockFrames(t) |-> Consecutive(t.msg, t.k + i)]
      BY <1>3 DEF HandleFc
    <2>2. (IF f.n = 0 THEN NoLimit ELSE f.n) \in 0 .. NoLimit
      BY HeadIs, Constants
    <2>3. /\ t \in TxType /\ t.sent = tx.sent /\ t.total = tx.total /\ t.pending = tx.pending
          /\ t.msg \in Nat /\ t.k \in Nat
      BY <2>2, Unfold DEF TxType
    <2> HIDE DEF t, f
    <2>4. BlockFrames(t) \in Nat /\ SentBlock(t) \in TxType /\ SentBlock(t).sent <= SentBlock(t).total
      BY <1>3, <2>3, Unfold, BlockIs, IsoTpAssumption
    <2>5. [i \in 1 .. BlockFrames(t) |-> Consecutive(t.msg, t.k + i)] \in Seq(FrameType)
      <3>1. \A i \in 1 .. BlockFrames(t) : Consecutive(t.msg, t.k + i) \in FrameType
        <4>1. \A i \in 1 .. BlockFrames(t) : t.k + i \in Nat
          BY <2>3, <2>4
        <4> QED
          BY <2>3, <4>1, Constants DEF Consecutive, CanFrame, FrameType
      <3> QED
        BY <2>4, <3>1
    <2>6. wire' \in Seq(FrameType)
      BY <2>1, <2>5, Unfold, ConcatProperties
    <2> QED
      BY <1>1, <2>1, <2>4, <2>6, Unfold, PolledStep DEF Polled
  <1> QED
    BY <1>2, <1>3

\* Flow control that says overflow, and what is ignored.
LEMMA NoneStep ==
    ASSUME IsoInv, fifo # <<>>, fifo' = Tail(fifo), Polled,
           HandleOverflow \/ UNCHANGED <<rx, tx, wire>>
    PROVE  IsoInv' /\ ChannelStep
  <1>1. CASE HandleOverflow
    <2>1. rx' = [state |-> "overflow", buf |-> rx.buf, received |-> rx.received, total |-> rx.total,
                 next |-> rx.next, complete |-> rx.complete] /\ UNCHANGED wire
      BY <1>1, Unfold, RxIs DEF HandleOverflow
    <2>2. rx' \in RxType
      BY <2>1, Unfold, RxIs DEF RxType
    <2>3. Begun' = Begun /\ (Active' => Active /\ rx'.buf # <<>>)
      BY <2>1, Unfold DEF Begun, Active
    <2>4. tx' \in TxType /\ tx'.sent <= tx'.total
      <3>1. tx' = [tx EXCEPT !.pending = FALSE]
        BY <1>1 DEF HandleOverflow
      <3> QED
        BY <3>1, Unfold DEF TxType
    <2> QED
      BY <2>1, <2>2, <2>3, <2>4, Unfold, PolledStep DEF Polled
  <1>2. CASE UNCHANGED <<rx, tx, wire>>
    BY <1>2, Unfold, PolledStep DEF Polled, Begun, Active
  <1> QED
    BY <1>1, <1>2

LEMMA PollFrameStep ==
    ASSUME IsoInv, PollFrame
    PROVE  IsoInv' /\ ChannelStep
  <1>1. fifo # <<>> /\ fifo' = Tail(fifo) /\ Polled
    BY DEF PollFrame, Polled
  <1>2. \/ Head(fifo).type = "SF" /\ HandleSf(Head(fifo))
        \/ Head(fifo).type = "FF" /\ HandleFf(Head(fifo))
        \/ Head(fifo).type = "CF" /\ HandleCf(Head(fifo))
        \/ Head(fifo).type = "FC" /\ HandleFc(Head(fifo))
        \/ HandleOverflow \/ UNCHANGED <<rx, tx, wire>>
    BY DEF PollFrame
  <1> QED
    BY <1>1, <1>2, SfStep, FfStep, CfStep, FcStep, NoneStep

LEMMA RxTimeoutStep ==
    ASSUME IsoInv, RxTimeout
    PROVE  IsoInv' /\ ChannelStep
  <1>1. /\ rx' = [state |-> "timeout", buf |-> rx.buf, received |-> rx.received, total |-> rx.total,
                  next |-> rx.next, complete |-> rx.complete]
        /\ rx.state = "in_progress"
        /\ UNCHANGED <<tx, taken, takes, strays, intruded, fifo, wire, tool, offered, kindOf, runs, lost, foreign>>
    BY Unfold, RxIs DEF RxTimeout, toolVars, busVars
  <1>2. rx' \in RxType'
    <2>1. rx' \in RxType
      BY <1>1, Unfold, RxIs DEF RxType
    <2> QED
      BY <1>1, <2>1 DEF RxType, Cells
  <1>3. Begun' = Begun /\ Delivered' = Delivered /\ Floor' = Floor /\ (Active' => Active)
    BY <1>1 DEF Begun, Delivered, Floor, Active
  <1>4. IsoTypes'
    BY <1>1, <1>2, Unfold DEF IsoTypes, TxType, ToolType, FrameType
  <1>5. InOrder'
    BY <1>1, <1>3, Unfold DEF InOrder
  <1> QED
    BY <1>1, <1>3, <1>4, <1>5 DEF IsoInv, ChannelStep

LEMMA SendIs ==
    ASSUME NEW msg \in Nat, NEW len \in Nat, IsoInv, Send(msg, len)
    PROVE  tx' \in TxType /\ tx'.sent <= tx'.total /\ wire' \in Seq(FrameType)
  <1>1. CASE len > MaxPayload \/ tx.pending
    BY <1>1, Unfold DEF Send
  <1>2. CASE ~(len > MaxPayload \/ tx.pending) /\ len <= SingleMax
    <2>1. CanFrame("SF", msg, 0, len) \in FrameType
      BY DEF CanFrame, FrameType
    <2>2. wire' = Append(wire, CanFrame("SF", msg, 0, len)) /\ UNCHANGED tx
      BY <1>2 DEF Send
    <2>3. wire' \in Seq(FrameType)
      BY <2>1, <2>2, Unfold
    <2> QED
      BY <2>2, <2>3, Unfold
  <1>3. CASE ~(len > MaxPayload \/ tx.pending) /\ ~(len <= SingleMax)
    <2>1. CanFrame("FF", msg, 0, len) \in FrameType
      BY DEF CanFrame, FrameType
    <2>2. len \in 0 .. MaxPayload /\ FirstLen \in Nat /\ FirstLen <= len /\ 0 \in 0 .. NoLimit
      BY <1>3, Constants
    <2>3. /\ wire' = Append(wire, CanFrame("FF", msg, 0, len))
          /\ tx' = [msg |-> msg, total |-> len, sent |-> FirstLen, k |-> 0, pending |-> TRUE, block |-> 0]
      BY <1>3 DEF Send
    <2> QED
      BY <2>1, <2>2, <2>3, Unfold DEF TxType
  <1> QED
    BY <1>1, <1>2, <1>3

LEMMA TakeStep ==
    ASSUME IsoInv, Take
    PROVE  IsoInv' /\ ChannelStep
  <1>1. /\ rx' = [state |-> "idle", buf |-> rx.buf, received |-> rx.received, total |-> rx.total,
                  next |-> rx.next, complete |-> FALSE]
        /\ rx.complete
        /\ UNCHANGED <<intruded, fifo, tool, offered, kindOf, runs, lost, foreign>>
    BY Unfold, RxIs DEF Take, toolVars, busVars
  <1>2. rx' \in RxType'
    <2>1. rx' \in RxType
      BY <1>1, Unfold, RxIs DEF RxType
    <2> QED
      BY <1>1, <2>1 DEF RxType, Cells
  <1>3. Begun' = Begun /\ Begun = rx.buf[1][1] /\ ~Active' /\ Active
    BY <1>1, Unfold DEF Begun, Active
  <1> DEFINE msg == rx.buf[1][1]
  <1>4. msg \in Nat /\ msg <= offered /\ msg = Begun
    BY <1>3, Unfold
  <1>5. AnswerOf(msg) \in Nat
    <2>1. CASE msg = 0
      BY <2>1 DEF AnswerOf
    <2>2. CASE msg # 0
      <3>0. msg \in 1 .. Len(kindOf)
        BY <1>4, <2>2, Unfold
      <3>1. kindOf[msg] \in Kinds
        BY <3>0, Unfold, ElementOfSeq
      <3>2. AnswerLength \in [Kinds -> Nat \ {0}]
        BY IsoTpAssumption DEF IsoTpAssumption
      <3> QED
        BY <2>2, <3>1, <3>2 DEF AnswerOf
    <2> QED
      BY <2>1, <2>2
  <1>6. \/ /\ \/ msg = 0 /\ strays' = strays + 1 /\ UNCHANGED <<taken, takes>>
              \/ msg # 0 /\ taken' = rx.buf /\ takes' = takes + 1 /\ UNCHANGED strays
           /\ Send(msg, AnswerOf(msg))
        \/ UNCHANGED <<taken, takes, strays, tx, wire>>
    BY DEF Take
  <1>7. tx' \in TxType /\ tx'.sent <= tx'.total /\ wire' \in Seq(FrameType)
    BY <1>4, <1>5, <1>6, Unfold, SendIs
  <1> HIDE DEF msg
  <1>8. /\ takes' \in Nat /\ strays' \in Nat /\ strays' <= intruded
        /\ Delivered' \in {Delivered, Begun} /\ (Delivered' # Delivered => Begun > 0)
        /\ Channel!Next \/ UNCHANGED <<offered, Delivered, takes, intruded, strays>>
    <2>1. CASE msg = 0 /\ strays' = strays + 1 /\ UNCHANGED <<taken, takes>>
      <3>1. strays < intruded /\ strays \in Nat /\ intruded \in Nat /\ takes \in Nat
        BY <1>3, <1>4, <2>1, Unfold
      <3>2. Delivered' = Delivered
        BY <2>1 DEF Delivered
      <3>3. Channel!DeliverStray
        BY <1>1, <2>1, <3>1, <3>2 DEF Channel!DeliverStray, Delivered
      <3> QED
        BY <2>1, <3>1, <3>2, <3>3 DEF Channel!Next
    <2>2. CASE msg # 0 /\ taken' = rx.buf /\ takes' = takes + 1 /\ UNCHANGED strays
      <3>1. Delivered' = Begun /\ Begun > 0
        <4>1. rx.buf # <<>> /\ Begun > 0
          BY <1>3, <1>4, <2>2 DEF Begun
        <4> QED
          BY <1>3, <2>2, <4>1 DEF Delivered
      <3>2. Begun \in (Delivered + 1) .. offered
        BY <1>3, <3>1, Unfold
      <3>3. Channel!Deliver
        BY <1>1, <2>2, <3>1, <3>2 DEF Channel!Deliver, Delivered
      <3> QED
        BY <2>2, <3>1, <3>3, Unfold DEF Channel!Next
    <2>3. CASE UNCHANGED <<taken, takes, strays, tx, wire>>
      <3>1. Delivered' = Delivered
        BY <2>3 DEF Delivered
      <3> QED
        BY <1>1, <2>3, <3>1, Unfold
    <2> QED
      BY <1>6, <2>1, <2>2, <2>3
  <1>9. IsoTypes'
    <2>2. rx' \in RxType' /\ tx' \in TxType' /\ tool' \in ToolType' /\ wire' \in Seq(FrameType')
      BY <1>1, <1>2, <1>7, Unfold DEF TxType, ToolType, FrameType
    <2> QED
      BY <1>1, <1>7, <1>8, <2>2, Unfold DEF IsoTypes
  <1>10. InOrder'
    <2>1. Floor' = Floor /\ Delivered' \in Nat /\ Delivered' <= Floor
      BY <1>3, <1>8, Unfold DEF Floor
    <2> QED
      BY <1>1, <1>3, <1>8, <2>1, Unfold DEF InOrder
  <1> QED
    BY <1>8, <1>9, <1>10 DEF IsoInv, ChannelStep
-----------------------------------------------------------------------------
LEMMA QueueHigher ==
    ASSUME NEW q, NEW lo, NEW hi \in Nat, NEW top \in Nat, hi <= top, Queue(q, lo, hi)
    PROVE  Queue(q, lo, top)
  <1>1. \A i \in 1 .. Len(q) : q[i] \in FrameType
    BY DEF Queue
  <1>2. ASSUME NEW i \in 1 .. Len(q)
        PROVE  Posted(q[i], top)
    <2>1. Posted(q[i], hi)
      BY DEF Queue
    <2>2. q[i].msg \in Nat
      BY <1>1 DEF FrameType
    <2> QED
      BY <2>1, <2>2 DEF Posted
  <1> QED
    BY <1>2 DEF Queue

\* What a step of the tool or of the bus has to leave for the invariant to hold.
LEMMA OutsideStep ==
    ASSUME IsoInv, UNCHANGED ecuVars, wire' \in Seq(FrameType),
           tool' \in ToolType, tool'.stage # "idle" => tool'.at \in 1 .. Len(tool'.script),
           tool'.stage \in {"flow", "rest"} => offered' > 0,
           lost' \in 0 .. MaxLost, foreign' \in 0 .. MaxForeign, runs' \in 0 .. MaxRuns,
           \/ UNCHANGED <<offered, kindOf>>
           \/ offered' = offered + 1 /\ kindOf' \in Seq(Kinds) /\ Len(kindOf') = offered',
           \/ fifo' = fifo
           \/ fifo # <<>> /\ fifo' = Tail(fifo)
           \/ \E f \in FrameType : /\ Len(fifo) < FifoSize /\ fifo' = Append(fifo, f)
                                   /\ Posted(f, offered') /\ (Opener(f) => offered < f.msg)
    PROVE  IsoInv' /\ ChannelStep
  <1>1. /\ offered \in Nat /\ offered' \in Nat /\ offered <= offered'
        /\ kindOf' \in Seq(Kinds) /\ Len(kindOf') = offered'
    <2>1. offered \in Nat /\ kindOf \in Seq(Kinds) /\ Len(kindOf) = offered
      BY Unfold
    <2> QED
      BY <2>1
  <1>2. UNCHANGED <<rx, tx, taken, takes, strays, intruded>>
    BY DEF ecuVars
  <1>3. rx' \in RxType'
    <2>1. Cells \subseteq Cells'
      BY <1>1 DEF Cells
    <2>2. rx.buf \in Seq(Cells')
      BY <2>1, Unfold, RxIs, SeqMonotonic
    <2>3. rx' = [state |-> rx.state, buf |-> rx.buf, received |-> rx.received, total |-> rx.total,
                 next |-> rx.next, complete |-> rx.complete]
      BY <1>2, Unfold, RxIs
    <2> QED
      BY <2>2, <2>3, Unfold, RxIs DEF RxType
  <1>4. Begun' = Begun /\ Delivered' = Delivered /\ Floor' = Floor /\ Active' = Active
    BY <1>2 DEF Begun, Delivered, Floor, Active
  <1>5. Queue(fifo', Floor, offered') /\ Len(fifo') <= FifoSize
    <2>1. Queue(fifo, Floor, offered') /\ Len(fifo) \in Nat
      <3>1. Queue(fifo, Floor, offered')
        BY <1>1, Unfold, QueueHigher
      <3> QED
        BY <3>1 DEF Queue
    <2>2. CASE fifo' = fifo
      BY <2>1, <2>2, Unfold
    <2>3. CASE fifo # <<>> /\ fifo' = Tail(fifo)
      <3>1. Queue(Tail(fifo), Floor, offered') /\ Len(Tail(fifo)) < Len(fifo)
        BY <1>1, <2>1, <2>3, Unfold, QueueHead
      <3>2. Len(Tail(fifo)) \in Nat
        BY <3>1 DEF Queue
      <3> QED
        BY <2>1, <2>3, <3>1, <3>2, Unfold, Constants
    <2>4. ASSUME NEW f \in FrameType, Len(fifo) < FifoSize, fifo' = Append(fifo, f),
                 Posted(f, offered'), Opener(f) => offered < f.msg
          PROVE  Queue(fifo', Floor, offered') /\ Len(fifo') <= FifoSize
      <3>1. Queue(fifo, Floor, offered) /\ Floor \in Nat /\ Floor <= offered /\ offered \in Nat
        BY Unfold
      <3>2. Queue(Append(fifo, f), Floor, offered') /\ Len(Append(fifo, f)) = Len(fifo) + 1
        BY <1>1, <2>4, <3>1, QueueAppend
      <3>3. Len(fifo) \in Nat /\ FifoSize \in Nat
        BY <2>1, Constants
      <3>4. Len(Append(fifo, f)) <= FifoSize
        BY <2>4, <3>2, <3>3
      <3> QED
        BY <2>4, <3>2, <3>4
    <2> QED
      BY <2>2, <2>3, <2>4
  <1>6. IsoTypes'
    BY <1>1, <1>2, <1>3, <1>5, Unfold DEF IsoTypes, TxType, ToolType, FrameType
  <1>7. InOrder'
    <2>1. /\ Delivered \in Nat /\ Delivered <= Floor /\ Floor <= offered'
          /\ strays <= intruded
          /\ Active => /\ rx.buf # <<>>
                       /\ Begun > 0 => Delivered < Begun
                       /\ Begun = 0 => strays < intruded
      <3>1. /\ Delivered \in Nat /\ Floor \in Nat /\ Delivered <= Floor /\ Floor <= offered
            /\ strays <= intruded /\ (Active => rx.buf # <<>>)
            /\ (Active /\ Begun > 0 => Delivered < Begun)
            /\ (Active /\ Begun = 0 => strays < intruded)
        BY Unfold
      <3> QED
        BY <1>1, <3>1
    <2> QED
      BY <1>2, <1>4, <1>5, <2>1 DEF InOrder
  <1>8. ChannelStep
    <2>1. CASE offered' = offered + 1
      BY <1>2, <1>4, <2>1 DEF ChannelStep, Channel!Next, Channel!Offer, Delivered
    <2>2. CASE offered' = offered
      BY <1>2, <1>4, <2>2 DEF ChannelStep
    <2> QED
      BY <2>1, <2>2
  <1> QED
    BY <1>6, <1>7, <1>8 DEF IsoInv

LEMMA NoToolIs == NoTool \in ToolType /\ NoTool.stage = "idle"
  BY DEF NoTool, ToolType

LEMMA ToolIs ==
    ASSUME IsoInv
    PROVE  /\ tool = [stage |-> tool.stage, script |-> tool.script, at |-> tool.at, k |-> tool.k,
                      got |-> tool.got, total |-> tool.total, from |-> tool.from]
           /\ tool.script \in Seq(Kinds) /\ tool.at \in Nat /\ tool.k \in Nat /\ tool.got \in Nat
           /\ tool.total \in Nat /\ tool.from \in Nat /\ Len(tool.script) \in Nat
           /\ tool.stage # "idle" => /\ tool.at \in 1 .. Len(tool.script) /\ Kind \in Kinds
                                     /\ Length[Kind] \in Nat
  <1>1. tool \in ToolType
    BY Unfold
  <1>2. tool.stage # "idle" => tool.at \in 1 .. Len(tool.script) /\ Kind \in Kinds
    BY <1>1, Unfold, ElementOfSeq DEF Kind, ToolType
  <1>3. Length \in [Kinds -> Nat \ {0}]
    BY IsoTpAssumption DEF IsoTpAssumption
  <1>4. tool.stage # "idle" => Length[Kind] \in Nat
    BY <1>2, <1>3
  <1> QED
    BY <1>1, <1>2, <1>4 DEF ToolType

\* A tool after a step, as far as the invariant asks.
Fine(t, n) ==
    /\ t \in ToolType /\ (t.stage # "idle" => t.at \in 1 .. Len(t.script))
    /\ t.stage \in {"flow", "rest"} => n > 0

LEMMA FineTools ==
    ASSUME IsoInv, tool.stage # "idle", NEW n
    PROVE  /\ Fine(NoTool, n) /\ Fine(Proceed(tool), n) /\ Fine(AfterRequest(tool), n)
           /\ \A m : Fine(Answered(tool, m), n)
  <1>1. Fine(NoTool, n)
    BY NoToolIs DEF Fine
  <1>2. Fine(Proceed(tool), n)
    <2>1. CASE tool.at = Len(tool.script)
      BY <1>1, <2>1 DEF Proceed
    <2>2. CASE tool.at # Len(tool.script)
      <3>1. tool.at + 1 \in 1 .. Len(tool.script)
        BY <2>2, ToolIs
      <3>2. Proceed(tool) = [stage |-> "send", script |-> tool.script, at |-> tool.at + 1, k |-> 0,
                             got |-> 0, total |-> 0, from |-> 0]
        BY <2>2 DEF Proceed, NoTool
      <3> QED
        BY <3>1, <3>2, ToolIs DEF Fine, ToolType
    <2> QED
      BY <2>1, <2>2
  <1>3. Fine([tool EXCEPT !.stage = "answer"], n)
    BY ToolIs DEF Fine, ToolType
  <1> QED
    BY <1>1, <1>2, <1>3 DEF AfterRequest, Answered

LEMMA PostIs ==
    ASSUME NEW f, Post(f)
    PROVE  fifo' = fifo \/ (Len(fifo) < FifoSize /\ fifo' = Append(fifo, f))
  BY DEF Post

\* A new request: it is numbered, and its first frame posted.
LEMMA SendFirstStep ==
    ASSUME IsoInv, SendFirst
    PROVE  IsoInv' /\ ChannelStep
  <1>0. tool.stage # "idle" /\ Kind \in Kinds /\ Length[Kind] \in Nat /\ offered \in Nat
    BY Unfold, ToolIs DEF SendFirst
  <1>1. /\ UNCHANGED <<ecuVars, wire, runs, lost, foreign>>
        /\ offered' = offered + 1 /\ kindOf' = Append(kindOf, Kind)
    BY DEF SendFirst, busVars
  <1>2. kindOf' \in Seq(Kinds) /\ Len(kindOf') = offered' /\ offered' \in Nat /\ offered < offered'
    <2>1. kindOf \in Seq(Kinds) /\ Len(kindOf) = offered
      BY Unfold
    <2>2. Append(kindOf, Kind) \in Seq(Kinds) /\ Len(Append(kindOf, Kind)) = Len(kindOf) + 1
      BY <1>0, <2>1, AppendProperties
    <2> QED
      BY <1>0, <1>1, <2>1, <2>2
  <1>3. ASSUME NEW type \in {"SF", "FF"}, type = "SF" => Length[Kind] <= SingleMax,
               Post(CanFrame(type, offered', 0, Length[Kind]))
        PROVE  \/ fifo' = fifo
               \/ \E f \in FrameType : /\ Len(fifo) < FifoSize /\ fifo' = Append(fifo, f)
                                       /\ Posted(f, offered') /\ (Opener(f) => offered < f.msg)
    <2> DEFINE f == CanFrame(type, offered', 0, Length[Kind])
    <2>1. f \in FrameType /\ f.type = type /\ f.msg = offered' /\ f.n = Length[Kind]
      BY <1>0, <1>2 DEF CanFrame, FrameType
    <2> HIDE DEF f
    <2>2. Posted(f, offered') /\ offered < f.msg
      BY <1>0, <1>2, <1>3, <2>1, Constants DEF Posted
    <2>3. fifo' = fifo \/ (Len(fifo) < FifoSize /\ fifo' = Append(fifo, f))
      BY <1>3, PostIs DEF f
    <2> QED
      BY <2>1, <2>2, <2>3
  <1>4. CASE Length[Kind] <= SingleMax
    <2>1. Post(CanFrame("SF", offered', 0, Length[Kind])) /\ tool' = AfterRequest(tool)
      BY <1>4 DEF SendFirst
    <2>2. Fine(tool', offered')
      BY <1>0, <2>1, FineTools
    <2> QED
      BY <1>1, <1>2, <1>3, <1>4, <2>1, <2>2, Unfold, OutsideStep DEF Fine
  <1>5. CASE ~(Length[Kind] <= SingleMax)
    <2>1. Post(CanFrame("FF", offered', 0, Length[Kind])) /\ tool' = [tool EXCEPT !.stage = "flow"]
      BY <1>5 DEF SendFirst
    <2>2. Fine(tool', offered')
      <3>1. tool' \in ToolType /\ tool'.at = tool.at /\ tool'.script = tool.script
        BY <2>1, ToolIs DEF ToolType
      <3>2. offered' > 0
        BY <1>0, <1>1
      <3> QED
        BY <1>0, <3>1, <3>2, ToolIs DEF Fine
    <2> QED
      BY <1>1, <1>2, <1>3, <2>1, <2>2, Unfold, OutsideStep DEF Fine
  <1> QED
    BY <1>4, <1>5

\* The frames of the tool that begin nothing.
LEMMA PostedMore ==
    ASSUME NEW f \in FrameType, Post(f), ~Begins(f), Posted(f, offered), UNCHANGED offered
    PROVE  \/ fifo' = fifo
           \/ \E g \in FrameType : /\ Len(fifo) < FifoSize /\ fifo' = Append(fifo, g)
                                   /\ Posted(g, offered') /\ (Opener(g) => offered < g.msg)
  BY PostIs DEF Opener

LEMMA GetFlowControlStep ==
    ASSUME IsoInv, GetFlowControl
    PROVE  IsoInv' /\ ChannelStep
  <1>1. tool.stage = "flow" /\ wire # <<>> /\ wire' = Tail(wire) /\ UNCHANGED <<ecuVars, fifo, offered, kindOf, runs, lost, foreign>>
    BY DEF GetFlowControl, busVars
  <1>2. Fine([tool EXCEPT !.stage = "rest", !.k = 1], offered)
    <2>1. tool \in ToolType /\ offered > 0 /\ tool.at \in 1 .. Len(tool.script)
      BY <1>1, Unfold
    <2> QED
      BY <2>1 DEF Fine, ToolType
  <1>3. Fine(tool', offered')
    BY <1>1, <1>2, FineTools DEF GetFlowControl
  <1>4. wire' \in Seq(FrameType)
    BY <1>1, Unfold
  <1> QED
    BY <1>1, <1>3, <1>4, Unfold, OutsideStep DEF Fine

LEMMA SendRestStep ==
    ASSUME IsoInv, SendRest
    PROVE  IsoInv' /\ ChannelStep
  <1>1. /\ tool.stage = "rest" /\ Post(Consecutive(offered, tool.k))
        /\ UNCHANGED <<ecuVars, wire, offered, kindOf, runs, lost, foreign>>
    BY DEF SendRest, busVars
  <1>2. Fine([tool EXCEPT !.k = tool.k + 1], offered)
    <2>1. [tool EXCEPT !.k = tool.k + 1] =
             [stage |-> "rest", script |-> tool.script, at |-> tool.at, k |-> tool.k + 1,
              got |-> tool.got, total |-> tool.total, from |-> tool.from]
      BY <1>1, ToolIs
    <2>2. tool.k + 1 \in Nat
      BY ToolIs
    <2> QED
      BY <1>1, <2>1, <2>2, ToolIs, Unfold DEF Fine, ToolType
  <1>3. Fine(tool', offered')
    BY <1>1, <1>2, FineTools DEF SendRest
  <1> DEFINE f == Consecutive(offered, tool.k)
  <1>4. f \in FrameType /\ ~Begins(f) /\ Posted(f, offered)
    <2>1. f = [type |-> "CF", msg |-> offered, part |-> tool.k, n |-> tool.k % SeqMod]
      BY DEF Consecutive, CanFrame
    <2>2. offered \in Nat /\ offered > 0 /\ tool.k \in Nat /\ tool.k % SeqMod \in Nat
      BY <1>1, Unfold, ToolIs, Constants
    <2> QED
      BY <2>1, <2>2 DEF FrameType, Begins, Posted
  <1> HIDE DEF f
  <1>5. \/ fifo' = fifo
        \/ \E g \in FrameType : /\ Len(fifo) < FifoSize /\ fifo' = Append(fifo, g)
                                /\ Posted(g, offered') /\ (Opener(g) => offered < g.msg)
    BY <1>1, <1>4, PostedMore DEF f
  <1> QED
    BY <1>1, <1>3, <1>5, Unfold, OutsideStep DEF Fine

LEMMA GetAnswerStep ==
    ASSUME IsoInv, GetAnswer
    PROVE  IsoInv' /\ ChannelStep
  <1> DEFINE f == Head(wire)
  <1>1. /\ tool.stage = "answer" /\ wire # <<>> /\ wire' = Tail(wire)
        /\ UNCHANGED <<ecuVars, offered, kindOf, runs, lost, foreign>>
    BY DEF GetAnswer, busVars
  <1>2. f \in FrameType /\ wire' \in Seq(FrameType)
    BY <1>1, Unfold
  <1>3. \/ f.type = "SF" /\ tool' = Answered(tool, f.msg) /\ UNCHANGED fifo
        \/ /\ tool' = [tool EXCEPT !.stage = "collect", !.k = 1, !.got = FirstLen,
                                    !.total = f.n, !.from = f.msg]
           /\ Post(FlowControl(BlockSize))
        \/ tool' \in {NoTool, Proceed(tool)} /\ UNCHANGED fifo
    BY DEF GetAnswer
  <1> HIDE DEF f
  <1>4. Fine([tool EXCEPT !.stage = "collect", !.k = 1, !.got = FirstLen, !.total = f.n, !.from = f.msg], offered)
    <2>1. tool \in ToolType /\ tool.at \in 1 .. Len(tool.script)
      BY <1>1, Unfold
    <2>2. f.n \in Nat /\ f.msg \in Nat /\ FirstLen \in Nat
      BY <1>2, Constants DEF FrameType
    <2> QED
      BY <2>1, <2>2 DEF Fine, ToolType
  <1>5. Fine(tool', offered')
    BY <1>1, <1>3, <1>4, FineTools
  <1>6. FlowControl(BlockSize) \in FrameType /\ ~Begins(FlowControl(BlockSize)) /\ Posted(FlowControl(BlockSize), offered)
    BY Constants, Unfold DEF FlowControl, CanFrame, FrameType, Begins, Posted
  <1>7. \/ fifo' = fifo
        \/ \E g \in FrameType : /\ Len(fifo) < FifoSize /\ fifo' = Append(fifo, g)
                                /\ Posted(g, offered') /\ (Opener(g) => offered < g.msg)
    BY <1>1, <1>3, <1>6, PostedMore
  <1> QED
    BY <1>1, <1>2, <1>5, <1>7, Unfold, OutsideStep DEF Fine

LEMMA CollectStep ==
    ASSUME IsoInv, Collect
    PROVE  IsoInv' /\ ChannelStep
  <1> DEFINE got == Min(tool.got + ChunkLen, tool.total)
  <1>1. /\ tool.stage = "collect" /\ wire # <<>> /\ wire' = Tail(wire)
        /\ UNCHANGED <<ecuVars, fifo, offered, kindOf, runs, lost, foreign>>
    BY DEF Collect, busVars
  <1>2. tool' \in {NoTool, Answered(tool, tool.from), [tool EXCEPT !.got = got, !.k = tool.k + 1]}
    BY DEF Collect
  <1>3. Fine([tool EXCEPT !.got = got, !.k = tool.k + 1], offered)
    <2>1. got \in Nat /\ tool.k + 1 \in Nat
      <3>1. tool.got + ChunkLen \in Nat /\ tool.total \in Nat /\ tool.k + 1 \in Nat
        <4>1. tool.got \in Nat /\ tool.k \in Nat /\ tool.total \in Nat
          BY ToolIs
        <4>2. ChunkLen \in Nat
          BY Constants
        <4> QED
          BY <4>1, <4>2
      <3> QED
        BY <3>1, MinIs
    <2>2. tool \in ToolType /\ tool.at \in 1 .. Len(tool.script)
      BY <1>1, Unfold
    <2> HIDE DEF got
    <2> QED
      BY <1>1, <2>1, <2>2 DEF Fine, ToolType
  <1> HIDE DEF got
  <1>4. Fine(tool', offered')
    BY <1>1, <1>2, <1>3, FineTools
  <1>5. wire' \in Seq(FrameType)
    BY <1>1, Unfold
  <1> QED
    BY <1>1, <1>4, <1>5, Unfold, OutsideStep DEF Fine

LEMMA OtherSteps ==
    ASSUME IsoInv, StartRun \/ ToolGivesUp \/ LoseFrame \/ ForeignFrame
    PROVE  IsoInv' /\ ChannelStep
  <1>1. CASE StartRun
    <2>1. PICK s \in Scripts : tool' = [NoTool EXCEPT !.stage = "send", !.script = s]
      BY <1>1, Zenon DEF StartRun
    <2>2. s \in Seq(Kinds) /\ s # <<>>
      BY IsoTpAssumption DEF IsoTpAssumption
    <2>3. 1 \in 1 .. Len(s)
      BY <2>2, EmptySeq
    <2>4. tool' = [stage |-> "send", script |-> s, at |-> 1, k |-> 0, got |-> 0, total |-> 0, from |-> 0]
      BY <2>1 DEF NoTool
    <2>5. Fine(tool', offered')
      BY <2>2, <2>3, <2>4 DEF Fine, ToolType
    <2>6. /\ wire' = <<>> /\ runs < MaxRuns /\ runs' = runs + 1
          /\ UNCHANGED <<ecuVars, fifo, offered, kindOf, lost, foreign>>
      BY <1>1, Zenon DEF StartRun, busVars
    <2>7. wire' \in Seq(FrameType) /\ runs' \in 0 .. MaxRuns
      <3>1. runs \in 0 .. MaxRuns
        BY Unfold
      <3>2. MaxRuns \in Nat
        BY Constants
      <3> QED
        BY <2>6, <3>1, <3>2
    <2> QED
      BY <2>5, <2>6, <2>7, Unfold, OutsideStep DEF Fine
  <1>2. CASE ToolGivesUp
    <2>1. tool.stage # "idle" /\ tool' = NoTool /\ UNCHANGED <<ecuVars, fifo, wire, offered, kindOf, runs, lost, foreign>>
      BY <1>2 DEF ToolGivesUp, busVars
    <2> QED
      BY <2>1, Unfold, NoToolIs, OutsideStep
  <1>3. CASE LoseFrame
    <2>1. /\ lost < MaxLost /\ lost' = lost + 1 /\ UNCHANGED <<ecuVars, tool, offered, kindOf, runs, foreign>>
          /\ \/ fifo # <<>> /\ fifo' = Tail(fifo) /\ UNCHANGED wire
             \/ wire # <<>> /\ wire' = Tail(wire) /\ UNCHANGED fifo
      BY <1>3 DEF LoseFrame, toolVars
    <2>2. wire' \in Seq(FrameType)
      <3>1. CASE wire # <<>> /\ wire' = Tail(wire)
        BY <3>1, Unfold
      <3>2. CASE wire' = wire
        BY <3>2, Unfold
      <3> QED
        BY <2>1, <3>1, <3>2
    <2>3. lost' \in 0 .. MaxLost
      <3>1. lost \in 0 .. MaxLost
        BY Unfold
      <3>2. MaxLost \in Nat
        BY Constants
      <3> QED
        BY <2>1, <3>1, <3>2
    <2> QED
      BY <2>1, <2>2, <2>3, Unfold, OutsideStep
  <1>4. CASE ForeignFrame
    <2>1. /\ foreign < MaxForeign /\ foreign' = foreign + 1 /\ Len(fifo) < FifoSize
          /\ UNCHANGED <<ecuVars, wire, tool, offered, kindOf, runs, lost>>
      BY <1>4 DEF ForeignFrame, toolVars
    <2>2. PICK f \in Foreign : fifo' = Append(fifo, f)
      BY <1>4 DEF ForeignFrame
    <2>3. foreign' \in 0 .. MaxForeign
      <3>1. foreign \in 0 .. MaxForeign
        BY Unfold
      <3>2. MaxForeign \in Nat
        BY Constants
      <3> QED
        BY <2>1, <3>1, <3>2
    <2>4. f \in FrameType /\ Posted(f, offered') /\ ~Opener(f)
      <3>1. /\ f \in [type : FrameTypes, msg : {0}, part : {0}, n : Nat]
            /\ f.type = "SF" => f.n <= MaxPayload
            /\ f.type = "FC" => f.n <= 255
        BY IsoTpAssumption DEF IsoTpAssumption
      <3>2. offered' \in Nat
        BY <2>1, Unfold
      <3> QED
        BY <3>1, <3>2 DEF FrameType, FrameTypes, Posted, Opener
    <2> QED
      BY <2>1, <2>2, <2>3, <2>4, Unfold, OutsideStep
  <1> QED
    BY <1>1, <1>2, <1>3, <1>4

LEMMA IsoInitInv == IsoInit => IsoInv
  <1> SUFFICES ASSUME IsoInit PROVE IsoInv
    OBVIOUS
  <1>1. rx \in RxType
    <2>1. 0 \in 0 .. MaxPayload /\ 0 \in 0 .. SeqMod - 1
      BY Constants
    <2> QED
      BY <2>1 DEF IsoInit, RxType
  <1>2. tx \in TxType /\ tx.sent <= tx.total
    <2>1. 0 \in 0 .. MaxPayload /\ 0 \in 0 .. NoLimit
      BY Constants
    <2> QED
      BY <2>1 DEF IsoInit, TxType
  <1>3. IsoTypes
    <2>1. Len(fifo) <= FifoSize /\ lost \in 0 .. MaxLost /\ foreign \in 0 .. MaxForeign /\ runs \in 0 .. MaxRuns
      BY Constants DEF IsoInit
    <2> QED
      BY <1>1, <1>2, <2>1, NoToolIs DEF IsoInit, IsoTypes, NoTool
  <1>4. Begun = 0 /\ Delivered = 0 /\ Floor = 0 /\ ~Active
    BY DEF IsoInit, Begun, Delivered, Floor, Active
  <1>5. Queue(<<>>, 0, 0)
    BY DEF Queue
  <1> QED
    BY <1>3, <1>4, <1>5 DEF IsoInv, InOrder, IsoInit

LEMMA IsoStepInv ==
    ASSUME IsoInv, [IsoNext]_isoVars
    PROVE  IsoInv' /\ ChannelStep
  <1>1. CASE IsoNext
    BY <1>1, PollFrameStep, RxTimeoutStep, TakeStep, SendFirstStep, GetFlowControlStep, SendRestStep,
       GetAnswerStep, CollectStep, OtherSteps DEF IsoNext, ToolStep
  <1>2. CASE UNCHANGED isoVars
    <2>1. UNCHANGED <<rx, tx, taken, takes, strays, intruded, fifo, wire, tool, offered, kindOf, runs, lost, foreign>>
      BY <1>2 DEF isoVars, ecuVars, toolVars, busVars
    <2> QED
      BY <2>1 DEF IsoInv, IsoTypes, InOrder, RxType, TxType, ToolType, FrameType, Cells, Begun, Delivered,
                  Floor, Active, ChannelStep
  <1> QED
    BY <1>1, <1>2

LEMMA IsoAlways == IsoSpec => []IsoInv
  BY IsoInitInv, IsoStepInv, PTL DEF IsoSpec

\* Whatever frames of whatever messages follow each other, the reassembly stays
\* within the payload buffer (isotp.c), and the other variables keep their types.
THEOREM IsoTypeCorrect == IsoSpec => []IsoTypeOK
  <1>1. IsoInv => IsoTypeOK
    <2> SUFFICES ASSUME IsoInv PROVE IsoTypeOK
      OBVIOUS
    <2>1. tx \in TxType /\ tx.sent <= tx.total /\ tool \in ToolType
      BY Unfold
    <2>2. /\ tx.total \in 0 .. MaxPayload /\ tx.sent \in Nat /\ tx.pending \in BOOLEAN /\ tx.block \in 0 .. NoLimit
          /\ tool.stage \in {"idle", "send", "flow", "rest", "answer", "collect"}
      BY <2>1 DEF TxType, ToolType
    <2>3. tx.sent \in 0 .. tx.total
      BY <2>1, <2>2, Constants
    <2> QED
      BY <2>2, <2>3, Unfold, RxIs DEF IsoTypeOK
  <1> QED
    BY <1>1, IsoAlways, PTL

\* The server gets the messages of the tool in order and once, and no more messages
\* of other nodes than these began, whatever frames of any nodes are lost, refused or
\* overwritten: each step is one of MessageChannel or a stutter.
THEOREM ServerGetsMessagesInOrder == IsoSpec => ImplementsChannel
  <1>1. IsoInit => Channel!Init
    BY DEF IsoInit, Channel!Init
  <1>2. ChannelStep => [Channel!Next]_<<offered, IF taken = <<>> THEN 0 ELSE taken[1][1], takes, intruded, strays>>
    BY DEF ChannelStep, Delivered
  <1> QED
    BY <1>1, <1>2, IsoAlways, IsoStepInv, PTL DEF IsoSpec, ImplementsChannel, Channel!Spec, Channel!channelVars

-----------------------------------------------------------------------------
(***************************************************************************)
(* Whole messages.                                                         *)
(*                                                                         *)
(* Consecutive frames carry no message number: a reception goes on with    *)
(* whatever frame has the sequence number it waits for, and that number    *)
(* wraps.  That no message is put together of two is not a fact about the  *)
(* transport alone, then.  It holds because the tool asks before it goes   *)
(* on, and because its scripts are Orderly: by the time a long request is  *)
(* sent, the answers to the two before it have shown that nothing of an    *)
(* earlier run is left on the way.                                         *)
(*                                                                         *)
(* And it holds only as long as no other node is heard (alone): a frame of *)
(* another node may end a reception or take the place of a part of it.     *)
(* NoStrays says that nothing of another node is on the way; it holds from *)
(* the start, and again from a run on that finds nothing under way.        *)
(*                                                                         *)
(* The inductive invariant says what may be in the FIFO and on the wire at *)
(* each stage of the tool: WholeInv.  Its core is Receiving: a reception   *)
(* that misses a part has fewer parts than the number of the last one it   *)
(* holds, and never catches up before the parts of its message run out.    *)
(***************************************************************************)
All(q, S) == \A i \in 1 .. Len(q) : q[i] \in S
Chain(q, R) == \A i, j \in 1 .. Len(q) : i < j => <<q[i], q[j]>> \in R

Pairs == FrameType \X FrameType
Opens(f) == f.type = "FF" /\ f.n <= MaxPayload

\* What a reception is of, and the last part it holds.
Of(r) == r.buf[1][1]
LastPart(r) == r.buf[Len(r.buf)][2]
Size(K, m) == Length[K[m]]

\* A reception holds as many parts as it counts, and either all of them up to the
\* last or, if one is missing, fewer than the number of the last.
Receiving(r, K) ==
    /\ r.state = "in_progress" =>
         /\ ~r.complete
         /\ r.total = Size(K, Of(r)) /\ SingleMax < r.total
         /\ r.received = FirstLen + (Len(r.buf) - 1) * ChunkLen /\ r.received < r.total
         /\ Len(r.buf) - 1 <= LastPart(r)
         /\ LastPart(r) = Len(r.buf) - 1 => r.buf = [i \in 1 .. Len(r.buf) |-> <<Of(r), i - 1>>]
    /\ r.complete => r.buf = Content(Of(r), Size(K, Of(r)))

\* The FIFO: frames that are what their message is, in an order that keeps the parts
\* of messages apart, and that fit the reception r.
Sound(K) == {f \in FrameType :
    /\ Begins(f) => f.part = 0 /\ f.n = Size(K, f.msg) /\ (f.type = "FF" => SingleMax < f.n)
    /\ f.type = "CF" => f.part <= Chunks(Size(K, f.msg))}
Apart == {p \in Pairs :
    /\ Opens(p[2]) => p[1].type = "FC"
    /\ Opens(p[1]) => p[2].type # "CF"
    /\ p[1].type = "CF" /\ p[2].type = "CF" => p[1].part < p[2].part}
Fitting(r) == {f \in FrameType :
    /\ Opens(f) => ~r.complete
    /\ f.type = "CF" /\ r.state = "in_progress" => f.msg = Of(r) /\ LastPart(r) < f.part}
FifoIs(r, q, K) == All(q, Sound(K)) /\ Chain(q, Apart) /\ All(q, Fitting(r))

\* The answers on the wire: of what was delivered, in order, and later than the one
\* the tool collects.
Rising == {p \in Pairs : Begins(p[1]) /\ Begins(p[2]) => p[1].msg < p[2].msg}
UpTo(d) == {f \in FrameType : Begins(f) => f.msg <= d}
Beyond(d) == {f \in FrameType : Begins(f) => d < f.msg}
WireIs(w, d, t) ==
    /\ Chain(w, Rising) /\ All(w, UpTo(d))
    /\ t.stage = "collect" => t.from <= d /\ All(w, Beyond(t.from))

NoFc      == {f \in FrameType : f.type # "FC"}
NoCf      == {f \in FrameType : f.type # "CF"}
NoAnswer  == {f \in FrameType : ~Begins(f)}
NoOpening == {f \in FrameType : ~Opens(f)}
Plain     == {f \in FrameType : ~Opens(f) /\ f.type # "CF"}
Still(r, q) == All(q, Plain) /\ r.state # "in_progress"

\* The first request of a run has number n. What earlier runs left behind may give one
\* answer; after it there is nothing on the way but this request.
Single(n)   == {f \in FrameType : f.type = "FC" \/ (f.type = "SF" /\ f.msg = n)}
AnswerTo(n) == {f \in FrameType : Begins(f) => f.msg = n}
OwnAfter(n) == {p \in Pairs : Begins(p[1]) => p[2].type # "FC" /\ p[2] \in AnswerTo(n)}
Flushed(r, q, n) ==
    All(q, Single(n)) /\ r.state # "in_progress" /\ (r.complete => Of(r) = n)
FirstRequest(r, q, w, t, n) ==
    /\ t.stage \in {"send", "answer", "collect"}
    /\ Chain(w, OwnAfter(n))
    /\ ~All(w, NoAnswer) => Flushed(r, q, n)
    /\ t.stage = "collect" => Flushed(r, q, n) /\ All(w, NoFc) /\ All(w, AnswerTo(n))

\* Later no first frame and no part of a message is on the way but those of the request
\* number o of the tool. It waits for the flow control (Opening), and sends the rest
\* (Continuing), k being next.
OneFc == {p \in Pairs : p[1].type = "FC" => p[2].type # "FC"}
Opening(r, q, w, o) ==
    /\ ~r.complete /\ All(w, NoAnswer) /\ All(q, NoCf)
    /\ r.state = "in_progress" => All(q, Plain) /\ Of(r) = o /\ Len(r.buf) = 1 /\ LastPart(r) = 0
    /\ ~All(w, NoFc) => All(q, Plain)
    /\ Chain(w, OneFc)
Before(k) == {f \in FrameType : ~Opens(f) /\ (f.type = "CF" => f.part < k)}
Continuing(r, q, w, o, k) ==
    /\ ~r.complete /\ All(w, NoAnswer) /\ All(w, NoFc) /\ All(q, Before(k))
    /\ r.state = "in_progress" => Of(r) = o /\ LastPart(r) < k
LaterRequest(r, q, w, t, o) ==
    /\ t.stage \in {"send", "collect"} => Still(r, q) /\ All(w, NoFc)
    /\ t.stage = "flow" => IF Long(t.script[t.at]) THEN Opening(r, q, w, o)
                           ELSE Still(r, q) /\ All(w, NoFc)
    /\ t.stage = "rest" => /\ Long(t.script[t.at]) /\ t.k \in 1 .. Chunks(Length[t.script[t.at]])
                           /\ Continuing(r, q, w, o, t.k)
    /\ t.stage = "answer" => /\ All(w, NoFc) /\ All(q, NoOpening)
                             /\ ~Long(t.script[t.at]) \/ ~All(w, NoAnswer) => Still(r, q)

\* If the first two requests of a script differ, nothing on the way is older than the
\* first request from the second one on, and than the own request after that.
Own(t, o)   == IF t.stage = "send" THEN o + 1 ELSE o
Least(t, o) == IF t.at = 2 THEN Own(t, o) - 1 ELSE Own(t, o)
Since(n)   == {f \in FrameType : f.type # "FC" => n <= f.msg}
Answers(n) == {f \in FrameType : Begins(f) => n <= f.msg}
Young(r, q, w, t, n) ==
    /\ All(q, Since(n)) /\ All(w, Answers(n))
    /\ r.complete => n <= Of(r)
    /\ t.stage = "collect" => n <= t.from

RunIs(r, q, w, t, o, K) ==
    t.stage # "idle" =>
      /\ t.script \in Scripts
      /\ t.stage # "send" => o > 0 /\ K[o] = t.script[t.at]
      /\ t.at = 1 => FirstRequest(r, q, w, t, Own(t, o))
      /\ t.at # 1 => LaterRequest(r, q, w, t, o)
      /\ t.at # 1 /\ t.script[1] # t.script[2] => Young(r, q, w, t, Least(t, o))
      /\ t.at = 2 => Least(t, o) > 0 /\ K[Least(t, o)] = t.script[1]

WholeInv ==
    /\ Receiving(rx, kindOf) /\ FifoIs(rx, fifo, kindOf) /\ WireIs(wire, Delivered, tool)
    /\ RunIs(rx, fifo, wire, tool, offered, kindOf)

\* Nothing of another node is on the way.
OfTool == {f \in FrameType :
    /\ f.type \in {"SF", "FF", "CF", "FC"}
    /\ f.type # "FC" => f.msg > 0
    /\ f.type = "SF" => f.n <= SingleMax}
ToTool == {f \in FrameType : Begins(f) => f.msg > 0}
NoStrays == All(fifo, OfTool) /\ All(wire, ToTool) /\ (Active => Begun > 0)

AloneInv == alone => NoStrays /\ WholeInv

-----------------------------------------------------------------------------
LEMMA AllHead ==
    ASSUME NEW q \in Seq(FrameType), q # <<>>, NEW S, All(q, S)
    PROVE  Head(q) \in S /\ All(Tail(q), S)
  <1>1. Len(q) \in Nat /\ Len(q) > 0 /\ Head(q) = q[1] /\ 1 \in 1 .. Len(q)
    BY EmptySeq
  <1>2. Len(Tail(q)) = Len(q) - 1 /\ \A i \in 1 .. Len(Tail(q)) : Tail(q)[i] = q[i + 1]
    BY HeadTailProperties
  <1>3. \A i \in 1 .. Len(q) - 1 : i + 1 \in 1 .. Len(q)
    BY <1>1
  <1> QED
    BY <1>1, <1>2, <1>3 DEF All

LEMMA ChainHead ==
    ASSUME NEW q \in Seq(FrameType), q # <<>>, NEW R, Chain(q, R)
    PROVE  Chain(Tail(q), R) /\ All(Tail(q), {g \in FrameType : <<Head(q), g>> \in R})
  <1>1. Len(q) \in Nat /\ Len(q) > 0 /\ Head(q) = q[1] /\ 1 \in 1 .. Len(q)
    BY EmptySeq
  <1>2. Len(Tail(q)) = Len(q) - 1 /\ \A i \in 1 .. Len(Tail(q)) : Tail(q)[i] = q[i + 1]
    BY HeadTailProperties
  <1>3. \A i \in 1 .. Len(q) - 1 : i + 1 \in 1 .. Len(q) /\ 1 < i + 1 /\ q[i + 1] \in FrameType
    BY <1>1, ElementOfSeq
  <1>4. \A i, j \in 1 .. Len(q) - 1 : i < j => i + 1 < j + 1
    BY <1>1
  <1>5. Chain(Tail(q), R)
    BY <1>2, <1>3, <1>4 DEF Chain
  <1>6. All(Tail(q), {g \in FrameType : <<Head(q), g>> \in R})
    BY <1>1, <1>2, <1>3 DEF Chain, All
  <1> QED
    BY <1>5, <1>6

LEMMA AllAppend ==
    ASSUME NEW q \in Seq(FrameType), NEW f \in FrameType, NEW S, All(q, S), f \in S
    PROVE  All(Append(q, f), S)
  <1>1. /\ Len(q) \in Nat /\ Len(Append(q, f)) = Len(q) + 1
        /\ \A i \in 1 .. Len(q) : Append(q, f)[i] = q[i]
        /\ Append(q, f)[Len(q) + 1] = f
    BY AppendProperties
  <1>2. \A i \in 1 .. Len(q) + 1 : i \in 1 .. Len(q) \/ i = Len(q) + 1
    BY <1>1
  <1> QED
    BY <1>1, <1>2 DEF All

LEMMA ChainAppend ==
    ASSUME NEW q \in Seq(FrameType), NEW f \in FrameType, NEW R, Chain(q, R),
           All(q, {g \in FrameType : <<g, f>> \in R})
    PROVE  Chain(Append(q, f), R)
  <1>1. /\ Len(q) \in Nat /\ Len(Append(q, f)) = Len(q) + 1
        /\ \A i \in 1 .. Len(q) : Append(q, f)[i] = q[i]
        /\ Append(q, f)[Len(q) + 1] = f
    BY AppendProperties
  <1>2. \A i \in 1 .. Len(q) : <<q[i], f>> \in R
    BY DEF All
  <1>3. ASSUME NEW i \in 1 .. Len(q) + 1, NEW j \in 1 .. Len(q) + 1, i < j
        PROVE  <<Append(q, f)[i], Append(q, f)[j]>> \in R
    <2>1. i \in 1 .. Len(q) /\ (j \in 1 .. Len(q) \/ j = Len(q) + 1)
      BY <1>1, <1>3
    <2>2. CASE j \in 1 .. Len(q)
      BY <1>1, <1>3, <2>1, <2>2 DEF Chain
    <2>3. CASE j = Len(q) + 1
      BY <1>1, <1>2, <2>1, <2>3
    <2> QED
      BY <2>1, <2>2, <2>3
  <1> QED
    BY <1>1, <1>3 DEF Chain

LEMMA AllWeaker ==
    ASSUME NEW q, NEW S, NEW T, All(q, S), S \subseteq T
    PROVE  All(q, T)
  BY DEF All

LEMMA AllBoth ==
    ASSUME NEW q, NEW S, NEW T, All(q, S), All(q, T)
    PROVE  All(q, S \cap T)
  BY DEF All

LEMMA AllFrames ==
    ASSUME NEW q \in Seq(FrameType)
    PROVE  All(q, FrameType)
  BY ElementOfSeq DEF All

LEMMA NothingIn ==
    /\ \A S : All(<<>>, S) /\ Chain(<<>>, S)
  <1>1. Len(<<>>) = 0
    OBVIOUS
  <1>2. \A i \in 1 .. 0 : FALSE
    OBVIOUS
  <1> QED
    BY <1>1, <1>2 DEF All, Chain

\* A frame that ends every pair it is in.
Parts == {f \in FrameType : f.type = "CF"}

LEMMA PartsAppended ==
    ASSUME NEW q \in Seq(FrameType), NEW v \in Seq(FrameType), All(v, Parts)
    PROVE  /\ \A S : Parts \subseteq S /\ All(q, S) => All(q \o v, S)
           /\ \A R : (FrameType \X Parts) \subseteq R /\ Chain(q, R) => Chain(q \o v, R)
  <1>1. /\ Len(q) \in Nat /\ Len(v) \in Nat /\ Len(q \o v) = Len(q) + Len(v)
        /\ \A i \in 1 .. Len(q) + Len(v) : (q \o v)[i] = IF i <= Len(q) THEN q[i] ELSE v[i - Len(q)]
    BY ConcatProperties
  <1>2. \A i \in 1 .. Len(q) + Len(v) : i \in 1 .. Len(q) \/ (~(i <= Len(q)) /\ i - Len(q) \in 1 .. Len(v))
    BY <1>1
  <1>3. \A i \in 1 .. Len(q) : i <= Len(q)
    BY <1>1
  <1>4. \A i \in 1 .. Len(q) : q[i] \in FrameType
    BY ElementOfSeq
  <1>5. \A i \in 1 .. Len(q) + Len(v) :
           \/ i \in 1 .. Len(q) /\ (q \o v)[i] = q[i]
           \/ ~(i <= Len(q)) /\ (q \o v)[i] \in Parts
    BY <1>1, <1>2, <1>3 DEF All
  <1>6. \A S : Parts \subseteq S /\ All(q, S) => All(q \o v, S)
    BY <1>1, <1>5 DEF All
  <1>7. ASSUME NEW R, (FrameType \X Parts) \subseteq R, Chain(q, R)
        PROVE  Chain(q \o v, R)
    <2>1. SUFFICES ASSUME NEW i \in 1 .. Len(q) + Len(v), NEW j \in 1 .. Len(q) + Len(v), i < j
                   PROVE  <<(q \o v)[i], (q \o v)[j]>> \in R
      BY <1>1 DEF Chain
    <2>2. (q \o v)[i] \in FrameType
      BY <1>4, <1>5 DEF Parts
    <2>3. CASE j \in 1 .. Len(q) /\ (q \o v)[j] = q[j]
      <3>1. i <= Len(q)
        BY <1>1, <2>1, <2>3
      <3>2. i \in 1 .. Len(q) /\ (q \o v)[i] = q[i]
        BY <1>5, <3>1
      <3> QED
        BY <1>7, <2>1, <2>3, <3>2 DEF Chain
    <2>4. CASE (q \o v)[j] \in Parts
      BY <1>7, <2>2, <2>4
    <2> QED
      BY <1>5, <2>3, <2>4
  <1> QED
    BY <1>6, <1>7

-----------------------------------------------------------------------------
LEMMA PartsAreQuiet ==
    /\ Parts \subseteq NoAnswer /\ Parts \subseteq NoFc
    /\ \A n : Parts \subseteq AnswerTo(n) /\ Parts \subseteq Answers(n) /\ Parts \subseteq UpTo(n)
              /\ Parts \subseteq Beyond(n) /\ (FrameType \X Parts) \subseteq OwnAfter(n)
    /\ (FrameType \X Parts) \subseteq OneFc /\ (FrameType \X Parts) \subseteq Rising
  <1>1. \A f \in Parts : f \in FrameType /\ f.type = "CF" /\ ~Begins(f)
    BY DEF Parts, Begins
  <1>2. /\ Parts \subseteq NoAnswer /\ Parts \subseteq NoFc
        /\ \A n : Parts \subseteq AnswerTo(n) /\ Parts \subseteq Answers(n) /\ Parts \subseteq UpTo(n)
              /\ Parts \subseteq Beyond(n)
    BY <1>1 DEF NoAnswer, NoFc, AnswerTo, Answers, UpTo, Beyond
  <1>3. \A n : (FrameType \X Parts) \subseteq OwnAfter(n)
    BY <1>1, <1>2 DEF OwnAfter, Pairs
  <1>4. (FrameType \X Parts) \subseteq OneFc /\ (FrameType \X Parts) \subseteq Rising
    BY <1>1 DEF OneFc, Rising, Pairs
  <1> QED
    BY <1>2, <1>3, <1>4

\* w2 is w, less its first frames, with parts appended.
Follows(w, w2) ==
    /\ \A S : Parts \subseteq S /\ All(w, S) => All(w2, S)
    /\ \A R : (FrameType \X Parts) \subseteq R /\ Chain(w, R) => Chain(w2, R)
Within(q, q2) ==
    /\ \A S : All(q, S) => All(q2, S)
    /\ \A R : Chain(q, R) => Chain(q2, R)

LEMMA WireFollows ==
    ASSUME NEW w, NEW w2, Follows(w, w2)
    PROVE  /\ All(w, NoAnswer) => All(w2, NoAnswer)
           /\ All(w, NoFc) => All(w2, NoFc)
           /\ \A n : /\ All(w, AnswerTo(n)) => All(w2, AnswerTo(n))
                     /\ All(w, Answers(n)) => All(w2, Answers(n))
                     /\ All(w, UpTo(n)) => All(w2, UpTo(n))
                     /\ All(w, Beyond(n)) => All(w2, Beyond(n))
                     /\ Chain(w, OwnAfter(n)) => Chain(w2, OwnAfter(n))
           /\ Chain(w, OneFc) => Chain(w2, OneFc)
           /\ Chain(w, Rising) => Chain(w2, Rising)
  BY PartsAreQuiet DEF Follows

LEMMA WireStays ==
    ASSUME NEW w, NEW w2, NEW d, NEW t, WireIs(w, d, t), Follows(w, w2)
    PROVE  WireIs(w2, d, t)
  BY WireFollows DEF WireIs

LEMMA FifoStays ==
    ASSUME NEW r, NEW r2, NEW q, NEW q2, NEW K, FifoIs(r, q, K), Within(q, q2),
           r2.buf = r.buf, r2.complete => r.complete,
           r2.state = "in_progress" => r.state = "in_progress"
    PROVE  FifoIs(r2, q2, K)
  <1>1. Fitting(r) \subseteq Fitting(r2)
    BY DEF Fitting, Of, LastPart
  <1>2. All(q2, Fitting(r))
    BY DEF FifoIs, Within
  <1>3. All(q2, Fitting(r2))
    BY <1>1, <1>2, AllWeaker
  <1> QED
    BY <1>3 DEF FifoIs, Within

\* Nothing new is on the way and nothing new is received.
LEMMA RunStays ==
    ASSUME NEW r, NEW r2, NEW q, NEW q2, NEW w, NEW w2, NEW t, NEW o, NEW K,
           RunIs(r, q, w, t, o, K), Within(q, q2), Follows(w, w2),
           r2.buf = r.buf, r2.complete => r.complete,
           r2.state = "in_progress" => r.state = "in_progress"
    PROVE  RunIs(r2, q2, w2, t, o, K)
  <1>q. \A S : All(q, S) => All(q2, S)
    BY DEF Within
  <1>o. Of(r2) = Of(r) /\ LastPart(r2) = LastPart(r)
    BY DEF Of, LastPart
  <1>1. \A n : FirstRequest(r, q, w, t, n) => FirstRequest(r2, q2, w2, t, n)
    BY <1>q, <1>o, WireFollows DEF FirstRequest, Flushed
  <1>2. Still(r, q) => Still(r2, q2)
    BY <1>q DEF Still
  <1>3. Opening(r, q, w, o) => Opening(r2, q2, w2, o)
    BY <1>q, <1>o, WireFollows DEF Opening
  <1>4. \A k : Continuing(r, q, w, o, k) => Continuing(r2, q2, w2, o, k)
    BY <1>q, <1>o, WireFollows DEF Continuing
  <1>5. LaterRequest(r, q, w, t, o) => LaterRequest(r2, q2, w2, t, o)
    BY <1>2, <1>3, <1>4, <1>q, WireFollows DEF LaterRequest
  <1>6. \A n : Young(r, q, w, t, n) => Young(r2, q2, w2, t, n)
    BY <1>q, <1>o, WireFollows DEF Young
  <1> QED
    BY <1>1, <1>5, <1>6 DEF RunIs

LEMMA SameWithin ==
    ASSUME NEW q
    PROVE  Within(q, q) /\ Follows(q, q)
  BY DEF Within, Follows

LEMMA TailWithin ==
    ASSUME NEW q \in Seq(FrameType), q # <<>>
    PROVE  Within(q, Tail(q)) /\ Follows(q, Tail(q))
  BY AllHead, ChainHead DEF Within, Follows

-----------------------------------------------------------------------------
Numbered(o, d) == {f \in FrameType :
    /\ f.type \in {"SF", "FF", "CF", "FC"}
    /\ f.msg <= o /\ (f.type # "FC" => f.msg > 0)
    /\ f.type = "SF" => f.n <= SingleMax
    /\ Begins(f) => d < f.msg}

Scene(r, q, w, t, o, K, d) ==
    /\ r.buf \in Seq(Nat \X Nat)
    /\ r.complete => r.buf # <<>> /\ d < Of(r) /\ Of(r) <= o
    /\ r.state = "in_progress" => r.buf # <<>> /\ d < Of(r) /\ Of(r) <= o
    /\ q \in Seq(FrameType) /\ w \in Seq(FrameType) /\ All(q, Numbered(o, d))
    /\ t.stage # "idle" => t.at \in 1 .. Len(t.script) /\ t.script \in Seq(Kinds)
    /\ t.stage \in {"idle", "send", "flow", "rest", "answer", "collect"}
    /\ o \in Nat /\ d \in Nat /\ d <= o
    /\ K \in Seq(Kinds) /\ Len(K) = o

LEMMA IsoScene ==
    ASSUME IsoInv, NoStrays
    PROVE  Scene(rx, fifo, wire, tool, offered, kindOf, Delivered)
  <1>1. rx.buf \in Seq(Nat \X Nat)
    <2>1. Cells \subseteq Nat \X Nat
      BY Unfold DEF Cells
    <2> QED
      BY <2>1, Unfold, RxIs, SeqMonotonic
  <1>2. rx.complete \/ rx.state = "in_progress" => rx.buf # <<>> /\ Delivered < Of(rx) /\ Of(rx) <= offered
    <2>1. Active => Begun > 0 /\ rx.buf # <<>> /\ Delivered < Begun /\ Begun <= offered
      BY Unfold DEF NoStrays
    <2> QED
      BY <2>1 DEF Begun, Of, Active
  <1>3. fifo \in Seq(FrameType) /\ All(fifo, Numbered(offered, Delivered))
    <2>1. Queue(fifo, Floor, offered) /\ Floor \in Nat /\ Delivered \in Nat /\ Delivered <= Floor
      BY Unfold
    <2>2. fifo \in Seq(FrameType)
      BY <2>1 DEF Queue
    <2>3. ASSUME NEW i \in 1 .. Len(fifo)
          PROVE  fifo[i] \in Numbered(offered, Delivered)
      <3>0. fifo[i] \in FrameType
        BY <2>2, <2>3, ElementOfSeq
      <3>1. fifo[i] \in FrameType /\ fifo[i].msg \in Nat
        BY <3>0 DEF FrameType
      <3>2. /\ Posted(fifo[i], offered) /\ (Opener(fifo[i]) => Floor < fifo[i].msg)
            /\ fifo[i] \in OfTool
        BY <2>1 DEF Queue, NoStrays, All
      <3>3. Begins(fifo[i]) => Delivered < fifo[i].msg
        BY <2>1, <3>1, <3>2 DEF Opener, OfTool, Begins
      <3> QED
        BY <3>1, <3>2, <3>3 DEF Posted, Numbered, OfTool
    <2> QED
      BY <2>2, <2>3 DEF All
  <1>4. tool.stage # "idle" => tool.at \in 1 .. Len(tool.script) /\ tool.script \in Seq(Kinds)
    BY ToolIs
  <1>5. tool.stage \in {"idle", "send", "flow", "rest", "answer", "collect"}
    BY Unfold DEF ToolType
  <1>6. Delivered <= offered
    <2>1. Delivered \in Nat /\ Floor \in Nat /\ offered \in Nat /\ Delivered <= Floor /\ Floor <= offered
      BY Unfold
    <2> QED
      BY <2>1
  <1> QED
    BY <1>1, <1>2, <1>3, <1>4, <1>5, <1>6, Unfold DEF Scene

OnlyOf(n) == {f \in FrameType : f.type # "FC" => f.msg = n}
NoSf == {f \in FrameType : f.type # "SF"}

Orders == \A s \in Scripts : Orderly(s)

\* The request of the number o is long: everything but flow controls is of it.
LEMMA LongIsAlone ==
    ASSUME NEW r, NEW q, NEW w, NEW t, NEW o, NEW K, NEW d, Orders,
           Scene(r, q, w, t, o, K, d), FifoIs(r, q, K), RunIs(r, q, w, t, o, K),
           t.stage \in {"flow", "rest", "answer", "collect"}, Long(t.script[t.at])
    PROVE  /\ o > 0 /\ K[o] = t.script[t.at] /\ Size(K, o) = Length[t.script[t.at]]
           /\ t.at # 1 /\ t.at # 2 /\ LaterRequest(r, q, w, t, o)
           /\ All(q, OnlyOf(o))
           /\ All(q, NoSf)
  <1>1. t.script \in Scripts /\ t.at \in 1 .. Len(t.script) /\ t.script \in Seq(Kinds) /\ o > 0 /\ K[o] = t.script[t.at]
    BY DEF RunIs, Scene
  <1>2. Orderly(t.script) /\ t.at \in Nat
    BY <1>1 DEF Orders
  <1>3. t.at >= 3 /\ t.script[1] # t.script[2]
    BY <1>1, <1>2 DEF Orderly
  <1>4. t.at # 1 /\ t.at # 2
    BY <1>2, <1>3
  <1>5. LaterRequest(r, q, w, t, o) /\ Young(r, q, w, t, o)
    BY <1>3, <1>4 DEF RunIs, Least, Own
  <1>6. o \in Nat /\ Size(K, o) = Length[t.script[t.at]]
    BY <1>1 DEF Scene, Size
  <1>7. All(q, OnlyOf(o))
    <2>1. Since(o) \cap Numbered(o, d) \subseteq OnlyOf(o)
      BY <1>6 DEF Since, Numbered, FrameType, OnlyOf
    <2>2. All(q, Since(o) \cap Numbered(o, d))
      BY <1>5, AllBoth DEF Young, Scene
    <2> QED
      BY <2>1, <2>2, AllWeaker
  <1>8. All(q, NoSf)
    <2> DEFINE A == OnlyOf(o)
    <2>1. All(q, (A \cap Numbered(o, d)) \cap Sound(K))
      BY <1>7, AllBoth DEF Scene, FifoIs
    <2>2. ASSUME NEW f \in (A \cap Numbered(o, d)) \cap Sound(K)
          PROVE  f \in FrameType /\ f.type # "SF"
      <3>1. CASE f.type = "SF"
        <4>1. f.msg = o /\ f.n <= SingleMax /\ f.n = Size(K, f.msg) /\ f.n \in Nat
          BY <3>1 DEF Numbered, Sound, Begins, FrameType, OnlyOf
        <4>2. f.n > SingleMax
          BY <4>1, <1>6 DEF Long
        <4> QED
          BY <4>1, <4>2, Constants
      <3> QED
        BY <3>1 DEF Numbered
    <2>3. (A \cap Numbered(o, d)) \cap Sound(K) \subseteq NoSf
      BY <2>2 DEF NoSf
    <2> HIDE DEF A
    <2> QED
      BY <2>1, <2>3, AllWeaker
  <1> QED
    BY <1>1, <1>4, <1>5, <1>6, <1>7, <1>8

-----------------------------------------------------------------------------
\* What a poll of the frame f finds.
LEMMA HeadFits ==
    ASSUME NEW r, NEW q, NEW w, NEW t, NEW o, NEW K, NEW d, q # <<>>,
           Scene(r, q, w, t, o, K, d), FifoIs(r, q, K)
    PROVE  /\ Head(q) \in FrameType /\ Head(q).msg \in Nat /\ Head(q).part \in Nat /\ Head(q).n \in Nat
           /\ Head(q) \in Sound(K) /\ Head(q) \in Fitting(r) /\ Head(q) \in Numbered(o, d)
           /\ Tail(q) \in Seq(FrameType)
           /\ All(Tail(q), Sound(K)) /\ All(Tail(q), Fitting(r)) /\ Chain(Tail(q), Apart)
           /\ All(Tail(q), {g \in FrameType : <<Head(q), g>> \in Apart})
           /\ Within(q, Tail(q))
  <1>1. q \in Seq(FrameType) /\ All(q, Numbered(o, d))
    BY DEF Scene
  <1>2. Head(q) \in FrameType /\ Tail(q) \in Seq(FrameType)
    BY <1>1, HeadTailProperties
  <1>3. Head(q) \in Sound(K) /\ Head(q) \in Fitting(r) /\ Head(q) \in Numbered(o, d)
    BY <1>1, AllHead DEF FifoIs
  <1>4. /\ All(Tail(q), Sound(K)) /\ All(Tail(q), Fitting(r)) /\ Chain(Tail(q), Apart)
        /\ All(Tail(q), {g \in FrameType : <<Head(q), g>> \in Apart})
    BY <1>1, AllHead, ChainHead DEF FifoIs
  <1> QED
    BY <1>1, <1>2, <1>3, <1>4, TailWithin DEF FrameType

LEMMA SfFifo ==
    ASSUME NEW r, NEW r2, NEW q, NEW w, NEW t, NEW o, NEW K, NEW d, q # <<>>,
           Scene(r, q, w, t, o, K, d), FifoIs(r, q, K), Head(q).type = "SF",
           r2.state = "complete"
    PROVE  FifoIs(r2, Tail(q), K)
  <1> DEFINE A == {g \in FrameType : <<Head(q), g>> \in Apart}
  <1>1. A \subseteq Fitting(r2)
    <2>1. ASSUME NEW g \in A
          PROVE  g \in Fitting(r2)
      <3>1. g \in FrameType /\ ~Opens(g)
        BY DEF Apart
      <3> QED
        BY <3>1 DEF Fitting
    <2> QED
      BY <2>1
  <1>2. All(Tail(q), A)
    BY HeadFits
  <1> HIDE DEF A
  <1>3. All(Tail(q), Fitting(r2))
    BY <1>1, <1>2, AllWeaker
  <1>4. All(Tail(q), Sound(K)) /\ Chain(Tail(q), Apart)
    BY HeadFits
  <1> QED
    BY <1>3, <1>4 DEF FifoIs

LEMMA SfReceiving ==
    ASSUME NEW r, NEW r2, NEW q, NEW w, NEW t, NEW o, NEW K, NEW d, q # <<>>,
           Scene(r, q, w, t, o, K, d), FifoIs(r, q, K), Head(q).type = "SF",
           r2.state = "complete", r2.buf = <<<<Head(q).msg, Head(q).part>>>>
    PROVE  Receiving(r2, K) /\ Of(r2) = Head(q).msg
  <1>1. Head(q).part = 0 /\ Head(q).n = Size(K, Head(q).msg) /\ Head(q).n <= SingleMax
    BY HeadFits DEF Sound, Begins, Numbered
  <1>2. Of(r2) = Head(q).msg
    BY DEF Of
  <1>3. r2.buf = Content(Of(r2), Size(K, Of(r2)))
    BY <1>1, <1>2 DEF Content
  <1> QED
    BY <1>2, <1>3 DEF Receiving

LEMMA SfRun ==
    ASSUME NEW r, NEW r2, NEW q, NEW w, NEW t, NEW o, NEW K, NEW d, q # <<>>, Orders,
           Scene(r, q, w, t, o, K, d), FifoIs(r, q, K), Head(q).type = "SF",
           RunIs(r, q, w, t, o, K),
           r2.state = "complete", Of(r2) = Head(q).msg
    PROVE  RunIs(r2, Tail(q), w, t, o, K)
  <1> SUFFICES ASSUME t.stage # "idle" PROVE RunIs(r2, Tail(q), w, t, o, K)
    BY DEF RunIs
  <1>h. Head(q) \in FrameType /\ Within(q, Tail(q)) /\ q \in Seq(FrameType)
    BY HeadFits DEF Scene
  <1>q. \A S : All(q, S) => All(Tail(q), S) /\ Head(q) \in S
    BY <1>h, AllHead
  <1>1. ASSUME NEW n, FirstRequest(r, q, w, t, n)
        PROVE  FirstRequest(r2, Tail(q), w, t, n)
    <2>1. Flushed(r, q, n) => Flushed(r2, Tail(q), n)
      <3> SUFFICES ASSUME Flushed(r, q, n) PROVE Flushed(r2, Tail(q), n)
        OBVIOUS
      <3>1. Head(q) \in Single(n)
        BY <1>q DEF Flushed
      <3>2. Head(q).msg = n
        BY <3>1 DEF Single
      <3> QED
        BY <1>q, <3>2 DEF Flushed
    <2> QED
      BY <1>1, <2>1 DEF FirstRequest
  <1>2. Still(r, q) => Still(r2, Tail(q))
    BY <1>q DEF Still
  <1>3. LaterRequest(r, q, w, t, o) => LaterRequest(r2, Tail(q), w, t, o)
    <2> SUFFICES ASSUME LaterRequest(r, q, w, t, o) PROVE LaterRequest(r2, Tail(q), w, t, o)
      OBVIOUS
    <2>1. t.stage \in {"flow", "rest", "answer", "collect"} => ~Long(t.script[t.at])
      <3> SUFFICES ASSUME t.stage \in {"flow", "rest", "answer", "collect"}, Long(t.script[t.at]) PROVE FALSE
        OBVIOUS
      <3>1. All(q, NoSf)
        BY LongIsAlone
      <3>2. Head(q) \in NoSf
        BY <1>q, <3>1
      <3> QED
        BY <3>2 DEF NoSf
    <2> QED
      BY <1>2, <1>q, <2>1 DEF LaterRequest
  <1>4. ASSUME NEW n, Young(r, q, w, t, n)
        PROVE  Young(r2, Tail(q), w, t, n)
    <2>1. All(q, Since(n))
      BY <1>4 DEF Young
    <2>2. Head(q) \in Since(n)
      BY <1>q, <2>1
    <2>3. n <= Of(r2)
      BY <2>2 DEF Since
    <2> QED
      BY <1>4, <1>q, <2>3 DEF Young
  <1> QED
    BY <1>1, <1>3, <1>4 DEF RunIs

-----------------------------------------------------------------------------
LEMMA FfFifo ==
    ASSUME NEW r, NEW r2, NEW q, NEW w, NEW t, NEW o, NEW K, NEW d, q # <<>>,
           Scene(r, q, w, t, o, K, d), FifoIs(r, q, K), Opens(Head(q)),
           r2.complete => r.complete
    PROVE  FifoIs(r2, Tail(q), K) /\ ~r2.complete
           /\ All(Tail(q), Plain) /\ All(Tail(q), {g \in FrameType : g.type # "CF"})
  <1> DEFINE A == {g \in FrameType : <<Head(q), g>> \in Apart}
  <1>0. ~r2.complete
    BY HeadFits DEF Fitting
  <1>1. ASSUME NEW g \in A
        PROVE  g \in FrameType /\ ~Opens(g) /\ g.type # "CF"
    BY DEF Apart, Opens
  <1>2. All(Tail(q), A)
    BY HeadFits
  <1> HIDE DEF A
  <1>3. A \subseteq Fitting(r2) /\ A \subseteq Plain /\ A \subseteq {g \in FrameType : g.type # "CF"}
    BY <1>1 DEF Fitting, Plain
  <1>4. All(Tail(q), Fitting(r2)) /\ All(Tail(q), Plain) /\ All(Tail(q), {g \in FrameType : g.type # "CF"})
    BY <1>2, <1>3, AllWeaker
  <1>5. All(Tail(q), Sound(K)) /\ Chain(Tail(q), Apart)
    BY HeadFits
  <1> QED
    BY <1>0, <1>4, <1>5 DEF FifoIs

LEMMA FfReceiving ==
    ASSUME NEW r, NEW r2, NEW q, NEW w, NEW t, NEW o, NEW K, NEW d, q # <<>>,
           Scene(r, q, w, t, o, K, d), FifoIs(r, q, K), Opens(Head(q)), r2.complete => r.complete,
           r2.buf = <<<<Head(q).msg, Head(q).part>>>>, r2.received = FirstLen, r2.total = Head(q).n
    PROVE  Receiving(r2, K) /\ Of(r2) = Head(q).msg /\ Len(r2.buf) = 1 /\ LastPart(r2) = 0
  <1>1. Head(q).part = 0 /\ Head(q).n = Size(K, Head(q).msg) /\ SingleMax < Head(q).n /\ Head(q).n \in Nat
    BY HeadFits DEF Sound, Begins, Opens
  <1>2. Of(r2) = Head(q).msg /\ Len(r2.buf) = 1 /\ LastPart(r2) = 0
    BY <1>1 DEF Of, LastPart
  <1>3. ~r2.complete
    BY FfFifo
  <1>4. r2.received = FirstLen + (1 - 1) * ChunkLen /\ r2.received < r2.total
    BY <1>1, Constants
  <1>5. r2.buf = [i \in 1 .. 1 |-> <<Of(r2), i - 1>>]
    <2>1. \A i \in 1 .. 1 : i = 1
      OBVIOUS
    <2>2. r2.buf = <<<<Of(r2), 0>>>>
      BY <1>1, <1>2
    <2> QED
      BY <2>1, <2>2
  <1> QED
    BY <1>1, <1>2, <1>3, <1>4, <1>5 DEF Receiving

LEMMA FfRun ==
    ASSUME NEW r, NEW r2, NEW q, NEW w, NEW t, NEW o, NEW K, NEW d, q # <<>>, Orders,
           Scene(r, q, w, t, o, K, d), FifoIs(r, q, K), Opens(Head(q)),
           RunIs(r, q, w, t, o, K), NEW c \in FrameType, c.type = "FC",
           r2.complete => r.complete, Of(r2) = Head(q).msg, Len(r2.buf) = 1, LastPart(r2) = 0
    PROVE  RunIs(r2, Tail(q), Append(w, c), t, o, K)
  <1> SUFFICES ASSUME t.stage # "idle" PROVE RunIs(r2, Tail(q), Append(w, c), t, o, K)
    BY DEF RunIs
  <1>h. Head(q) \in FrameType /\ Within(q, Tail(q)) /\ q \in Seq(FrameType) /\ w \in Seq(FrameType)
    BY HeadFits DEF Scene
  <1>q. \A S : All(q, S) => All(Tail(q), S) /\ Head(q) \in S
    BY <1>h, AllHead
  <1>f. Head(q).type = "FF" /\ Head(q) \notin Plain /\ Head(q) \notin NoOpening
    BY DEF Opens, Plain, NoOpening
  <1>c. ~Begins(c) /\ c \in NoAnswer /\ \A n : c \in Answers(n)
    BY DEF Begins, NoAnswer, Answers
  <1>a. \A S : c \in S /\ All(w, S) => All(Append(w, c), S)
    BY <1>h, AllAppend
  <1>r. ~r2.complete /\ All(Tail(q), Plain)
    BY FfFifo
  <1>1. ASSUME NEW n, FirstRequest(r, q, w, t, n)
        PROVE  FirstRequest(r2, Tail(q), Append(w, c), t, n)
    <2>1. ~Flushed(r, q, n)
      <3>1. Head(q) \notin Single(n)
        BY <1>f DEF Single
      <3> QED
        BY <1>q, <3>1 DEF Flushed
    <2>2. All(w, NoAnswer) /\ t.stage # "collect"
      BY <1>1, <2>1 DEF FirstRequest
    <2>3. All(Append(w, c), NoAnswer)
      BY <1>a, <1>c, <2>2
    <2>4. Chain(Append(w, c), OwnAfter(n))
      <3>1. NoAnswer \subseteq {g \in FrameType : <<g, c>> \in OwnAfter(n)}
        BY DEF NoAnswer, OwnAfter, Pairs
      <3>2. All(w, {g \in FrameType : <<g, c>> \in OwnAfter(n)})
        BY <2>2, <3>1, AllWeaker
      <3>3. Chain(w, OwnAfter(n))
        BY <1>1 DEF FirstRequest
      <3> QED
        BY <1>h, <3>2, <3>3, ChainAppend
    <2> QED
      BY <1>1, <2>2, <2>3, <2>4 DEF FirstRequest
  <1>2. ~Still(r, q) /\ ~All(q, NoOpening) /\ ~All(q, Plain) /\ \A k : ~All(q, Before(k))
    <2>1. \A k : Head(q) \notin Before(k)
      BY DEF Before
    <2> QED
      BY <1>f, <1>q, <2>1 DEF Still
  <1>3. ASSUME LaterRequest(r, q, w, t, o)
        PROVE  LaterRequest(r2, Tail(q), Append(w, c), t, o)
    <2>1. t.stage = "flow" /\ Long(t.script[t.at]) /\ Opening(r, q, w, o)
      BY <1>2, <1>3 DEF LaterRequest, Continuing, Scene
    <2>2. Opening(r2, Tail(q), Append(w, c), o)
      <3>1. All(Append(w, c), NoAnswer)
        BY <1>a, <1>c, <2>1 DEF Opening
      <3>2. All(Tail(q), NoCf)
        BY <1>q, <2>1 DEF Opening
      <3>3. Of(r2) = o
        <4>0. t.stage \in {"flow", "rest", "answer", "collect"} /\ Long(t.script[t.at])
          BY <2>1
        <4>1. All(q, OnlyOf(o))
          BY <4>0, LongIsAlone
        <4>2. Head(q) \in OnlyOf(o)
          BY <1>q, <4>1
        <4> QED
          BY <1>f, <4>2 DEF OnlyOf
      <3>4. Chain(Append(w, c), OneFc)
        <4>1. All(w, NoFc) /\ Chain(w, OneFc)
          BY <1>2, <2>1 DEF Opening
        <4>2. NoFc \subseteq {g \in FrameType : <<g, c>> \in OneFc}
          BY DEF NoFc, OneFc, Pairs
        <4>3. All(w, {g \in FrameType : <<g, c>> \in OneFc})
          BY <4>1, <4>2, AllWeaker
        <4> QED
          BY <1>h, <4>1, <4>3, ChainAppend
      <3> QED
        BY <1>r, <3>1, <3>2, <3>3, <3>4 DEF Opening
    <2> QED
      BY <2>1, <2>2 DEF LaterRequest
  <1>4. ASSUME NEW n, Young(r, q, w, t, n)
        PROVE  Young(r2, Tail(q), Append(w, c), t, n)
    BY <1>4, <1>q, <1>r, <1>a, <1>c DEF Young
  <1> QED
    BY <1>1, <1>3, <1>4 DEF RunIs

LEMMA WireAppended ==
    ASSUME NEW w \in Seq(FrameType), NEW d, NEW t, WireIs(w, d, t), NEW c \in FrameType, ~Begins(c)
    PROVE  WireIs(Append(w, c), d, t)
  <1>1. c \in UpTo(d) /\ (\A n : c \in Beyond(n)) /\ FrameType \subseteq {g \in FrameType : <<g, c>> \in Rising}
    BY DEF UpTo, Beyond, Rising, Pairs
  <1>2. All(w, {g \in FrameType : <<g, c>> \in Rising})
    BY <1>1, AllFrames, AllWeaker
  <1> QED
    BY <1>1, <1>2, AllAppend, ChainAppend DEF WireIs

-----------------------------------------------------------------------------
(* The parts of a message. *)

\* Chunks counts the parts it takes to reach the end of a message.
LEMMA ChunksAre ==
    ASSUME NEW len \in Nat, FirstLen < len
    PROVE  /\ Chunks(len) \in Nat /\ Chunks(len) >= 1
           /\ FirstLen + (Chunks(len) - 1) * ChunkLen < len
           /\ len <= FirstLen + Chunks(len) * ChunkLen
           /\ \A n \in Nat : FirstLen + n * ChunkLen >= len => Chunks(len) <= n
           /\ \A n \in Nat : FirstLen + (n - 1) * ChunkLen < len => n <= Chunks(len)
  <1> DEFINE x == len - FirstLen + ChunkLen - 1
  <1>1. ChunkLen \in Nat /\ ChunkLen > 0 /\ FirstLen \in Nat
    BY Constants
  <1>2. x \in Nat /\ x >= ChunkLen
    BY <1>1
  <1>3. Chunks(len) = x \div ChunkLen
    BY DEF Chunks
  <1> DEFINE c == x \div ChunkLen
  <1>4. c \in Nat /\ c * ChunkLen <= x /\ x < (c + 1) * ChunkLen
    BY <1>1, <1>2
  <1> HIDE DEF c
  <1>5. (c + 1) * ChunkLen = c * ChunkLen + ChunkLen /\ (c - 1) * ChunkLen = c * ChunkLen - ChunkLen
        /\ c * ChunkLen \in Nat
    BY <1>1, <1>4
  <1>6. FirstLen + (c - 1) * ChunkLen < len /\ len <= FirstLen + c * ChunkLen
    BY <1>1, <1>4, <1>5
  <1>7. c >= 1
    <2> SUFFICES ASSUME c = 0 PROVE FALSE
      BY <1>4
    <2>1. (c + 1) * ChunkLen = ChunkLen
      BY <1>1
    <2> QED
      BY <1>1, <1>2, <1>4, <2>1
  <1>8. ASSUME NEW n \in Nat, FirstLen + n * ChunkLen >= len
        PROVE  c <= n
    <2> SUFFICES ASSUME n <= c - 1 PROVE FALSE
      BY <1>4
    <2>1. n * ChunkLen <= (c - 1) * ChunkLen
      BY <1>1, <1>4, <1>7
    <2>2. n * ChunkLen \in Nat
      BY <1>1
    <2> QED
      BY <1>1, <1>5, <1>6, <1>8, <2>1, <2>2
  <1>9. ASSUME NEW n \in Nat, FirstLen + (n - 1) * ChunkLen < len
        PROVE  n <= c
    <2> SUFFICES ASSUME c <= n - 1 PROVE FALSE
      BY <1>4
    <2>1. c * ChunkLen <= (n - 1) * ChunkLen
      BY <1>1, <1>4
    <2>2. (n - 1) * ChunkLen \in Int
      BY <1>1
    <2> QED
      BY <1>1, <1>5, <1>6, <1>9, <2>1, <2>2
  <1> QED
    BY <1>3, <1>4, <1>6, <1>7, <1>8, <1>9 DEF c

-----------------------------------------------------------------------------
\* A consecutive frame f that extends a reception.
Extends(r, f, r2) ==
    /\ r.state = "in_progress" /\ r.received \in Nat /\ r.total \in Nat
    /\ r2.buf = Append(r.buf, <<f.msg, f.part>>)
    /\ r2.received = Min(r.received + ChunkLen, r.total) /\ r2.total = r.total
    /\ r2.complete => r.complete \/ r2.received >= r2.total
    /\ r2.received >= r2.total => r2.state = "complete"
    /\ r2.state = "in_progress" => r2.received < r2.total

LEMMA CfBuffer ==
    ASSUME NEW r, NEW r2, NEW q, NEW w, NEW t, NEW o, NEW K, NEW d, q # <<>>,
           Scene(r, q, w, t, o, K, d), FifoIs(r, q, K), Receiving(r, K),
           Head(q).type = "CF", Extends(r, Head(q), r2)
    PROVE  /\ Of(r2) = Of(r) /\ Head(q).msg = Of(r) /\ LastPart(r2) = Head(q).part /\ Head(q).part \in Nat
           /\ Len(r.buf) \in Nat /\ Len(r.buf) > 0 /\ Len(r2.buf) = Len(r.buf) + 1
           /\ Head(q).part >= Len(r.buf) /\ Head(q).part <= Chunks(r.total)
           /\ Head(q).part = Len(r.buf) =>
                r2.buf = [i \in 1 .. Len(r.buf) + 1 |-> <<Of(r), i - 1>>]
  <1> DEFINE f == Head(q)
             L == Len(r.buf)
             e == <<f.msg, f.part>>
  <1>1. r.state = "in_progress" /\ r2.buf = Append(r.buf, e)
    BY DEF Extends
  <1>2. /\ f \in FrameType /\ f.msg \in Nat /\ f.part \in Nat
        /\ f.msg = Of(r) /\ LastPart(r) < f.part /\ f.part <= Chunks(r.total)
    <2>1. f \in FrameType /\ f.msg \in Nat /\ f.part \in Nat /\ f \in Sound(K) /\ f \in Fitting(r)
      BY HeadFits
    <2>2. f.msg = Of(r) /\ LastPart(r) < f.part
      BY <1>1, <2>1 DEF Fitting
    <2>3. f.part <= Chunks(Size(K, f.msg)) /\ r.total = Size(K, Of(r))
      BY <1>1, <2>1 DEF Sound, Receiving
    <2> HIDE DEF f
    <2> QED
      BY <2>1, <2>2, <2>3
  <1>3. r.buf \in Seq(Nat \X Nat) /\ r.buf # <<>>
    BY <1>1 DEF Scene
  <1>4. L \in Nat /\ L > 0 /\ 1 \in 1 .. L /\ L \in 1 .. L
    BY <1>3, EmptySeq
  <1>5. r.buf[L] \in Nat \X Nat
    BY <1>3, <1>4, ElementOfSeq
  <1>6. LastPart(r) \in Nat /\ L - 1 <= LastPart(r)
    BY <1>1, <1>5 DEF LastPart, Receiving
  <1>7. f.part >= L
    BY <1>2, <1>4, <1>6
  <1>8. /\ r2.buf \in Seq(Nat \X Nat) /\ Len(r2.buf) = L + 1
        /\ \A i \in 1 .. L : r2.buf[i] = r.buf[i]
        /\ r2.buf[L + 1] = e
    <2>1. e \in Nat \X Nat
      BY <1>2
    <2> HIDE DEF e
    <2> QED
      BY <1>1, <1>3, <2>1, AppendProperties
  <1>9. Of(r2) = Of(r) /\ LastPart(r2) = f.part
    <2>1. r2.buf[1] = r.buf[1] /\ r2.buf[Len(r2.buf)] = e
      BY <1>4, <1>8
    <2> QED
      BY <2>1 DEF Of, LastPart
  <1>10. ASSUME f.part = L
         PROVE  r2.buf = [i \in 1 .. L + 1 |-> <<Of(r), i - 1>>]
    <2>1. LastPart(r) = L - 1
      BY <1>2, <1>4, <1>6, <1>10
    <2>2. r.buf = [i \in 1 .. L |-> <<Of(r), i - 1>>]
      BY <1>1, <2>1 DEF Receiving
    <2> DEFINE b == [i \in 1 .. L + 1 |-> <<Of(r), i - 1>>]
    <2>3. \A i \in 1 .. L + 1 : <<Of(r), i - 1>> \in Nat \X Nat
      BY <1>2, <1>4
    <2>4. b \in Seq(Nat \X Nat) /\ Len(b) = L + 1
      BY <1>4, <2>3
    <2>5. ASSUME NEW i \in 1 .. L + 1
          PROVE  r2.buf[i] = b[i]
      <3>1. b[i] = <<Of(r), i - 1>>
        OBVIOUS
      <3>2. CASE i \in 1 .. L
        <4>1. r.buf[i] = <<Of(r), i - 1>>
          BY <2>2, <3>2
        <4> QED
          BY <1>8, <3>1, <3>2, <4>1
      <3>3. CASE i = L + 1
        <4>1. i - 1 = f.part
          BY <1>4, <1>10, <3>3
        <4> QED
          BY <1>2, <1>8, <3>1, <3>3, <4>1
      <3> QED
        BY <1>4, <3>2, <3>3
    <2> HIDE DEF b
    <2>6. r2.buf = b
      BY <1>8, <2>4, <2>5, SeqEqual
    <2> QED
      BY <2>6 DEF b
  <1> QED
    BY <1>2, <1>4, <1>7, <1>8, <1>9, <1>10

LEMMA CfReceiving ==
    ASSUME NEW r, NEW r2, NEW q, NEW w, NEW t, NEW o, NEW K, NEW d, q # <<>>,
           Scene(r, q, w, t, o, K, d), FifoIs(r, q, K), Receiving(r, K),
           Head(q).type = "CF", Extends(r, Head(q), r2)
    PROVE  Receiving(r2, K) /\ (r2.complete => Head(q).part = Chunks(Size(K, Of(r))))
  <1> DEFINE L == Len(r.buf)
             p == Head(q).part
  <1>1. /\ r.total = Size(K, Of(r)) /\ SingleMax < r.total /\ ~r.complete
        /\ r.received = FirstLen + (L - 1) * ChunkLen /\ r.received < r.total
    BY DEF Extends, Receiving
  <1>2. r.total \in Nat /\ r.received \in Nat /\ FirstLen < r.total /\ ChunkLen \in Nat /\ FirstLen \in Nat
    BY <1>1, Constants DEF Extends
  <1>3. /\ Of(r2) = Of(r) /\ LastPart(r2) = p /\ p \in Nat
        /\ L \in Nat /\ L > 0 /\ Len(r2.buf) = L + 1 /\ p >= L /\ p <= Chunks(r.total)
        /\ p = L => r2.buf = [i \in 1 .. L + 1 |-> <<Of(r), i - 1>>]
    BY CfBuffer
  <1> HIDE DEF L, p
  <1>4. r.received + ChunkLen = FirstLen + L * ChunkLen /\ L * ChunkLen \in Nat
    <2>1. (L - 1) * ChunkLen = L * ChunkLen - ChunkLen /\ L * ChunkLen \in Nat
      BY <1>2, <1>3
    <2> QED
      BY <1>1, <1>2, <2>1
  <1>5. /\ r2.received = Min(r.received + ChunkLen, r.total) /\ r2.total = r.total
        /\ r2.received \in {r.received + ChunkLen, r.total}
        /\ r2.received <= r.received + ChunkLen /\ r2.received <= r.total
    <2>1. r2.received = Min(r.received + ChunkLen, r.total) /\ r2.total = r.total
      BY DEF Extends
    <2>2. r.received + ChunkLen \in Int /\ r.total \in Int
      BY <1>2
    <2> QED
      BY <2>1, <2>2, MinIs
  <1>6. CASE r2.received >= r2.total
    <2>1. FirstLen + L * ChunkLen >= r.total
      BY <1>2, <1>4, <1>5, <1>6
    <2>2. Chunks(r.total) <= L /\ Chunks(r.total) \in Nat
      BY <1>2, <1>3, <2>1, ChunksAre
    <2>3. p = L /\ Chunks(r.total) = L
      BY <1>3, <2>2
    <2>4. r2.buf = Content(Of(r2), Size(K, Of(r2)))
      <3>1. ~(r.total <= SingleMax)
        BY <1>1, <1>2, Constants
      <3> QED
        BY <1>1, <1>3, <2>3, <3>1 DEF Content
    <2>5. r2.state = "complete"
      BY <1>6 DEF Extends
    <2> QED
      BY <1>1, <2>3, <2>4, <2>5 DEF Receiving, p
  <1>7. CASE ~(r2.received >= r2.total)
    <2>1. ~r2.complete
      BY <1>1, <1>7 DEF Extends
    <2>2. r2.received = FirstLen + (L + 1 - 1) * ChunkLen /\ r2.received < r2.total
      <3>1. r2.received < r2.total /\ r2.received = r.received + ChunkLen
        BY <1>2, <1>5, <1>7
      <3>2. L + 1 - 1 = L
        BY <1>3
      <3> QED
        BY <1>4, <3>1, <3>2
    <2>3. L + 1 - 1 <= LastPart(r2) /\ (LastPart(r2) = L + 1 - 1 => p = L)
      BY <1>3
    <2> QED
      BY <1>1, <1>3, <1>5, <2>1, <2>2, <2>3 DEF Receiving
  <1> QED
    BY <1>6, <1>7

LEMMA CfFifo ==
    ASSUME NEW r, NEW r2, NEW q, NEW w, NEW t, NEW o, NEW K, NEW d, q # <<>>,
           Scene(r, q, w, t, o, K, d), FifoIs(r, q, K), Receiving(r, K),
           Head(q).type = "CF", Extends(r, Head(q), r2)
    PROVE  FifoIs(r2, Tail(q), K)
  <1> DEFINE A == {g \in FrameType : <<Head(q), g>> \in Apart}
  <1>0. Of(r2) = Of(r) /\ LastPart(r2) = Head(q).part /\ r.state = "in_progress"
    <2>1. Of(r2) = Of(r) /\ LastPart(r2) = Head(q).part
      BY CfBuffer
    <2> QED
      BY <2>1 DEF Extends
  <1>1. A \cap Fitting(r) \subseteq Fitting(r2)
    <2>1. ASSUME NEW g \in A \cap Fitting(r)
          PROVE  g \in Fitting(r2)
      <3>1. g \in FrameType /\ ~Opens(g) /\ (g.type = "CF" => Head(q).part < g.part)
        BY DEF Apart
      <3>2. g.type = "CF" => g.msg = Of(r)
        BY <1>0 DEF Fitting
      <3> QED
        BY <1>0, <3>1, <3>2 DEF Fitting
    <2> QED
      BY <2>1
  <1>2. All(Tail(q), A) /\ All(Tail(q), Fitting(r))
    BY HeadFits
  <1> HIDE DEF A
  <1>3. All(Tail(q), Fitting(r2))
    BY <1>1, <1>2, AllBoth, AllWeaker
  <1>4. All(Tail(q), Sound(K)) /\ Chain(Tail(q), Apart)
    BY HeadFits
  <1> QED
    BY <1>3, <1>4 DEF FifoIs

LEMMA CfRun ==
    ASSUME NEW r, NEW r2, NEW q, NEW w, NEW t, NEW o, NEW K, NEW d, q # <<>>, Orders,
           Scene(r, q, w, t, o, K, d), FifoIs(r, q, K), Receiving(r, K),
           Head(q).type = "CF", Extends(r, Head(q), r2), RunIs(r, q, w, t, o, K)
    PROVE  RunIs(r2, Tail(q), w, t, o, K)
  <1> SUFFICES ASSUME t.stage # "idle" PROVE RunIs(r2, Tail(q), w, t, o, K)
    BY DEF RunIs
  <1>h. Head(q) \in FrameType /\ Within(q, Tail(q)) /\ q \in Seq(FrameType)
    BY HeadFits DEF Scene
  <1>q. \A S : All(q, S) => All(Tail(q), S) /\ Head(q) \in S
    BY <1>h, AllHead
  <1>r. /\ Of(r2) = Of(r) /\ Head(q).msg = Of(r) /\ LastPart(r2) = Head(q).part /\ r.state = "in_progress"
        /\ r2.complete => Head(q).part = Chunks(Size(K, Of(r)))
    <2>1. Of(r2) = Of(r) /\ Head(q).msg = Of(r) /\ LastPart(r2) = Head(q).part
      BY CfBuffer
    <2>2. r2.complete => Head(q).part = Chunks(Size(K, Of(r)))
      BY CfReceiving
    <2> QED
      BY <2>1, <2>2 DEF Extends
  <1>1. ASSUME NEW n, FirstRequest(r, q, w, t, n)
        PROVE  FirstRequest(r2, Tail(q), w, t, n)
    <2>1. ~Flushed(r, q, n)
      BY <1>r DEF Flushed
    <2> QED
      BY <1>1, <2>1 DEF FirstRequest
  <1>2. ~Still(r, q) /\ Head(q) \notin NoCf
    BY <1>r DEF Still, NoCf
  <1>3. ASSUME LaterRequest(r, q, w, t, o)
        PROVE  LaterRequest(r2, Tail(q), w, t, o)
    <2>1. t.stage \in {"rest", "answer"}
      BY <1>2, <1>3, <1>q DEF LaterRequest, Scene, Opening
    <2>2. CASE t.stage = "rest"
      <3> DEFINE k == t.k
                 last == Chunks(Length[t.script[t.at]])
      <3>1. /\ Long(t.script[t.at]) /\ k \in 1 .. last /\ Continuing(r, q, w, o, k)
        BY <1>3, <2>2 DEF LaterRequest
      <3>2. last \in Nat /\ Size(K, o) = Length[t.script[t.at]]
        <4>1. t.stage \in {"flow", "rest", "answer", "collect"}
          BY <2>2
        <4>2. Size(K, o) = Length[t.script[t.at]]
          BY <3>1, <4>1, LongIsAlone
        <4>3. FirstLen < Length[t.script[t.at]] /\ Length[t.script[t.at]] \in Nat
          <5>1. t.script[t.at] \in Kinds
            BY ElementOfSeq DEF Scene
          <5>2. Length[t.script[t.at]] \in Nat
            BY <5>1, IsoTpAssumption DEF IsoTpAssumption
          <5> QED
            BY <3>1, <5>2, Constants DEF Long
        <4> QED
          BY <4>2, <4>3, ChunksAre
      <3>3. Head(q) \in Before(k)
        BY <1>q, <3>1 DEF Continuing
      <3>4. Head(q).part < k /\ Head(q).part \in Nat
        BY <1>h, <3>3 DEF Before, FrameType
      <3>5. Of(r) = o
        BY <1>r, <3>1 DEF Continuing
      <3>6. ~r2.complete
        <4>1. k <= last /\ k \in Nat
          BY <3>1, <3>2
        <4> HIDE DEF k, last
        <4>2. Head(q).part # last
          BY <3>2, <3>4, <4>1
        <4> QED
          BY <1>r, <3>2, <3>5, <4>2 DEF last
      <3>7. Continuing(r2, Tail(q), w, o, k)
        BY <1>q, <1>r, <3>1, <3>4, <3>5, <3>6 DEF Continuing
      <3> QED
        BY <2>2, <3>1, <3>7 DEF LaterRequest
    <2>3. CASE t.stage = "answer"
      BY <1>2, <1>3, <1>q, <2>3 DEF LaterRequest
    <2> QED
      BY <2>1, <2>2, <2>3
  <1>4. ASSUME NEW n, Young(r, q, w, t, n)
        PROVE  Young(r2, Tail(q), w, t, n)
    <2>1. All(q, Since(n))
      BY <1>4 DEF Young
    <2>2. Head(q) \in Since(n)
      BY <1>q, <2>1
    <2>3. n <= Of(r2)
      BY <1>r, <2>2 DEF Since
    <2> QED
      BY <1>4, <1>q, <2>3 DEF Young
  <1> QED
    BY <1>1, <1>3, <1>4 DEF RunIs

-----------------------------------------------------------------------------
(* What the ECU does. *)

\* The message that is taken is whole; its answer comes after those on the wire.
LEMMA TakeRun ==
    ASSUME NEW r, NEW r2, NEW w, NEW t, NEW o, NEW K, NEW d,
           Scene(r, <<>>, w, t, o, K, d), RunIs(r, <<>>, w, t, o, K), r.complete,
           ~r2.complete, r2.state = "idle",
           NEW c \in FrameType, Begins(c), c.msg = Of(r)
    PROVE  RunIs(r2, <<>>, w, t, o, K) /\ RunIs(r2, <<>>, Append(w, c), t, o, K)
  <1> SUFFICES ASSUME t.stage # "idle"
               PROVE  RunIs(r2, <<>>, w, t, o, K) /\ RunIs(r2, <<>>, Append(w, c), t, o, K)
    BY DEF RunIs
  <1>c. c.type # "FC" /\ w \in Seq(FrameType)
    BY DEF Begins, Scene
  <1>a. \A S : c \in S /\ All(w, S) => All(Append(w, c), S)
    BY <1>c, AllAppend
  <1>s. Still(r2, <<>>) /\ (\A n : Flushed(r2, <<>>, n)) /\ \A S : All(<<>>, S)
    BY NothingIn DEF Still, Flushed
  <1>1. ASSUME NEW n, FirstRequest(r, <<>>, w, t, n)
        PROVE  FirstRequest(r2, <<>>, w, t, n) /\ FirstRequest(r2, <<>>, Append(w, c), t, n)
    <2>1. ~All(w, NoAnswer) => Of(r) = n
      BY <1>1 DEF FirstRequest, Flushed
    <2>2. Chain(Append(w, c), OwnAfter(n))
      <3>1. CASE All(w, NoAnswer)
        <4>1. NoAnswer \subseteq {g \in FrameType : <<g, c>> \in OwnAfter(n)}
          BY DEF NoAnswer, OwnAfter, Pairs
        <4>2. All(w, {g \in FrameType : <<g, c>> \in OwnAfter(n)})
          BY <3>1, <4>1, AllWeaker
        <4> QED
          BY <1>1, <1>c, <4>2, ChainAppend DEF FirstRequest
      <3>2. CASE ~All(w, NoAnswer)
        <4>1. FrameType \subseteq {g \in FrameType : <<g, c>> \in OwnAfter(n)}
          BY <1>c, <2>1, <3>2 DEF OwnAfter, Pairs, AnswerTo
        <4>2. All(w, {g \in FrameType : <<g, c>> \in OwnAfter(n)})
          BY <1>c, <4>1, AllFrames, AllWeaker
        <4> QED
          BY <1>1, <1>c, <4>2, ChainAppend DEF FirstRequest
      <3> QED
        BY <3>1, <3>2
    <2>3. t.stage = "collect" => All(Append(w, c), NoFc) /\ All(Append(w, c), AnswerTo(n))
      <3> SUFFICES ASSUME t.stage = "collect" PROVE All(Append(w, c), NoFc) /\ All(Append(w, c), AnswerTo(n))
        OBVIOUS
      <3>1. Of(r) = n /\ All(w, NoFc) /\ All(w, AnswerTo(n))
        BY <1>1 DEF FirstRequest, Flushed
      <3>2. c \in NoFc /\ c \in AnswerTo(n)
        BY <1>c, <3>1 DEF NoFc, AnswerTo
      <3> QED
        BY <1>a, <3>1, <3>2
    <2> QED
      BY <1>1, <1>s, <2>2, <2>3 DEF FirstRequest
  <1>2. ASSUME LaterRequest(r, <<>>, w, t, o)
        PROVE  LaterRequest(r2, <<>>, w, t, o) /\ LaterRequest(r2, <<>>, Append(w, c), t, o)
    <2>1. /\ t.stage \in {"send", "collect", "answer"} \/ (t.stage = "flow" /\ ~Long(t.script[t.at]))
          /\ All(w, NoFc)
      BY <1>2 DEF LaterRequest, Opening, Continuing, Scene
    <2>2. All(Append(w, c), NoFc)
      BY <1>a, <1>c, <2>1 DEF NoFc
    <2> QED
      BY <1>s, <2>1, <2>2 DEF LaterRequest
  <1>3. ASSUME NEW n, Young(r, <<>>, w, t, n)
        PROVE  Young(r2, <<>>, w, t, n) /\ Young(r2, <<>>, Append(w, c), t, n)
    <2>1. n <= Of(r) /\ All(w, Answers(n))
      BY <1>3 DEF Young
    <2>2. c \in Answers(n)
      BY <2>1 DEF Answers
    <2> QED
      BY <1>3, <1>s, <1>a, <2>1, <2>2 DEF Young
  <1> QED
    BY <1>1, <1>2, <1>3 DEF RunIs

LEMMA TakeWire ==
    ASSUME NEW r, NEW w \in Seq(FrameType), NEW t, NEW d \in Nat, WireIs(w, d, t),
           NEW c \in FrameType, Begins(c), d < c.msg, t.stage = "collect" => t.from \in Nat
    PROVE  WireIs(w, c.msg, t) /\ WireIs(Append(w, c), c.msg, t)
  <1>1. UpTo(d) \subseteq UpTo(c.msg) /\ UpTo(d) \subseteq {g \in FrameType : <<g, c>> \in Rising}
        /\ c \in UpTo(c.msg) /\ c.msg \in Nat
    BY DEF UpTo, Rising, Pairs, FrameType
  <1>2. All(w, UpTo(c.msg)) /\ All(w, {g \in FrameType : <<g, c>> \in Rising})
    BY <1>1, AllWeaker DEF WireIs
  <1>3. All(Append(w, c), UpTo(c.msg)) /\ Chain(Append(w, c), Rising)
    BY <1>1, <1>2, AllAppend, ChainAppend DEF WireIs
  <1>4. ASSUME t.stage = "collect"
        PROVE  t.from <= c.msg /\ All(w, Beyond(t.from)) /\ All(Append(w, c), Beyond(t.from))
    <2>1. t.from <= d /\ All(w, Beyond(t.from)) /\ t.from \in Nat
      BY <1>4 DEF WireIs
    <2>2. c \in Beyond(t.from) /\ t.from <= c.msg
      BY <1>1, <2>1 DEF Beyond
    <2> QED
      BY <2>1, <2>2, AllAppend
  <1> QED
    BY <1>2, <1>3, <1>4 DEF WireIs

-----------------------------------------------------------------------------
(* What the tool does. *)

\* A new request: f is its first frame, t2 the tool after it.
Requests(t, o, f, t2) ==
    /\ t.stage = "send"
    /\ f \in FrameType /\ f.msg = o + 1 /\ f.part = 0 /\ f.n = Length[t.script[t.at]]
    /\ IF f.n <= SingleMax THEN f.type = "SF" /\ t2.stage \in {"idle", "answer"}
       ELSE f.type = "FF" /\ t2.stage = "flow"
    /\ t2.stage # "idle" => t2.script = t.script /\ t2.at = t.at

LEMMA KindsKept ==
    ASSUME NEW K \in Seq(Kinds), NEW o \in Nat, Len(K) = o, NEW kind \in Kinds
    PROVE  /\ Append(K, kind)[o + 1] = kind
           /\ \A m \in Nat : m > 0 /\ m <= o => /\ Append(K, kind)[m] = K[m]
                                                /\ Size(Append(K, kind), m) = Size(K, m)
  <1>1. /\ \A m \in 1 .. o : Append(K, kind)[m] = K[m]
        /\ Append(K, kind)[o + 1] = kind
    BY AppendProperties
  <1>2. \A m \in Nat : m > 0 /\ m <= o => m \in 1 .. o
    OBVIOUS
  <1> QED
    BY <1>1, <1>2 DEF Size

LEMMA ReceivingKept ==
    ASSUME NEW r, NEW q, NEW w, NEW t, NEW o, NEW K, NEW d, NEW kind \in Kinds,
           Scene(r, q, w, t, o, K, d), Receiving(r, K)
    PROVE  Receiving(r, Append(K, kind))
  <1>1. o \in Nat /\ K \in Seq(Kinds) /\ Len(K) = o /\ d \in Nat
    BY DEF Scene
  <1>2. r.complete \/ r.state = "in_progress" => Of(r) \in Nat /\ Of(r) > 0 /\ Of(r) <= o
    <2> SUFFICES ASSUME r.complete \/ r.state = "in_progress" PROVE Of(r) \in Nat /\ Of(r) > 0 /\ Of(r) <= o
      OBVIOUS
    <2>1. r.buf \in Seq(Nat \X Nat) /\ r.buf # <<>> /\ d < Of(r) /\ Of(r) <= o
      BY DEF Scene
    <2>2. 1 \in 1 .. Len(r.buf)
      BY <2>1, EmptySeq
    <2>3. r.buf[1] \in Nat \X Nat
      BY <2>1, <2>2, ElementOfSeq
    <2>4. Of(r) \in Nat
      BY <2>3 DEF Of
    <2> QED
      BY <1>1, <2>1, <2>4
  <1>3. r.complete \/ r.state = "in_progress" => Size(Append(K, kind), Of(r)) = Size(K, Of(r))
    BY <1>1, <1>2, KindsKept
  <1> QED
    BY <1>3 DEF Receiving

LEMMA SoundKept ==
    ASSUME NEW q, NEW o, NEW K \in Seq(Kinds), NEW d, NEW kind \in Kinds,
           o \in Nat, Len(K) = o, All(q, Sound(K)), All(q, Numbered(o, d))
    PROVE  All(q, Sound(Append(K, kind)))
  <1>1. ASSUME NEW f \in Sound(K) \cap Numbered(o, d)
        PROVE  f \in Sound(Append(K, kind))
    <2>1. f \in FrameType /\ f.msg \in Nat /\ f.msg <= o /\ (f.type # "FC" => f.msg > 0)
      BY DEF Numbered, FrameType
    <2>2. f.type # "FC" => Size(Append(K, kind), f.msg) = Size(K, f.msg)
      BY <2>1, KindsKept
    <2>3. Begins(f) => f.type # "FC"
      BY DEF Begins
    <2> QED
      BY <2>1, <2>2, <2>3 DEF Sound
  <1>2. All(q, Sound(K) \cap Numbered(o, d))
    BY AllBoth
  <1>3. Sound(K) \cap Numbered(o, d) \subseteq Sound(Append(K, kind))
    BY <1>1
  <1> QED
    BY <1>2, <1>3, AllWeaker

\* Before a long request there are only flow controls in the FIFO, nothing waits to be
\* taken and no answer is on its way.
LEMMA LongIsFirst ==
    ASSUME NEW r, NEW q, NEW w, NEW t, NEW o, NEW K, NEW d, Orders,
           Scene(r, q, w, t, o, K, d), RunIs(r, q, w, t, o, K), WireIs(w, d, t),
           t.stage = "send", Long(t.script[t.at])
    PROVE  /\ t.at # 1 /\ t.at # 2
           /\ ~r.complete /\ All(w, NoAnswer) /\ All(q, {f \in FrameType : f.type = "FC"})
  <1>1. t.script \in Scripts /\ t.at \in 1 .. Len(t.script) /\ t.script \in Seq(Kinds)
    BY DEF RunIs, Scene
  <1>2. Orderly(t.script) /\ t.at \in Nat
    BY <1>1 DEF Orders
  <1>3. t.at >= 3 /\ t.script[1] # t.script[2]
    BY <1>1, <1>2 DEF Orderly
  <1>4. t.at # 1 /\ t.at # 2
    BY <1>2, <1>3
  <1>5. Young(r, q, w, t, o + 1)
    BY <1>3, <1>4 DEF RunIs, Least, Own
  <1>6. o \in Nat /\ d \in Nat /\ d <= o /\ q \in Seq(FrameType) /\ w \in Seq(FrameType)
    BY DEF Scene
  <1>7. ~r.complete
    <2> SUFFICES ASSUME r.complete PROVE FALSE
      OBVIOUS
    <2>1. o + 1 <= Of(r) /\ Of(r) <= o
      BY <1>5 DEF Young, Scene
    <2>2. Of(r) \in Nat
      <3>1. r.buf \in Seq(Nat \X Nat) /\ r.buf # <<>>
        BY DEF Scene
      <3>2. 1 \in 1 .. Len(r.buf)
        BY <3>1, EmptySeq
      <3>3. r.buf[1] \in Nat \X Nat
        BY <3>1, <3>2, ElementOfSeq
      <3> QED
        BY <3>3 DEF Of
    <2> QED
      BY <1>6, <2>1, <2>2
  <1>8. All(w, NoAnswer)
    <2>1. All(w, Answers(o + 1) \cap UpTo(d))
      BY <1>5, AllBoth DEF Young, WireIs
    <2>2. Answers(o + 1) \cap UpTo(d) \subseteq NoAnswer
      BY <1>6 DEF Answers, UpTo, NoAnswer, FrameType
    <2> QED
      BY <2>1, <2>2, AllWeaker
  <1>9. All(q, {f \in FrameType : f.type = "FC"})
    <2>1. All(q, Since(o + 1) \cap Numbered(o, d))
      BY <1>5, AllBoth DEF Young, Scene
    <2>2. Since(o + 1) \cap Numbered(o, d) \subseteq {f \in FrameType : f.type = "FC"}
      BY <1>6 DEF Since, Numbered, FrameType
    <2> QED
      BY <2>1, <2>2, AllWeaker
  <1> QED
    BY <1>4, <1>7, <1>8, <1>9

LEMMA RequestFifo ==
    ASSUME NEW r, NEW q, NEW w, NEW t, NEW o, NEW K, NEW d, NEW f, NEW t2, Orders,
           Scene(r, q, w, t, o, K, d), RunIs(r, q, w, t, o, K), WireIs(w, d, t), FifoIs(r, q, K),
           Requests(t, o, f, t2)
    PROVE  /\ FifoIs(r, q, Append(K, t.script[t.at]))
           /\ FifoIs(r, Append(q, f), Append(K, t.script[t.at]))
           /\ Opens(f) => Long(t.script[t.at])
           /\ f.type = "FF" => SingleMax < f.n
  <1> DEFINE kind == t.script[t.at]
             K2 == Append(K, kind)
  <1>1. /\ o \in Nat /\ K \in Seq(Kinds) /\ Len(K) = o /\ q \in Seq(FrameType) /\ All(q, Numbered(o, d))
        /\ t.stage = "send" /\ t.at \in 1 .. Len(t.script) /\ t.script \in Seq(Kinds)
    BY DEF Scene, Requests
  <1>2. kind \in Kinds
    BY <1>1, ElementOfSeq
  <1>3. f \in FrameType /\ f.msg = o + 1 /\ f.part = 0 /\ f.n = Length[kind] /\ f.n \in Nat
        /\ f.type \in {"SF", "FF"} /\ (f.type = "FF" => ~(f.n <= SingleMax))
    BY DEF Requests, FrameType
  <1> HIDE DEF kind
  <1>4. f.type = "FF" => SingleMax < f.n
    BY <1>3, Constants
  <1>5. Opens(f) => Long(kind)
    BY <1>3, <1>4 DEF Opens, Long
  <1>6. Size(K2, o + 1) = Length[kind]
    BY <1>1, <1>2, KindsKept DEF Size
  <1>7. f \in Sound(K2)
    BY <1>3, <1>4, <1>6 DEF Sound
  <1>8. All(q, Sound(K2)) /\ All(Append(q, f), Sound(K2))
    <2>1. All(q, Sound(K2))
      BY <1>1, <1>2, SoundKept DEF FifoIs
    <2> HIDE DEF K2
    <2> QED
      BY <1>1, <1>3, <1>7, <2>1, AllAppend
  <1>9. All(q, {g \in FrameType : <<g, f>> \in Apart})
    <2>1. CASE Opens(f)
      <3>1. All(q, {g \in FrameType : g.type = "FC"})
        BY <1>1, <1>5, <2>1, LongIsFirst DEF kind
      <3>2. {g \in FrameType : g.type = "FC"} \subseteq {g \in FrameType : <<g, f>> \in Apart}
        BY <1>3 DEF Apart, Pairs, Opens
      <3> QED
        BY <3>1, <3>2, AllWeaker
    <2>2. CASE ~Opens(f)
      <3>1. FrameType \subseteq {g \in FrameType : <<g, f>> \in Apart}
        BY <1>3, <2>2 DEF Apart, Pairs
      <3> QED
        BY <1>1, <3>1, AllFrames, AllWeaker
    <2> QED
      BY <2>1, <2>2
  <1>10. f \in Fitting(r)
    <2>1. Opens(f) => ~r.complete
      BY <1>1, <1>5, LongIsFirst DEF kind
    <2> QED
      BY <1>3, <2>1 DEF Fitting
  <1>11. All(Append(q, f), Fitting(r)) /\ Chain(Append(q, f), Apart)
    BY <1>1, <1>3, <1>9, <1>10, AllAppend, ChainAppend DEF FifoIs
  <1>12. FifoIs(r, q, K2) /\ FifoIs(r, Append(q, f), K2)
    BY <1>8, <1>11 DEF FifoIs
  <1> QED
    BY <1>4, <1>5, <1>12 DEF kind

LEMMA RequestRun ==
    ASSUME NEW r, NEW q, NEW q2, NEW w, NEW t, NEW o, NEW K, NEW d, NEW f, NEW t2, Orders,
           Scene(r, q, w, t, o, K, d), RunIs(r, q, w, t, o, K), WireIs(w, d, t), FifoIs(r, q, K),
           Requests(t, o, f, t2), q2 \in {q, Append(q, f)}
    PROVE  RunIs(r, q2, w, t2, o + 1, Append(K, t.script[t.at]))
  <1> DEFINE kind == t.script[t.at]
             K2 == Append(K, kind)
  <1> SUFFICES ASSUME t2.stage # "idle" PROVE RunIs(r, q2, w, t2, o + 1, K2)
    BY DEF RunIs
  <1>1. /\ o \in Nat /\ K \in Seq(Kinds) /\ Len(K) = o /\ q \in Seq(FrameType)
        /\ t.stage = "send" /\ t.at \in 1 .. Len(t.script) /\ t.script \in Seq(Kinds)
    BY DEF Scene, Requests
  <1>2. kind \in Kinds
    BY <1>1, ElementOfSeq
  <1>3. /\ f \in FrameType /\ f.msg = o + 1 /\ f.n = Length[kind]
        /\ \/ f.type = "SF" /\ f.n <= SingleMax /\ t2.stage = "answer"
           \/ f.type = "FF" /\ ~(f.n <= SingleMax) /\ t2.stage = "flow"
        /\ t2.script = t.script /\ t2.at = t.at
    BY DEF Requests
  <1>4. t.script \in Scripts /\ t.at \in Nat
    BY <1>1 DEF RunIs
  <1>5. o + 1 > 0 /\ K2[o + 1] = kind
    BY <1>1, <1>2, KindsKept
  <1>6. Own(t, o) = o + 1 /\ Own(t2, o + 1) = o + 1 /\ Least(t2, o + 1) = Least(t, o)
    BY <1>1, <1>3 DEF Own, Least
  <1>7. t.at = 2 => Least(t2, o + 1) > 0 /\ K2[Least(t2, o + 1)] = t.script[1]
    <2> SUFFICES ASSUME t.at = 2 PROVE Least(t2, o + 1) > 0 /\ K2[Least(t2, o + 1)] = t.script[1]
      OBVIOUS
    <2>1. Least(t, o) = o + 1 - 1 /\ Least(t, o) > 0 /\ K[Least(t, o)] = t.script[1]
      BY <1>1, <1>6 DEF RunIs, Least
    <2>2. Least(t, o) = o /\ o > 0
      BY <1>1, <2>1
    <2> QED
      BY <1>1, <1>2, <1>6, <2>1, <2>2, KindsKept
  <1> HIDE DEF K2
  <1>8. \A S : f \in S /\ All(q, S) => All(q2, S)
    BY <1>1, <1>3, AllAppend
  <1>9. t.at = 1 => FirstRequest(r, q2, w, t2, o + 1)
    <2> SUFFICES ASSUME t.at = 1 PROVE FirstRequest(r, q2, w, t2, o + 1)
      OBVIOUS
    <2>1. FirstRequest(r, q, w, t, o + 1)
      BY <1>1, <1>6 DEF RunIs
    <2>2. f.type = "SF" /\ t2.stage = "answer"
      <3>1. Length[t.script[1]] <= SingleMax
        BY <1>4 DEF Orders, Orderly
      <3> QED
        BY <1>3, <3>1
    <2>3. f \in Single(o + 1)
      BY <1>3, <2>2 DEF Single
    <2>4. Flushed(r, q, o + 1) => Flushed(r, q2, o + 1)
      BY <1>8, <2>3 DEF Flushed
    <2> QED
      BY <2>1, <2>2, <2>4 DEF FirstRequest
  <1>10. t.at # 1 => LaterRequest(r, q2, w, t2, o + 1)
    <2> SUFFICES ASSUME t.at # 1 PROVE LaterRequest(r, q2, w, t2, o + 1)
      OBVIOUS
    <2>1. Still(r, q) /\ All(w, NoFc)
      BY <1>1 DEF RunIs, LaterRequest
    <2>2. CASE f.type = "SF"
      <3>1. f \in Plain /\ f \in NoOpening
        BY <1>3, <2>2 DEF Plain, NoOpening, Opens
      <3>2. Still(r, q2)
        BY <1>8, <2>1, <3>1 DEF Still
      <3>3. All(q2, NoOpening)
        <4>1. Plain \subseteq NoOpening
          BY DEF Plain, NoOpening
        <4> QED
          BY <3>2, <4>1, AllWeaker DEF Still
      <3> QED
        BY <1>3, <2>1, <2>2, <3>2, <3>3 DEF LaterRequest
    <2>3. CASE f.type = "FF" /\ ~Long(kind)
      <3>1. f \in Plain
        <4>1. ~Opens(f)
          BY <2>3, RequestFifo
        <4> QED
          BY <1>3, <2>3, <4>1 DEF Plain
      <3>2. Still(r, q2)
        BY <1>8, <2>1, <3>1 DEF Still
      <3> QED
        BY <1>3, <2>1, <2>3, <3>2 DEF LaterRequest
    <2>4. CASE f.type = "FF" /\ Long(kind)
      <3>1. ~r.complete /\ All(w, NoAnswer)
        BY <1>1, <2>4, LongIsFirst
      <3>2. All(q2, NoCf)
        <4>1. Plain \subseteq NoCf /\ f \in NoCf
          BY <1>3, <2>4 DEF Plain, NoCf
        <4>2. All(q, NoCf)
          BY <2>1, <4>1, AllWeaker DEF Still
        <4> QED
          BY <1>8, <4>1, <4>2
      <3>3. r.state # "in_progress"
        BY <2>1 DEF Still
      <3>4. Chain(w, OneFc)
        <4>1. \A i \in 1 .. Len(w) : w[i] \in NoFc
          BY <2>1 DEF All
        <4>2. \A g, h \in NoFc : <<g, h>> \in OneFc
          BY DEF NoFc, OneFc, Pairs
        <4> QED
          BY <4>1, <4>2 DEF Chain
      <3>5. Opening(r, q2, w, o + 1)
        BY <2>1, <3>1, <3>2, <3>3, <3>4 DEF Opening
      <3> QED
        BY <1>3, <2>4, <3>5 DEF LaterRequest
    <2> QED
      BY <1>3, <2>2, <2>3, <2>4
  <1>11. ASSUME t.at # 1, t.script[1] # t.script[2]
         PROVE  Young(r, q2, w, t2, Least(t, o))
    <2>1. Young(r, q, w, t, Least(t, o))
      BY <1>1, <1>11 DEF RunIs
    <2>2. f \in Since(Least(t, o))
      <3>1. Least(t, o) <= o + 1
        BY <1>1, <1>6 DEF Least
      <3> QED
        BY <1>3, <3>1 DEF Since
    <2> QED
      BY <1>3, <1>8, <2>1, <2>2 DEF Young
  <1> QED
    BY <1>3, <1>4, <1>5, <1>6, <1>7, <1>9, <1>10, <1>11 DEF RunIs

-----------------------------------------------------------------------------
LEMMA LongLength ==
    ASSUME NEW r, NEW q, NEW w, NEW t, NEW o, NEW K, NEW d, Scene(r, q, w, t, o, K, d),
           t.stage # "idle", Long(t.script[t.at])
    PROVE  /\ Chunks(Length[t.script[t.at]]) \in Nat /\ Chunks(Length[t.script[t.at]]) >= 1
           /\ FirstLen < Length[t.script[t.at]] /\ Length[t.script[t.at]] \in Nat
  <1>1. t.script[t.at] \in Kinds
    BY ElementOfSeq DEF Scene
  <1>2. Length[t.script[t.at]] \in Nat
    BY <1>1, IsoTpAssumption DEF IsoTpAssumption
  <1>3. FirstLen < Length[t.script[t.at]]
    BY <1>2, Constants DEF Long
  <1> QED
    BY <1>2, <1>3, ChunksAre

LEMMA FlowControlRun ==
    ASSUME NEW r, NEW q, NEW w, NEW t, NEW o, NEW K, NEW d, NEW t2, w # <<>>,
           Scene(r, q, w, t, o, K, d), RunIs(r, q, w, t, o, K), t.stage = "flow",
           Head(w).type = "FC", t2.stage = "rest", t2.script = t.script, t2.at = t.at, t2.k = 1
    PROVE  RunIs(r, q, Tail(w), t2, o, K)
  <1>1. w \in Seq(FrameType) /\ o > 0 /\ K[o] = t.script[t.at] /\ t.script \in Scripts
    BY DEF Scene, RunIs
  <1>2. t.at # 1 /\ LaterRequest(r, q, w, t, o)
    BY DEF RunIs, FirstRequest
  <1>3. ~All(w, NoFc)
    <2>1. Head(w) \notin NoFc
      BY DEF NoFc
    <2> QED
      BY <1>1, <2>1, AllHead
  <1>4. Long(t.script[t.at]) /\ Opening(r, q, w, o) /\ All(q, Plain)
    BY <1>2, <1>3 DEF LaterRequest, Opening
  <1>5. All(Tail(w), NoFc)
    <2>1. All(Tail(w), {g \in FrameType : <<Head(w), g>> \in OneFc})
      BY <1>1, <1>4, ChainHead DEF Opening
    <2>2. {g \in FrameType : <<Head(w), g>> \in OneFc} \subseteq NoFc
      BY DEF NoFc, OneFc
    <2> QED
      BY <2>1, <2>2, AllWeaker
  <1>6. All(q, Before(1))
    <2>1. Plain \subseteq Before(1)
      BY DEF Plain, Before
    <2> QED
      BY <1>4, <2>1, AllWeaker
  <1>7. Continuing(r, q, Tail(w), o, 1)
    <2>1. All(Tail(w), NoAnswer)
      BY <1>1, <1>4, AllHead DEF Opening
    <2>2. r.state = "in_progress" => Of(r) = o /\ LastPart(r) < 1
      BY <1>4 DEF Opening
    <2> QED
      BY <1>4, <1>5, <1>6, <2>1, <2>2 DEF Continuing, Opening
  <1>8. 1 \in 1 .. Chunks(Length[t.script[t.at]])
    BY <1>4, LongLength
  <1>9. LaterRequest(r, q, Tail(w), t2, o)
    BY <1>4, <1>7, <1>8 DEF LaterRequest
  <1>10. Least(t2, o) = Least(t, o)
    BY DEF Least, Own
  <1>11. ASSUME NEW n, Young(r, q, w, t, n)
         PROVE  Young(r, q, Tail(w), t2, n)
    <2>1. All(Tail(w), Answers(n))
      BY <1>1, <1>11, AllHead DEF Young
    <2> QED
      BY <1>11, <2>1 DEF Young
  <1> QED
    BY <1>1, <1>2, <1>9, <1>10, <1>11 DEF RunIs

\* Another part of the request is posted, or the FIFO refuses it.
LEMMA RestFifo ==
    ASSUME NEW r, NEW q, NEW w, NEW t, NEW o, NEW K, NEW d, NEW f \in FrameType, Orders,
           Scene(r, q, w, t, o, K, d), RunIs(r, q, w, t, o, K), FifoIs(r, q, K), t.stage = "rest",
           f.type = "CF", f.msg = o, f.part = t.k
    PROVE  FifoIs(r, Append(q, f), K)
  <1>1. q \in Seq(FrameType)
    BY DEF Scene
  <1>2. t.at # 1 /\ LaterRequest(r, q, w, t, o)
    BY DEF RunIs, FirstRequest
  <1>3. Long(t.script[t.at]) /\ t.k \in 1 .. Chunks(Length[t.script[t.at]]) /\ Continuing(r, q, w, o, t.k)
    BY <1>2 DEF LaterRequest
  <1>4. Size(K, o) = Length[t.script[t.at]]
    BY DEF RunIs, Size
  <1>5. f \in Sound(K) /\ ~Opens(f) /\ ~Begins(f)
    <2>1. f.part <= Chunks(Size(K, f.msg))
      BY <1>3, <1>4, LongLength
    <2> QED
      BY <2>1 DEF Sound, Begins, Opens
  <1>6. f \in Fitting(r)
    BY <1>3, <1>5 DEF Fitting, Continuing
  <1>7. Before(t.k) \subseteq {g \in FrameType : <<g, f>> \in Apart}
    BY <1>5 DEF Before, Apart, Pairs
  <1>8. All(q, {g \in FrameType : <<g, f>> \in Apart})
    BY <1>3, <1>7, AllWeaker DEF Continuing
  <1> QED
    BY <1>1, <1>5, <1>6, <1>8, AllAppend, ChainAppend DEF FifoIs

LEMMA RestRun ==
    ASSUME NEW r, NEW q, NEW q2, NEW w, NEW t, NEW o, NEW K, NEW d, NEW f \in FrameType, NEW t2,
           Scene(r, q, w, t, o, K, d), RunIs(r, q, w, t, o, K), t.stage = "rest",
           f.type = "CF", f.msg = o, f.part = t.k, q2 \in {q, Append(q, f)}, t.k \in Nat,
           t2.script = t.script, t2.at = t.at,
           \/ t2.stage = "answer"
           \/ t2.stage = "rest" /\ t2.k = t.k + 1 /\ t.k # Chunks(Length[t.script[t.at]])
    PROVE  RunIs(r, q2, w, t2, o, K)
  <1>1. q \in Seq(FrameType) /\ o \in Nat /\ o > 0 /\ K[o] = t.script[t.at] /\ t.script \in Scripts
    BY DEF Scene, RunIs
  <1>2. t.at # 1 /\ LaterRequest(r, q, w, t, o)
    BY DEF RunIs, FirstRequest
  <1>3. Long(t.script[t.at]) /\ t.k \in 1 .. Chunks(Length[t.script[t.at]]) /\ Continuing(r, q, w, o, t.k)
    BY <1>2 DEF LaterRequest
  <1>4. \A S : f \in S /\ All(q, S) => All(q2, S)
    BY <1>1, AllAppend
  <1>5. All(q2, Before(t.k + 1)) /\ All(q2, NoOpening)
    <2>1. Before(t.k) \subseteq Before(t.k + 1) /\ f \in Before(t.k + 1) /\ Before(t.k + 1) \subseteq NoOpening
      BY DEF Before, NoOpening, Opens, FrameType
    <2>2. All(q2, Before(t.k + 1))
      BY <1>3, <1>4, <2>1, AllWeaker DEF Continuing
    <2> QED
      BY <2>1, <2>2, AllWeaker
  <1>6. LaterRequest(r, q2, w, t2, o)
    <2>1. CASE t2.stage = "answer"
      BY <1>3, <1>5, <2>1 DEF LaterRequest, Continuing
    <2>2. CASE t2.stage = "rest" /\ t2.k = t.k + 1 /\ t.k # Chunks(Length[t.script[t.at]])
      <3>1. t2.k \in 1 .. Chunks(Length[t.script[t.at]])
        <4>1. Chunks(Length[t.script[t.at]]) \in Nat
          BY <1>3, LongLength
        <4> QED
          BY <1>3, <2>2, <4>1
      <3>2. r.state = "in_progress" => LastPart(r) < t.k + 1
        <4> SUFFICES ASSUME r.state = "in_progress" PROVE LastPart(r) < t.k + 1
          OBVIOUS
        <4>1. LastPart(r) < t.k
          BY <1>3 DEF Continuing
        <4>2. LastPart(r) \in Nat
          <5>1. r.buf \in Seq(Nat \X Nat) /\ r.buf # <<>>
            BY DEF Scene
          <5>2. Len(r.buf) \in 1 .. Len(r.buf)
            BY <5>1, EmptySeq
          <5>3. r.buf[Len(r.buf)] \in Nat \X Nat
            BY <5>1, <5>2, ElementOfSeq
          <5> QED
            BY <5>3 DEF LastPart
        <4> QED
          BY <4>1, <4>2
      <3>3. Continuing(r, q2, w, o, t.k + 1)
        BY <1>3, <1>5, <3>2 DEF Continuing
      <3> QED
        BY <1>3, <2>2, <3>1, <3>3 DEF LaterRequest
    <2> QED
      BY <2>1, <2>2
  <1>7. Least(t2, o) = Least(t, o) /\ Least(t, o) <= o
    BY <1>1 DEF Least, Own
  <1>8. t.script[1] # t.script[2] => Young(r, q2, w, t2, Least(t, o))
    <2> SUFFICES ASSUME t.script[1] # t.script[2] PROVE Young(r, q2, w, t2, Least(t, o))
      OBVIOUS
    <2>1. Young(r, q, w, t, Least(t, o))
      BY <1>2 DEF RunIs
    <2>2. f \in Since(Least(t, o))
      BY <1>7 DEF Since
    <2> QED
      BY <1>4, <2>1, <2>2 DEF Young
  <1> QED
    BY <1>1, <1>2, <1>6, <1>7, <1>8 DEF RunIs

-----------------------------------------------------------------------------
\* The answer of message m ends the request of number o: it is the answer of that
\* request, and nothing else is left. The next request begins with t2.
LEMMA AcceptedRun ==
    ASSUME NEW r, NEW q, NEW w, NEW w2, NEW t, NEW o, NEW K, NEW d, NEW t2, NEW m \in Nat,
           Scene(r, q, w, t, o, K, d), RunIs(r, q, w, t, o, K),
           t.stage \in {"answer", "collect"},
           w2 \in Seq(FrameType), All(w2, NoFc), All(w2, Beyond(m)), All(w2, UpTo(d)),
           m <= d, K[m] = t.script[t.at],
           t.at = 1 => Flushed(r, q, o) /\ All(w2, AnswerTo(o)),
           t.at # 1 => Still(r, q),
           t.at # 1 /\ t.script[1] # t.script[2] => Least(t, o) <= m,
           t2.stage = "send", t2.script = t.script, t2.at = t.at + 1
    PROVE  RunIs(r, q, w2, t2, o, K)
  <1>1. /\ o \in Nat /\ d \in Nat /\ d <= o /\ q \in Seq(FrameType) /\ All(q, Numbered(o, d))
        /\ t.at \in Nat /\ t.at >= 1
    BY DEF Scene
  <1>2. t.script \in Scripts /\ o > 0 /\ K[o] = t.script[t.at]
    BY DEF RunIs
  <1>3. Own(t, o) = o /\ Own(t2, o) = o + 1 /\ t2.at # 1
    BY <1>1 DEF Own
  <1>4. CASE t.at = 1
    <2>1. All(q, Single(o)) /\ r.state # "in_progress" /\ (r.complete => Of(r) = o)
      BY <1>4 DEF Flushed
    <2>2. Single(o) \subseteq Plain /\ Single(o) \subseteq Since(o) /\ AnswerTo(o) \subseteq Answers(o)
      BY <1>1 DEF Single, Plain, Since, AnswerTo, Answers, Opens
    <2>3. All(q, Plain) /\ All(q, Since(o)) /\ All(w2, Answers(o))
      BY <1>4, <2>1, <2>2, AllWeaker
    <2>4. t2.at = 2 /\ Least(t2, o) = o
      BY <1>1, <1>3, <1>4 DEF Least
    <2>5. LaterRequest(r, q, w2, t2, o)
      BY <2>1, <2>3 DEF LaterRequest, Still
    <2>6. Young(r, q, w2, t2, o)
      BY <1>1, <2>1, <2>3 DEF Young
    <2> QED
      BY <1>2, <1>3, <1>4, <2>4, <2>5, <2>6 DEF RunIs
  <1>5. CASE t.at # 1
    <2>1. Still(r, q) /\ All(q, Plain)
      BY <1>5 DEF Still
    <2>2. t2.at # 2 /\ Least(t2, o) = o + 1
      <3>1. t2.at # 2
        BY <1>1, <1>5
      <3> QED
        BY <1>3, <3>1 DEF Least
    <2>3. LaterRequest(r, q, w2, t2, o)
      BY <2>1 DEF LaterRequest
    <2>4. ASSUME t.script[1] # t.script[2]
          PROVE  Young(r, q, w2, t2, o + 1)
      <3>1. m = o
        <4>1. CASE t.at = 2
          <5>1. Least(t, o) = o - 1 /\ K[Least(t, o)] = t.script[1]
            BY <1>3, <4>1 DEF Least, RunIs
          <5>2. K[m] # K[Least(t, o)] /\ Least(t, o) <= m
            BY <1>5, <2>4, <4>1, <5>1
          <5> QED
            BY <1>1, <5>1, <5>2
        <4>2. CASE t.at # 2
          <5>1. Least(t, o) <= m /\ Least(t, o) = o
            BY <1>3, <1>5, <2>4, <4>2 DEF Least
          <5> QED
            BY <1>1, <5>1
        <4> QED
          BY <4>1, <4>2
      <3>2. d = o
        BY <1>1, <3>1
      <3>3. ~r.complete
        <4> SUFFICES ASSUME r.complete PROVE FALSE
          OBVIOUS
        <4>1. d < Of(r) /\ Of(r) <= o
          BY DEF Scene
        <4>2. Of(r) \in Nat
          <5>1. r.buf \in Seq(Nat \X Nat) /\ r.buf # <<>>
            BY DEF Scene
          <5>2. 1 \in 1 .. Len(r.buf)
            BY <5>1, EmptySeq
          <5>3. r.buf[1] \in Nat \X Nat
            BY <5>1, <5>2, ElementOfSeq
          <5> QED
            BY <5>3 DEF Of
        <4> QED
          BY <1>1, <3>2, <4>1, <4>2
      <3>4. All(q, Since(o + 1))
        <4>1. ASSUME NEW f \in Plain \cap Numbered(o, d)
              PROVE  f \in Since(o + 1)
          <5>1. f \in FrameType /\ f.msg \in Nat /\ f.msg <= o
            BY DEF Numbered, FrameType
          <5>t. f.type \in {"SF", "FF", "CF", "FC"}
            BY DEF Numbered
          <5>2. Begins(f) => d < f.msg
            BY DEF Numbered
          <5>3. ~Begins(f)
            BY <1>1, <3>2, <5>1, <5>2
          <5>4. f.type = "FC"
            BY <5>t, <5>3 DEF Begins, Plain
          <5> QED
            BY <5>1, <5>4 DEF Since
        <4>2. All(q, Plain \cap Numbered(o, d))
          BY <1>1, <2>1, AllBoth
        <4>3. Plain \cap Numbered(o, d) \subseteq Since(o + 1)
          BY <4>1
        <4> QED
          BY <4>2, <4>3, AllWeaker
      <3>5. All(w2, Answers(o + 1))
        <4>1. Beyond(o) \subseteq Answers(o + 1)
          BY <1>1 DEF Beyond, Answers, FrameType
        <4> QED
          BY <3>1, <4>1, AllWeaker
      <3> QED
        BY <3>3, <3>4, <3>5 DEF Young
    <2> QED
      BY <1>2, <1>3, <2>2, <2>3, <2>4 DEF RunIs
  <1> QED
    BY <1>4, <1>5

\* What an answer at the head of the wire tells.
LEMMA AnswerAtHead ==
    ASSUME NEW r, NEW q, NEW w, NEW t, NEW o, NEW K, NEW d, w # <<>>,
           Scene(r, q, w, t, o, K, d), RunIs(r, q, w, t, o, K), WireIs(w, d, t),
           t.stage = "answer", Begins(Head(w))
    PROVE  /\ Tail(w) \in Seq(FrameType) /\ Head(w) \in FrameType /\ Head(w).msg \in Nat
           /\ All(Tail(w), NoFc) /\ All(Tail(w), Beyond(Head(w).msg)) /\ All(Tail(w), UpTo(d))
           /\ Chain(Tail(w), Rising) /\ Head(w).msg <= d
           /\ t.at = 1 => /\ Flushed(r, q, o) /\ All(Tail(w), AnswerTo(o))
                          /\ Chain(Tail(w), OwnAfter(o))
           /\ t.at # 1 => Still(r, q)
           /\ t.at # 1 /\ t.script[1] # t.script[2] =>
                /\ Least(t, o) <= Head(w).msg /\ Young(r, q, w, t, Least(t, o))
                /\ All(Tail(w), Answers(Least(t, o)))
  <1>1. w \in Seq(FrameType) /\ Tail(w) \in Seq(FrameType) /\ Head(w) \in FrameType
    BY HeadTailProperties DEF Scene
  <1>2. Head(w).msg \in Nat
    BY <1>1 DEF FrameType
  <1>3. ~All(w, NoAnswer)
    <2>1. Head(w) \notin NoAnswer
      BY DEF NoAnswer
    <2> QED
      BY <1>1, <2>1, AllHead
  <1>4. All(Tail(w), UpTo(d)) /\ Head(w).msg <= d
    <2>1. Head(w) \in UpTo(d) /\ All(Tail(w), UpTo(d))
      BY <1>1, AllHead DEF WireIs
    <2> QED
      BY <2>1 DEF UpTo
  <1>5. Chain(Tail(w), Rising) /\ All(Tail(w), Beyond(Head(w).msg))
    <2>1. /\ Chain(Tail(w), Rising)
          /\ All(Tail(w), {g \in FrameType : <<Head(w), g>> \in Rising})
      BY <1>1, ChainHead DEF WireIs
    <2>2. {g \in FrameType : <<Head(w), g>> \in Rising} \subseteq Beyond(Head(w).msg)
      BY DEF Rising, Beyond
    <2> QED
      BY <2>1, <2>2, AllWeaker
  <1>6. ASSUME t.at = 1
        PROVE  /\ Flushed(r, q, o) /\ All(Tail(w), AnswerTo(o)) /\ Chain(Tail(w), OwnAfter(o))
               /\ All(Tail(w), NoFc)
    <2>1. FirstRequest(r, q, w, t, o)
      BY <1>6 DEF RunIs, Own
    <2>2. /\ Chain(Tail(w), OwnAfter(o))
          /\ All(Tail(w), {g \in FrameType : <<Head(w), g>> \in OwnAfter(o)})
      BY <1>1, <2>1, ChainHead DEF FirstRequest
    <2>3. /\ {g \in FrameType : <<Head(w), g>> \in OwnAfter(o)} \subseteq AnswerTo(o)
          /\ {g \in FrameType : <<Head(w), g>> \in OwnAfter(o)} \subseteq NoFc
      BY DEF OwnAfter, NoFc
    <2>4. All(Tail(w), AnswerTo(o)) /\ All(Tail(w), NoFc)
      BY <2>2, <2>3, AllWeaker
    <2> QED
      BY <1>3, <2>1, <2>2, <2>4 DEF FirstRequest
  <1>7. ASSUME t.at # 1
        PROVE  Still(r, q) /\ All(Tail(w), NoFc)
    <2>1. All(w, NoFc) /\ Still(r, q)
      BY <1>3, <1>7 DEF RunIs, LaterRequest
    <2> QED
      BY <1>1, <2>1, AllHead
  <1>8. ASSUME t.at # 1, t.script[1] # t.script[2]
        PROVE  /\ Least(t, o) <= Head(w).msg /\ Young(r, q, w, t, Least(t, o))
               /\ All(Tail(w), Answers(Least(t, o)))
    <2>1. Young(r, q, w, t, Least(t, o))
      BY <1>8 DEF RunIs
    <2>2. Head(w) \in Answers(Least(t, o)) /\ All(Tail(w), Answers(Least(t, o)))
      BY <1>1, <2>1, AllHead DEF Young
    <2> QED
      BY <2>1, <2>2 DEF Answers
  <1> QED
    BY <1>1, <1>2, <1>4, <1>5, <1>6, <1>7, <1>8

LEMMA FcFifo ==
    ASSUME NEW r, NEW q \in Seq(FrameType), NEW K, FifoIs(r, q, K), NEW c \in FrameType, c.type = "FC"
    PROVE  FifoIs(r, Append(q, c), K)
  <1>1. c \in Sound(K) /\ c \in Fitting(r) /\ FrameType \subseteq {g \in FrameType : <<g, c>> \in Apart}
    BY DEF Sound, Begins, Fitting, Opens, Apart, Pairs
  <1>2. All(q, {g \in FrameType : <<g, c>> \in Apart})
    BY <1>1, AllFrames, AllWeaker
  <1> QED
    BY <1>1, <1>2, AllAppend, ChainAppend DEF FifoIs

\* The tool begins to collect the answer at the head of the wire.
LEMMA CollectBegins ==
    ASSUME NEW r, NEW q, NEW q2, NEW w, NEW t, NEW o, NEW K, NEW d, NEW t2, NEW c \in FrameType, w # <<>>,
           Scene(r, q, w, t, o, K, d), RunIs(r, q, w, t, o, K), WireIs(w, d, t),
           t.stage = "answer", Begins(Head(w)), c.type = "FC", q2 \in {q, Append(q, c)},
           t2.stage = "collect", t2.script = t.script, t2.at = t.at, t2.from = Head(w).msg
    PROVE  RunIs(r, q2, Tail(w), t2, o, K) /\ WireIs(Tail(w), d, t2)
  <1> DEFINE m == Head(w).msg
  <1>1. /\ All(Tail(w), NoFc) /\ All(Tail(w), Beyond(m)) /\ All(Tail(w), UpTo(d))
        /\ Chain(Tail(w), Rising) /\ m <= d
        /\ t.at = 1 => Flushed(r, q, o) /\ All(Tail(w), AnswerTo(o)) /\ Chain(Tail(w), OwnAfter(o))
        /\ t.at # 1 => Still(r, q)
        /\ t.at # 1 /\ t.script[1] # t.script[2] =>
                /\ Least(t, o) <= m /\ Young(r, q, w, t, Least(t, o)) /\ All(Tail(w), Answers(Least(t, o)))
    BY AnswerAtHead
  <1>2. q \in Seq(FrameType)
    BY DEF Scene
  <1>3. \A S : c \in S /\ All(q, S) => All(q2, S)
    BY <1>2, AllAppend
  <1>4. c \in Plain /\ \A n : c \in Single(n) /\ c \in Since(n)
    BY DEF Plain, Single, Since, Opens
  <1>5. Own(t2, o) = o /\ Own(t, o) = o /\ Least(t2, o) = Least(t, o)
    BY DEF Own, Least
  <1>6. WireIs(Tail(w), d, t2)
    BY <1>1 DEF WireIs
  <1> HIDE DEF m
  <1>7. t.at = 1 => FirstRequest(r, q2, Tail(w), t2, o)
    BY <1>1, <1>3, <1>4 DEF FirstRequest, Flushed
  <1>8. t.at # 1 => LaterRequest(r, q2, Tail(w), t2, o)
    BY <1>1, <1>3, <1>4 DEF LaterRequest, Still
  <1>9. t.at # 1 /\ t.script[1] # t.script[2] => Young(r, q2, Tail(w), t2, Least(t, o))
    BY <1>1, <1>3, <1>4 DEF Young, m
  <1> QED
    BY <1>5, <1>6, <1>7, <1>8, <1>9 DEF RunIs

\* The tool goes on with the answer it collects.
LEMMA CollectGoesOn ==
    ASSUME NEW r, NEW q, NEW w, NEW t, NEW o, NEW K, NEW d, NEW t2, w # <<>>,
           Scene(r, q, w, t, o, K, d), RunIs(r, q, w, t, o, K), WireIs(w, d, t),
           t.stage = "collect",
           t2.stage = "collect", t2.script = t.script, t2.at = t.at, t2.from = t.from
    PROVE  RunIs(r, q, Tail(w), t2, o, K) /\ WireIs(Tail(w), d, t2)
  <1>1. w \in Seq(FrameType)
    BY DEF Scene
  <1>2. RunIs(r, q, Tail(w), t, o, K) /\ WireIs(Tail(w), d, t)
    BY <1>1, TailWithin, SameWithin, RunStays, WireStays
  <1>3. Own(t2, o) = Own(t, o) /\ Least(t2, o) = Least(t, o)
    BY DEF Own, Least
  <1>4. \A n : FirstRequest(r, q, Tail(w), t, n) => FirstRequest(r, q, Tail(w), t2, n)
    BY DEF FirstRequest
  <1>5. LaterRequest(r, q, Tail(w), t, o) => LaterRequest(r, q, Tail(w), t2, o)
    BY DEF LaterRequest
  <1>6. \A n : Young(r, q, Tail(w), t, n) => Young(r, q, Tail(w), t2, n)
    BY DEF Young
  <1> QED
    BY <1>2, <1>3, <1>4, <1>5, <1>6 DEF RunIs, WireIs

\* An answer of one frame is accepted, or the one the tool collected.
LEMMA SfAccepted ==
    ASSUME NEW r, NEW q, NEW w, NEW t, NEW o, NEW K, NEW d, NEW t2, w # <<>>,
           Scene(r, q, w, t, o, K, d), RunIs(r, q, w, t, o, K), WireIs(w, d, t),
           t.stage = "answer", Begins(Head(w)), K[Head(w).msg] = t.script[t.at],
           t2.stage = "send", t2.script = t.script, t2.at = t.at + 1
    PROVE  RunIs(r, q, Tail(w), t2, o, K)
  <1> DEFINE m == Head(w).msg
  <1>1. /\ Tail(w) \in Seq(FrameType) /\ m \in Nat
        /\ All(Tail(w), NoFc) /\ All(Tail(w), Beyond(m)) /\ All(Tail(w), UpTo(d)) /\ m <= d
        /\ t.at = 1 => Flushed(r, q, o) /\ All(Tail(w), AnswerTo(o))
        /\ t.at # 1 => Still(r, q)
        /\ t.at # 1 /\ t.script[1] # t.script[2] => Least(t, o) <= m
    BY AnswerAtHead
  <1>2. t.stage \in {"answer", "collect"} /\ K[m] = t.script[t.at]
    OBVIOUS
  <1> HIDE DEF m
  <1> QED
    BY <1>1, <1>2, AcceptedRun

LEMMA CollectAccepted ==
    ASSUME NEW r, NEW q, NEW w, NEW t, NEW o, NEW K, NEW d, NEW t2, w # <<>>,
           Scene(r, q, w, t, o, K, d), RunIs(r, q, w, t, o, K), WireIs(w, d, t), t.from \in Nat,
           t.stage = "collect", K[t.from] = t.script[t.at],
           t2.stage = "send", t2.script = t.script, t2.at = t.at + 1
    PROVE  RunIs(r, q, Tail(w), t2, o, K)
  <1>1. w \in Seq(FrameType) /\ Tail(w) \in Seq(FrameType)
    BY HeadTailProperties DEF Scene
  <1>2. t.from <= d /\ All(Tail(w), Beyond(t.from)) /\ All(Tail(w), UpTo(d))
    BY <1>1, AllHead DEF WireIs
  <1>3. t.at = 1 => Flushed(r, q, o) /\ All(Tail(w), AnswerTo(o)) /\ All(Tail(w), NoFc)
    <2> SUFFICES ASSUME t.at = 1 PROVE Flushed(r, q, o) /\ All(Tail(w), AnswerTo(o)) /\ All(Tail(w), NoFc)
      OBVIOUS
    <2>1. FirstRequest(r, q, w, t, o)
      BY DEF RunIs, Own
    <2> QED
      BY <1>1, <2>1, AllHead DEF FirstRequest
  <1>4. t.at # 1 => Still(r, q) /\ All(Tail(w), NoFc)
    <2> SUFFICES ASSUME t.at # 1 PROVE Still(r, q) /\ All(Tail(w), NoFc)
      OBVIOUS
    <2>1. Still(r, q) /\ All(w, NoFc)
      BY DEF RunIs, LaterRequest
    <2> QED
      BY <1>1, <2>1, AllHead
  <1>5. t.at # 1 /\ t.script[1] # t.script[2] => Least(t, o) <= t.from
    BY DEF RunIs, Young
  <1>6. t.stage \in {"answer", "collect"}
    OBVIOUS
  <1> QED
    BY <1>1, <1>2, <1>3, <1>4, <1>5, <1>6, AcceptedRun

-----------------------------------------------------------------------------
(* The steps. *)
LEMMA WholeLeft ==
    ASSUME WholeInv, UNCHANGED <<taken, kindOf>>,
           Receiving(rx', kindOf), FifoIs(rx', fifo', kindOf), WireIs(wire', Delivered, tool'),
           RunIs(rx', fifo', wire', tool', offered', kindOf)
    PROVE  WholeInv'
  <1>1. Delivered' = Delivered
    BY DEF Delivered
  <1> QED
    BY <1>1 DEF WholeInv

LEMMA WholeParts ==
    ASSUME IsoInv, NoStrays, WholeInv
    PROVE  /\ Scene(rx, fifo, wire, tool, offered, kindOf, Delivered)
           /\ Receiving(rx, kindOf) /\ FifoIs(rx, fifo, kindOf) /\ WireIs(wire, Delivered, tool)
           /\ RunIs(rx, fifo, wire, tool, offered, kindOf)
  BY IsoScene DEF WholeInv

\* Frames are lost or polled, nothing else is received, only parts are sent.
LEMMA WholeStays ==
    ASSUME IsoInv, NoStrays, WholeInv, UNCHANGED <<taken, tool, offered, kindOf>>,
           rx' = rx \/ \E s : s # "in_progress" /\ rx' = [rx EXCEPT !.state = s],
           Within(fifo, fifo'), Follows(wire, wire')
    PROVE  WholeInv'
  <1>1. rx'.buf = rx.buf /\ (rx'.complete => rx.complete) /\ (rx'.state = "in_progress" => rx' = rx)
    BY Unfold DEF RxType
  <1>2. Receiving(rx', kindOf)
    BY <1>1, WholeParts DEF Receiving, Of
  <1>3. rx'.state = "in_progress" => rx.state = "in_progress"
    BY <1>1
  <1>4. FifoIs(rx', fifo', kindOf) /\ RunIs(rx', fifo', wire', tool, offered, kindOf)
    BY <1>1, <1>3, WholeParts, FifoStays, RunStays
  <1>5. WireIs(wire', Delivered, tool)
    BY WholeParts, WireStays
  <1> QED
    BY <1>2, <1>4, <1>5, WholeLeft

LEMMA SfWhole ==
    ASSUME IsoInv, NoStrays, WholeInv, Orders, fifo # <<>>, fifo' = Tail(fifo), Head(fifo).type = "SF",
           HandleSf(Head(fifo)), Polled
    PROVE  WholeInv'
  <1>1. rx'.state = "complete" /\ rx'.buf = <<<<Head(fifo).msg, Head(fifo).part>>>>
    BY Unfold DEF HandleSf, RxType
  <1>2. UNCHANGED <<wire, taken, tool, offered, kindOf>>
    BY DEF HandleSf, Polled, toolVars
  <1>3. Receiving(rx', kindOf) /\ Of(rx') = Head(fifo).msg
    BY <1>1, WholeParts, SfReceiving
  <1>4. FifoIs(rx', Tail(fifo), kindOf)
    BY <1>1, WholeParts, SfFifo
  <1>5. RunIs(rx', Tail(fifo), wire, tool, offered, kindOf)
    BY <1>1, <1>3, WholeParts, SfRun
  <1> QED
    BY <1>2, <1>3, <1>4, <1>5, WholeParts, WholeLeft

LEMMA FfWhole ==
    ASSUME IsoInv, NoStrays, WholeInv, Orders, fifo # <<>>, fifo' = Tail(fifo), Head(fifo).type = "FF",
           HandleFf(Head(fifo)), Polled
    PROVE  WholeInv'
  <1> DEFINE c == FlowControl(BlockSize)
  <1>0. UNCHANGED <<taken, tool, offered, kindOf>>
    BY DEF Polled, toolVars
  <1>1. Scene(rx, fifo, wire, tool, offered, kindOf, Delivered) /\ fifo \in Seq(FrameType) /\ wire \in Seq(FrameType)
    BY WholeParts DEF Scene
  <1>2. CASE Head(fifo).n > MaxPayload
    <2>1. rx' = [rx EXCEPT !.state = "overflow"] /\ UNCHANGED wire
      BY <1>2 DEF HandleFf
    <2> QED
      BY <1>0, <1>1, <2>1, TailWithin, SameWithin, WholeStays
  <1>3. CASE ~(Head(fifo).n > MaxPayload)
    <2>1. Opens(Head(fifo))
      <3>1. Head(fifo).n \in Nat
        BY HeadIs
      <3> QED
        BY <1>3, <3>1, Constants DEF Opens
    <2>2. /\ rx'.buf = <<<<Head(fifo).msg, Head(fifo).part>>>> /\ rx'.received = FirstLen
          /\ rx'.total = Head(fifo).n /\ (rx'.complete => rx.complete)
          /\ wire' = Append(wire, c)
      BY <1>3, Unfold DEF HandleFf, RxType
    <2>3. c \in FrameType /\ c.type = "FC" /\ ~Begins(c)
      BY Constants DEF FlowControl, CanFrame, FrameType, Begins
    <2> HIDE DEF c
    <2>4. Receiving(rx', kindOf) /\ Of(rx') = Head(fifo).msg /\ Len(rx'.buf) = 1 /\ LastPart(rx') = 0
      BY <2>1, <2>2, WholeParts, FfReceiving
    <2>5. FifoIs(rx', Tail(fifo), kindOf)
      BY <2>1, <2>2, WholeParts, FfFifo
    <2>6. RunIs(rx', Tail(fifo), Append(wire, c), tool, offered, kindOf)
      BY <2>1, <2>2, <2>3, <2>4, WholeParts, FfRun
    <2>7. WireIs(Append(wire, c), Delivered, tool)
      BY <1>1, <2>3, WholeParts, WireAppended
    <2> QED
      BY <1>0, <2>2, <2>4, <2>5, <2>6, <2>7, WholeLeft
  <1> QED
    BY <1>2, <1>3

LEMMA CfWhole ==
    ASSUME IsoInv, NoStrays, WholeInv, Orders, fifo # <<>>, fifo' = Tail(fifo), Head(fifo).type = "CF",
           HandleCf(Head(fifo)), Polled
    PROVE  WholeInv'
  <1>0. UNCHANGED <<wire, taken, tool, offered, kindOf>> /\ fifo \in Seq(FrameType)
    BY WholeParts DEF Polled, toolVars, HandleCf, Scene
  <1>1. CASE rx.state # "in_progress" \/ Head(fifo).n # rx.next
    <2>1. rx' = rx \/ rx' = [rx EXCEPT !.state = "error"]
      BY <1>1 DEF HandleCf
    <2> QED
      BY <1>0, <2>1, TailWithin, SameWithin, WholeStays
  <1>2. CASE rx.state = "in_progress" /\ Head(fifo).n = rx.next
    <2>1. Extends(rx, Head(fifo), rx')
      <3>1. rx.received \in Nat /\ rx.total \in Nat
        <4>1. rx.received \in 0 .. MaxPayload /\ rx.total \in 0 .. MaxPayload /\ MaxPayload \in Nat
          BY Unfold, RxIs, Constants
        <4> QED
          BY <4>1
      <3>2. rx' = Extended(Head(fifo))
        BY <1>2 DEF HandleCf
      <3> DEFINE g == Min(rx.received + ChunkLen, rx.total)
      <3>3. rx' = [state |-> IF g >= rx.total THEN "complete" ELSE rx.state,
                   buf |-> Append(rx.buf, <<Head(fifo).msg, Head(fifo).part>>),
                   received |-> g, total |-> rx.total, next |-> (rx.next + 1) % SeqMod,
                   complete |-> rx.complete \/ g >= rx.total]
        BY <3>2, Unfold, RxIs DEF Extended
      <3>4. g \in Int
        <4>1. rx.received + ChunkLen \in Int /\ rx.total \in Int
          BY <3>1, Constants
        <4> QED
          BY <3>1, <4>1, MinIs
      <3>5. ~(g >= rx.total) => g < rx.total
        BY <3>1, <3>4
      <3> HIDE DEF g
      <3> QED
        BY <1>2, <3>1, <3>3, <3>5 DEF Extends, g
    <2>2. Receiving(rx', kindOf)
      BY <2>1, WholeParts, CfReceiving
    <2>3. FifoIs(rx', Tail(fifo), kindOf)
      BY <2>1, WholeParts, CfFifo
    <2>4. RunIs(rx', Tail(fifo), wire, tool, offered, kindOf)
      BY <2>1, WholeParts, CfRun
    <2> QED
      BY <1>0, <2>2, <2>3, <2>4, WholeParts, WholeLeft
  <1> QED
    BY <1>1, <1>2

\* A flow control of the tool sends parts.
LEMMA FcFollows ==
    ASSUME IsoInv, fifo # <<>>, Head(fifo).type = "FC", HandleFc(Head(fifo))
    PROVE  Follows(wire, wire')
  <1>0. wire \in Seq(FrameType)
    BY Unfold
  <1>1. CASE ~tx.pending
    BY <1>1, SameWithin DEF HandleFc
  <1>2. CASE tx.pending
    <2> DEFINE f == Head(fifo)
               t == [tx EXCEPT !.block = IF f.n = 0 THEN NoLimit ELSE f.n]
               v == [i \in 1 .. BlockFrames(t) |-> Consecutive(t.msg, t.k + i)]
    <2>1. wire' = wire \o v
      BY <1>2 DEF HandleFc
    <2>2. (IF f.n = 0 THEN NoLimit ELSE f.n) \in 0 .. NoLimit
      BY HeadIs, Constants
    <2>3. /\ t \in TxType /\ t.sent = tx.sent /\ t.total = tx.total /\ t.pending = tx.pending
          /\ t.msg \in Nat /\ t.k \in Nat
      BY <2>2, Unfold DEF TxType
    <2> HIDE DEF t, f
    <2>4. BlockFrames(t) \in Nat
      BY <1>2, <2>3, Unfold, BlockIs, IsoTpAssumption
    <2>5. \A i \in 1 .. BlockFrames(t) : Consecutive(t.msg, t.k + i) \in Parts
      <3>1. \A i \in 1 .. BlockFrames(t) : t.k + i \in Nat
        BY <2>3, <2>4
      <3> QED
        BY <2>3, <3>1, Constants DEF Consecutive, CanFrame, FrameType, Parts
    <2>6. v \in Seq(FrameType) /\ Len(v) = BlockFrames(t)
      BY <2>4, <2>5 DEF Parts
    <2>7. All(v, Parts)
      BY <2>5, <2>6 DEF All
    <2> HIDE DEF v
    <2> QED
      BY <1>0, <2>1, <2>6, <2>7, PartsAppended DEF Follows
  <1> QED
    BY <1>1, <1>2

LEMMA FcWhole ==
    ASSUME IsoInv, NoStrays, WholeInv, fifo # <<>>, fifo' = Tail(fifo), HandleFc(Head(fifo)),
           Head(fifo).type = "FC", Polled
    PROVE  WholeInv'
  <1>0. UNCHANGED <<rx, taken, tool, offered, kindOf>> /\ fifo \in Seq(FrameType) /\ wire \in Seq(FrameType)
    BY WholeParts DEF Polled, toolVars, HandleFc, Scene
  <1> QED
    BY <1>0, FcFollows, TailWithin, WholeStays

LEMMA NoneWhole ==
    ASSUME IsoInv, NoStrays, WholeInv, fifo # <<>>, fifo' = Tail(fifo), Polled,
           HandleOverflow \/ UNCHANGED <<rx, tx, wire>>
    PROVE  WholeInv'
  <1>0. UNCHANGED <<taken, tool, offered, kindOf>> /\ fifo \in Seq(FrameType) /\ wire' = wire
    BY WholeParts DEF Polled, toolVars, HandleOverflow, Scene
  <1>1. rx' = rx \/ rx' = [rx EXCEPT !.state = "overflow"]
    BY DEF HandleOverflow
  <1> QED
    BY <1>0, <1>1, TailWithin, SameWithin, WholeStays

LEMMA TakeWhole ==
    ASSUME IsoInv, NoStrays, WholeInv, Take
    PROVE  WholeInv'
  <1> DEFINE m == rx.buf[1][1]
  <1>1. /\ fifo = <<>> /\ fifo' = <<>> /\ rx.complete
        /\ ~rx'.complete /\ rx'.state = "idle"
        /\ UNCHANGED <<tool, offered, kindOf>>
    BY Unfold DEF Take, toolVars, RxType
  <1>a. Active
    BY <1>1 DEF Active
  <1>2. Of(rx) = m /\ Delivered < m /\ Delivered \in Nat /\ m \in Nat /\ rx.buf # <<>> /\ m > 0
    BY <1>a, Unfold DEF Of, Begun, NoStrays
  <1>t. \/ taken' = rx.buf /\ Send(m, AnswerLength[kindOf[m]])
        \/ UNCHANGED <<taken, wire>>
    BY <1>2 DEF Take, AnswerOf
  <1>3. AnswerLength[kindOf[m]] \in Nat
    <2>1. m \in 1 .. offered
      <3>1. m = Begun
        BY <1>2 DEF Begun
      <3>2. m <= offered /\ offered \in Nat /\ m \in Nat
        BY <3>1, Unfold
      <3> QED
        BY <1>2, <3>2
    <2>2. kindOf[m] \in Kinds
      BY <2>1, Unfold, ElementOfSeq
    <2> QED
      BY <2>2, IsoTpAssumption DEF IsoTpAssumption
  <1> HIDE DEF m
  <1>4. wire' = wire \/ \E c \in FrameType : Begins(c) /\ c.msg = m /\ wire' = Append(wire, c)
    <2> DEFINE len == AnswerLength[kindOf[m]]
               c(type) == CanFrame(type, m, 0, len)
    <2>1. \A type \in {"SF", "FF"} : c(type) \in FrameType /\ Begins(c(type)) /\ c(type).msg = m
      BY <1>2, <1>3 DEF CanFrame, FrameType, Begins
    <2>2. wire' = wire \/ wire' = Append(wire, c("SF")) \/ wire' = Append(wire, c("FF"))
      BY <1>t DEF Send
    <2> HIDE DEF c
    <2> QED
      BY <2>1, <2>2
  <1>5. PICK c \in FrameType : Begins(c) /\ c.msg = m /\ wire' \in {wire, Append(wire, c)}
    <2>1. CanFrame("SF", m, 0, 0) \in FrameType /\ Begins(CanFrame("SF", m, 0, 0)) /\ CanFrame("SF", m, 0, 0).msg = m
      BY <1>2 DEF CanFrame, FrameType, Begins
    <2> QED
      BY <1>4, <2>1
  <1>6. Receiving(rx', kindOf)
    BY <1>1 DEF Receiving
  <1>7. FifoIs(rx', <<>>, kindOf)
    BY NothingIn DEF FifoIs
  <1>8. RunIs(rx', <<>>, wire', tool, offered, kindOf)
    <2>1. Scene(rx, <<>>, wire, tool, offered, kindOf, Delivered) /\ RunIs(rx, <<>>, wire, tool, offered, kindOf)
      BY <1>1, WholeParts
    <2> QED
      BY <1>1, <1>2, <1>5, <2>1, TakeRun
  <1>9. WireIs(wire', Delivered', tool)
    <2>1. WireIs(wire, Delivered, tool)
      BY WholeParts
    <2>2. CASE taken' = rx.buf
      <3>1. Delivered' = m
        BY <1>2, <2>2 DEF Delivered, Of
      <3> QED
        BY <1>2, <1>5, <2>1, <3>1, WholeParts, ToolIs, TakeWire DEF Scene
    <2>3. CASE UNCHANGED <<taken, wire>>
      BY <2>1, <2>3 DEF Delivered
    <2> QED
      BY <1>t, <2>2, <2>3
  <1> QED
    BY <1>1, <1>6, <1>7, <1>8, <1>9 DEF WholeInv

LEMMA IdleRun ==
    ASSUME NEW r, NEW q, NEW w, NEW t, NEW o, NEW K, NEW d, t.stage = "idle"
    PROVE  RunIs(r, q, w, t, o, K) /\ (Chain(w, Rising) /\ All(w, UpTo(d)) => WireIs(w, d, t))
  BY DEF RunIs, WireIs

\* A silent request is the last of its script.
LEMMA AfterRequestIs ==
    ASSUME NEW t, t = AfterRequest(tool), tool.script \in Scripts, Orders, IsoInv, tool.stage # "idle"
    PROVE  /\ t.stage \in {"idle", "answer"}
           /\ t.stage # "idle" => t = [tool EXCEPT !.stage = "answer"] /\ t.script = tool.script /\ t.at = tool.at
  <1>1. CASE Kind \in Silent
    <2>1. tool.at = Len(tool.script)
      BY <1>1, ToolIs DEF Orders, Orderly, SilentLast, Kind
    <2> QED
      BY <1>1, <2>1 DEF AfterRequest, Proceed, NoTool
  <1>2. CASE Kind \notin Silent
    <2>1. t = [tool EXCEPT !.stage = "answer"]
      BY <1>2 DEF AfterRequest
    <2> QED
      BY <2>1, ToolIs, Unfold DEF ToolType
  <1> QED
    BY <1>1, <1>2

LEMMA ProceedIs ==
    ASSUME NEW t, t = Proceed(tool) \/ t = NoTool
    PROVE  /\ t.stage \in {"idle", "send"}
           /\ t.stage # "idle" => t.script = tool.script /\ t.at = tool.at + 1
  <1>1. CASE t = NoTool
    BY <1>1 DEF NoTool
  <1>2. CASE t = [NoTool EXCEPT !.stage = "send", !.script = tool.script, !.at = tool.at + 1]
    <2>1. t = [stage |-> "send", script |-> tool.script, at |-> tool.at + 1, k |-> 0, got |-> 0,
               total |-> 0, from |-> 0]
      BY <1>2 DEF NoTool
    <2> QED
      BY <2>1
  <1>3. t = NoTool \/ t = [NoTool EXCEPT !.stage = "send", !.script = tool.script, !.at = tool.at + 1]
    BY DEF Proceed
  <1> QED
    BY <1>1, <1>2, <1>3

LEMMA StartWhole ==
    ASSUME StartRun,
           \/ Receiving(rx, kindOf) /\ FifoIs(rx, fifo, kindOf)
           \/ fifo = <<>> /\ ~rx.complete /\ rx.state # "in_progress"
    PROVE  WholeInv'
  <1>1. PICK s \in Scripts : tool' = [NoTool EXCEPT !.stage = "send", !.script = s]
    BY Zenon DEF StartRun
  <1>2. tool'.stage = "send" /\ tool'.script = s /\ tool'.at = 1
    BY <1>1 DEF NoTool
  <1>3. wire' = <<>> /\ UNCHANGED <<rx, fifo, taken, offered, kindOf>>
    BY Zenon DEF StartRun, ecuVars
  <1>r. Receiving(rx, kindOf) /\ FifoIs(rx, fifo, kindOf)
    BY NothingIn DEF Receiving, FifoIs
  <1>4. RunIs(rx, fifo, <<>>, tool', offered, kindOf)
    BY <1>2, NothingIn DEF RunIs, FirstRequest
  <1>5. WireIs(<<>>, Delivered, tool')
    BY <1>2, NothingIn DEF WireIs
  <1>6. Delivered' = Delivered
    BY <1>3 DEF Delivered
  <1> QED
    BY <1>3, <1>r, <1>4, <1>5, <1>6 DEF WholeInv

LEMMA SendFirstWhole ==
    ASSUME IsoInv, NoStrays, WholeInv, Orders, SendFirst
    PROVE  WholeInv'
  <1> DEFINE type == IF Length[Kind] <= SingleMax THEN "SF" ELSE "FF"
             f == CanFrame(type, offered + 1, 0, Length[Kind])
  <1>1. /\ tool.stage = "send" /\ offered' = offered + 1 /\ kindOf' = Append(kindOf, Kind)
        /\ UNCHANGED <<rx, wire, taken>>
    BY DEF SendFirst, ecuVars
  <1>2. /\ Length[Kind] \in Nat /\ Kind \in Kinds /\ offered \in Nat /\ kindOf \in Seq(Kinds) /\ Len(kindOf) = offered
        /\ tool.script \in Scripts
    BY <1>1, ToolIs, Unfold, WholeParts DEF RunIs
  <1>3. /\ Post(f)
        /\ tool' = IF Length[Kind] <= SingleMax THEN AfterRequest(tool) ELSE [tool EXCEPT !.stage = "flow"]
    BY <1>1 DEF SendFirst
  <1>4. fifo' \in {fifo, Append(fifo, f)}
    BY <1>3 DEF Post
  <1>5. Requests(tool, offered, f, tool')
    <2>1. f \in FrameType /\ f.type = type /\ f.msg = offered + 1 /\ f.part = 0 /\ f.n = Length[tool.script[tool.at]]
      BY <1>2 DEF CanFrame, FrameType, Kind
    <2>2. CASE Length[Kind] <= SingleMax
      BY <1>1, <1>2, <1>3, <2>1, <2>2, AfterRequestIs DEF Requests, Kind
    <2>3. CASE ~(Length[Kind] <= SingleMax)
      <3>1. tool'.stage = "flow" /\ tool'.script = tool.script /\ tool'.at = tool.at
        BY <1>3, <2>3, Unfold DEF ToolType
      <3> QED
        BY <1>1, <2>1, <2>3, <3>1 DEF Requests, Kind
    <2> QED
      BY <2>2, <2>3
  <1> HIDE DEF f, type
  <1>6. Receiving(rx, kindOf')
    BY <1>1, <1>2, WholeParts, ReceivingKept
  <1>7. FifoIs(rx, fifo', kindOf')
    BY <1>1, <1>4, <1>5, WholeParts, RequestFifo DEF Kind
  <1>8. RunIs(rx, fifo', wire, tool', offered', kindOf')
    BY <1>1, <1>4, <1>5, WholeParts, RequestRun DEF Kind
  <1>9. WireIs(wire, Delivered, tool')
    <2>1. tool'.stage # "collect"
      BY <1>5 DEF Requests
    <2> QED
      BY <2>1, WholeParts DEF WireIs
  <1>10. Delivered' = Delivered
    BY <1>1 DEF Delivered
  <1> QED
    BY <1>1, <1>6, <1>7, <1>8, <1>9, <1>10 DEF WholeInv

LEMMA FlowControlWhole ==
    ASSUME IsoInv, NoStrays, WholeInv, GetFlowControl
    PROVE  WholeInv'
  <1>1. /\ tool.stage = "flow" /\ wire # <<>> /\ wire' = Tail(wire)
        /\ UNCHANGED <<rx, taken, fifo, offered, kindOf>> /\ wire \in Seq(FrameType)
    BY Unfold DEF GetFlowControl, ecuVars
  <1>2. WireIs(Tail(wire), Delivered, tool)
    BY <1>1, TailWithin, WholeParts, WireStays
  <1>3. CASE Head(wire).type = "FC"
    <2>1. tool' = [tool EXCEPT !.stage = "rest", !.k = 1]
      BY <1>3 DEF GetFlowControl
    <2>2. tool'.stage = "rest" /\ tool'.script = tool.script /\ tool'.at = tool.at /\ tool'.k = 1
      BY <2>1, Unfold DEF ToolType
    <2>3. RunIs(rx, fifo, Tail(wire), tool', offered, kindOf)
      BY <1>1, <1>3, <2>2, WholeParts, FlowControlRun
    <2>4. WireIs(Tail(wire), Delivered, tool')
      BY <1>2, <2>2 DEF WireIs
    <2> QED
      BY <1>1, <2>3, <2>4, WholeParts, WholeLeft
  <1>4. CASE Head(wire).type # "FC"
    <2>1. tool'.stage = "idle"
      BY <1>4 DEF GetFlowControl, NoTool
    <2>2. RunIs(rx, fifo, Tail(wire), tool', offered, kindOf) /\ WireIs(Tail(wire), Delivered, tool')
      BY <1>2, <2>1, IdleRun DEF WireIs
    <2> QED
      BY <1>1, <2>2, WholeParts, WholeLeft
  <1> QED
    BY <1>3, <1>4

LEMMA SendRestWhole ==
    ASSUME IsoInv, NoStrays, WholeInv, Orders, SendRest
    PROVE  WholeInv'
  <1> DEFINE f == Consecutive(offered, tool.k)
  <1>1. /\ tool.stage = "rest" /\ Post(f) /\ UNCHANGED <<rx, taken, wire, offered, kindOf>>
        /\ tool' = IF tool.k = Chunks(Length[Kind]) THEN AfterRequest(tool) ELSE [tool EXCEPT !.k = @ + 1]
    BY DEF SendRest, ecuVars
  <1>2. tool.script \in Scripts /\ tool.k \in Nat /\ offered \in Nat
    BY <1>1, ToolIs, Unfold, WholeParts DEF RunIs
  <1>3. f \in FrameType /\ f.type = "CF" /\ f.msg = offered /\ f.part = tool.k
    BY <1>2, Constants DEF Consecutive, CanFrame, FrameType
  <1> HIDE DEF f
  <1>4. fifo' \in {fifo, Append(fifo, f)}
    BY <1>1 DEF Post
  <1>5. FifoIs(rx, fifo', kindOf)
    BY <1>1, <1>3, <1>4, WholeParts, RestFifo
  <1>6. \/ tool'.stage = "idle"
        \/ tool'.stage = "answer" /\ tool'.script = tool.script /\ tool'.at = tool.at
        \/ /\ tool'.stage = "rest" /\ tool'.script = tool.script /\ tool'.at = tool.at
           /\ tool'.k = tool.k + 1 /\ tool.k # Chunks(Length[tool.script[tool.at]])
    <2>1. CASE tool.k = Chunks(Length[Kind])
      BY <1>1, <1>2, <2>1, AfterRequestIs
    <2>2. CASE tool.k # Chunks(Length[Kind])
      <3>1. tool' = [tool EXCEPT !.k = tool.k + 1]
        BY <1>1, <2>2
      <3> QED
        BY <1>1, <2>2, <3>1, Unfold DEF ToolType, Kind
    <2> QED
      BY <2>1, <2>2
  <1>7. RunIs(rx, fifo', wire, tool', offered, kindOf)
    <2>1. CASE tool'.stage = "idle"
      BY <2>1, IdleRun
    <2>2. CASE tool'.stage # "idle"
      BY <1>1, <1>2, <1>3, <1>4, <1>6, <2>2, WholeParts, RestRun
    <2> QED
      BY <2>1, <2>2
  <1>8. WireIs(wire, Delivered, tool')
    BY <1>6, WholeParts DEF WireIs
  <1> QED
    BY <1>1, <1>5, <1>7, <1>8, WholeParts, WholeLeft

LEMMA GetAnswerWhole ==
    ASSUME IsoInv, NoStrays, WholeInv, GetAnswer
    PROVE  WholeInv'
  <1> DEFINE f == Head(wire)
             c == FlowControl(BlockSize)
  <1>1. /\ tool.stage = "answer" /\ wire # <<>> /\ wire' = Tail(wire)
        /\ UNCHANGED <<rx, taken, offered, kindOf>> /\ wire \in Seq(FrameType) /\ fifo \in Seq(FrameType)
    BY WholeParts DEF GetAnswer, ecuVars, Scene
  <1>2. Chain(Tail(wire), Rising) /\ All(Tail(wire), UpTo(Delivered))
    BY <1>1, WholeParts, AllHead, ChainHead DEF WireIs
  <1>3. CASE f.type = "SF"
    <2>0. f.msg # 0
      <3>1. f \in ToTool
        BY <1>1, AllHead DEF NoStrays
      <3> QED
        BY <1>3, <3>1 DEF ToTool, Begins
    <2>1. UNCHANGED fifo /\ tool' = Answered(tool, f.msg)
      BY <1>3, <2>0 DEF GetAnswer
    <2>2. CASE tool'.stage = "idle"
      <3>1. RunIs(rx, fifo, Tail(wire), tool', offered, kindOf) /\ WireIs(Tail(wire), Delivered, tool')
        BY <1>2, <2>2, IdleRun
      <3> QED
        BY <1>1, <2>1, <3>1, WholeParts, WholeLeft
    <2>3. CASE tool'.stage # "idle"
      <3>1. tool' = Proceed(tool) /\ kindOf[f.msg] = tool.script[tool.at]
        BY <2>1, <2>3, NoToolIs DEF Answered, Kind
      <3>2. tool'.stage = "send" /\ tool'.script = tool.script /\ tool'.at = tool.at + 1
        BY <2>3, <3>1, ProceedIs
      <3>3. RunIs(rx, fifo, Tail(wire), tool', offered, kindOf)
        BY <1>1, <1>3, <3>1, <3>2, WholeParts, SfAccepted DEF Begins
      <3>4. WireIs(Tail(wire), Delivered, tool')
        BY <1>2, <3>2 DEF WireIs
      <3> QED
        BY <1>1, <2>1, <3>3, <3>4, WholeParts, WholeLeft
    <2> QED
      BY <2>2, <2>3
  <1>4. CASE f.type = "FF"
    <2>1. /\ tool' = [tool EXCEPT !.stage = "collect", !.k = 1, !.got = FirstLen, !.total = f.n, !.from = f.msg]
          /\ Post(c)
      BY <1>4 DEF GetAnswer
    <2>2. tool'.stage = "collect" /\ tool'.script = tool.script /\ tool'.at = tool.at /\ tool'.from = f.msg
      BY <2>1, Unfold DEF ToolType
    <2>3. c \in FrameType /\ c.type = "FC"
      BY Constants DEF FlowControl, CanFrame, FrameType
    <2> HIDE DEF c
    <2>4. fifo' \in {fifo, Append(fifo, c)}
      BY <2>1 DEF Post
    <2>5. FifoIs(rx, fifo', kindOf)
      BY <1>1, <2>3, <2>4, WholeParts, FcFifo
    <2>6. RunIs(rx, fifo', Tail(wire), tool', offered, kindOf) /\ WireIs(Tail(wire), Delivered, tool')
      BY <1>1, <1>4, <2>2, <2>3, <2>4, WholeParts, CollectBegins DEF Begins
    <2> QED
      BY <1>1, <2>5, <2>6, WholeParts, WholeLeft
  <1>5. CASE f.type \in {"CF", "FC"}
    <2>1. UNCHANGED fifo /\ tool'.stage = "idle"
      BY <1>5, NoToolIs DEF GetAnswer
    <2>2. RunIs(rx, fifo, Tail(wire), tool', offered, kindOf) /\ WireIs(Tail(wire), Delivered, tool')
      BY <1>2, <2>1, IdleRun
    <2> QED
      BY <1>1, <2>1, <2>2, WholeParts, WholeLeft
  <1> QED
    BY <1>3, <1>4, <1>5 DEF GetAnswer

LEMMA CollectWhole ==
    ASSUME IsoInv, NoStrays, WholeInv, Collect
    PROVE  WholeInv'
  <1> DEFINE got == Min(tool.got + ChunkLen, tool.total)
  <1>1. /\ tool.stage = "collect" /\ wire # <<>> /\ wire' = Tail(wire)
        /\ UNCHANGED <<rx, taken, fifo, offered, kindOf>> /\ wire \in Seq(FrameType)
    BY WholeParts DEF Collect, ecuVars, Scene
  <1>2. Chain(Tail(wire), Rising) /\ All(Tail(wire), UpTo(Delivered)) /\ tool.from \in Nat
    BY <1>1, WholeParts, AllHead, ChainHead, ToolIs DEF WireIs
  <1>3. tool' \in {NoTool, Answered(tool, tool.from), [tool EXCEPT !.got = got, !.k = tool.k + 1]}
    BY DEF Collect
  <1> HIDE DEF got
  <1>4. CASE tool'.stage = "idle"
    <2>1. RunIs(rx, fifo, Tail(wire), tool', offered, kindOf) /\ WireIs(Tail(wire), Delivered, tool')
      BY <1>2, <1>4, IdleRun
    <2> QED
      BY <1>1, <2>1, WholeParts, WholeLeft
  <1>5. CASE tool'.stage # "idle" /\ tool' = Answered(tool, tool.from)
    <2>1. tool' = Proceed(tool) /\ kindOf[tool.from] = tool.script[tool.at]
      BY <1>5, NoToolIs DEF Answered, Kind
    <2>2. tool'.stage = "send" /\ tool'.script = tool.script /\ tool'.at = tool.at + 1
      BY <1>5, <2>1, ProceedIs
    <2>3. RunIs(rx, fifo, Tail(wire), tool', offered, kindOf)
      BY <1>1, <1>2, <2>1, <2>2, WholeParts, CollectAccepted
    <2>4. WireIs(Tail(wire), Delivered, tool')
      BY <1>2, <2>2 DEF WireIs
    <2> QED
      BY <1>1, <2>3, <2>4, WholeParts, WholeLeft
  <1>6. CASE tool' = [tool EXCEPT !.got = got, !.k = tool.k + 1]
    <2>1. tool'.stage = "collect" /\ tool'.script = tool.script /\ tool'.at = tool.at /\ tool'.from = tool.from
      BY <1>1, <1>6, Unfold DEF ToolType
    <2>2. RunIs(rx, fifo, Tail(wire), tool', offered, kindOf) /\ WireIs(Tail(wire), Delivered, tool')
      BY <1>1, <2>1, WholeParts, CollectGoesOn
    <2> QED
      BY <1>1, <2>2, WholeParts, WholeLeft
  <1> QED
    BY <1>3, <1>4, <1>5, <1>6, NoToolIs

LEMMA WholeOtherSteps ==
    ASSUME IsoInv, NoStrays, WholeInv, RxTimeout \/ ToolGivesUp \/ LoseFrame
    PROVE  WholeInv'
  <1>0. fifo \in Seq(FrameType) /\ wire \in Seq(FrameType)
    BY WholeParts DEF Scene
  <1>1. CASE RxTimeout
    <2>1. rx' = [rx EXCEPT !.state = "timeout"] /\ UNCHANGED <<taken, tool, offered, kindOf, fifo, wire>>
      BY <1>1 DEF RxTimeout, toolVars
    <2> QED
      BY <2>1, SameWithin, WholeStays
  <1>2. CASE LoseFrame
    <2>1. /\ UNCHANGED <<rx, taken, tool, offered, kindOf>>
          /\ \/ fifo # <<>> /\ fifo' = Tail(fifo) /\ UNCHANGED wire
             \/ wire # <<>> /\ wire' = Tail(wire) /\ UNCHANGED fifo
      BY <1>2 DEF LoseFrame, ecuVars, toolVars
    <2> QED
      BY <1>0, <2>1, SameWithin, TailWithin, WholeStays
  <1>3. CASE ToolGivesUp
    <2>1. tool'.stage = "idle" /\ UNCHANGED <<rx, taken, fifo, wire, offered, kindOf>>
      BY <1>3, NoToolIs DEF ToolGivesUp, ecuVars
    <2>2. RunIs(rx, fifo, wire, tool', offered, kindOf) /\ WireIs(wire, Delivered, tool')
      BY <2>1, WholeParts, IdleRun DEF WireIs
    <2> QED
      BY <2>1, <2>2, WholeParts, WholeLeft
  <1> QED
    BY <1>1, <1>2, <1>3

LEMMA WholeInit == IsoInit => AloneInv
  <1> SUFFICES ASSUME IsoInit PROVE AloneInv
    OBVIOUS
  <1>1. /\ fifo = <<>> /\ wire = <<>> /\ taken = <<>> /\ ~rx.complete /\ rx.state = "idle" /\ tool.stage = "idle"
    BY DEF IsoInit, NoTool
  <1>2. Receiving(rx, kindOf)
    BY <1>1 DEF Receiving
  <1>3. FifoIs(rx, fifo, kindOf) /\ WireIs(wire, Delivered, tool)
    BY <1>1, NothingIn DEF FifoIs, WireIs
  <1>4. NoStrays
    BY <1>1, NothingIn DEF NoStrays, Active
  <1> QED
    BY <1>1, <1>2, <1>3, <1>4 DEF AloneInv, WholeInv, RunIs

\* What other nodes do not do.
OwnStep ==
    \/ PollFrame \/ RxTimeout \/ Take \/ StartRun \/ ToolStep \/ ToolGivesUp \/ LoseFrame
    \/ UNCHANGED isoVars

LEMMA NoStraysPolled ==
    ASSUME IsoInv, NoStrays, PollFrame
    PROVE  NoStrays'
  <1>1. fifo \in Seq(FrameType) /\ wire \in Seq(FrameType) /\ fifo # <<>> /\ fifo' = Tail(fifo)
    BY Unfold DEF PollFrame, Queue
  <1>2. Head(fifo) \in OfTool /\ All(fifo', OfTool)
    BY <1>1, AllHead DEF NoStrays
  <1>t. All(wire, ToTool) /\ Parts \subseteq ToTool
    BY DEF NoStrays, Parts, ToTool, Begins
  <1>3. CASE Head(fifo).type = "SF" /\ HandleSf(Head(fifo))
    <2>1. rx'.buf = <<<<Head(fifo).msg, Head(fifo).part>>>> /\ UNCHANGED wire
      BY <1>3, Unfold DEF HandleSf, RxType
    <2>2. Begun' = Head(fifo).msg /\ Head(fifo).msg > 0
      BY <1>2, <1>3, <2>1 DEF Begun, OfTool
    <2> QED
      BY <1>2, <1>t, <2>1, <2>2 DEF NoStrays
  <1>4. CASE Head(fifo).type = "FF" /\ HandleFf(Head(fifo))
    <2>1. CASE Head(fifo).n > MaxPayload
      <3>1. rx'.buf = rx.buf /\ rx'.complete = rx.complete /\ rx'.state = "overflow" /\ UNCHANGED wire
        BY <1>4, <2>1, Unfold DEF HandleFf, RxType
      <3> QED
        BY <1>2, <1>t, <3>1 DEF NoStrays, Begun, Active
    <2>2. CASE ~(Head(fifo).n > MaxPayload)
      <3> DEFINE c == FlowControl(BlockSize)
      <3>1. rx'.buf = <<<<Head(fifo).msg, Head(fifo).part>>>> /\ wire' = Append(wire, c)
        BY <1>4, <2>2, Unfold DEF HandleFf, RxType
      <3>2. Begun' = Head(fifo).msg /\ Head(fifo).msg > 0
        BY <1>2, <1>4, <3>1 DEF Begun, OfTool
      <3>3. c \in ToTool
        BY Constants DEF FlowControl, CanFrame, FrameType, ToTool, Begins
      <3>4. c \in FrameType
        BY <3>3 DEF ToTool
      <3> HIDE DEF c
      <3>5. All(wire', ToTool)
        BY <1>1, <1>t, <3>1, <3>3, <3>4, AllAppend
      <3> QED
        BY <1>2, <3>2, <3>5 DEF NoStrays
    <2> QED
      BY <2>1, <2>2
  <1>5. CASE Head(fifo).type = "CF" /\ HandleCf(Head(fifo))
    <2>1. UNCHANGED wire
      BY <1>5 DEF HandleCf
    <2>2. Active' => Active /\ Begun' = Begun
      <3>1. CASE rx.state # "in_progress" \/ Head(fifo).n # rx.next
        <4>1. rx' = rx \/ rx' = [rx EXCEPT !.state = "error"]
          BY <1>5, <3>1 DEF HandleCf
        <4>2. rx'.buf = rx.buf /\ rx'.complete = rx.complete /\ (rx'.state = "in_progress" => rx' = rx)
          BY <4>1, Unfold DEF RxType
        <4> QED
          BY <4>2 DEF Active, Begun
      <3>2. CASE rx.state = "in_progress" /\ Head(fifo).n = rx.next
        <4>1. rx' = Extended(Head(fifo))
          BY <1>5, <3>2 DEF HandleCf
        <4>2. rx'.buf = Append(rx.buf, <<Head(fifo).msg, Head(fifo).part>>)
          BY <4>1, Unfold, RxIs DEF Extended
        <4>3. rx.buf \in Seq(Cells) /\ rx.buf # <<>> /\ Len(rx.buf) \in Nat /\ Len(rx.buf) > 0
          BY <3>2, Unfold, RxIs DEF Active
        <4>4. <<Head(fifo).msg, Head(fifo).part>> \in Cells /\ 1 \in 1 .. Len(rx.buf)
          BY <1>1, <4>3, HeadIs
        <4>5. rx'.buf # <<>> /\ rx'.buf[1] = rx.buf[1]
          BY <4>2, <4>3, <4>4, AppendProperties
        <4> QED
          BY <3>2, <4>3, <4>5 DEF Active, Begun
      <3> QED
        BY <3>1, <3>2
    <2> QED
      BY <1>2, <1>t, <2>1, <2>2 DEF NoStrays
  <1>6. CASE Head(fifo).type = "FC" /\ HandleFc(Head(fifo))
    <2>1. All(wire', ToTool)
      BY <1>1, <1>6, <1>t, FcFollows DEF Follows
    <2>2. UNCHANGED rx
      BY <1>6 DEF HandleFc
    <2> QED
      BY <1>2, <2>1, <2>2 DEF NoStrays, Begun, Active
  <1>7. CASE HandleOverflow \/ UNCHANGED <<rx, tx, wire>>
    <2>1. wire' = wire /\ (rx' = rx \/ rx' = [rx EXCEPT !.state = "overflow"])
      BY <1>7 DEF HandleOverflow
    <2>2. rx'.buf = rx.buf /\ rx'.complete = rx.complete /\ (rx'.state = "in_progress" => rx' = rx)
      BY <2>1, Unfold DEF RxType
    <2> QED
      BY <1>2, <1>t, <2>1, <2>2 DEF NoStrays, Begun, Active
  <1> QED
    BY <1>3, <1>4, <1>5, <1>6, <1>7 DEF PollFrame

LEMMA NoStraysTaken ==
    ASSUME IsoInv, NoStrays, Take
    PROVE  NoStrays'
  <1>1. fifo' = fifo /\ ~rx'.complete /\ rx'.state = "idle" /\ rx.complete
    BY Unfold DEF Take, RxType
  <1>2. Begun > 0 /\ Begun = rx.buf[1][1] /\ Begun \in Nat /\ Begun \in 1 .. offered
    <2>1. Begun > 0 /\ rx.buf # <<>>
      BY <1>1, Unfold DEF NoStrays, Active
    <2>2. Begun \in Nat /\ offered \in Nat /\ Begun <= offered
      BY Unfold
    <2>3. Begun \in 1 .. offered
      BY <2>1, <2>2
    <2> QED
      BY <2>1, <2>2, <2>3 DEF Begun
  <1>3. AnswerOf(Begun) \in Nat
    <2>1. kindOf[Begun] \in Kinds
      BY <1>2, Unfold, ElementOfSeq
    <2> QED
      BY <1>2, <2>1, IsoTpAssumption DEF IsoTpAssumption, AnswerOf
  <1>4. wire' = wire \/ \E type \in {"SF", "FF"} : wire' = Append(wire, CanFrame(type, Begun, 0, AnswerOf(Begun)))
    BY <1>2 DEF Take, Send
  <1>5. \A type \in {"SF", "FF"} : CanFrame(type, Begun, 0, AnswerOf(Begun)) \in ToTool
    BY <1>2, <1>3 DEF CanFrame, FrameType, ToTool
  <1>6. All(wire', ToTool)
    <2>1. ToTool \subseteq FrameType /\ wire \in Seq(FrameType)
      BY Unfold DEF ToTool
    <2> QED
      BY <1>4, <1>5, <2>1, AllAppend DEF NoStrays
  <1> QED
    BY <1>1, <1>6 DEF NoStrays, Active

\* The tool posts frames of its own.
LEMMA NoStraysPosted ==
    ASSUME IsoInv, NoStrays, UNCHANGED rx, wire' = wire \/ (wire # <<>> /\ wire' = Tail(wire)),
           NEW f, f \in OfTool, fifo' = fifo \/ Post(f)
    PROVE  NoStrays'
  <1>1. fifo \in Seq(FrameType) /\ wire \in Seq(FrameType) /\ f \in FrameType
    BY Unfold DEF Queue, OfTool
  <1>2. All(fifo', OfTool)
    BY <1>1, AllAppend DEF NoStrays, Post
  <1>3. All(wire', ToTool)
    BY <1>1, AllHead DEF NoStrays
  <1> QED
    BY <1>2, <1>3 DEF NoStrays, Begun, Active

LEMMA NoStraysStep ==
    ASSUME IsoInv, NoStrays, OwnStep
    PROVE  NoStrays'
  <1>f. FlowControl(BlockSize) \in OfTool
    BY Constants DEF FlowControl, CanFrame, FrameType, OfTool
  <1>s. fifo \in Seq(FrameType)
    BY Unfold DEF Queue
  <1>1. CASE RxTimeout
    <2>1. rx'.buf = rx.buf /\ rx'.complete = rx.complete /\ UNCHANGED <<fifo, wire>> /\ rx.state = "in_progress"
      BY <1>1, Unfold DEF RxTimeout, RxType
    <2> QED
      BY <2>1 DEF NoStrays, Begun, Active
  <1>2. CASE StartRun
    <2>1. wire' = <<>> /\ UNCHANGED <<rx, fifo>>
      BY <1>2, Zenon DEF StartRun, ecuVars
    <2> QED
      BY <2>1, NothingIn DEF NoStrays, Begun, Active
  <1>3. CASE LoseFrame
    <2>1. /\ UNCHANGED rx
          /\ \/ fifo # <<>> /\ fifo' = Tail(fifo) /\ UNCHANGED wire
             \/ wire # <<>> /\ wire' = Tail(wire) /\ UNCHANGED fifo
      BY <1>3 DEF LoseFrame, ecuVars
    <2>2. CASE fifo # <<>> /\ fifo' = Tail(fifo) /\ UNCHANGED wire
      BY <1>s, <2>1, <2>2, AllHead DEF NoStrays, Begun, Active
    <2> QED
      BY <1>f, <2>1, <2>2, NoStraysPosted
  <1>4. CASE ToolGivesUp \/ GetFlowControl \/ Collect \/ UNCHANGED isoVars
    <2>1. UNCHANGED <<rx, fifo>> /\ (wire' = wire \/ (wire # <<>> /\ wire' = Tail(wire)))
      BY <1>4 DEF ToolGivesUp, GetFlowControl, Collect, isoVars, ecuVars
    <2> QED
      BY <1>f, <2>1, NoStraysPosted
  <1>5. CASE SendFirst
    <2> DEFINE type == IF Length[Kind] <= SingleMax THEN "SF" ELSE "FF"
               f == CanFrame(type, offered + 1, 0, Length[Kind])
    <2>1. UNCHANGED <<rx, wire>> /\ Post(f) /\ tool.stage = "send"
      BY <1>5 DEF SendFirst, ecuVars
    <2>2. Length[Kind] \in Nat /\ offered \in Nat
      BY <2>1, ToolIs, Unfold
    <2>3. f \in OfTool
      BY <2>2 DEF CanFrame, FrameType, OfTool
    <2> HIDE DEF f
    <2> QED
      BY <2>1, <2>3, NoStraysPosted
  <1>6. CASE SendRest
    <2> DEFINE f == Consecutive(offered, tool.k)
    <2>1. UNCHANGED <<rx, wire>> /\ Post(f) /\ tool.stage = "rest"
      BY <1>6 DEF SendRest, ecuVars
    <2>2. tool.k \in Nat /\ offered \in Nat /\ offered > 0 /\ tool.k % SeqMod \in Nat
      BY <2>1, ToolIs, Unfold, Constants
    <2>3. f \in OfTool
      BY <2>2 DEF Consecutive, CanFrame, FrameType, OfTool
    <2> HIDE DEF f
    <2> QED
      BY <2>1, <2>3, NoStraysPosted
  <1>7. CASE GetAnswer
    <2>1. UNCHANGED rx /\ wire # <<>> /\ wire' = Tail(wire) /\ (fifo' = fifo \/ Post(FlowControl(BlockSize)))
      BY <1>7 DEF GetAnswer, ecuVars
    <2> QED
      BY <1>f, <2>1, NoStraysPosted
  <1> QED
    BY <1>1, <1>2, <1>3, <1>4, <1>5, <1>6, <1>7, NoStraysPolled, NoStraysTaken DEF OwnStep, ToolStep

LEMMA WholeStep ==
    ASSUME IsoInv, NoStrays, WholeInv, Orders, OwnStep
    PROVE  WholeInv'
  <1>1. CASE PollFrame
    <2>1. fifo # <<>> /\ fifo' = Tail(fifo) /\ Polled
      BY <1>1 DEF PollFrame, Polled
    <2>2. \/ Head(fifo).type = "SF" /\ HandleSf(Head(fifo))
          \/ Head(fifo).type = "FF" /\ HandleFf(Head(fifo))
          \/ Head(fifo).type = "CF" /\ HandleCf(Head(fifo))
          \/ Head(fifo).type = "FC" /\ HandleFc(Head(fifo))
          \/ HandleOverflow \/ UNCHANGED <<rx, tx, wire>>
      BY <1>1 DEF PollFrame
    <2> QED
      BY <2>1, <2>2, SfWhole, FfWhole, CfWhole, FcWhole, NoneWhole
  <1>2. CASE StartRun \/ ToolStep
    BY <1>2, WholeParts, StartWhole, SendFirstWhole, FlowControlWhole, SendRestWhole, GetAnswerWhole, CollectWhole
       DEF ToolStep
  <1>3. CASE UNCHANGED isoVars
    <2>1. UNCHANGED <<rx, taken, fifo, wire, tool, offered, kindOf>>
      BY <1>3 DEF isoVars, ecuVars, toolVars
    <2> QED
      BY <2>1, SameWithin, WholeStays
  <1> QED
    BY <1>1, <1>2, <1>3, TakeWhole, WholeOtherSteps DEF OwnStep

LEMMA AloneStep ==
    ASSUME IsoInv, AloneInv, Orders, [IsoNext]_isoVars
    PROVE  AloneInv'
  <1>1. CASE alone /\ OwnStep
    BY <1>1, NoStraysStep, WholeStep DEF AloneInv
  <1>2. CASE ~alone /\ StartRun
    <2> SUFFICES ASSUME alone' PROVE NoStrays' /\ WholeInv'
      BY DEF AloneInv
    <2>1. /\ fifo = <<>> /\ ~rx.complete /\ rx.state # "in_progress"
          /\ wire' = <<>> /\ UNCHANGED <<rx, fifo>>
      BY <1>2, Zenon DEF StartRun, ecuVars
    <2>2. NoStrays'
      BY <2>1, NothingIn DEF NoStrays, Active
    <2> QED
      BY <1>2, <2>1, <2>2, StartWhole
  <1>3. CASE ~alone /\ OwnStep /\ ~StartRun
    <2>1. UNCHANGED alone
      BY <1>3, Zenon DEF OwnStep, ToolStep, PollFrame, RxTimeout, Take, ToolGivesUp, LoseFrame, SendFirst,
         GetFlowControl, SendRest, GetAnswer, Collect, isoVars, pastVars
    <2> QED
      BY <1>3, <2>1 DEF AloneInv
  <1>4. CASE ForeignFrame
    BY <1>4 DEF ForeignFrame, AloneInv
  <1> QED
    BY <1>1, <1>2, <1>3, <1>4 DEF IsoNext, OwnStep

\* What a step hands to the server.
HandsWhole == alone => /\ takes' # takes => InFull(taken')
                       /\ strays' = strays

LEMMA TakenStep ==
    ASSUME IsoInv, AloneInv, [IsoNext]_isoVars
    PROVE  HandsWhole
  <1>1. CASE Take
    <2> SUFFICES ASSUME alone PROVE (takes' # takes => InFull(taken')) /\ strays' = strays
      BY DEF HandsWhole
    <2>1. NoStrays /\ Receiving(rx, kindOf) /\ rx.complete
      BY <1>1 DEF AloneInv, WholeInv, Take
    <2>2. rx.buf[1][1] # 0 /\ rx.buf = Content(rx.buf[1][1], Length[kindOf[rx.buf[1][1]]])
      <3>1. Begun > 0 /\ rx.buf # <<>>
        BY <2>1, Unfold DEF NoStrays, Active
      <3>2. rx.buf[1][1] = Begun
        BY <3>1 DEF Begun
      <3> QED
        BY <2>1, <3>1, <3>2 DEF Receiving, Size, Of
    <2>3. strays' = strays /\ (takes' # takes => taken' = rx.buf)
      BY <1>1, <2>2 DEF Take
    <2> QED
      BY <2>2, <2>3 DEF InFull
  <1>2. CASE ~Take
    <2>1. UNCHANGED <<takes, strays>>
      BY <1>2, Zenon DEF IsoNext, ToolStep, PollFrame, RxTimeout, ToolGivesUp, LoseFrame, SendFirst, ForeignFrame,
         GetFlowControl, SendRest, GetAnswer, Collect, StartRun, isoVars, ecuVars
    <2> QED
      BY <2>1 DEF HandsWhole
  <1> QED
    BY <1>1, <1>2

\* What isotp_take_received hands to the server is one whole message of the tool,
\* however many frames are lost or refused and whatever was begun anew, as long as no
\* frame of another node reaches the FIFO, and after such frames from the next run on
\* that finds nothing under way; with scripts like those of flash() in uds_flash.py:
\* two requests of one frame and of different services first, long ones after them,
\* and only the last one not waited for.
THEOREM ServerGetsWholeMessages ==
    ASSUME \A s \in Scripts : Orderly(s)
    PROVE  IsoSpec => TakenIsWhole
  <1>0. Orders
    BY DEF Orders
  <1>1. IsoInv /\ AloneInv /\ [IsoNext]_isoVars => IsoInv' /\ AloneInv' /\ HandsWhole
    BY <1>0, IsoStepInv, AloneStep, TakenStep
  <1>2. IsoInit => IsoInv /\ AloneInv
    BY IsoInitInv, WholeInit
  <1>3. HandsWhole => [alone => /\ takes' # takes => InFull(taken')
                                /\ strays' = strays]_isoVars
    BY DEF HandsWhole
  <1> QED
    BY <1>1, <1>2, <1>3, PTL DEF IsoSpec, TakenIsWhole

-----------------------------------------------------------------------------
(***************************************************************************)
(* Undisturbed runs.                                                       *)
(*                                                                         *)
(* A run is calm as long as no frame is lost or refused, no other node     *)
(* sends, nothing times out and nobody stops the tool.  While it is, the   *)
(* tool, the bus and isotp.c follow each other in lockstep, and CalmIs     *)
(* says for each stage of the tool where the only request of the moment,   *)
(* or its answer, can be.                                                  *)
(***************************************************************************)
Quiet(r, x, q, w) == q = <<>> /\ w = <<>> /\ ~r.complete /\ ~x.pending

\* The first frame of a request of len bytes is on its way, refused, or answered.
AwaitsFlow(r, x, q, w, len, o) ==
    /\ ~r.complete /\ ~x.pending /\ SingleMax < len
    /\ \/ w = <<>> /\ q = <<CanFrame("FF", o, 0, len)>>
       \/ w = <<>> /\ q = <<>>
       \/ /\ w = <<FlowControl(BlockSize)>> /\ q = <<>>
          /\ r.state = "in_progress" /\ Of(r) = o /\ r.received = FirstLen /\ r.total = len

\* Consecutive frames are on their way, and fewer arrived than the request has.
SendsRest(r, x, q, w, k, len, o) ==
    /\ ~r.complete /\ ~x.pending /\ SingleMax < len /\ w = <<>> /\ All(q, Parts)
    /\ k \in 1 .. Chunks(len) /\ Len(q) < k
    /\ r.state = "in_progress" => /\ Of(r) = o /\ r.total = len
                                  /\ r.received <= FirstLen + (k - 1 - Len(q)) * ChunkLen

\* The whole request is sent, and not taken.
Remaining(o) == {f \in FrameType : f.type = "CF" \/ (f.type = "SF" /\ f.msg = o)}
AwaitsServer(r, x, q, w, o) ==
    /\ w = <<>> /\ ~x.pending /\ All(q, Remaining(o))
    /\ r.complete => Of(r) = o
    /\ r.state = "in_progress" => Of(r) = o \/ All(q, NoCf)

\* Its answer of n bytes is on its way.
Transmission(o, n) ==
    [msg |-> o, total |-> n, sent |-> FirstLen, k |-> 0, pending |-> TRUE, block |-> 0]
AnswerSent(r, x, q, w, n, o, d) ==
    /\ q = <<>> /\ ~r.complete /\ d = o
    /\ \/ w = <<CanFrame("SF", o, 0, n)>> /\ ~x.pending
       \/ w = <<CanFrame("FF", o, 0, n)>> /\ SingleMax < n /\ x = Transmission(o, n)

\* The rest of the answer is asked for, or on its way.
NumberedFrom(w, k) == \A i \in 1 .. Len(w) : w[i].type = "CF" /\ w[i].n = (k + i - 1) % SeqMod
Collects(r, x, q, w, t, o, d) ==
    /\ ~r.complete /\ d = o /\ t.from = o /\ t.k > 0
    /\ t.got = FirstLen + (t.k - 1) * ChunkLen /\ t.got < t.total
    /\ \/ q = <<FlowControl(BlockSize)>> /\ w = <<>> /\ t.k = 1 /\ x = Transmission(o, t.total)
       \/ /\ q = <<>> /\ NumberedFrom(w, t.k)
          /\ t.k + Len(w) - 1 <= Chunks(t.total)
          /\ t.k + Len(w) - 1 = Chunks(t.total) => ~x.pending

CalmIs(r, x, q, w, t, o, d) ==
    /\ t.stage = "send" => Quiet(r, x, q, w)
    /\ t.stage = "flow" => AwaitsFlow(r, x, q, w, Length[t.script[t.at]], o)
    /\ t.stage = "rest" => SendsRest(r, x, q, w, t.k, Length[t.script[t.at]], o)
    /\ t.stage = "answer" => /\ t.script[t.at] \notin Silent
                             /\ \/ AwaitsServer(r, x, q, w, o)
                                \/ AnswerSent(r, x, q, w, AnswerLength[t.script[t.at]], o, d)
    /\ t.stage = "collect" => t.script[t.at] \notin Silent /\ Collects(r, x, q, w, t, o, d)

Named == tool.stage # "idle" =>
    /\ tool.script \in Scripts
    /\ tool.stage # "send" => offered > 0 /\ kindOf[offered] = Kind

CalmInv == Named /\ (calm => CalmIs(rx, tx, fifo, wire, tool, offered, Delivered))

-----------------------------------------------------------------------------
LEMMA CalmParts ==
    ASSUME IsoInv
    PROVE  /\ fifo \in Seq(FrameType) /\ wire \in Seq(FrameType) /\ Len(fifo) \in Nat
           /\ rx.received \in Nat /\ rx.total \in Nat /\ offered \in Nat
  <1>1. fifo \in Seq(FrameType) /\ wire \in Seq(FrameType) /\ offered \in Nat
    BY Unfold DEF Queue
  <1>2. rx.received \in 0 .. MaxPayload /\ rx.total \in 0 .. MaxPayload
    BY Unfold, RxIs
  <1>3. rx.received \in Nat /\ rx.total \in Nat
    BY <1>2, Constants
  <1> QED
    BY <1>1, <1>3, LenProperties

LEMMA NamedStep ==
    ASSUME IsoInv, Named, [IsoNext]_isoVars
    PROVE  Named'
  <1>1. CASE UNCHANGED <<tool, offered, kindOf>>
    BY <1>1 DEF Named, Kind
  <1>2. CASE StartRun
    <2>1. PICK s \in Scripts : tool' = [NoTool EXCEPT !.stage = "send", !.script = s]
      BY <1>2, Zenon DEF StartRun
    <2>2. tool'.stage = "send" /\ tool'.script = s
      BY <2>1 DEF NoTool
    <2> QED
      BY <2>2 DEF Named
  <1>3. ASSUME tool.stage # "idle", tool.stage # "send", UNCHANGED <<offered, kindOf>>,
               tool'.stage # "idle" => /\ tool'.script = tool.script
                                       /\ tool'.stage # "send" => tool'.at = tool.at
        PROVE  Named'
    BY <1>3 DEF Named, Kind
  <1>4. tool.stage # "idle" => tool.script \in Scripts
    BY DEF Named
  <1>5. ASSUME NEW t, t = AfterRequest(tool), tool.stage # "idle"
        PROVE  t.stage # "idle" => t.script = tool.script /\ (t.stage # "send" => t.at = tool.at)
    <2>1. t = [tool EXCEPT !.stage = "answer"] \/ t = Proceed(tool)
      BY <1>5 DEF AfterRequest
    <2>2. t = [tool EXCEPT !.stage = "answer"] => t.script = tool.script /\ t.at = tool.at
      BY Unfold DEF ToolType
    <2> QED
      BY <2>1, <2>2, ProceedIs
  <1>6. CASE SendFirst
    <2>1. /\ tool.stage = "send" /\ offered' = offered + 1 /\ kindOf' = Append(kindOf, Kind)
          /\ tool' = AfterRequest(tool) \/ tool' = [tool EXCEPT !.stage = "flow"]
      BY <1>6 DEF SendFirst
    <2>2. tool'.stage # "idle" => tool'.script = tool.script /\ (tool'.stage # "send" => tool'.at = tool.at)
      <3>1. tool' = [tool EXCEPT !.stage = "flow"] => tool'.script = tool.script /\ tool'.at = tool.at
        BY Unfold DEF ToolType
      <3> QED
        BY <1>5, <2>1, <3>1
    <2>3. kindOf'[offered'] = Kind /\ offered' > 0
      <3>1. kindOf \in Seq(Kinds) /\ offered \in Nat /\ Len(kindOf) = offered
        BY Unfold
      <3>2. Kind \in Kinds
        BY <2>1, ToolIs
      <3>3. Append(kindOf, Kind)[offered + 1] = Kind
        BY <3>1, <3>2, KindsKept
      <3>4. offered + 1 > 0
        BY <3>1
      <3> QED
        BY <2>1, <3>3, <3>4
    <2> QED
      BY <1>4, <2>1, <2>2, <2>3 DEF Named, Kind
  <1>7. CASE GetFlowControl
    <2>1. tool' = NoTool \/ tool' = [tool EXCEPT !.stage = "rest", !.k = 1]
      BY <1>7 DEF GetFlowControl
    <2>2. tool'.stage # "idle" => tool'.script = tool.script /\ tool'.at = tool.at
      BY <2>1, NoToolIs, Unfold DEF ToolType
    <2> QED
      BY <1>3, <1>7, <2>2 DEF GetFlowControl
  <1>8. CASE SendRest
    <2>1. tool' = AfterRequest(tool) \/ tool' = [tool EXCEPT !.k = tool.k + 1]
      BY <1>8 DEF SendRest
    <2>2. tool.stage = "rest" /\ UNCHANGED <<offered, kindOf>>
      BY <1>8 DEF SendRest
    <2>3. tool' = [tool EXCEPT !.k = tool.k + 1] => tool'.script = tool.script /\ tool'.at = tool.at
      BY Unfold DEF ToolType
    <2> QED
      BY <1>3, <1>5, <2>1, <2>2, <2>3
  <1>9. CASE GetAnswer \/ Collect
    <2>1. tool.stage \in {"answer", "collect"} /\ UNCHANGED <<offered, kindOf>>
      BY <1>9 DEF GetAnswer, Collect
    <2> DEFINE Collecting(k, g, n, m) ==
                 [tool EXCEPT !.stage = "collect", !.k = k, !.got = g, !.total = n, !.from = m]
               Going(k, g) == [tool EXCEPT !.got = g, !.k = k]
    <2>2. \A k, g, n, m : Collecting(k, g, n, m).script = tool.script /\ Collecting(k, g, n, m).at = tool.at
      BY Unfold DEF ToolType
    <2>3. \A k, g : Going(k, g).script = tool.script /\ Going(k, g).at = tool.at
      BY Unfold DEF ToolType
    <2>4. \/ tool' = NoTool \/ tool' = Proceed(tool)
          \/ tool' = Collecting(1, FirstLen, Head(wire).n, Head(wire).msg)
          \/ tool' = Going(tool.k + 1, Min(tool.got + ChunkLen, tool.total))
      <3>1. CASE GetAnswer
        <4>1. \/ tool' = NoTool \/ tool' = Answered(tool, Head(wire).msg) \/ tool' = Proceed(tool)
              \/ tool' = Collecting(1, FirstLen, Head(wire).n, Head(wire).msg)
          BY <3>1 DEF GetAnswer
        <4> QED
          BY <4>1 DEF Answered
      <3>2. CASE Collect
        <4>1. \/ tool' = NoTool \/ tool' = Answered(tool, tool.from)
              \/ tool' = Going(tool.k + 1, Min(tool.got + ChunkLen, tool.total))
          BY <3>2 DEF Collect
        <4> QED
          BY <4>1 DEF Answered
      <3> QED
        BY <1>9, <3>1, <3>2
    <2> HIDE DEF Collecting, Going
    <2>5. tool'.stage # "idle" => tool'.script = tool.script /\ (tool'.stage # "send" => tool'.at = tool.at)
      BY <2>2, <2>3, <2>4, ProceedIs
    <2> QED
      BY <1>3, <2>1, <2>5
  <1>10. CASE ToolGivesUp
    BY <1>10, NoToolIs DEF ToolGivesUp, Named
  <1>11. PollFrame \/ RxTimeout \/ Take \/ LoseFrame \/ ForeignFrame \/ UNCHANGED isoVars
         => UNCHANGED <<tool, offered, kindOf>>
    BY DEF PollFrame, RxTimeout, Take, LoseFrame, ForeignFrame, toolVars, isoVars
  <1> QED
    BY <1>1, <1>2, <1>6, <1>7, <1>8, <1>9, <1>10, <1>11 DEF IsoNext, ToolStep

LEMMA AllOf ==
    ASSUME NEW f
    PROVE  /\ \A S : All(<<f>>, S) <=> f \in S
           /\ <<f>> # <<>> /\ Head(<<f>>) = f /\ Tail(<<f>>) = <<>> /\ Len(<<f>>) = 1
  <1>1. Len(<<f>>) = 1 /\ <<f>>[1] = f /\ \A i \in 1 .. 1 : i = 1
    OBVIOUS
  <1>2. \A S : All(<<f>>, S) <=> f \in S
    BY <1>1 DEF All
  <1>3. <<f>> # <<>>
    <2>1. Len(<<>>) = 0
      OBVIOUS
    <2> QED
      BY <1>1, <2>1
  <1> QED
    BY <1>1, <1>2, <1>3

\* A poll while nothing disturbs the run.
LEMMA CalmSf ==
    ASSUME IsoInv, CalmIs(rx, tx, fifo, wire, tool, offered, Delivered), fifo # <<>>,
           Head(fifo).type = "SF", HandleSf(Head(fifo))
    PROVE  CalmIs(rx', tx', Tail(fifo), wire', tool, offered, Delivered)
  <1>0. fifo \in Seq(FrameType)
    BY CalmParts
  <1>1. rx'.state = "complete" /\ Of(rx') = Head(fifo).msg /\ UNCHANGED <<tx, wire>>
    BY Unfold DEF HandleSf, RxType, Of
  <1>2. tool.stage \notin {"send"}
    BY DEF CalmIs, Quiet
  <1>3. tool.stage # "flow"
    <2> SUFFICES ASSUME tool.stage = "flow" PROVE FALSE
      OBVIOUS
    <2>1. AwaitsFlow(rx, tx, fifo, wire, Length[tool.script[tool.at]], offered)
      BY DEF CalmIs
    <2>2. Head(fifo) = CanFrame("FF", offered, 0, Length[tool.script[tool.at]])
      BY <2>1, AllOf DEF AwaitsFlow
    <2> QED
      BY <2>2 DEF CanFrame
  <1>4. tool.stage # "rest"
    <2> SUFFICES ASSUME tool.stage = "rest" PROVE FALSE
      OBVIOUS
    <2>1. Head(fifo) \in Parts
      BY <1>0, AllHead DEF CalmIs, SendsRest
    <2> QED
      BY <2>1 DEF Parts
  <1>5. tool.stage # "collect"
    <2> SUFFICES ASSUME tool.stage = "collect" PROVE FALSE
      OBVIOUS
    <2>1. Collects(rx, tx, fifo, wire, tool, offered, Delivered)
      BY DEF CalmIs
    <2>2. Head(fifo) = FlowControl(BlockSize)
      BY <2>1, AllOf DEF Collects
    <2> QED
      BY <2>2 DEF FlowControl, CanFrame
  <1>6. ASSUME tool.stage = "answer"
        PROVE  AwaitsServer(rx', tx', Tail(fifo), wire', offered)
    <2>1. AwaitsServer(rx, tx, fifo, wire, offered)
      BY <1>6 DEF CalmIs, AnswerSent
    <2>2. Head(fifo) \in Remaining(offered) /\ All(Tail(fifo), Remaining(offered))
      BY <1>0, <2>1, AllHead DEF AwaitsServer
    <2>3. Head(fifo).msg = offered
      BY <2>2 DEF Remaining
    <2> QED
      BY <1>1, <2>1, <2>2, <2>3 DEF AwaitsServer
  <1> QED
    BY <1>2, <1>3, <1>4, <1>5, <1>6 DEF CalmIs

LEMMA CalmFf ==
    ASSUME IsoInv, CalmIs(rx, tx, fifo, wire, tool, offered, Delivered), fifo # <<>>,
           Head(fifo).type = "FF", HandleFf(Head(fifo))
    PROVE  CalmIs(rx', tx', Tail(fifo), wire', tool, offered, Delivered)
  <1>0. fifo \in Seq(FrameType)
    BY CalmParts
  <1>2. tool.stage \notin {"send"}
    BY DEF CalmIs, Quiet
  <1>4. tool.stage # "rest"
    <2> SUFFICES ASSUME tool.stage = "rest" PROVE FALSE
      OBVIOUS
    <2>1. Head(fifo) \in Parts
      BY <1>0, AllHead DEF CalmIs, SendsRest
    <2> QED
      BY <2>1 DEF Parts
  <1>5. tool.stage # "collect"
    <2> SUFFICES ASSUME tool.stage = "collect" PROVE FALSE
      OBVIOUS
    <2>1. Collects(rx, tx, fifo, wire, tool, offered, Delivered)
      BY DEF CalmIs
    <2>2. Head(fifo) = FlowControl(BlockSize)
      BY <2>1, AllOf DEF Collects
    <2> QED
      BY <2>2 DEF FlowControl, CanFrame
  <1>6. tool.stage # "answer"
    <2> SUFFICES ASSUME tool.stage = "answer" PROVE FALSE
      OBVIOUS
    <2>1. AwaitsServer(rx, tx, fifo, wire, offered)
      BY DEF CalmIs, AnswerSent
    <2>2. Head(fifo) \in Remaining(offered)
      BY <1>0, <2>1, AllHead DEF AwaitsServer
    <2> QED
      BY <2>2 DEF Remaining
  <1>7. ASSUME tool.stage = "flow"
        PROVE  AwaitsFlow(rx', tx', Tail(fifo), wire', Length[tool.script[tool.at]], offered)
    <2> DEFINE len == Length[tool.script[tool.at]]
               f == CanFrame("FF", offered, 0, len)
    <2>1. AwaitsFlow(rx, tx, fifo, wire, len, offered)
      BY <1>7 DEF CalmIs
    <2>2. fifo = <<f>> /\ wire = <<>> /\ ~rx.complete /\ ~tx.pending /\ SingleMax < len
      BY <2>1 DEF AwaitsFlow
    <2>3. Head(fifo) = f /\ Tail(fifo) = <<>>
      BY <2>2, AllOf
    <2>4. f.msg = offered /\ f.n = len
      BY DEF CanFrame
    <2> HIDE DEF f
    <2>5. CASE len > MaxPayload
      <3>1. rx' = [rx EXCEPT !.state = "overflow"] /\ UNCHANGED <<tx, wire>>
        BY <2>3, <2>4, <2>5 DEF HandleFf
      <3>2. ~rx'.complete
        BY <2>2, <3>1, Unfold DEF RxType
      <3> QED
        BY <2>2, <2>3, <3>1, <3>2 DEF AwaitsFlow
    <2>6. CASE ~(len > MaxPayload)
      <3>1. /\ rx' = [rx EXCEPT !.buf = <<<<f.msg, f.part>>>>, !.received = FirstLen, !.total = f.n,
                             !.next = 1 % SeqMod, !.state = "in_progress"]
            /\ wire' = Append(wire, FlowControl(BlockSize)) /\ UNCHANGED tx
        BY <2>3, <2>4, <2>6 DEF HandleFf
      <3>2. /\ rx' = [state |-> "in_progress", buf |-> <<<<f.msg, f.part>>>>, received |-> FirstLen,
                      total |-> f.n, next |-> 1 % SeqMod, complete |-> rx.complete]
        BY <3>1, Unfold, RxIs
      <3>3. Of(rx') = offered
        BY <2>4, <3>2 DEF Of
      <3>4. wire' = <<FlowControl(BlockSize)>>
        BY <2>2, <3>1
      <3> QED
        BY <2>2, <2>3, <2>4, <3>1, <3>2, <3>3, <3>4 DEF AwaitsFlow
    <2> QED
      BY <2>5, <2>6
  <1> QED
    BY <1>2, <1>4, <1>5, <1>6, <1>7 DEF CalmIs

\* What a consecutive frame at the head of the FIFO does to the reception.
LEMMA CfCases ==
    ASSUME IsoInv, NEW f, HandleCf(f)
    PROVE  /\ UNCHANGED <<tx, wire>>
           /\ \/ rx.state # "in_progress" /\ rx' = rx
              \/ rx'.state = "error" /\ Of(rx') = Of(rx) /\ (rx'.complete => rx.complete)
              \/ /\ rx.state = "in_progress" /\ Of(rx') = Of(rx) /\ rx'.total = rx.total
                 /\ rx'.received = Min(rx.received + ChunkLen, rx.total)
                 /\ rx'.complete => rx.complete \/ rx'.received >= rx.total
  <1>1. UNCHANGED <<tx, wire>>
    BY DEF HandleCf
  <1>2. CASE rx.state # "in_progress"
    BY <1>1, <1>2 DEF HandleCf
  <1>3. CASE rx.state = "in_progress" /\ f.n # rx.next
    <2>1. rx' = [state |-> "error", buf |-> rx.buf, received |-> rx.received, total |-> rx.total,
                 next |-> rx.next, complete |-> rx.complete]
      BY <1>3, Unfold, RxIs DEF HandleCf
    <2> QED
      BY <1>1, <2>1 DEF Of
  <1>4. CASE rx.state = "in_progress" /\ f.n = rx.next
    <2> DEFINE r == Min(rx.received + ChunkLen, rx.total)
               done == r >= rx.total
    <2>1. rx' = [rx EXCEPT !.buf = Append(rx.buf, <<f.msg, f.part>>), !.received = r,
                           !.next = (rx.next + 1) % SeqMod, !.complete = rx.complete \/ done,
                           !.state = IF done THEN "complete" ELSE rx.state]
      BY <1>4 DEF HandleCf, Extended
    <2> HIDE DEF r
    <2>2. rx' = [state |-> IF done THEN "complete" ELSE rx.state, buf |-> Append(rx.buf, <<f.msg, f.part>>),
                 received |-> r, total |-> rx.total, next |-> (rx.next + 1) % SeqMod,
                 complete |-> rx.complete \/ done]
      BY <2>1, Unfold, RxIs
    <2>3. Append(rx.buf, <<f.msg, f.part>>)[1] = rx.buf[1]
      <3>1. rx.buf \in Seq(Cells) /\ rx.buf # <<>> /\ Len(rx.buf) \in Nat /\ Len(rx.buf) > 0
        BY <1>4, Unfold, RxIs DEF Active
      <3>2. rx.buf \in Seq(Cells \cup {<<f.msg, f.part>>}) /\ 1 \in 1 .. Len(rx.buf)
        BY <3>1, SeqMonotonic
      <3> QED
        BY <3>2, AppendProperties
    <2>4. /\ rx'.buf = Append(rx.buf, <<f.msg, f.part>>) /\ rx'.total = rx.total /\ rx'.received = r
          /\ rx'.complete => rx.complete \/ done
      BY <2>2
    <2>5. Of(rx') = Of(rx)
      BY <2>3, <2>4 DEF Of
    <2> QED
      BY <1>1, <1>4, <2>4, <2>5 DEF r
  <1> QED
    BY <1>2, <1>3, <1>4

\* Fewer consecutive frames have arrived than the request has.
LEMMA RestArrives ==
    ASSUME NEW k \in Nat, NEW n \in Nat, NEW len \in Nat, FirstLen < len, k <= Chunks(len), n > 0, n <= k,
           NEW received \in Nat, received <= FirstLen + (k - 1 - n) * ChunkLen
    PROVE  /\ Min(received + ChunkLen, len) <= FirstLen + (k - 1 - (n - 1)) * ChunkLen
           /\ Min(received + ChunkLen, len) < len
  <1>1. ChunkLen \in Nat /\ ChunkLen > 0 /\ FirstLen \in Nat /\ Chunks(len) \in Nat
    BY Constants, ChunksAre
  <1> DEFINE d == k - 1 - n
             c == Chunks(len)
             m == Min(received + ChunkLen, len)
  <1>2. d \in Int /\ k - 1 - (n - 1) = d + 1 /\ d + 1 <= c - 1 /\ c \in Nat /\ c - 1 \in Int
    BY <1>1
  <1>3. m <= received + ChunkLen /\ m \in Nat
    BY <1>1, MinIs
  <1>4. FirstLen + (c - 1) * ChunkLen < len
    BY ChunksAre
  <1>5. received <= FirstLen + d * ChunkLen
    OBVIOUS
  <1> HIDE DEF d, c, m
  <1>6. (d + 1) * ChunkLen = d * ChunkLen + ChunkLen /\ d * ChunkLen \in Int
    BY <1>1, <1>2
  <1>7. (d + 1) * ChunkLen <= (c - 1) * ChunkLen /\ (c - 1) * ChunkLen \in Int
    BY <1>1, <1>2
  <1>8. m <= FirstLen + (d + 1) * ChunkLen
    BY <1>1, <1>3, <1>5, <1>6
  <1>9. m < len
    BY <1>1, <1>2, <1>3, <1>4, <1>6, <1>7, <1>8
  <1> QED
    BY <1>2, <1>8, <1>9 DEF m

LEMMA CalmCf ==
    ASSUME IsoInv, CalmIs(rx, tx, fifo, wire, tool, offered, Delivered), fifo # <<>>,
           Head(fifo).type = "CF", HandleCf(Head(fifo))
    PROVE  CalmIs(rx', tx', Tail(fifo), wire', tool, offered, Delivered)
  <1>0. /\ fifo \in Seq(FrameType) /\ UNCHANGED <<tx, wire>>
        /\ Len(Tail(fifo)) = Len(fifo) - 1 /\ Len(fifo) \in Nat /\ Len(fifo) > 0
    <2>1. fifo \in Seq(FrameType)
      BY CalmParts
    <2> QED
      BY <2>1, EmptySeq, HeadTailProperties, CfCases
  <1>1. \/ rx.state # "in_progress" /\ rx' = rx
        \/ rx'.state = "error" /\ Of(rx') = Of(rx) /\ (rx'.complete => rx.complete)
        \/ /\ rx.state = "in_progress" /\ Of(rx') = Of(rx) /\ rx'.total = rx.total
           /\ rx'.received = Min(rx.received + ChunkLen, rx.total)
           /\ rx'.complete => rx.complete \/ rx'.received >= rx.total
    BY CfCases
  <1>2. tool.stage # "send"
    BY DEF CalmIs, Quiet
  <1>3. tool.stage # "flow"
    <2> SUFFICES ASSUME tool.stage = "flow" PROVE FALSE
      OBVIOUS
    <2>1. AwaitsFlow(rx, tx, fifo, wire, Length[tool.script[tool.at]], offered)
      BY DEF CalmIs
    <2>2. Head(fifo) = CanFrame("FF", offered, 0, Length[tool.script[tool.at]])
      BY <2>1, AllOf DEF AwaitsFlow
    <2> QED
      BY <2>2 DEF CanFrame
  <1>4. tool.stage # "collect"
    <2> SUFFICES ASSUME tool.stage = "collect" PROVE FALSE
      OBVIOUS
    <2>1. Collects(rx, tx, fifo, wire, tool, offered, Delivered)
      BY DEF CalmIs
    <2>2. Head(fifo) = FlowControl(BlockSize)
      BY <2>1, AllOf DEF Collects
    <2> QED
      BY <2>2 DEF FlowControl, CanFrame
  <1>5. ASSUME tool.stage = "answer"
        PROVE  AwaitsServer(rx', tx', Tail(fifo), wire', offered)
    <2>1. AwaitsServer(rx, tx, fifo, wire, offered)
      BY <1>5 DEF CalmIs, AnswerSent
    <2>2. Head(fifo) \notin NoCf /\ All(Tail(fifo), Remaining(offered))
      BY <1>0, <2>1, AllHead DEF AwaitsServer, NoCf
    <2>3. ~All(fifo, NoCf)
      BY <1>0, <2>2, AllHead
    <2>4. rx.state = "in_progress" => Of(rx) = offered
      BY <2>1, <2>3 DEF AwaitsServer
    <2>5. rx.complete => Of(rx) = offered
      BY <2>1 DEF AwaitsServer
    <2>6. rx'.complete => Of(rx') = offered
      BY <1>1, <2>4, <2>5
    <2>7. rx'.state = "in_progress" => Of(rx') = offered
      BY <1>1, <2>4
    <2> QED
      BY <1>0, <2>1, <2>2, <2>6, <2>7 DEF AwaitsServer
  <1>6. ASSUME tool.stage = "rest"
        PROVE  SendsRest(rx', tx', Tail(fifo), wire', tool.k, Length[tool.script[tool.at]], offered)
    <2> DEFINE len == Length[tool.script[tool.at]]
               n == Len(fifo)
    <2>1. SendsRest(rx, tx, fifo, wire, tool.k, len, offered)
      BY <1>6 DEF CalmIs
    <2>2. /\ ~rx.complete /\ ~tx.pending /\ SingleMax < len /\ wire = <<>> /\ All(Tail(fifo), Parts)
          /\ tool.k \in 1 .. Chunks(len) /\ n < tool.k
      BY <1>0, <2>1, AllHead DEF SendsRest
    <2>3. len \in Nat /\ tool.k \in Nat /\ FirstLen < len
      <3>1. tool.k \in Nat /\ Length[Kind] \in Nat
        BY <1>6, ToolIs
      <3>2. len \in Nat
        BY <3>1 DEF Kind
      <3> HIDE DEF len
      <3> QED
        BY <2>2, <3>1, <3>2, Constants
    <2>4. n \in Nat /\ n > 0 /\ Len(Tail(fifo)) = n - 1
      BY <1>0
    <2>5. tool.k <= Chunks(len) /\ Chunks(len) \in Nat
      <3>1. Chunks(len) \in Nat
        BY <2>3, ChunksAre
      <3> QED
        BY <2>2, <2>3, <3>1
    <2> HIDE DEF len, n
    <2>8. Len(Tail(fifo)) < tool.k
      BY <2>2, <2>3, <2>4
    <2>9. ~tx'.pending /\ wire' = <<>>
      BY <1>0, <2>2
    <2>6. CASE rx.state = "in_progress"
      <3>1. Of(rx) = offered /\ rx.total = len /\ rx.received <= FirstLen + (tool.k - 1 - n) * ChunkLen
        BY <2>1, <2>6 DEF SendsRest, n
      <3>2. rx.received \in Nat
        BY CalmParts
      <3>3. /\ Min(rx.received + ChunkLen, len) <= FirstLen + (tool.k - 1 - (n - 1)) * ChunkLen
            /\ Min(rx.received + ChunkLen, len) < len
        BY <2>2, <2>3, <2>4, <2>5, <3>1, <3>2, RestArrives
      <3>4. Min(rx.received + ChunkLen, len) \in Nat
        BY <2>3, <3>2, Constants, MinIs
      <3>5. ~rx'.complete
        BY <1>1, <2>2, <2>3, <2>6, <3>1, <3>3, <3>4
      <3>6. rx'.state = "in_progress" => /\ Of(rx') = offered /\ rx'.total = len
                                         /\ rx'.received <= FirstLen + (tool.k - 1 - (n - 1)) * ChunkLen
        BY <1>1, <2>6, <3>1, <3>3
      <3> QED
        BY <2>2, <2>4, <2>8, <2>9, <3>5, <3>6 DEF SendsRest, len
    <2>7. CASE rx.state # "in_progress"
      <3>1. ~rx'.complete /\ rx'.state # "in_progress"
        BY <1>1, <2>2, <2>7
      <3> QED
        BY <2>2, <2>8, <2>9, <3>1 DEF SendsRest, len
    <2> QED
      BY <2>6, <2>7
  <1> QED
    BY <1>2, <1>3, <1>4, <1>5, <1>6 DEF CalmIs

\* The block that answers the flow control of the tool.
LEMMA BlockAnswers ==
    ASSUME NEW o \in Nat, NEW n \in Nat, NEW b \in Nat, FirstLen < n,
           NEW t, t = [msg |-> o, total |-> n, sent |-> FirstLen, k |-> 0, pending |-> TRUE, block |-> b]
    PROVE  /\ BlockFrames(t) \in Nat /\ BlockFrames(t) <= Chunks(n)
           /\ BlockFrames(t) = Chunks(n) => ~SentBlock(t).pending
  <1> DEFINE c == Chunks(n)
             m == BlockFrames(t)
  <1>1. c \in Nat /\ n <= FirstLen + c * ChunkLen /\ ChunkLen \in Nat /\ FirstLen \in Nat
    BY Constants, ChunksAre
  <1>2. m = Min(b, c)
    BY DEF BlockFrames, Chunks
  <1> HIDE DEF c
  <1>3. m \in Nat /\ m <= c
    BY <1>1, <1>2, MinIs
  <1> DEFINE s == Min(t.sent + m * ChunkLen, t.total)
  <1>4. SentBlock(t).pending => s < n
    <2> DEFINE p == t.pending /\ s < t.total
    <2>1. SentBlock(t) = [t EXCEPT !.sent = s, !.k = t.k + m, !.block = t.block - m, !.pending = p]
      BY DEF SentBlock
    <2>2. p => s < n
      OBVIOUS
    <2> HIDE DEF s, m, p
    <2>3. SentBlock(t) = [msg |-> t.msg, total |-> t.total, sent |-> s, k |-> t.k + m, pending |-> p,
                          block |-> t.block - m]
      BY <2>1
    <2>4. SentBlock(t).pending = p
      BY <2>3
    <2> QED
      BY <2>2, <2>4
  <1>5. ASSUME m = c PROVE ~(s < n)
    <2>1. s = Min(FirstLen + c * ChunkLen, n)
      BY <1>5
    <2>2. FirstLen + c * ChunkLen >= n /\ FirstLen + c * ChunkLen \in Nat
      BY <1>1
    <2> HIDE DEF s
    <2>3. s = n
      BY <2>1, <2>2 DEF Min
    <2> QED
      BY <2>3
  <1> QED
    BY <1>3, <1>4, <1>5 DEF c

LEMMA CalmFc ==
    ASSUME IsoInv, CalmIs(rx, tx, fifo, wire, tool, offered, Delivered), fifo # <<>>,
           Head(fifo).type = "FC", HandleFc(Head(fifo))
    PROVE  CalmIs(rx', tx', Tail(fifo), wire', tool, offered, Delivered)
  <1>0. fifo \in Seq(FrameType) /\ rx' = rx /\ offered \in Nat
    BY CalmParts DEF HandleFc
  <1>2. tool.stage # "send"
    BY DEF CalmIs, Quiet
  <1>3. tool.stage # "flow"
    <2> SUFFICES ASSUME tool.stage = "flow" PROVE FALSE
      OBVIOUS
    <2>1. AwaitsFlow(rx, tx, fifo, wire, Length[tool.script[tool.at]], offered)
      BY DEF CalmIs
    <2>2. Head(fifo) = CanFrame("FF", offered, 0, Length[tool.script[tool.at]])
      BY <2>1, AllOf DEF AwaitsFlow
    <2> QED
      BY <2>2 DEF CanFrame
  <1>4. tool.stage # "rest"
    <2> SUFFICES ASSUME tool.stage = "rest" PROVE FALSE
      OBVIOUS
    <2>1. Head(fifo) \in Parts
      BY <1>0, AllHead DEF CalmIs, SendsRest
    <2> QED
      BY <2>1 DEF Parts
  <1>5. tool.stage # "answer"
    <2> SUFFICES ASSUME tool.stage = "answer" PROVE FALSE
      OBVIOUS
    <2>1. AwaitsServer(rx, tx, fifo, wire, offered)
      BY DEF CalmIs, AnswerSent
    <2>2. Head(fifo) \in Remaining(offered)
      BY <1>0, <2>1, AllHead DEF AwaitsServer
    <2> QED
      BY <2>2 DEF Remaining
  <1>6. ASSUME tool.stage = "collect"
        PROVE  Collects(rx', tx', Tail(fifo), wire', tool, offered, Delivered)
    <2>1. Collects(rx, tx, fifo, wire, tool, offered, Delivered)
      BY <1>6 DEF CalmIs
    <2>2. /\ ~rx.complete /\ Delivered = offered /\ tool.from = offered /\ tool.k > 0
          /\ tool.got = FirstLen + (tool.k - 1) * ChunkLen /\ tool.got < tool.total
          /\ fifo = <<FlowControl(BlockSize)>> /\ wire = <<>> /\ tool.k = 1
          /\ tx = Transmission(offered, tool.total)
      BY <2>1 DEF Collects
    <2>3. Head(fifo) = FlowControl(BlockSize) /\ Tail(fifo) = <<>>
      BY <2>2, AllOf
    <2> DEFINE b == IF BlockSize = 0 THEN NoLimit ELSE BlockSize
               t == [msg |-> offered, total |-> tool.total, sent |-> FirstLen, k |-> 0, pending |-> TRUE, block |-> b]
               m == BlockFrames(t)
    <2>4. Head(fifo).n = BlockSize /\ tx.pending
      BY <2>2, <2>3 DEF FlowControl, CanFrame, Transmission
    <2>5. [tx EXCEPT !.block = b] = t
      <3> HIDE DEF b
      <3>1. tx = [msg |-> offered, total |-> tool.total, sent |-> FirstLen, k |-> 0, pending |-> TRUE, block |-> 0]
        BY <2>2 DEF Transmission
      <3>2. tx = [msg |-> tx.msg, total |-> tx.total, sent |-> tx.sent, k |-> tx.k, pending |-> tx.pending, block |-> tx.block]
        BY Unfold DEF TxType
      <3>3. [tx EXCEPT !.block = b] = [msg |-> tx.msg, total |-> tx.total, sent |-> tx.sent, k |-> tx.k, pending |-> tx.pending, block |-> b]
        BY <3>2
      <3>4. tx.msg = offered /\ tx.total = tool.total /\ tx.sent = FirstLen /\ tx.k = 0
        BY <3>1
      <3>5. tx.pending = TRUE
        BY <3>1
      <3> QED
        BY <3>3, <3>4, <3>5
    <2>6. tx' = SentBlock(t) /\ wire' = wire \o [i \in 1 .. m |-> Consecutive(t.msg, t.k + i)]
      <3> DEFINE u == [tx EXCEPT !.block = IF Head(fifo).n = 0 THEN NoLimit ELSE Head(fifo).n]
      <3>1. tx' = SentBlock(u) /\ wire' = wire \o [i \in 1 .. BlockFrames(u) |-> Consecutive(u.msg, u.k + i)]
        BY <2>4 DEF HandleFc
      <3>2. u = t
        BY <2>4, <2>5
      <3> HIDE DEF u, t
      <3> QED
        BY <3>1, <3>2
    <2>7. tool.total \in Nat /\ FirstLen < tool.total /\ b \in Nat
      <3>1. tool.total \in Nat /\ (1 - 1) * ChunkLen = 0
        BY ToolIs, Constants
      <3> QED
        BY <2>2, <3>1, Constants
    <2>8. t.msg = offered /\ t.k = 0
      OBVIOUS
    <2> HIDE DEF t, b
    <2>9. m \in Nat /\ m <= Chunks(tool.total) /\ (m = Chunks(tool.total) => ~tx'.pending)
      BY <1>0, <2>6, <2>7, BlockAnswers DEF t
    <2> HIDE DEF m
    <2>10. /\ Len(wire') = m
           /\ \A i \in 1 .. m : wire'[i].type = "CF" /\ wire'[i].n = (1 + i - 1) % SeqMod
      <3> DEFINE v == [i \in 1 .. m |-> Consecutive(offered, 0 + i)]
      <3>1. wire' = wire \o v
        BY <2>6, <2>8 DEF m
      <3>2. \A i \in 1 .. m : Consecutive(offered, 0 + i) \in FrameType
        <4>1. \A i \in 1 .. m : 0 + i \in Nat
          BY <2>9
        <4> QED
          BY <1>0, <4>1, Constants DEF Consecutive, CanFrame, FrameType
      <3>3. v \in Seq(FrameType) /\ Len(v) = m
        BY <2>9, <3>2
      <3>4. \A i \in 1 .. m : v[i] = Consecutive(offered, 0 + i)
        OBVIOUS
      <3> HIDE DEF v
      <3>5. wire' = v
        BY <2>2, <3>1, <3>3
      <3>6. \A i \in 1 .. m : 0 + i = 1 + i - 1
        BY <2>9
      <3> QED
        BY <3>3, <3>4, <3>5, <3>6 DEF Consecutive, CanFrame
    <2>11. NumberedFrom(wire', tool.k)
      BY <2>2, <2>10 DEF NumberedFrom
    <2>12. tool.k + Len(wire') - 1 = m
      BY <2>2, <2>9, <2>10
    <2> QED
      BY <1>0, <2>2, <2>3, <2>9, <2>11, <2>12 DEF Collects
  <1> QED
    BY <1>2, <1>3, <1>4, <1>5, <1>6 DEF CalmIs

\* The server takes the request, and its answer is the first thing on the wire.
LEMMA CalmTake ==
    ASSUME IsoInv, Named, CalmIs(rx, tx, fifo, wire, tool, offered, Delivered), Take
    PROVE  CalmIs(rx', tx', fifo', wire', tool', offered', Delivered')
  <1>1. /\ fifo = <<>> /\ fifo' = <<>> /\ rx.complete
        /\ ~rx'.complete /\ rx'.state = "idle"
        /\ UNCHANGED <<tool, offered, kindOf>>
    BY Unfold DEF Take, toolVars, RxType
  <1>t. \/ /\ IF rx.buf[1][1] = 0 THEN UNCHANGED <<taken, takes>> ELSE taken' = rx.buf
           /\ Send(rx.buf[1][1], AnswerOf(rx.buf[1][1]))
        \/ UNCHANGED <<taken, tx, wire>>
    BY DEF Take
  <1>2. tool.stage \in {"idle", "answer"}
    <2>1. ~Quiet(rx, tx, fifo, wire)
      BY <1>1 DEF Quiet
    <2>2. ~AwaitsFlow(rx, tx, fifo, wire, Length[tool.script[tool.at]], offered)
      BY <1>1 DEF AwaitsFlow
    <2>3. ~SendsRest(rx, tx, fifo, wire, tool.k, Length[tool.script[tool.at]], offered)
      BY <1>1 DEF SendsRest
    <2>4. ~Collects(rx, tx, fifo, wire, tool, offered, Delivered)
      BY <1>1 DEF Collects
    <2>5. tool.stage \in {"idle", "send", "flow", "rest", "answer", "collect"}
      BY Unfold DEF ToolType
    <2> QED
      BY <2>1, <2>2, <2>3, <2>4, <2>5 DEF CalmIs
  <1>3. CASE tool.stage = "idle"
    BY <1>1, <1>3 DEF CalmIs
  <1>4. CASE tool.stage = "answer"
    <2>1. AwaitsServer(rx, tx, fifo, wire, offered) /\ tool.script[tool.at] \notin Silent
      BY <1>1, <1>4 DEF CalmIs, AnswerSent
    <2>2. wire = <<>> /\ ~tx.pending /\ Of(rx) = offered
      BY <1>1, <2>1 DEF AwaitsServer
    <2>3. kindOf[offered] = tool.script[tool.at] /\ rx.buf[1][1] = offered /\ rx.buf # <<>> /\ offered > 0
      BY <1>1, <1>4, <2>2, Unfold DEF Named, Kind, Of, Active
    <2>s. CASE UNCHANGED <<taken, tx, wire>>
      <3>1. AwaitsServer(rx', tx', fifo', wire', offered)
        BY <1>1, <2>2, <2>s, NothingIn DEF AwaitsServer
      <3> QED
        BY <1>1, <1>4, <2>1, <3>1 DEF CalmIs
    <2> SUFFICES ASSUME taken' = rx.buf, Send(offered, AnswerOf(offered))
                 PROVE  CalmIs(rx', tx', fifo', wire', tool', offered', Delivered')
      BY <1>t, <2>3, <2>s, Unfold
    <2>4. Delivered' = offered
      BY <2>3 DEF Delivered
    <2> DEFINE n == AnswerLength[tool.script[tool.at]]
    <2>5. Send(offered, n)
      <3>1. offered # 0
        BY <2>3
      <3>2. AnswerOf(offered) = n
        BY <2>3, <3>1 DEF AnswerOf
      <3> QED
        BY <3>2
    <2>6. n \in Nat
      <3>1. Kind \in Kinds
        BY <1>4, ToolIs
      <3> QED
        BY <3>1, IsoTpAssumption DEF IsoTpAssumption, Kind
    <2> HIDE DEF n
    <2>7. \/ AwaitsServer(rx', tx', fifo', wire', offered)
          \/ AnswerSent(rx', tx', fifo', wire', n, offered, offered)
      <3>1. CASE n > MaxPayload
        <4>1. UNCHANGED <<tx, wire>>
          BY <2>5, <3>1 DEF Send
        <4> QED
          BY <1>1, <2>2, <4>1, NothingIn DEF AwaitsServer
      <3>2. CASE ~(n > MaxPayload) /\ n <= SingleMax
        <4>1. wire' = Append(<<>>, CanFrame("SF", offered, 0, n)) /\ tx' = tx
          BY <2>2, <2>5, <3>2 DEF Send
        <4> QED
          BY <1>1, <2>2, <4>1 DEF AnswerSent
      <3>3. CASE ~(n > MaxPayload) /\ ~(n <= SingleMax)
        <4>1. wire' = Append(<<>>, CanFrame("FF", offered, 0, n)) /\ tx' = Transmission(offered, n)
          BY <2>2, <2>5, <3>3 DEF Send, Transmission
        <4>2. SingleMax < n
          BY <2>6, <3>3, Constants
        <4> QED
          BY <1>1, <4>1, <4>2 DEF AnswerSent
      <3> QED
        BY <3>1, <3>2, <3>3
    <2> QED
      BY <1>1, <1>4, <2>1, <2>4, <2>7 DEF CalmIs, n
  <1> QED
    BY <1>2, <1>3, <1>4

\* How an undisturbed run may end.
Silences == \A s \in Scripts : SilentLast(s)
EndsWell == tool.at = Len(tool.script) /\ (Kind \notin Silent => Delivered = offered /\ offered > 0)

LEMMA AfterSilence ==
    ASSUME IsoInv, Named, Silences, tool.stage # "idle"
    PROVE  IF Kind \in Silent THEN AfterRequest(tool) = NoTool /\ EndsWell
           ELSE AfterRequest(tool) = [tool EXCEPT !.stage = "answer"]
  <1>1. CASE Kind \in Silent
    <2>1. tool.script \in Scripts /\ tool.at \in 1 .. Len(tool.script)
      BY ToolIs DEF Named
    <2>2. tool.at = Len(tool.script)
      BY <1>1, <2>1 DEF Silences, SilentLast, Kind
    <2> QED
      BY <1>1, <2>2 DEF AfterRequest, Proceed, EndsWell
  <1>2. CASE Kind \notin Silent
    BY <1>2 DEF AfterRequest
  <1> QED
    BY <1>1, <1>2

LEMMA CalmStart ==
    ASSUME StartRun, calm'
    PROVE  CalmIs(rx', tx', fifo', wire', tool', offered', Delivered')
  <1>1. PICK s \in Scripts : tool' = [NoTool EXCEPT !.stage = "send", !.script = s]
    BY Zenon DEF StartRun
  <1>2. tool'.stage = "send"
    BY <1>1 DEF NoTool
  <1>3. fifo = <<>> /\ ~rx.complete /\ ~tx.pending /\ wire' = <<>> /\ UNCHANGED <<rx, tx, fifo>>
    BY DEF StartRun, ecuVars
  <1> QED
    BY <1>2, <1>3 DEF CalmIs, Quiet

LEMMA CalmSendFirst ==
    ASSUME IsoInv, Named, Silences, CalmIs(rx, tx, fifo, wire, tool, offered, Delivered), SendFirst
    PROVE  /\ CalmIs(rx', tx', fifo', wire', tool', offered', Delivered')
           /\ tool'.stage = "idle" => EndsWell
  <1> DEFINE len == Length[Kind]
  <1>1. /\ tool.stage = "send" /\ offered' = offered + 1 /\ UNCHANGED <<rx, tx, taken, wire>>
        /\ Len(fifo) < FifoSize /\ fifo = <<>> /\ wire = <<>> /\ ~rx.complete /\ ~tx.pending
    <2>1. Quiet(rx, tx, fifo, wire) /\ tool.stage = "send"
      BY DEF CalmIs, SendFirst
    <2>2. fifo = <<>> /\ Len(<<>>) = 0 /\ 0 < FifoSize
      BY <2>1, Constants DEF Quiet
    <2>3. Len(fifo) < FifoSize
      BY <2>2
    <2> QED
      BY <2>1, <2>2, <2>3 DEF Quiet, SendFirst, ecuVars
  <1>2. len \in Nat /\ offered' \in Nat
    <2>1. Length[Kind] \in Nat
      BY <1>1, ToolIs
    <2>2. offered \in Nat /\ offered' = offered + 1
      BY <1>1, Unfold
    <2> QED
      BY <2>1, <2>2
  <1>3. \A f : Post(f) => fifo' = <<f>>
    <2>1. \A f : Append(<<>>, f) = <<f>>
      OBVIOUS
    <2> QED
      BY <1>1, <2>1 DEF Post
  <1>4. CASE len <= SingleMax
    <2> DEFINE f == CanFrame("SF", offered', 0, len)
    <2>1. fifo' = <<f>> /\ tool' = AfterRequest(tool)
      BY <1>3, <1>4 DEF SendFirst
    <2>2. f \in FrameType /\ f \in Remaining(offered') /\ f \in NoCf
      BY <1>2 DEF CanFrame, FrameType, Remaining, NoCf
    <2> HIDE DEF f
    <2>3. CASE Kind \in Silent
      <3>1. tool'.stage = "idle" /\ EndsWell
        BY <1>1, <2>1, <2>3, AfterSilence, NoToolIs
      <3> QED
        BY <3>1 DEF CalmIs
    <2>4. CASE Kind \notin Silent
      <3>1. tool' = [tool EXCEPT !.stage = "answer"]
        BY <1>1, <2>1, <2>4, AfterSilence
      <3>2. tool'.stage = "answer" /\ tool'.script = tool.script /\ tool'.at = tool.at
        BY <3>1, Unfold DEF ToolType
      <3>3. AwaitsServer(rx', tx', fifo', wire', offered')
        BY <1>1, <2>1, <2>2, AllOf DEF AwaitsServer
      <3> QED
        BY <2>4, <3>2, <3>3 DEF CalmIs, Kind
    <2> QED
      BY <2>3, <2>4
  <1>5. CASE ~(len <= SingleMax)
    <2> DEFINE f == CanFrame("FF", offered', 0, len)
    <2>1. fifo' = <<f>> /\ tool' = [tool EXCEPT !.stage = "flow"]
      BY <1>3, <1>5 DEF SendFirst
    <2>2. tool'.stage = "flow" /\ tool'.script = tool.script /\ tool'.at = tool.at
      BY <2>1, Unfold DEF ToolType
    <2>3. SingleMax < len
      BY <1>2, <1>5, Constants
    <2>4. Length[tool'.script[tool'.at]] = len
      BY <2>2 DEF Kind
    <2> HIDE DEF len
    <2>5. AwaitsFlow(rx', tx', fifo', wire', len, offered')
      BY <1>1, <2>1, <2>3 DEF AwaitsFlow
    <2> QED
      BY <2>2, <2>4, <2>5 DEF CalmIs
  <1> QED
    BY <1>4, <1>5

LEMMA CalmGetFlowControl ==
    ASSUME IsoInv, CalmIs(rx, tx, fifo, wire, tool, offered, Delivered), GetFlowControl
    PROVE  /\ CalmIs(rx', tx', fifo', wire', tool', offered', Delivered')
           /\ tool'.stage # "idle"
  <1> DEFINE len == Length[tool.script[tool.at]]
  <1>1. tool.stage = "flow" /\ wire # <<>> /\ wire' = Tail(wire) /\ UNCHANGED <<rx, tx, taken, fifo, offered>>
    BY DEF GetFlowControl, ecuVars
  <1>2. len \in Nat
    BY <1>1, ToolIs DEF Kind
  <1> HIDE DEF len
  <1>3. AwaitsFlow(rx, tx, fifo, wire, len, offered)
    BY <1>1 DEF CalmIs, len
  <1>4. /\ ~rx.complete /\ ~tx.pending /\ SingleMax < len
        /\ wire = <<FlowControl(BlockSize)>> /\ fifo = <<>>
        /\ rx.state = "in_progress" /\ Of(rx) = offered /\ rx.received = FirstLen /\ rx.total = len
    BY <1>1, <1>3 DEF AwaitsFlow
  <1>5. wire' = <<>> /\ Head(wire).type = "FC"
    BY <1>1, <1>4, AllOf DEF FlowControl, CanFrame
  <1>6. tool' = [tool EXCEPT !.stage = "rest", !.k = 1]
    BY <1>5 DEF GetFlowControl
  <1>7. tool'.stage = "rest" /\ tool'.script = tool.script /\ tool'.at = tool.at /\ tool'.k = 1
    BY <1>6, Unfold DEF ToolType
  <1>8. 1 \in 1 .. Chunks(len) /\ FirstLen <= FirstLen + (1 - 1 - 0) * ChunkLen
    <2>1. FirstLen < len
      BY <1>2, <1>4, Constants
    <2>2. Chunks(len) \in Nat /\ Chunks(len) >= 1
      BY <1>2, <2>1, ChunksAre
    <2>3. (1 - 1 - 0) * ChunkLen = 0
      BY Constants
    <2> QED
      BY <2>2, <2>3, Constants
  <1>9. Len(<<>>) = 0 /\ All(<<>>, Parts)
    BY NothingIn
  <1>10. SendsRest(rx, tx, <<>>, <<>>, 1, len, offered)
    BY <1>4, <1>8, <1>9 DEF SendsRest
  <1>11. Length[tool'.script[tool'.at]] = len
    BY <1>7 DEF len
  <1>12. SendsRest(rx', tx', fifo', wire', tool'.k, Length[tool'.script[tool'.at]], offered')
    BY <1>1, <1>4, <1>5, <1>7, <1>10, <1>11
  <1> QED
    BY <1>7, <1>12 DEF CalmIs

LEMMA CalmSendRest ==
    ASSUME IsoInv, Named, Silences, CalmIs(rx, tx, fifo, wire, tool, offered, Delivered), SendRest, calm'
    PROVE  /\ CalmIs(rx', tx', fifo', wire', tool', offered', Delivered')
           /\ tool'.stage = "idle" => EndsWell
  <1> DEFINE len == Length[tool.script[tool.at]]
             f == Consecutive(offered, tool.k)
  <1>1. /\ tool.stage = "rest" /\ Post(f) /\ UNCHANGED <<rx, tx, taken, wire, offered>>
        /\ tool' = IF tool.k = Chunks(len) THEN AfterRequest(tool) ELSE [tool EXCEPT !.k = @ + 1]
    BY DEF SendRest, ecuVars, Kind
  <1>2. len \in Nat /\ tool.k \in Nat /\ offered \in Nat /\ Length[Kind] = len
    BY <1>1, ToolIs, Unfold DEF Kind
  <1>3. f \in FrameType /\ f \in Parts
    BY <1>2, Constants DEF Consecutive, CanFrame, FrameType, Parts
  <1> HIDE DEF f, len
  <1>4. SendsRest(rx, tx, fifo, wire, tool.k, len, offered)
    BY <1>1 DEF CalmIs, len
  <1>5. /\ ~rx.complete /\ ~tx.pending /\ SingleMax < len /\ wire = <<>> /\ All(fifo, Parts)
        /\ tool.k \in 1 .. Chunks(len) /\ Len(fifo) < tool.k
        /\ rx.state = "in_progress" => /\ Of(rx) = offered /\ rx.total = len
                                       /\ rx.received <= FirstLen + (tool.k - 1 - Len(fifo)) * ChunkLen
    BY <1>4 DEF SendsRest
  <1>6. fifo' = Append(fifo, f)
    BY <1>1, Zenon DEF Post
  <1>7. fifo \in Seq(FrameType) /\ Len(fifo) \in Nat
    BY CalmParts
  <1>8. All(fifo', Parts) /\ Len(fifo') = Len(fifo) + 1
    BY <1>3, <1>5, <1>6, <1>7, AllAppend, AppendProperties
  <1>9. CASE tool.k # Chunks(len)
    <2>1. tool' = [tool EXCEPT !.k = tool.k + 1]
      BY <1>1, <1>9
    <2>2. tool'.stage = "rest" /\ tool'.script = tool.script /\ tool'.at = tool.at /\ tool'.k = tool.k + 1
      BY <1>1, <2>1, Unfold DEF ToolType
    <2>3. tool.k + 1 \in 1 .. Chunks(len) /\ Len(fifo') < tool.k + 1
      <3>1. FirstLen < len
        BY <1>2, <1>5, Constants
      <3>2. Chunks(len) \in Nat
        BY <1>2, <3>1, ChunksAre
      <3> QED
        BY <1>2, <1>5, <1>7, <1>8, <1>9, <3>2
    <2>4. tool.k + 1 - 1 - Len(fifo') = tool.k - 1 - Len(fifo)
      BY <1>2, <1>7, <1>8
    <2>5. SendsRest(rx, tx, fifo', <<>>, tool.k + 1, len, offered)
      <3> DEFINE j == tool.k + 1
      <3>1. rx.state = "in_progress" => rx.received <= FirstLen + (j - 1 - Len(fifo')) * ChunkLen
        BY <1>5, <2>4
      <3>2. j \in 1 .. Chunks(len) /\ Len(fifo') < j
        BY <2>3
      <3> HIDE DEF j
      <3>3. SendsRest(rx, tx, fifo', <<>>, j, len, offered)
        BY <1>5, <1>8, <3>1, <3>2 DEF SendsRest
      <3> QED
        BY <3>3 DEF j
    <2>6. Length[tool'.script[tool'.at]] = len
      BY <2>2 DEF len
    <2>7. SendsRest(rx', tx', fifo', wire', tool'.k, Length[tool'.script[tool'.at]], offered')
      BY <1>1, <1>5, <2>2, <2>5, <2>6
    <2> QED
      BY <2>2, <2>7 DEF CalmIs
  <1>10. CASE tool.k = Chunks(len) /\ Kind \in Silent
    <2>1. tool'.stage = "idle" /\ EndsWell
      BY <1>1, <1>10, AfterSilence, NoToolIs
    <2> QED
      BY <2>1 DEF CalmIs
  <1>11. CASE tool.k = Chunks(len) /\ Kind \notin Silent
    <2>1. tool' = [tool EXCEPT !.stage = "answer"]
      BY <1>1, <1>11, AfterSilence
    <2>2. tool'.stage = "answer" /\ tool'.script = tool.script /\ tool'.at = tool.at
      BY <2>1, Unfold DEF ToolType
    <2>3. All(fifo', Remaining(offered))
      <3>1. Parts \subseteq Remaining(offered)
        BY DEF Parts, Remaining
      <3> QED
        BY <1>8, <3>1, AllWeaker
    <2>4. AwaitsServer(rx', tx', fifo', wire', offered')
      BY <1>1, <1>5, <2>3 DEF AwaitsServer
    <2> QED
      BY <1>11, <2>2, <2>4 DEF CalmIs, Kind
  <1> QED
    BY <1>9, <1>10, <1>11

\* The answer is of the request: the tool goes on with the script, or ends it.
LEMMA CalmAccepted ==
    ASSUME IsoInv, Named, tool.stage \notin {"idle", "send"}, Delivered = offered,
           tool' = Answered(tool, offered), UNCHANGED <<rx, tx, taken, fifo, offered>>,
           ~rx.complete, ~tx.pending, fifo = <<>>, wire' = <<>>
    PROVE  /\ CalmIs(rx', tx', fifo', wire', tool', offered', Delivered')
           /\ tool'.stage = "idle" => EndsWell
  <1>1. kindOf[offered] = Kind /\ offered > 0
    BY DEF Named
  <1>2. tool' = Proceed(tool)
    BY <1>1 DEF Answered
  <1>3. CASE tool.at = Len(tool.script)
    <2>1. tool'.stage = "idle"
      BY <1>2, <1>3, NoToolIs DEF Proceed
    <2> QED
      BY <1>1, <1>3, <2>1 DEF CalmIs, EndsWell
  <1>4. CASE tool.at # Len(tool.script)
    <2>1. tool' = [NoTool EXCEPT !.stage = "send", !.script = tool.script, !.at = tool.at + 1]
      BY <1>2, <1>4 DEF Proceed
    <2>2. tool'.stage = "send"
      BY <2>1 DEF NoTool
    <2> QED
      BY <2>2 DEF CalmIs, Quiet
  <1> QED
    BY <1>3, <1>4

LEMMA CalmGetAnswer ==
    ASSUME IsoInv, Named, CalmIs(rx, tx, fifo, wire, tool, offered, Delivered), GetAnswer
    PROVE  /\ CalmIs(rx', tx', fifo', wire', tool', offered', Delivered')
           /\ tool'.stage = "idle" => EndsWell
  <1> DEFINE n == AnswerLength[tool.script[tool.at]]
  <1>1. tool.stage = "answer" /\ wire # <<>> /\ wire' = Tail(wire) /\ UNCHANGED <<rx, tx, taken, offered>>
    BY DEF GetAnswer, ecuVars
  <1>2. AnswerSent(rx, tx, fifo, wire, n, offered, Delivered) /\ tool.script[tool.at] \notin Silent
    BY <1>1 DEF CalmIs, AwaitsServer
  <1>3. n \in Nat
    <2>1. Kind \in Kinds
      BY <1>1, ToolIs
    <2> QED
      BY <2>1, IsoTpAssumption DEF IsoTpAssumption, Kind
  <1> HIDE DEF n
  <1>4. fifo = <<>> /\ ~rx.complete /\ Delivered = offered
    BY <1>2 DEF AnswerSent
  <1>5. CASE wire = <<CanFrame("SF", offered, 0, n)>> /\ ~tx.pending
    <2>1. wire' = <<>> /\ Head(wire) = CanFrame("SF", offered, 0, n)
      BY <1>1, <1>5, AllOf
    <2>2. Head(wire).type = "SF" /\ Head(wire).msg = offered
      BY <2>1 DEF CanFrame
    <2>n. offered > 0 /\ offered \in Nat
      BY <1>1, Unfold DEF Named
    <2>3. tool' = Answered(tool, offered) /\ UNCHANGED fifo
      BY <2>2, <2>n DEF GetAnswer
    <2> QED
      BY <1>1, <1>4, <1>5, <2>1, <2>3, CalmAccepted
  <1>6. CASE /\ wire = <<CanFrame("FF", offered, 0, n)>> /\ SingleMax < n
             /\ tx = Transmission(offered, n)
    <2>1. wire' = <<>> /\ Head(wire) = CanFrame("FF", offered, 0, n)
      BY <1>1, <1>6, AllOf
    <2>2. Head(wire).type = "FF" /\ Head(wire).msg = offered /\ Head(wire).n = n
      BY <2>1 DEF CanFrame
    <2>3. /\ tool' = [tool EXCEPT !.stage = "collect", !.k = 1, !.got = FirstLen, !.total = n, !.from = offered]
          /\ Post(FlowControl(BlockSize))
      BY <2>2 DEF GetAnswer
    <2>4. tool' = [stage |-> "collect", script |-> tool.script, at |-> tool.at, k |-> 1, got |-> FirstLen,
                   total |-> n, from |-> offered]
      BY <2>3, ToolIs
    <2>5. fifo' = <<FlowControl(BlockSize)>>
      <3>1. Len(<<>>) = 0 /\ 0 < FifoSize /\ Append(<<>>, FlowControl(BlockSize)) = <<FlowControl(BlockSize)>>
        BY Constants
      <3>2. Len(fifo) < FifoSize
        BY <1>4, <3>1
      <3> QED
        BY <1>4, <2>3, <3>1, <3>2 DEF Post
    <2>6. /\ FirstLen = FirstLen + (1 - 1) * ChunkLen /\ FirstLen < n
      BY <1>3, <1>6, Constants
    <2>7. Delivered' = Delivered
      BY <1>1 DEF Delivered
    <2>8. /\ tool'.stage = "collect" /\ tool'.script = tool.script /\ tool'.at = tool.at /\ tool'.k = 1
          /\ tool'.got = FirstLen /\ tool'.total = n /\ tool'.from = offered
      BY <2>4
    <2>9. Collects(rx', tx', fifo', wire', tool', offered', Delivered')
      BY <1>1, <1>4, <1>6, <2>1, <2>5, <2>6, <2>7, <2>8 DEF Collects
    <2> QED
      BY <1>2, <2>8, <2>9 DEF CalmIs
  <1> QED
    BY <1>2, <1>5, <1>6 DEF AnswerSent

\* The next part of the answer is what the tool has, and after the last there is
\* nothing more.
LEMMA NextCollected ==
    ASSUME NEW k \in Nat, NEW n \in Nat, NEW w \in Seq(FrameType), w # <<>>, k > 0, NEW got, NEW got2,
           got = FirstLen + (k - 1) * ChunkLen, got < n, got2 = Min(got + ChunkLen, n),
           NumberedFrom(w, k), k + Len(w) - 1 <= Chunks(n)
    PROVE  /\ Head(w).type = "CF" /\ Head(w).n = k % SeqMod
           /\ NumberedFrom(Tail(w), k + 1) /\ k + 1 + Len(Tail(w)) - 1 = k + Len(w) - 1
           /\ ~(got2 >= n) => got2 = FirstLen + (k + 1 - 1) * ChunkLen /\ got2 < n
           /\ got2 >= n => Tail(w) = <<>> /\ k + Len(w) - 1 = Chunks(n)
  <1>1. /\ Len(w) \in Nat /\ Len(w) > 0 /\ Head(w) = w[1] /\ 1 \in 1 .. Len(w)
        /\ Tail(w) \in Seq(FrameType) /\ Len(Tail(w)) = Len(w) - 1
        /\ \A i \in 1 .. Len(Tail(w)) : i + 1 \in 1 .. Len(w) /\ Tail(w)[i] = w[i + 1]
    BY EmptySeq, HeadTailProperties
  <1>2. Head(w).type = "CF" /\ Head(w).n = k % SeqMod
    <2>1. k + 1 - 1 = k
      OBVIOUS
    <2> QED
      BY <1>1, <2>1 DEF NumberedFrom
  <1>3. NumberedFrom(Tail(w), k + 1)
    <2>1. ASSUME NEW i \in 1 .. Len(Tail(w))
          PROVE  Tail(w)[i].type = "CF" /\ Tail(w)[i].n = (k + 1 + i - 1) % SeqMod
      <3>1. k + (i + 1) - 1 = k + 1 + i - 1
        BY <1>1
      <3>2. w[i + 1].type = "CF" /\ w[i + 1].n = (k + (i + 1) - 1) % SeqMod
        BY <1>1 DEF NumberedFrom
      <3> QED
        BY <1>1, <3>1, <3>2
    <2> QED
      BY <2>1 DEF NumberedFrom
  <1>4. /\ ChunkLen \in Nat /\ ChunkLen > 0 /\ FirstLen \in Nat /\ k - 1 \in Nat /\ (k - 1) * ChunkLen \in Nat
        /\ k * ChunkLen = (k - 1) * ChunkLen + ChunkLen /\ k * ChunkLen \in Nat /\ k + 1 - 1 = k
    <2>1. ChunkLen \in Nat /\ ChunkLen > 0 /\ FirstLen \in Nat /\ k - 1 \in Nat /\ k + 1 - 1 = k
      BY Constants
    <2>2. (k - 1) * ChunkLen \in Nat /\ k * ChunkLen \in Nat
      BY <2>1, Product
    <2>3. k * ChunkLen = (k - 1) * ChunkLen + ChunkLen
      BY <2>1
    <2> QED
      BY <2>1, <2>2, <2>3
  <1>5. got + ChunkLen = FirstLen + k * ChunkLen /\ got \in Nat /\ FirstLen < n
    BY <1>4
  <1>6. ~(got2 >= n) => got2 = FirstLen + k * ChunkLen /\ got2 < n
    <2> DEFINE g == got + ChunkLen
    <2>1. g \in Nat /\ g = FirstLen + k * ChunkLen
      BY <1>4, <1>5
    <2> HIDE DEF g
    <2>2. got2 = Min(g, n)
      BY DEF g
    <2> QED
      BY <2>1, <2>2 DEF Min
  <1>7. ASSUME got2 >= n
        PROVE  Tail(w) = <<>> /\ k + Len(w) - 1 = Chunks(n)
    <2> DEFINE g == got + ChunkLen
    <2>1. g \in Nat /\ g = FirstLen + k * ChunkLen
      BY <1>4, <1>5
    <2> HIDE DEF g
    <2>2. got2 = Min(g, n)
      BY DEF g
    <2>3. FirstLen + k * ChunkLen >= n
      BY <1>7, <2>1, <2>2 DEF Min
    <2>4. Chunks(n) <= k /\ Chunks(n) \in Nat
      BY <1>5, <2>3, ChunksAre
    <2>5. Len(w) = 1 /\ k + Len(w) - 1 = Chunks(n)
      BY <1>1, <2>4
    <2>6. Len(Tail(w)) = 0
      BY <1>1, <2>5
    <2> QED
      BY <1>1, <2>5, <2>6, EmptySeq
  <1>8. k + 1 + Len(Tail(w)) - 1 = k + Len(w) - 1
    BY <1>1
  <1> QED
    BY <1>2, <1>3, <1>4, <1>6, <1>7, <1>8

LEMMA CalmCollect ==
    ASSUME IsoInv, Named, CalmIs(rx, tx, fifo, wire, tool, offered, Delivered), Collect
    PROVE  /\ CalmIs(rx', tx', fifo', wire', tool', offered', Delivered')
           /\ tool'.stage = "idle" => EndsWell
  <1> DEFINE got == Min(tool.got + ChunkLen, tool.total)
             n == tool.total
             k == tool.k
  <1>1. tool.stage = "collect" /\ wire # <<>> /\ wire' = Tail(wire) /\ UNCHANGED <<rx, tx, taken, fifo, offered>>
    BY DEF Collect, ecuVars
  <1>2. Collects(rx, tx, fifo, wire, tool, offered, Delivered) /\ tool.script[tool.at] \notin Silent
    BY <1>1 DEF CalmIs
  <1>3. /\ ~rx.complete /\ Delivered = offered /\ tool.from = offered /\ k > 0
        /\ tool.got = FirstLen + (k - 1) * ChunkLen /\ tool.got < n
        /\ fifo = <<>> /\ NumberedFrom(wire, k) /\ k + Len(wire) - 1 <= Chunks(n)
        /\ k + Len(wire) - 1 = Chunks(n) => ~tx.pending
    BY <1>1, <1>2 DEF Collects
  <1>4. k \in Nat /\ n \in Nat /\ wire \in Seq(FrameType)
    BY ToolIs, Unfold
  <1>9. got = Min(tool.got + ChunkLen, n)
    OBVIOUS
  <1>10. tool' = IF Head(wire).type # "CF" \/ Head(wire).n # k % SeqMod THEN NoTool
                 ELSE IF got >= n THEN Answered(tool, tool.from) ELSE [tool EXCEPT !.got = got, !.k = k + 1]
    BY DEF Collect
  <1> HIDE DEF got, n, k
  <1>5. /\ Head(wire).type = "CF" /\ Head(wire).n = k % SeqMod
        /\ NumberedFrom(Tail(wire), k + 1) /\ k + 1 + Len(Tail(wire)) - 1 = k + Len(wire) - 1
        /\ ~(got >= n) => got = FirstLen + (k + 1 - 1) * ChunkLen /\ got < n
        /\ got >= n => Tail(wire) = <<>> /\ k + Len(wire) - 1 = Chunks(n)
    BY <1>1, <1>3, <1>4, <1>9, NextCollected
  <1>6. tool' = IF got >= n THEN Answered(tool, tool.from) ELSE [tool EXCEPT !.got = got, !.k = k + 1]
    BY <1>5, <1>10
  <1>7. CASE got >= n
    <2>1. tool' = Answered(tool, offered) /\ ~tx.pending /\ wire' = <<>>
      BY <1>1, <1>3, <1>5, <1>6, <1>7
    <2> QED
      BY <1>1, <1>3, <2>1, CalmAccepted
  <1>8. CASE ~(got >= n)
    <2>1. tool' = [tool EXCEPT !.got = got, !.k = k + 1]
      BY <1>6, <1>8
    <2>2. /\ tool'.stage = "collect" /\ tool'.script = tool.script /\ tool'.at = tool.at
          /\ tool'.k = k + 1 /\ tool'.got = got /\ tool'.total = n /\ tool'.from = offered
      BY <1>1, <1>3, <2>1, Unfold DEF ToolType, n
    <2>3. Delivered' = Delivered
      BY <1>1 DEF Delivered
    <2>4. k + 1 > 0
      BY <1>4
    <2> DEFINE j == k + 1
    <2>5. /\ j > 0 /\ got = FirstLen + (j - 1) * ChunkLen /\ got < n
          /\ NumberedFrom(Tail(wire), j) /\ j + Len(Tail(wire)) - 1 <= Chunks(n)
          /\ j + Len(Tail(wire)) - 1 = Chunks(n) => ~tx.pending
      <3>1. j > 0 /\ got = FirstLen + (j - 1) * ChunkLen /\ got < n /\ NumberedFrom(Tail(wire), j)
        <4>1. got = FirstLen + (j - 1) * ChunkLen
          BY <1>4, <1>5, <1>8, Constants
        <4>2. got < n
          BY <1>5, <1>8
        <4>3. NumberedFrom(Tail(wire), j)
          BY <1>5
        <4> HIDE DEF j
        <4>4. j > 0
          BY <2>4 DEF j
        <4> QED
          BY <4>1, <4>2, <4>3, <4>4
      <3>2. j + Len(Tail(wire)) - 1 = k + Len(wire) - 1
        BY <1>5
      <3> QED
        BY <1>3, <3>1, <3>2
    <2>6. tool'.k = j
      BY <2>2
    <2> HIDE DEF j
    <2>7. Collects(rx', tx', fifo', wire', tool', offered', Delivered')
      BY <1>1, <1>3, <2>2, <2>3, <2>5, <2>6 DEF Collects
    <2> QED
      BY <1>2, <2>2, <2>7 DEF CalmIs
  <1> QED
    BY <1>7, <1>8

LEMMA CalmPollFrame ==
    ASSUME IsoInv, CalmIs(rx, tx, fifo, wire, tool, offered, Delivered), PollFrame
    PROVE  CalmIs(rx', tx', fifo', wire', tool', offered', Delivered') /\ tool' = tool
  <1>1. fifo # <<>> /\ fifo' = Tail(fifo) /\ UNCHANGED <<taken, tool, offered>>
    BY DEF PollFrame, toolVars
  <1>2. CalmIs(rx', tx', Tail(fifo), wire', tool, offered, Delivered)
    <2>1. CASE Head(fifo).type \in {"OVF", "none"}
      <3>0. fifo \in Seq(FrameType)
        BY CalmParts
      <3>1. tool.stage # "send"
        BY <1>1 DEF CalmIs, Quiet
      <3>2. tool.stage # "flow"
        <4> SUFFICES ASSUME tool.stage = "flow" PROVE FALSE
          OBVIOUS
        <4>1. Head(fifo) = CanFrame("FF", offered, 0, Length[tool.script[tool.at]])
          BY <1>1, AllOf DEF CalmIs, AwaitsFlow
        <4> QED
          BY <2>1, <4>1 DEF CanFrame
      <3>3. tool.stage # "rest"
        <4> SUFFICES ASSUME tool.stage = "rest" PROVE FALSE
          OBVIOUS
        <4>1. Head(fifo) \in Parts
          BY <1>1, <3>0, AllHead DEF CalmIs, SendsRest
        <4> QED
          BY <2>1, <4>1 DEF Parts
      <3>4. tool.stage # "answer"
        <4> SUFFICES ASSUME tool.stage = "answer" PROVE FALSE
          OBVIOUS
        <4>1. AwaitsServer(rx, tx, fifo, wire, offered)
          BY <1>1 DEF CalmIs, AnswerSent
        <4>2. Head(fifo) \in Remaining(offered)
          BY <1>1, <3>0, <4>1, AllHead DEF AwaitsServer
        <4> QED
          BY <2>1, <4>2 DEF Remaining
      <3>5. tool.stage # "collect"
        <4> SUFFICES ASSUME tool.stage = "collect" PROVE FALSE
          OBVIOUS
        <4>1. Head(fifo) = FlowControl(BlockSize)
          BY <1>1, AllOf DEF CalmIs, Collects
        <4> QED
          BY <2>1, <4>1 DEF FlowControl, CanFrame
      <3> QED
        BY <3>1, <3>2, <3>3, <3>4, <3>5 DEF CalmIs
    <2>2. CASE Head(fifo).type \notin {"OVF", "none"}
      <3>1. \/ Head(fifo).type = "SF" /\ HandleSf(Head(fifo))
            \/ Head(fifo).type = "FF" /\ HandleFf(Head(fifo))
            \/ Head(fifo).type = "CF" /\ HandleCf(Head(fifo))
            \/ Head(fifo).type = "FC" /\ HandleFc(Head(fifo))
        BY <2>2 DEF PollFrame
      <3> QED
        BY <1>1, <3>1, CalmSf, CalmFf, CalmCf, CalmFc
    <2> QED
      BY <2>1, <2>2
  <1>3. Delivered' = Delivered
    BY <1>1 DEF Delivered
  <1> QED
    BY <1>1, <1>2, <1>3

LEMMA CalmStep ==
    ASSUME IsoInv, CalmInv, Silences, [IsoNext]_isoVars
    PROVE  CalmInv' /\ (calm /\ tool.stage # "idle" /\ calm' /\ tool'.stage = "idle" => EndsWell)
  <1>1. Named /\ Named'
    BY NamedStep DEF CalmInv
  <1> DEFINE I2 == CalmIs(rx', tx', fifo', wire', tool', offered', Delivered')
             E == tool.stage # "idle" /\ tool'.stage = "idle" => EndsWell
  <1>2. SUFFICES ASSUME calm'
                 PROVE  I2 /\ (calm => E)
    BY <1>1 DEF CalmInv
  <1>3. CASE StartRun
    <2>1. tool.stage = "idle"
      BY <1>3 DEF StartRun
    <2> QED
      BY <1>2, <1>3, <2>1, CalmStart
  <1>4. CASE ~StartRun
    <2>1. calm
      <3>1. CASE SendFirst \/ SendRest
        BY <1>2, <3>1, Zenon DEF SendFirst, SendRest, Post
      <3>2. CASE GetAnswer
        BY <1>2, <3>2, Zenon DEF GetAnswer, Post
      <3>3. CASE PollFrame \/ Take \/ GetFlowControl \/ Collect \/ UNCHANGED isoVars
        BY <1>2, <3>3, Zenon DEF PollFrame, Take, GetFlowControl, Collect, isoVars, pastVars
      <3>4. ~(RxTimeout \/ ToolGivesUp \/ LoseFrame \/ ForeignFrame)
        BY <1>2, Zenon DEF RxTimeout, ToolGivesUp, LoseFrame, ForeignFrame
      <3> QED
        BY <1>4, <3>1, <3>2, <3>3, <3>4, Zenon DEF IsoNext, ToolStep
    <2>2. CalmIs(rx, tx, fifo, wire, tool, offered, Delivered)
      BY <2>1 DEF CalmInv
    <2>3. CASE PollFrame
      BY <2>2, <2>3, CalmPollFrame
    <2>4. CASE Take
      <3>1. tool' = tool
        BY <2>4 DEF Take, toolVars
      <3> QED
        BY <1>1, <2>2, <2>4, <3>1, CalmTake
    <2>5. CASE ToolStep
      BY <1>1, <1>2, <2>2, <2>5, CalmSendFirst, CalmGetFlowControl, CalmSendRest, CalmGetAnswer, CalmCollect
         DEF ToolStep
    <2>6. CASE UNCHANGED isoVars
      <3>1. UNCHANGED <<rx, tx, fifo, wire, tool, offered, taken>>
        BY <2>6 DEF isoVars, ecuVars, toolVars
      <3> QED
        BY <2>2, <3>1 DEF Delivered
    <2>7. ~(RxTimeout \/ ToolGivesUp \/ LoseFrame \/ ForeignFrame)
      BY <1>2, Zenon DEF RxTimeout, ToolGivesUp, LoseFrame, ForeignFrame
    <2> QED
      BY <1>4, <2>3, <2>4, <2>5, <2>6, <2>7 DEF IsoNext
  <1> QED
    BY <1>3, <1>4

\* A run of UdsClient that begins against an idle transport and is not disturbed ends
\* only with the last request of its script, and then the server has that request: no
\* request is refused by isotp.c, and nothing is mistaken for an answer.
THEOREM UndisturbedRunsSucceed ==
    ASSUME \A s \in Scripts : SilentLast(s)
    PROVE  IsoSpec => UndisturbedRunSucceeds
  <1> DEFINE Success == calm /\ tool.stage # "idle" /\ calm' /\ tool'.stage = "idle" =>
                          /\ tool.at = Len(tool.script)
                          /\ Kind \notin Silent => taken # <<>> /\ taken[1][1] = offered
  <1>1. Silences
    BY DEF Silences
  <1>2. IsoInit => IsoInv /\ CalmInv
    BY IsoInitInv DEF IsoInit, NoTool, CalmInv, Named
  <1>3. IsoInv /\ CalmInv /\ [IsoNext]_isoVars => IsoInv' /\ CalmInv' /\ Success
    <2> SUFFICES ASSUME IsoInv, CalmInv, [IsoNext]_isoVars
                 PROVE  IsoInv' /\ CalmInv' /\ Success
      OBVIOUS
    <2>1. IsoInv'
      BY IsoStepInv
    <2>2. CalmInv' /\ (calm /\ tool.stage # "idle" /\ calm' /\ tool'.stage = "idle" => EndsWell)
      BY <1>1, CalmStep
    <2>3. EndsWell => /\ tool.at = Len(tool.script)
                      /\ Kind \notin Silent => taken # <<>> /\ taken[1][1] = offered
      BY DEF EndsWell, Delivered
    <2> QED
      BY <2>1, <2>2, <2>3
  <1>4. IsoSpec => [][Success]_isoVars
    BY <1>2, <1>3, PTL DEF IsoSpec
  <1> QED
    BY <1>4 DEF UndisturbedRunSucceeds

-----------------------------------------------------------------------------
(***************************************************************************)
(* The body control, for any number of changes of the door.                *)
(*                                                                         *)
(* A report of the door passes a receive buffer, a transmit buffer and the *)
(* bus on its way to the gateway, and the command that answers it passes   *)
(* as many on its way back.  The inductive invariant cuts that pipeline at *)
(* five numbers of changes: what a stage holds says what the door was at   *)
(* one of the changes between the numbers at its two ends.                 *)
(***************************************************************************)
\* What queues and buffers hold, for any bound on the changes of the door.
Item == [id : Id, value : Nat, at : Nat, epoch : Nat]

Light(k) == IF k % 2 = 1 THEN 100 ELSE 0

\* A frame that says what the door was at some change from a to b.
Says(f, kind, a, b) ==
    /\ a <= f.at /\ f.at <= b
    /\ kind = "light" => f.value = Light(f.at)
    /\ kind = "report" => f.value = f.at % 2

Fits(f, kind, a, b) ==
    /\ f \in Item
    /\ f.id \in {"sync", kind}
    /\ f.id = kind => Says(f, kind, a, b)

\* A queue and a buffer of the way from the door to the light.
Stage(q, kind, a, b) ==
    /\ q \in Seq(Item)
    /\ \A i \in 1 .. Len(q) : Fits(q[i], kind, a, b)
    /\ \A i, j \in 1 .. Len(q) :
          i < j /\ q[i].id = kind /\ q[j].id = kind => q[i].at <= q[j].at

Slot(f, kind, a, b) == f = None \/ Fits(f, kind, a, b)

Reports == {f \in Item : f.id = "report"}

\* The way is cut at five points; what is between two of them is not older than
\* what is behind the one and not newer than what is before the other.
Flow(a, b, c, d, e) ==
    /\ shown <= a /\ a <= b /\ b <= c /\ c <= d /\ d <= e /\ e <= changes
    /\ Stage(raw["B"], "light", shown, a)
    /\ Slot(txbuf["A"], "light", a, b)
    /\ Slot(out, "light", b, c)
    /\ Stage(app, "report", c, d)
    /\ Stage(raw["A"], "report", d, e)
    /\ Slot(txbuf["B"], "report", e, changes)

SecocType == epoch \in [Node -> Nat] /\ floor \in [Node -> Nat] /\ seen \in [Node -> Nat]

BodyType ==
    /\ SecocType
    /\ changes \in Nat /\ shown \in Nat
    /\ raw \in [Node -> Seq(Item)]
    /\ txbuf \in [Node -> Item \cup {None}]
    /\ app \in Seq(Reports)

BodyInv == BodyType /\ \E a, b, c, d, e \in Nat : Flow(a, b, c, d, e)
-----------------------------------------------------------------------------
LEMMA FitsWider ==
    ASSUME NEW f, NEW kind, NEW a \in Nat, NEW b \in Nat, NEW c \in Nat, NEW d \in Nat,
           Fits(f, kind, a, b), c <= a, b <= d
    PROVE  Fits(f, kind, c, d)
  BY DEF Fits, Says, Item

LEMMA EmptyStage ==
    ASSUME NEW kind, NEW a, NEW b
    PROVE  Stage(<<>>, kind, a, b)
  BY DEF Stage

LEMMA StageWider ==
    ASSUME NEW q, NEW kind, NEW a \in Nat, NEW b \in Nat, NEW c \in Nat, NEW d \in Nat,
           Stage(q, kind, a, b), c <= a, b <= d
    PROVE  Stage(q, kind, c, d)
  BY FitsWider DEF Stage

\* A queue takes a frame at its end, not older than what it holds.
LEMMA StageQueued ==
    ASSUME NEW q, NEW kind, NEW a \in Nat, NEW b \in Nat, NEW c \in Nat, NEW f, NEW depth,
           Stage(q, kind, a, b), a <= b, b <= c, Fits(f, kind, b, c)
    PROVE  Stage(Queued(q, f, depth), kind, a, c)
  <1>1. Stage(q, kind, a, c)
    BY StageWider
  <1>2. Stage(Append(q, f), kind, a, c)
    <2>1. f \in Item /\ q \in Seq(Item) /\ Len(q) \in Nat
      BY DEF Fits, Stage
    <2>2. /\ Append(q, f) \in Seq(Item)
          /\ Len(Append(q, f)) = Len(q) + 1
          /\ \A i \in 1 .. Len(q) : Append(q, f)[i] = q[i]
          /\ Append(q, f)[Len(q) + 1] = f
      BY <2>1
    <2>3. Fits(f, kind, a, c)
      BY FitsWider
    <2>4. \A i \in 1 .. Len(q) + 1 : i \in 1 .. Len(q) \/ i = Len(q) + 1
      BY <2>1
    <2>5. \A i \in 1 .. Len(q) + 1 : Fits(Append(q, f)[i], kind, a, c)
      BY <1>1, <2>2, <2>3, <2>4 DEF Stage
    <2>6. ASSUME NEW i \in 1 .. Len(q) + 1, NEW j \in 1 .. Len(q) + 1, i < j,
                 Append(q, f)[i].id = kind, Append(q, f)[j].id = kind
          PROVE  Append(q, f)[i].at <= Append(q, f)[j].at
      <3>1. i \in 1 .. Len(q) /\ Append(q, f)[i] = q[i]
        BY <2>1, <2>2, <2>6
      <3>2. CASE j \in 1 .. Len(q)
        BY <2>2, <2>6, <3>1, <3>2 DEF Stage
      <3>3. CASE j = Len(q) + 1
        <4>1. q[i].at \in Nat /\ q[i].at <= b
          BY <2>6, <3>1 DEF Stage, Fits, Says, Item
        <4>2. f.at \in Nat /\ b <= f.at
          BY <2>2, <2>6, <3>3 DEF Fits, Says, Item
        <4> QED
          BY <2>2, <3>1, <3>3, <4>1, <4>2
      <3> QED
        BY <2>4, <3>2, <3>3
    <2> QED
      BY <2>2, <2>5, <2>6 DEF Stage
  <1> QED
    BY <1>1, <1>2 DEF Queued

\* What leaves a queue at its head is not newer than the rest.
LEMMA StageTaken ==
    ASSUME NEW q, NEW kind, NEW a \in Nat, NEW b \in Nat, Stage(q, kind, a, b), q # <<>>, a <= b
    PROVE  /\ Fits(Head(q), kind, a, b)
           /\ Stage(Tail(q), kind, a, b)
           /\ Head(q).id = kind => /\ Stage(Tail(q), kind, Head(q).at, b)
                                   /\ Head(q).at \in Nat /\ a <= Head(q).at /\ Head(q).at <= b
  <1>1. q \in Seq(Item) /\ Len(q) \in Nat /\ Len(q) > 0
    BY EmptySeq DEF Stage
  <1>2. Head(q) = q[1] /\ 1 \in 1 .. Len(q)
    BY <1>1
  <1>3. Fits(q[1], kind, a, b)
    BY <1>2 DEF Stage
  <1>4. /\ Tail(q) \in Seq(Item)
        /\ Len(Tail(q)) = Len(q) - 1
        /\ \A i \in 1 .. Len(q) - 1 : Tail(q)[i] = q[i + 1]
    BY <1>1
  <1>5. \A i \in 1 .. Len(q) - 1 : i + 1 \in 1 .. Len(q) /\ 1 < i + 1
    BY <1>1
  <1>6. Stage(Tail(q), kind, a, b)
    <2>1. \A i \in 1 .. Len(q) - 1 : Fits(Tail(q)[i], kind, a, b)
      BY <1>4, <1>5 DEF Stage
    <2>2. ASSUME NEW i \in 1 .. Len(q) - 1, NEW j \in 1 .. Len(q) - 1, i < j,
                 Tail(q)[i].id = kind, Tail(q)[j].id = kind
          PROVE  Tail(q)[i].at <= Tail(q)[j].at
      <3>1. i + 1 < j + 1
        BY <1>1, <2>2
      <3> QED
        BY <1>4, <1>5, <2>2, <3>1 DEF Stage
    <2> QED
      BY <1>4, <2>1, <2>2 DEF Stage
  <1>7. ASSUME q[1].id = kind
        PROVE  /\ Stage(Tail(q), kind, q[1].at, b)
               /\ q[1].at \in Nat /\ a <= q[1].at /\ q[1].at <= b
    <2>1. q[1].at \in Nat /\ a <= q[1].at /\ q[1].at <= b
      BY <1>3, <1>7 DEF Fits, Says, Item
    <2>2. ASSUME NEW i \in 1 .. Len(q) - 1 PROVE Fits(Tail(q)[i], kind, q[1].at, b)
      <3>1. Tail(q)[i] = q[i + 1] /\ i + 1 \in 1 .. Len(q) /\ 1 < i + 1
        BY <1>4, <1>5
      <3>2. q[i + 1].id = kind => q[1].at <= q[i + 1].at
        BY <1>2, <1>7, <3>1 DEF Stage
      <3>3. Fits(q[i + 1], kind, a, b)
        BY <3>1 DEF Stage
      <3> QED
        BY <3>1, <3>2, <3>3 DEF Fits, Says
    <2> QED
      BY <1>4, <1>6, <2>1, <2>2 DEF Stage
  <1> QED
    BY <1>2, <1>3, <1>6, <1>7

LEMMA Nodes == "A" \in Node /\ "B" \in Node /\ "A" # "B" /\ Peer("A") = "B" /\ Peer("B") = "A"
  BY DEF Node, Peer

\* The boot sync fits everywhere.
LEMMA SyncFits ==
    ASSUME NEW kind \in {"light", "report"}, NEW a, NEW b, NEW x \in Nat, NEW y \in Nat
    PROVE  Fits(Sync(x, y), kind, a, b)
  BY DEF Fits, Sync, Item, Id

\* What a frame says is the same in every epoch.
LEMMA SecuredFits ==
    ASSUME NEW f, NEW kind, NEW a, NEW b, Fits(f, kind, a, b)
    PROVE  /\ Unsecured(f).id = f.id /\ Unsecured(f).at = f.at
           /\ Fits(Unsecured(f), kind, a, b)
           /\ \A n \in Node : epoch \in [Node -> Nat] => Fits(Secured(n, f), kind, a, b)
  <1>1. ASSUME NEW x \in Nat
        PROVE  /\ [f EXCEPT !.epoch = x].id = f.id /\ [f EXCEPT !.epoch = x].at = f.at
               /\ Fits([f EXCEPT !.epoch = x], kind, a, b)
    BY DEF Fits, Says, Item
  <1> QED
    BY <1>1 DEF Unsecured, Secured

\* What is sent, accepted and asked for are epochs.
LEMMA SecocTypeKept ==
    ASSUME BodyType, BodyNext
    PROVE  SecocType'
  <1>1. ASSUME NEW n \in Node, raw[n] # <<>>, Accepted(n, Head(raw[n]))
        PROVE  SecocType'
    <2>1. Head(raw[n]) \in Item
      BY <1>1, EmptySeq DEF BodyType
    <2>2. Head(raw[n]).epoch \in Nat /\ Head(raw[n]).value \in Nat
      BY <2>1 DEF Item
    <2> QED
      BY <1>1, <2>2 DEF Accepted, BodyType, SecocType
  <1>2. ASSUME NEW n \in Node, raw[n] # <<>>, Failed(n, Head(raw[n]))
        PROVE  SecocType'
    <2>1. Head(raw[n]) \in Item
      BY <1>2, EmptySeq DEF BodyType
    <2>2. Head(raw[n]).epoch \in Nat
      BY <2>1 DEF Item
    <2> QED
      BY <1>2, <2>2 DEF Failed, BodyType, SecocType
  <1>3. ASSUME NEW n, NEW f, Stale(n, f) PROVE SecocType'
    BY <1>3 DEF Stale, BodyType, SecocType
  <1>4. ASSUME UNCHANGED secoc PROVE SecocType'
    BY <1>4 DEF secoc, BodyType, SecocType
  <1>5. CASE CanReceive
    BY <1>1, <1>2, <1>3, <1>5, Nodes DEF CanReceive
  <1>6. CASE Actuate
    BY <1>1, <1>2, <1>3, <1>6, Nodes DEF Actuate
  <1>7. ASSUME NEW n \in Node, Start(n) PROVE SecocType'
    BY <1>7 DEF Start, BodyType, SecocType
  <1>8. ASSUME NEW n, NEW m, Down(n, m) PROVE SecocType'
    BY <1>8 DEF Down, BodyType, SecocType
  <1>9. ASSUME NEW t, Poll(t) PROVE SecocType'
    BY <1>4, <1>8, <1>9 DEF Poll, GatewayDown
  <1>10. CASE ResetGateway \/ ResetActuator
    BY <1>8, <1>10 DEF ResetGateway, ResetActuator, GatewayDown
  <1>11. CASE AppSend \/ AppIdle
    BY <1>9, <1>11 DEF AppSend, AppIdle
  <1>12. CASE Toggle \/ Press \/ Release \/ CanIdle \/ AppReceive \/ Telemetry \/ \E n \in Node : Deliver(n)
    BY <1>4, <1>12 DEF Toggle, Press, Release, CanIdle, AppReceive, Telemetry, Deliver
  <1> QED
    BY <1>5, <1>6, <1>7, <1>10, <1>11, <1>12 DEF BodyNext, CanTask, AppTask, ActuatorTask

\* The head of the task loop leaves a sync or what the round had to transmit.
LEMMA LoopLeaves ==
    ASSUME NEW n \in Node, NEW left \in Item \cup {None}, Loop(n, left), SecocType',
           txbuf \in [Node -> Item \cup {None}]
    PROVE  /\ txbuf' \in [Node -> Item \cup {None}]
           /\ \A m \in Node \ {n} : txbuf'[m] = txbuf[m]
           /\ \A kind \in {"light", "report"} : \A a, b :
                 Slot(left, kind, a, b) => Slot(txbuf'[n], kind, a, b)
  <1>1. epoch'[n] \in Nat /\ floor'[n] \in Nat
    BY DEF SecocType
  <1>2. Sync(epoch'[n], floor'[n]) \in Item
    BY <1>1 DEF Sync, Item, Id
  <1> QED
    BY <1>1, <1>2, SyncFits DEF Loop, Slot

\* BodyStep is the courtesy rule on what the report says.
LEMMA BodyStepFits ==
    ASSUME NEW f \in Reports, NEW a \in Nat, NEW b \in Nat, Fits(f, "report", a, b)
    PROVE  Fits(BodyStep(f), "light", f.at, f.at) /\ BodyStep(f).at = f.at
  <1>1. f.at \in Nat /\ f.value = f.at % 2
    BY DEF Reports, Fits, Says, Item
  <1>2. f.at % 2 \in {0, 1}
    BY <1>1
  <1>3. (IF f.value # 0 THEN 100 ELSE 0) = Light(f.at)
    BY <1>1, <1>2 DEF Light
  <1>4. Light(f.at) \in Nat
    BY DEF Light
  <1> QED
    BY <1>1, <1>3, <1>4 DEF Fits, Says, Item, Id, BodyStep
-----------------------------------------------------------------------------
LEMMA BodyInitInv == BodyInit => BodyInv
  <1> SUFFICES ASSUME BodyInit PROVE BodyInv
    OBVIOUS
  <1>1. BodyType
    BY DEF BodyInit, BodyType, SecocType
  <1>2. Flow(0, 0, 0, 0, 0)
    BY EmptyStage, Nodes DEF BodyInit, Flow, Slot
  <1> QED
    BY <1>1, <1>2 DEF BodyInv

\* A step of DoorLight, or a stutter.
DoorStep == D!Next \/ UNCHANGED <<changes, shown, light>>

LEMMA BodyStepInv ==
    ASSUME BodyInv, BodyNext
    PROVE  BodyInv' /\ DoorStep
  <1>0. PICK a \in Nat, b \in Nat, c \in Nat, d \in Nat, e \in Nat : Flow(a, b, c, d, e)
    BY DEF BodyInv
  <1>t. /\ changes \in Nat /\ shown \in Nat
        /\ raw \in [Node -> Seq(Item)]
        /\ txbuf \in [Node -> Item \cup {None}]
        /\ app \in Seq(Reports)
    BY DEF BodyInv, BodyType
  <1>f. /\ shown <= a /\ a <= b /\ b <= c /\ c <= d /\ d <= e /\ e <= changes
        /\ Stage(raw["B"], "light", shown, a)
        /\ Slot(txbuf["A"], "light", a, b)
        /\ Slot(out, "light", b, c)
        /\ Stage(app, "report", c, d)
        /\ Stage(raw["A"], "report", d, e)
        /\ Slot(txbuf["B"], "report", e, changes)
    BY <1>0 DEF Flow
  <1>s. SecocType /\ SecocType' /\ epoch \in [Node -> Nat]
    BY SecocTypeKept DEF BodyInv, BodyType, SecocType
  <1>n. None \notin Item /\ <<>> \in Seq(Item) /\ <<>> \in Seq(Reports)
    BY DEF None, Item
  <1>1. CASE Toggle
    <2>1. changes' = changes + 1 /\ UNCHANGED <<shown, light, raw, txbuf, app, out>>
      BY <1>1 DEF Toggle, gateway, actuator
    <2>2. Slot(txbuf["B"], "report", e, changes + 1)
      BY <1>t, <1>f, FitsWider DEF Slot
    <2>3. Flow(a, b, c, d, e)'
      BY <1>t, <1>f, <2>1, <2>2 DEF Flow
    <2>4. BodyInv'
      <3>1. BodyType'
        BY <1>t, <1>s, <2>1 DEF BodyType
      <3> QED
        BY <2>3, <3>1 DEF BodyInv
    <2>5. D!Toggle
      BY <1>1, <2>1 DEF D!Toggle, Toggle
    <2> QED
      BY <2>4, <2>5 DEF DoorStep, D!Next
  <1>2. CASE Press \/ Release
    <2>1. UNCHANGED <<changes, shown, light, raw, txbuf, app, out>>
      BY <1>2 DEF Press, Release, gateway, actuator
    <2>2. Flow(a, b, c, d, e)'
      BY <1>0, <2>1 DEF Flow
    <2> QED
      BY <1>t, <1>s, <2>1, <2>2 DEF BodyInv, BodyType, DoorStep
  <1>3. ASSUME NEW n \in Node, Start(n) PROVE BodyInv' /\ DoorStep
    <2>1. Loop(n, None) /\ UNCHANGED <<changes, shown, light, raw, app, out>>
      BY <1>3 DEF Start, NextRound, outside, gateway, actuator
    <2>2. /\ txbuf' \in [Node -> Item \cup {None}]
          /\ \A m \in Node \ {n} : txbuf'[m] = txbuf[m]
          /\ \A kind \in {"light", "report"} : \A x, y : Slot(txbuf'[n], kind, x, y)
      BY <1>t, <1>s, <2>1, LoopLeaves DEF Slot
    <2>3. Slot(txbuf'["A"], "light", a, b) /\ Slot(txbuf'["B"], "report", e, changes)
      BY <1>f, <2>2, Nodes
    <2>4. Flow(a, b, c, d, e)'
      BY <1>f, <2>1, <2>3 DEF Flow
    <2> QED
      BY <1>t, <1>s, <2>1, <2>2, <2>4 DEF BodyInv, BodyType, DoorStep
  <1>4. ASSUME NEW n \in Node, Deliver(n) PROVE BodyInv' /\ DoorStep
    <2>1. /\ txbuf[n] # None
          /\ txbuf' = [txbuf EXCEPT ![n] = None]
          /\ raw' = [raw EXCEPT ![Peer(n)] = Queued(raw[Peer(n)], txbuf[n], RawDepth)]
          /\ UNCHANGED <<changes, shown, light, app, out>>
      BY <1>4 DEF Deliver, outside, gateway, actuator
    <2>2. txbuf' \in [Node -> Item \cup {None}] /\ txbuf[n] \in Item
      BY <1>t, <2>1
    <2>3. raw' \in [Node -> Seq(Item)]
      <3>1. Peer(n) \in Node /\ raw[Peer(n)] \in Seq(Item)
        BY <1>t DEF Node, Peer
      <3>2. Queued(raw[Peer(n)], txbuf[n], RawDepth) \in Seq(Item)
        BY <2>2, <3>1 DEF Queued
      <3> QED
        BY <1>t, <2>1, <3>1, <3>2
    <2>4. CASE n = "A"
      <3>1. raw'["B"] = Queued(raw["B"], txbuf["A"], RawDepth) /\ raw'["A"] = raw["A"]
        BY <1>t, <2>1, <2>4, Nodes
      <3>2. txbuf'["A"] = None /\ txbuf'["B"] = txbuf["B"]
        BY <1>t, <2>1, <2>4, Nodes
      <3>3. Stage(raw'["B"], "light", shown, b)
        BY <1>t, <1>f, <2>1, <2>4, <3>1, StageQueued DEF Slot
      <3>4. Flow(b, b, c, d, e)'
        BY <1>t, <1>f, <2>1, <3>1, <3>2, <3>3 DEF Flow, Slot
      <3> QED
        BY <1>t, <1>s, <2>1, <2>2, <2>3, <3>4 DEF BodyInv, BodyType, DoorStep
    <2>5. CASE n = "B"
      <3>1. raw'["A"] = Queued(raw["A"], txbuf["B"], RawDepth) /\ raw'["B"] = raw["B"]
        BY <1>t, <2>1, <2>5, Nodes
      <3>2. txbuf'["B"] = None /\ txbuf'["A"] = txbuf["A"]
        BY <1>t, <2>1, <2>5, Nodes
      <3>3. Stage(raw'["A"], "report", d, changes)
        BY <1>t, <1>f, <2>1, <2>5, <3>1, StageQueued DEF Slot
      <3>4. Flow(a, b, c, d, changes)'
        BY <1>t, <1>f, <2>1, <3>1, <3>2, <3>3 DEF Flow, Slot
      <3> QED
        BY <1>t, <1>s, <2>1, <2>2, <2>3, <3>4 DEF BodyInv, BodyType, DoorStep
    <2> QED
      BY <2>4, <2>5 DEF Node
  \* Resets, and the end of the application for the bootloader.
  <1>5. ASSUME NEW m, GatewayDown(m), UNCHANGED <<changes, shown, light>>
        PROVE  BodyInv' /\ DoorStep
    <2>1. /\ txbuf' = [txbuf EXCEPT !["A"] = None] /\ raw' = [raw EXCEPT !["A"] = <<>>]
          /\ app' = <<>> /\ out' = None
      BY <1>5 DEF GatewayDown, Down
    <2>2. /\ txbuf'["A"] = None /\ txbuf'["B"] = txbuf["B"]
          /\ raw'["A"] = <<>> /\ raw'["B"] = raw["B"]
      BY <1>t, <2>1, Nodes
    <2>3. txbuf' \in [Node -> Item \cup {None}] /\ raw' \in [Node -> Seq(Item)]
      BY <1>t, <1>n, <2>1
    <2>4. Flow(a, b, c, d, e)'
      BY <1>f, <1>5, <2>1, <2>2, EmptyStage DEF Flow, Slot
    <2> QED
      BY <1>t, <1>s, <1>n, <1>5, <2>1, <2>3, <2>4 DEF BodyInv, BodyType, DoorStep
  <1>6. CASE ResetGateway
    BY <1>5, <1>6 DEF ResetGateway, outside, actuator
  <1>7. CASE ResetActuator
    <2>1. /\ txbuf' = [txbuf EXCEPT !["B"] = None] /\ raw' = [raw EXCEPT !["B"] = <<>>]
          /\ light' = 0 /\ UNCHANGED <<changes, shown, app, out>>
      BY <1>7 DEF ResetActuator, Down, outside, gateway
    <2>2. /\ txbuf'["B"] = None /\ txbuf'["A"] = txbuf["A"]
          /\ raw'["B"] = <<>> /\ raw'["A"] = raw["A"]
      BY <1>t, <2>1, Nodes
    <2>3. txbuf' \in [Node -> Item \cup {None}] /\ raw' \in [Node -> Seq(Item)]
      BY <1>t, <1>n, <2>1
    <2>4. Flow(a, b, c, d, e)'
      BY <1>f, <2>1, <2>2, EmptyStage DEF Flow, Slot
    <2> QED
      BY <1>t, <1>s, <2>1, <2>3, <2>4 DEF BodyInv, BodyType, DoorStep, D!Next, D!Restart
  <1>8. CASE CanReceive
    <2> DEFINE f == Head(raw["A"])
    <2>1. /\ raw["A"] # <<>> /\ raw' = [raw EXCEPT !["A"] = Tail(raw["A"])]
          /\ Loop("A", txbuf["A"])
          /\ app' = app \/ (f.id = "report" /\ app' = Queued(app, Unsecured(f), AppDepth))
          /\ UNCHANGED <<changes, shown, light, out>>
      BY <1>8 DEF CanReceive, NextRound, outside, actuator
    <2>2. /\ Fits(f, "report", d, e) /\ Stage(Tail(raw["A"]), "report", d, e)
          /\ f.id = "report" => /\ Stage(Tail(raw["A"]), "report", f.at, e)
                                /\ f.at \in Nat /\ d <= f.at /\ f.at <= e
      BY <1>f, <2>1, StageTaken
    <2>3. raw'["A"] = Tail(raw["A"]) /\ raw'["B"] = raw["B"]
      BY <1>t, <2>1, Nodes
    <2>4. raw' \in [Node -> Seq(Item)]
      <3>1. Tail(raw["A"]) \in Seq(Item)
        BY <2>2 DEF Stage
      <3> QED
        BY <1>t, <2>1, <3>1
    <2>5. txbuf' \in [Node -> Item \cup {None}] /\ txbuf'["B"] = txbuf["B"]
          /\ Slot(txbuf'["A"], "light", a, b)
      BY <1>t, <1>s, <1>f, <2>1, LoopLeaves, Nodes
    <2> HIDE DEF f
    <2>6. CASE app' = app
      <3>1. Flow(a, b, c, d, e)'
        BY <1>f, <2>1, <2>2, <2>3, <2>5, <2>6 DEF Flow
      <3> QED
        BY <1>t, <1>s, <2>1, <2>4, <2>5, <2>6, <3>1 DEF BodyInv, BodyType, DoorStep
    <2>7. CASE f.id = "report" /\ app' = Queued(app, Unsecured(f), AppDepth)
      <3>0. Fits(f, "report", d, f.at)
        BY <2>2, <2>7 DEF Fits, Says
      <3>1. Fits(Unsecured(f), "report", d, f.at) /\ Unsecured(f).id = "report"
        BY <2>7, <3>0, SecuredFits
      <3>2. Stage(app', "report", c, f.at)
        BY <1>f, <2>2, <2>7, <3>1, StageQueued
      <3>3. app' \in Seq(Reports)
        <4>1. Unsecured(f) \in Reports
          BY <3>1 DEF Fits, Reports
        <4> QED
          BY <1>t, <2>7, <4>1 DEF Queued
      <3>4. PICK k \in Nat : k = f.at
        BY <2>2, <2>7
      <3>5. Flow(a, b, c, k, e)'
        BY <1>f, <2>1, <2>2, <2>3, <2>5, <2>7, <3>2, <3>4 DEF Flow
      <3> QED
        BY <1>t, <1>s, <2>1, <2>4, <2>5, <3>3, <3>5 DEF BodyInv, BodyType, DoorStep
    <2> QED
      BY <2>1, <2>6, <2>7
  <1>9. CASE CanIdle
    <2>1. Loop("A", txbuf["A"]) /\ UNCHANGED <<changes, shown, light, raw, app, out>>
      BY <1>9 DEF CanIdle, NextRound, outside, gateway, actuator
    <2>2. txbuf' \in [Node -> Item \cup {None}] /\ txbuf'["B"] = txbuf["B"]
          /\ Slot(txbuf'["A"], "light", a, b)
      BY <1>t, <1>s, <1>f, <2>1, LoopLeaves, Nodes
    <2>3. Flow(a, b, c, d, e)'
      BY <1>f, <2>1, <2>2 DEF Flow
    <2> QED
      BY <1>t, <1>s, <2>1, <2>2, <2>3 DEF BodyInv, BodyType, DoorStep
  <1>10. CASE AppReceive
    <2> DEFINE f == Head(app)
    <2>1. /\ app # <<>> /\ out' = BodyStep(f) /\ app' = Tail(app)
          /\ UNCHANGED <<changes, shown, light, raw, txbuf>>
      BY <1>10 DEF AppReceive, outside, actuator
    <2>2. f \in Reports /\ app' \in Seq(Reports)
      BY <1>t, <2>1
    <2>3. /\ Fits(f, "report", c, d)
          /\ f.id = "report" => /\ Stage(Tail(app), "report", f.at, d)
                                /\ f.at \in Nat /\ c <= f.at /\ f.at <= d
      BY <1>f, <2>1, StageTaken
    <2>4. f.id = "report"
      BY <2>2 DEF Reports
    <2> HIDE DEF f
    <2>5. Fits(out', "light", f.at, f.at)
      BY <2>1, <2>2, <2>3, BodyStepFits
    <2>6. Fits(out', "light", b, f.at)
      BY <1>f, <2>3, <2>4, <2>5, FitsWider
    <2>7. PICK k \in Nat : k = f.at
      BY <2>3, <2>4
    <2>8. Flow(a, b, k, d, e)'
      BY <1>f, <2>1, <2>3, <2>4, <2>6, <2>7 DEF Flow, Slot
    <2> QED
      BY <1>t, <1>s, <2>1, <2>2, <2>8 DEF BodyInv, BodyType, DoorStep
  <1>11. ASSUME NEW t, Slot(t, "light", a, c), Poll(t), UNCHANGED <<changes, shown, light>>
         PROVE  BodyInv' /\ DoorStep
    <2>1. CASE GatewayDown("fbl")
      BY <1>5, <1>11, <2>1
    <2>2. CASE /\ out' = None /\ txbuf' = [txbuf EXCEPT !["A"] = t] /\ UNCHANGED <<raw, app>>
      <3>1. txbuf'["A"] = t /\ txbuf'["B"] = txbuf["B"]
        BY <1>t, <2>2, Nodes
      <3>3. txbuf' \in [Node -> Item \cup {None}]
        <4>1. t \in Item \cup {None}
          BY <1>11 DEF Slot, Fits
        <4> QED
          BY <1>t, <2>2, <4>1
      <3>4. Flow(a, c, c, d, e)'
        BY <1>f, <1>11, <2>2, <3>1 DEF Flow, Slot
      <3> QED
        BY <1>t, <1>s, <1>11, <2>2, <3>3, <3>4 DEF BodyInv, BodyType, DoorStep
    <2> QED
      BY <1>11, <2>1, <2>2 DEF Poll
  <1>12. CASE AppSend \/ AppIdle
    <2>1. Slot(txbuf["A"], "light", a, c)
      BY <1>f, FitsWider DEF Slot
    <2>2. ASSUME out # None PROVE Slot(Secured("A", out), "light", a, c)
      <3>1. Fits(out, "light", a, c)
        BY <1>f, <2>2, FitsWider DEF Slot
      <3> QED
        BY <1>s, <3>1, SecuredFits, Nodes DEF Slot
    <2>3. UNCHANGED <<changes, shown, light>>
      BY <1>12 DEF AppSend, AppIdle, outside, actuator
    <2>4. CASE AppSend
      BY <1>11, <2>1, <2>2, <2>3, <2>4 DEF AppSend
    <2>5. CASE AppIdle
      BY <1>11, <2>1, <2>3, <2>5 DEF AppIdle
    <2> QED
      BY <1>12, <2>4, <2>5
  <1>13. CASE Actuate
    <2> DEFINE f == Head(raw["B"])
    <2>1. /\ raw["B"] # <<>> /\ raw' = [raw EXCEPT !["B"] = Tail(raw["B"])]
          /\ Loop("B", txbuf["B"])
          /\ \/ UNCHANGED <<shown, light>>
             \/ f.id = "light" /\ light' = f.value /\ shown' = f.at
          /\ UNCHANGED <<changes, app, out>>
      BY <1>13 DEF Actuate, Apply, NextRound, outside, gateway, actuator
    <2>2. /\ Fits(f, "light", shown, a) /\ Stage(Tail(raw["B"]), "light", shown, a)
          /\ f.id = "light" => /\ Stage(Tail(raw["B"]), "light", f.at, a)
                               /\ f.at \in Nat /\ shown <= f.at /\ f.at <= a
      BY <1>t, <1>f, <2>1, StageTaken
    <2>3. raw'["B"] = Tail(raw["B"]) /\ raw'["A"] = raw["A"]
      BY <1>t, <2>1, Nodes
    <2>4. raw' \in [Node -> Seq(Item)]
      <3>1. Tail(raw["B"]) \in Seq(Item)
        BY <2>2 DEF Stage
      <3> QED
        BY <1>t, <2>1, <3>1
    <2>5. txbuf' \in [Node -> Item \cup {None}] /\ txbuf'["A"] = txbuf["A"]
          /\ Slot(txbuf'["B"], "report", e, changes)
      BY <1>t, <1>s, <1>f, <2>1, LoopLeaves, Nodes
    <2> HIDE DEF f
    <2>6. CASE UNCHANGED <<shown, light>>
      <3>1. Flow(a, b, c, d, e)'
        BY <1>f, <2>1, <2>2, <2>3, <2>5, <2>6 DEF Flow
      <3> QED
        BY <1>t, <1>s, <2>1, <2>4, <2>5, <2>6, <3>1 DEF BodyInv, BodyType, DoorStep
    <2>7. CASE f.id = "light" /\ light' = f.value /\ shown' = f.at
      <3>1. Flow(a, b, c, d, e)'
        BY <1>f, <2>1, <2>2, <2>3, <2>5, <2>7 DEF Flow
      <3>2. f.value = Light(f.at)
        BY <2>2, <2>7 DEF Fits, Says
      <3>3. f.at \in shown .. changes
        BY <1>t, <1>f, <2>2, <2>7
      <3>4. D!Show(f.at)
        BY <2>1, <2>7, <3>2 DEF D!Show, D!Courtesy, D!Ajar, Light
      <3> QED
        BY <1>t, <1>s, <2>1, <2>2, <2>4, <2>5, <2>7, <3>1, <3>3, <3>4 DEF BodyInv, BodyType, DoorStep, D!Next
    <2> QED
      BY <2>1, <2>6, <2>7
  <1>14. CASE Telemetry
    <2>1. /\ Loop("B", Secured("B", Report(changes))) \/ Loop("B", txbuf["B"])
          /\ UNCHANGED <<changes, shown, light, raw, app, out>>
      BY <1>14 DEF Telemetry, NextRound, outside, gateway, actuator
    <2>2. Fits(Secured("B", Report(changes)), "report", e, changes)
      <3>1. Fits(Report(changes), "report", e, changes)
        BY <1>t, <1>f DEF Report, Fits, Says, Item, Id
      <3> QED
        BY <1>s, <3>1, SecuredFits, Nodes
    <2>3. txbuf' \in [Node -> Item \cup {None}] /\ txbuf'["A"] = txbuf["A"]
          /\ Slot(txbuf'["B"], "report", e, changes)
      BY <1>t, <1>s, <1>f, <2>1, <2>2, LoopLeaves, Nodes DEF Slot, Fits
    <2>4. Flow(a, b, c, d, e)'
      BY <1>f, <2>1, <2>3 DEF Flow
    <2> QED
      BY <1>t, <1>s, <2>1, <2>3, <2>4 DEF BodyInv, BodyType, DoorStep
  <1> QED
    BY <1>1, <1>2, <1>3, <1>4, <1>6, <1>7, <1>8, <1>9, <1>10, <1>12, <1>13, <1>14
       DEF BodyNext, CanTask, AppTask, ActuatorTask

\* The light shows what the door was, and never an older door than before: each
\* step is one of DoorLight or a stutter.
THEOREM LightShowsTheDoor == BodySpec => ShowsTheDoor
  <1>1. BodyInit => D!Init
    BY DEF BodyInit, D!Init
  <1>2. BodyInv /\ [BodyNext]_bodyVars => BodyInv'
    <2> SUFFICES ASSUME BodyInv, UNCHANGED bodyVars PROVE BodyInv'
      BY BodyStepInv
    <2> QED
      BY DEF bodyVars, secoc, BodyInv, BodyType, SecocType, Flow
  <1>3. BodyInv /\ [BodyNext]_bodyVars => [D!Next]_<<changes, shown, light>>
    BY BodyStepInv DEF DoorStep, bodyVars
  <1> QED
    BY <1>1, <1>2, <1>3, BodyInitInv, PTL DEF BodySpec, ShowsTheDoor, D!Spec
===============================================================================
