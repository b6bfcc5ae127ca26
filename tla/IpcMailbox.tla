------------------------------ MODULE IpcMailbox ------------------------------
(***************************************************************************)
(* The mailbox between the tasks of the application core and the crypto    *)
(* service of the CM0+: ipc_transact of shared/crypto/src/ipc_mailbox.c    *)
(* over port_crypto.c, and service_mailbox_once of main_cm0p.c.            *)
(*                                                                         *)
(* Only the clients take the hardware lock; the two sides otherwise meet   *)
(* in the status word.  The CM0+ runs at its own pace: its core also       *)
(* executes the flash operations of the application core, so an answer may *)
(* come after the client has given up, or never.  A message is written in  *)
(* two halves, so that writers that overlap leave a mixture.               *)
(***************************************************************************)
EXTENDS Integers

CONSTANTS
  Client,   \* the tasks that call crypto_mac
  NoClient, \* the lock is free
  MaxCall   \* bound on the calls that get the lock

ASSUME MailboxAssumption ==
  /\ NoClient \notin Client
  /\ MaxCall \in Nat

Call == 0..MaxCall   \* 0: no call

\* A request, the tag computed for it, the tag of a garbled request, an error
\* verdict; nothing at first.
Message ==
  [kind : {"request", "tag"}, call : Call] \cup [kind : {"garbage", "error", "none"}, call : {0}]

Request(k) == [kind |-> "request", call |-> k]
Tag(k)     == [kind |-> "tag", call |-> k]
Garbage    == [kind |-> "garbage", call |-> 0]
Error      == [kind |-> "error", call |-> 0]
Nothing    == [kind |-> "none", call |-> 0]

VARIABLES
  lock,     \* who holds the IPC channel lock
  status,   \* IPC_MAILBOX->status
  half,     \* the two halves of IPC_MAILBOX->payload
  client,   \* each client: where it is in ipc_transact, and what came back
  server,   \* the CM0+: where it is in service_mailbox_once, and its copies
  calls,    \* calls that got the lock so far
  late      \* history: some client gave up

vars == <<lock, status, half, client, server, calls, late>>

ClientState ==
  [pc     : {"idle", "first", "second", "notify", "wait", "read", "giveup", "unlock"},
   call   : Call,
   result : {"none", "BUSY", "TIMEOUT", "OK", "FAILED"},
   got    : Message]

ServerState == [pc : {"poll", "first", "second", "done"}, answer : Message]

TypeOK ==
  /\ lock \in Client \cup {NoClient}
  /\ status \in {"IDLE", "REQUEST", "RESPONSE"}
  /\ half \in [1..2 -> Message]
  /\ client \in [Client -> ClientState]
  /\ server \in ServerState
  /\ calls \in Call /\ late \in BOOLEAN

Init ==
  /\ lock = NoClient
  /\ status = "IDLE"
  /\ half = [i \in 1..2 |-> Nothing]
  /\ client = [c \in Client |-> [pc |-> "idle", call |-> 0, result |-> "none", got |-> Nothing]]
  /\ server = [pc |-> "poll", answer |-> Nothing]
  /\ calls = 0 /\ late = FALSE

Whole == half[1] = half[2]

-----------------------------------------------------------------------------
(* ipc_transact. *)

At(c, pc) == client[c].pc = pc
Goto(c, pc) == client' = [client EXCEPT ![c].pc = pc]

Acquire_NoLock(c) ==
  /\ At(c, "idle") /\ calls < MaxCall
  /\ lock' = c
  /\ calls' = calls + 1
  /\ client' = [client EXCEPT ![c] = [pc |-> "first", call |-> calls + 1,
                                      result |-> "none", got |-> Nothing]]
  /\ UNCHANGED <<status, half, server, late>>

Acquire(c) ==
  /\ At(c, "idle") /\ calls < MaxCall
  /\ lock = NoClient
  /\ lock' = c
  /\ calls' = calls + 1
  /\ client' = [client EXCEPT ![c] = [pc |-> "first", call |-> calls + 1,
                                      result |-> "none", got |-> Nothing]]
  /\ UNCHANGED <<status, half, server, late>>

\* The lock is taken: IPC_BUSY at once.
Refused(c) ==
  /\ At(c, "idle") /\ calls < MaxCall
  /\ lock # NoClient
  /\ client' = [client EXCEPT ![c].call = 0, ![c].result = "BUSY", ![c].got = Nothing]
  /\ UNCHANGED <<lock, status, half, server, calls, late>>

WriteFirst(c) ==
  /\ At(c, "first")
  /\ half' = [half EXCEPT ![1] = Request(client[c].call)]
  /\ Goto(c, "second")
  /\ UNCHANGED <<lock, status, server, calls, late>>

WriteSecond(c) ==
  /\ At(c, "second")
  /\ half' = [half EXCEPT ![2] = Request(client[c].call)]
  /\ Goto(c, "notify")
  /\ UNCHANGED <<lock, status, server, calls, late>>

Notify(c) ==
  /\ At(c, "notify")
  /\ status' = "REQUEST"
  /\ Goto(c, "wait")
  /\ UNCHANGED <<lock, half, server, calls, late>>

Ready(c) ==
  /\ At(c, "wait")
  /\ status = "RESPONSE"
  /\ Goto(c, "read")
  /\ UNCHANGED <<lock, status, half, server, calls, late>>

\* The time is up, perhaps just as the response arrives.
GiveUp(c) ==
  /\ At(c, "wait")
  /\ client' = [client EXCEPT ![c].pc = "giveup", ![c].result = "TIMEOUT"]
  /\ late' = TRUE
  /\ UNCHANGED <<lock, status, half, server, calls>>

\* The reply is copied out; crypto_mac takes a tag and fails on all else.
Read(c) ==
  /\ At(c, "read")
  /\ client' = [client EXCEPT
       ![c].pc = "giveup",
       ![c].got = IF Whole THEN half[1] ELSE Nothing,
       ![c].result = IF Whole /\ half[1].kind \in {"tag", "garbage"} THEN "OK" ELSE "FAILED"]
  /\ UNCHANGED <<lock, status, half, server, calls, late>>

\* port_sema_release: the status first, then the lock.
Reset(c) ==
  /\ At(c, "giveup")
  /\ status' = "IDLE"
  /\ Goto(c, "unlock")
  /\ UNCHANGED <<lock, half, server, calls, late>>

Unlock_AfterTimeoutKept(c) ==
  /\ At(c, "unlock")
  /\ client[c].result # "TIMEOUT"
  /\ lock' = NoClient
  /\ Goto(c, "idle")
  /\ UNCHANGED <<status, half, server, calls, late>>

Unlock(c) ==
  /\ At(c, "unlock")
  /\ lock' = NoClient
  /\ Goto(c, "idle")
  /\ UNCHANGED <<status, half, server, calls, late>>

Transact(c) ==
  \/ Acquire(c) \/ Refused(c) \/ WriteFirst(c) \/ WriteSecond(c) \/ Notify(c)
  \/ Ready(c) \/ GiveUp(c) \/ Read(c) \/ Reset(c) \/ Unlock(c)

-----------------------------------------------------------------------------
(* service_mailbox_once: the request is decoded into a local copy. *)

Answer(whole, m) ==
  IF whole /\ m.kind = "request" THEN {Tag(m.call)}
  ELSE IF whole THEN {Error} ELSE {Error, Garbage}

Serve ==
  /\ server.pc = "poll" /\ status = "REQUEST"
  /\ \E a \in Answer(Whole, half[1]) : server' = [pc |-> "first", answer |-> a]
  /\ UNCHANGED <<lock, status, half, client, calls, late>>

ReplyFirst ==
  /\ server.pc = "first"
  /\ half' = [half EXCEPT ![1] = server.answer]
  /\ server' = [server EXCEPT !.pc = "second"]
  /\ UNCHANGED <<lock, status, client, calls, late>>

ReplySecond ==
  /\ server.pc = "second"
  /\ half' = [half EXCEPT ![2] = server.answer]
  /\ server' = [server EXCEPT !.pc = "done"]
  /\ UNCHANGED <<lock, status, client, calls, late>>

Respond ==
  /\ server.pc = "done"
  /\ status' = "RESPONSE"
  /\ server' = [pc |-> "poll", answer |-> Nothing]
  /\ UNCHANGED <<lock, half, client, calls, late>>

Service == Serve \/ ReplyFirst \/ ReplySecond \/ Respond

Next == (\E c \in Client : Transact(c)) \/ Service

Spec == Init /\ [][Next]_vars

\* Each task runs on; the CM0+ need not.
FairSpec ==
  /\ Spec
  /\ \A c \in Client : WF_vars(Transact(c) /\ ~At(c, "idle"))

-----------------------------------------------------------------------------
\* ADR-0018 D2: the tag a caller is given is the tag of what it asked for ...
AnswerIsOwn == \A c \in Client :
  client[c].result = "OK" => client[c].got = Tag(client[c].call)

\* ... as long as no client gave up on an answer before.
TimelyAnswerIsOwn == ~late => AnswerIsOwn

\* ADR-0018 D2/D3: one request is outstanding: a client past the lock is the only
\* one, and until someone gives up the mailbox holds, from the doorbell on, its
\* request or the answer to it, or is between the two.
OneOutstanding == \A c \in Client :
  /\ ~At(c, "idle") => lock = c
  /\ At(c, "wait") /\ ~late =>
       \A i \in 1..2 : half[i] \in {Request(client[c].call), Tag(client[c].call)}

\* ADR-0018 D4: the wait is bounded whatever the CM0+ does: every call returns,
\* with the lock given back.
EveryCallReturns == \A c \in Client : ~At(c, "idle") ~> (At(c, "idle") /\ lock # c)
=============================================================================
