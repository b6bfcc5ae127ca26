----------------------------- MODULE CryptoService -----------------------------
(***************************************************************************)
(* The crypto clients of a node and the service of its CM0+:               *)
(* crypto_service.c, crypto_dispatch.c, crypto_keystore.c and the handlers *)
(* of crypto_ops_cm0p.c.  On Node A the bootloader asks for a hash and for *)
(* the verdict on an image, then the tasks of the application for MACs,    *)
(* while the same CM0+ image, and its crypto block, run on.  Node B has no *)
(* bootloader, one client, and a CM0+ that knows MACs and one key.         *)
(*                                                                         *)
(* The transport is taken as whole messages (IpcMailbox splits them): an   *)
(* answer may come after its client gave up, and then be taken for the     *)
(* answer to the next request.  The block may fault in any operation.      *)
(***************************************************************************)
EXTENDS CryptoMsg, Sequences

CONSTANTS
  MacLengths,  \* lengths of the messages to be authenticated
  MaxCalls,    \* bound on the calls
  MaxFaults,   \* bound on the faults of the crypto block
  MaxGarbles   \* bound on the replies spoiled by FBL_M4_SEAM6_GARBAGE

ASSUME ServiceAssumption == MacLengths \subseteq Nat

NoClient == "nobody"
Client == {"fbl", "can", "app"}

Node == {"A", "B"}
Image == {"signed", "corrupt", "foreign"}   \* foreign: signed with some other key
Key == {"dev", "mac", "other"}

VARIABLES
  node,     \* whose crypto service this is
  running,  \* the image of the application core: "fbl" or "app"
  lock,     \* who holds the IPC channel lock
  mailbox,  \* IPC_MAILBOX: status, and the envelope with its length
  client,   \* each client: its request, what the call returned and reported
  server,   \* the CM0+: "poll", or busy with the reply it will give
  busError, \* the error interrupt bits of the crypto block
  calls, faults, garbles,
  refused,  \* history: well-formed MAC requests refused
  late      \* history: a client gave up

vars == <<node, running, lock, mailbox, client, server, busError, calls, faults, garbles, refused, late>>

NoRequest == [op |-> "none"]
Idle(r, result, reports) == [pc |-> "idle", request |-> r, result |-> result, reports |-> reports]

Init ==
  /\ node \in Node
  /\ running = IF node = "A" THEN "fbl" ELSE "app"
  /\ lock = NoClient
  /\ mailbox = [status |-> "IDLE", wire |-> [len |-> 0]]
  /\ client = [c \in Client |-> Idle(NoRequest, "none", <<>>)]
  /\ server = [pc |-> "poll"]
  /\ busError = FALSE
  /\ calls = 0 /\ faults = 0 /\ garbles = 0 /\ refused = 0
  /\ late = FALSE

-----------------------------------------------------------------------------
(* The clients. *)

Verify == [op : {"VERIFY"}, image : Image, key : Key]
Mac(n) == [op : {"MAC"}, key : {"mac", "other"}, msg : {n}, len : MacLengths]
Hash   == [op : {"HASH"}, msg : {0}]

Requests(c) == IF c = "fbl" THEN Verify \cup Hash ELSE Mac(calls)

Message(r) ==
  CASE r.op = "VERIFY" -> VerifyRequest(r.image, r.key)
    [] r.op = "MAC" -> MacRequest(r.key, r.msg, r.len)
    [] r.op = "HASH" -> HashRequest(r.msg)

\* crypto_mac's own checks, and the encoding into CRYPTO_MSG_MAX_WIRE bytes.
Refusable(r) ==
  \/ r.op = "MAC" /\ r.len > MaxPayload - 6
  \/ Message(r).length = 0
  \/ ~Encodable(Message(r), MaxWire)

Failure(r) == CASE r.op = "VERIFY" -> "ERROR" [] r.op = "MAC" -> "failed" [] r.op = "HASH" -> "mismatch"

\* The bring-up hash reports nothing.
Failed(r, reason) == Idle(r, Failure(r), IF r.op = "HASH" THEN <<>> ELSE <<reason>>)

\* A call that ends before the mailbox is written.
CallFails(c, r, reason) ==
  /\ client' = [client EXCEPT ![c] = Failed(r, reason)]
  /\ UNCHANGED <<lock, mailbox>>

Call(c) ==
  /\ client[c].pc = "idle" /\ calls < MaxCalls
  /\ c = "fbl" <=> running = "fbl"
  /\ node = "B" => c = "can"
  /\ calls' = calls + 1
  /\ \E r \in Requests(c) :
       \/ Refusable(r) /\ CallFails(c, r, "REQUEST")
       \/ ~Refusable(r) /\ Encode(Message(r)).len > MailboxCap /\ CallFails(c, r, "IPC_MALFORMED")
       \/ /\ ~Refusable(r) /\ Encode(Message(r)).len <= MailboxCap
          /\ lock # NoClient /\ CallFails(c, r, "IPC_BUSY")
       \/ /\ ~Refusable(r) /\ Encode(Message(r)).len <= MailboxCap
          /\ lock = NoClient /\ lock' = c
          /\ mailbox' = [status |-> "REQUEST", wire |-> Encode(Message(r))]
          /\ client' = [client EXCEPT ![c] = [pc |-> "wait", request |-> r]]
  /\ UNCHANGED <<node, running, server, busError, faults, garbles, refused, late>>

\* How a call for r may end on a reply that decodes to m.
VerifyEnds(r, m) ==
  {IF v = "none" THEN Failed(r, "BAD_REPLY")
   ELSE IF v = "ERROR" THEN Failed(r, "REFUSED")
   ELSE Idle(r, v, <<>>) : v \in ParsedVerdicts(m)}

MacEnds(r, m) ==
  IF IsMacReply(m) THEN {Idle(r, IF m.body = TagReply(r.key, r.msg).body THEN "tag" ELSE "wrong tag", <<>>)}
  ELSE {Failed(r, IF v = "none" THEN "BAD_REPLY" ELSE "REFUSED") : v \in ParsedVerdicts(m)}

HashEnds(r, m) ==
  {IF m.op = "HASH" /\ m.length = DigestLen /\ m.body.msg = r.msg
   THEN Idle(r, "match", <<>>) ELSE Failed(r, "none")}

Ends(r, w) ==
  IF ~Decodable(w) THEN {Failed(r, "BAD_REPLY")}
  ELSE CASE r.op = "VERIFY" -> VerifyEnds(r, Decode(w))
         [] r.op = "MAC" -> MacEnds(r, Decode(w))
         [] r.op = "HASH" -> HashEnds(r, Decode(w))

\* The lock is given back, the status is idle again.
Released(c) ==
  /\ lock' = NoClient
  /\ mailbox' = [mailbox EXCEPT !.status = "IDLE"]
  /\ UNCHANGED <<node, running, server, busError, calls, faults, garbles, refused>>

Return(c) ==
  /\ client[c].pc = "wait" /\ mailbox.status = "RESPONSE"
  /\ \E e \in IF mailbox.wire.len > MailboxCap THEN {Failed(client[c].request, "IPC_MALFORMED")}
              ELSE Ends(client[c].request, mailbox.wire) :
       client' = [client EXCEPT ![c] = e]
  /\ Released(c)
  /\ UNCHANGED late

GiveUp(c) ==
  /\ client[c].pc = "wait"
  /\ client' = [client EXCEPT ![c] = Failed(client[c].request, "IPC_TIMEOUT")]
  /\ late' = TRUE
  /\ Released(c)

\* The bootloader starts the application, whose port idles the mailbox.
Jump ==
  /\ running = "fbl" /\ client["fbl"].pc = "idle"
  /\ running' = "app"
  /\ mailbox' = [status |-> "IDLE", wire |-> [len |-> 0]]
  /\ UNCHANGED <<node, lock, client, server, busError, calls, faults, garbles, refused, late>>

-----------------------------------------------------------------------------
(* The CM0+. *)

Lookup_FirstKey(k) == IF k = "mac" THEN "secret" ELSE "public"

\* crypto_keystore_lookup over the table g_keys of the node.
HasPublicKey == node = "A"
Lookup(k) ==
  CASE k = "dev" /\ HasPublicKey -> "public" [] k = "mac" -> "secret" [] OTHER -> "none"

\* g_handlers: the operations the node's CM0+ knows.
Handled(op) == op \in {"MAC"} \cup IF node = "A" THEN {"HASH", "VERIFY"} ELSE {}

\* What the block may do: work, report an error, or fault with a wrong result
\* that shows only in the error bits.
Outcome == {"works", "status", "bus"}

BlockRuns(f) ==
  /\ faults' = IF f = "works" THEN faults ELSE faults + 1
  /\ faults' <= MaxFaults

Answer(m) == server' = [pc |-> "busy", reply |-> m]

\* An answer that the block has no part in.
Refuse(m) == Answer(m) /\ UNCHANGED <<busError, faults, refused>>

HashHandler(m) == \E f \in Outcome :
  /\ BlockRuns(f)
  /\ busError' = (busError \/ f = "bus")
  /\ Answer(CASE f = "works" -> DigestReply(m.body.msg)
              [] f = "status" -> Verdict("HASH", "ERROR")
              [] f = "bus" -> DigestReply(-1))
  /\ UNCHANGED refused

\* do_verify_image: the hash over the flash, then the signature.
Verified(image, f) ==
  IF f = "status" THEN "ERROR"
  ELSE IF f = "works" /\ image = "signed" THEN "VALID"
  ELSE "INVALID"

VerifyHandler(m) ==
  \/ ~IsVerifyRequest(m) /\ Refuse(Verdict("VERIFY", "ERROR"))
  \/ IsVerifyRequest(m) /\ Lookup(m.body.key) # "public" /\ Refuse(Verdict("VERIFY", "INVALID"))
  \/ /\ IsVerifyRequest(m) /\ Lookup(m.body.key) = "public"
     /\ \E f \in Outcome :
          /\ BlockRuns(f)
          /\ busError' = (busError \/ f = "bus")
          /\ Answer(Verdict("VERIFY", Verified(m.body.image, f)))
     /\ UNCHANGED refused

\* The end of cmac_compute: the error bits are read, and cleared when set.
AfterMac_BitsStay(bits) == bits

AfterMac(bits) == FALSE

MacHandler(m) ==
  \/ ~IsMacRequest(m) /\ Refuse(Verdict("MAC", "ERROR"))
  \/ IsMacRequest(m) /\ Lookup(m.body.key) # "secret" /\ Refuse(Verdict("MAC", "ERROR"))
  \/ /\ IsMacRequest(m) /\ Lookup(m.body.key) = "secret"
     /\ \E f \in Outcome :
          /\ BlockRuns(f)
          /\ busError' = AfterMac(busError \/ f = "bus")
          /\ IF f = "works" /\ ~busError
             THEN Answer(TagReply(m.body.key, m.body.msg)) /\ UNCHANGED refused
             ELSE Answer(Verdict("MAC", "ERROR")) /\ refused' = refused + 1

\* crypto_dispatch: decode into a copy, route on the op, answer in any case.
Dispatch(w) ==
  \/ ~Decodable(w) /\ Refuse(Verdict("NONE", "ERROR"))
  \/ /\ Decodable(w)
     /\ CASE ~Handled(w.op) -> Refuse(Verdict(w.op, "ERROR"))
          [] w.op = "HASH" -> HashHandler(Decode(w))
          [] w.op = "VERIFY" -> VerifyHandler(Decode(w))
          [] w.op = "MAC" -> MacHandler(Decode(w))

\* service_mailbox_once, up to the answer and from it on.
Serve ==
  /\ server.pc = "poll" /\ mailbox.status = "REQUEST"
  /\ Dispatch(mailbox.wire)
  /\ UNCHANGED <<node, running, lock, mailbox, client, calls, garbles, late>>

Respond ==
  /\ server.pc = "busy"
  /\ server' = [pc |-> "poll"]
  /\ LET w == Encode(server.reply)
     IN  \/ /\ mailbox' = [status |-> "RESPONSE", wire |-> w]
            /\ UNCHANGED garbles
         \/ /\ garbles < MaxGarbles /\ garbles' = garbles + 1
            /\ mailbox' = [status |-> "RESPONSE", wire |-> [w EXCEPT !.op = "garbled"]]
  /\ UNCHANGED <<node, running, lock, client, busError, calls, faults, refused, late>>

Next ==
  \/ \E c \in Client : Call(c) \/ Return(c) \/ GiveUp(c)
  \/ Jump \/ Serve \/ Respond

Spec == Init /\ [][Next]_vars
-----------------------------------------------------------------------------
(* Properties. *)

Ended(c) == client[c].pc = "idle" /\ client[c].request # NoRequest

Genuine(r) == r.image = "signed" /\ r.key = "dev"

\* crypto_service.c:9-10: no path returns VALID without the CM0+ having found this
\* image good under this key, nor INVALID, which is an answer, for a good image
\* while the block works; and a tag is the tag of the message of the call.
AnswerIsRight(c) ==
  /\ client[c].result = "VALID" => Genuine(client[c].request)
  /\ client[c].result = "INVALID" /\ faults = 0 => ~Genuine(client[c].request)
  /\ client[c].result # "wrong tag"

\* crypto_service.c:12-13 (F-018): a call that fails says so once and others do
\* not; and no refusal is reported of a service that is sound and was asked for
\* a key it holds.
ReportIsRight(c) ==
  /\ Len(client[c].reports) = IF client[c].result \in {"ERROR", "failed"} THEN 1 ELSE 0
  /\ client[c].reports = <<"REFUSED">> =>
       faults > 0 \/ garbles > 0 \/ client[c].request.key = "other"

\* What a call returns and what it reports is what happened, for as long as no
\* client gave up on an answer.
CallsTellTheTruth == ~late => \A c \in Client : Ended(c) =>
  /\ AnswerIsRight(c)
  /\ client[c].request.op # "HASH" => ReportIsRight(c)

\* crypto_ops_cm0p.c:192-194: a fault of the block fails one MAC and not every
\* later one.
OneFaultOneMac == refused <= faults
=============================================================================
