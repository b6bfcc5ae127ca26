------------------------------- MODULE CryptoMsg -------------------------------
(***************************************************************************)
(* The envelope between the application core and the CM0+, as              *)
(* crypto_msg.c frames it.  Lengths are those of the code, in bytes; what  *)
(* a payload holds is a record.  On the wire, len is how many bytes the    *)
(* mailbox says there are, and length the field of the envelope.           *)
(***************************************************************************)
EXTENDS Integers

MaxPayload == 128
HdrSize    == 3
MaxWire    == HdrSize + MaxPayload
MailboxCap == MaxPayload   \* mailbox_cap of every ipc_port_if_t
TagLen     == 16
DigestLen  == 32

Encodable(m, cap) == m.length <= MaxPayload /\ HdrSize + m.length <= cap

Encode(m) == [len |-> HdrSize + m.length, op |-> m.op, length |-> m.length, body |-> m.body]

Decodable(w) ==
  /\ w.len >= HdrSize
  /\ w.length <= MaxPayload
  /\ w.length <= w.len - HdrSize

Decode(w) == [op |-> w.op, length |-> w.length, body |-> w.body]

-----------------------------------------------------------------------------
VerifyRequest(image, key) ==
  [op |-> "VERIFY", length |-> 12, body |-> [kind |-> "range", image |-> image, key |-> key]]

IsVerifyRequest(m) == m.op = "VERIFY" /\ m.length >= 12

\* A message that does not fit leaves an empty request.
MacRequest(key, msg, len) ==
  IF 6 + len > MaxPayload
  THEN [op |-> "MAC", length |-> 0, body |-> [kind |-> "empty"]]
  ELSE [op |-> "MAC", length |-> 6 + len,
        body |-> [kind |-> "bytes", key |-> key, msg |-> msg, len |-> len]]

IsMacRequest(m) == m.op = "MAC" /\ m.length >= 6 /\ m.body.len <= m.length - 6

HashRequest(msg) == [op |-> "HASH", length |-> 3, body |-> [kind |-> "data", msg |-> msg]]

Verdict(op, v) == [op |-> op, length |-> 1, body |-> [kind |-> "verdict", verdict |-> v]]

TagReply(key, msg) ==
  [op |-> "MAC", length |-> TagLen, body |-> [kind |-> "tag", key |-> key, msg |-> msg]]

DigestReply(msg) == [op |-> "HASH", length |-> DigestLen, body |-> [kind |-> "digest", msg |-> msg]]

\* What crypto_parse_verdict makes of a reply: it looks at the first byte only,
\* which in a tag or a digest may be anything.
ParsedVerdicts(m) ==
  IF m.length < 1 THEN {"none"}
  ELSE IF m.body.kind = "verdict" THEN {m.body.verdict}
  ELSE {"INVALID", "VALID", "ERROR", "none"}

IsMacReply(m) == m.op = "MAC" /\ m.length >= TagLen
=============================================================================
