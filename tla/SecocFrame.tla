----------------------------- MODULE SecocFrame -----------------------------
(***************************************************************************)
(* A SecOC frame from the message of one node to the message of the other: *)
(* packing (body_msgs.c), securing (secoc.c), the padding of CAN FD        *)
(* (can_task.c of both nodes), verifying and decoding.  These are          *)
(* functions, not a state machine: the module has no behaviour, and what   *)
(* it promises is in SecocBase_proofs.  A frame is a sequence of bytes.    *)
(*                                                                         *)
(* The oracle is AES-CMAC on the CM0+: Mac(input) is the tag of 16 bytes,  *)
(* and "works" says whether one call got it (CryptoService has the ways in *)
(* which a call does not).                                                 *)
(***************************************************************************)
EXTENDS Integers, Sequences

CONSTANT Mac(_)

Byte == 0..255
Word == 0..65535

MaxPdu == 64
FreshLen == 4
MacLen == 8
TrailerLen == FreshLen + MacLen

Smallest(S) == CHOOSE x \in S : \A y \in S : x <= y

(***************************************************************************)
(* The length code of CAN FD: 16 codes for 0..8, 12, 16, ... 64 bytes.     *)
(***************************************************************************)
FdLengths == (0..8) \cup {12, 16, 20, 24, 32, 48, 64}

DlcToLen(dlc) ==
  << 0, 1, 2, 3, 4, 5, 6, 7, 8, 12, 16, 20, 24, 32, 48, 64 >>[(dlc % 16) + 1]

LenToDlc(len) == Smallest({d \in 0..15 : len <= DlcToLen(d)} \cup {15})

\* The length on the bus that holds n bytes, 0 when no frame does.
FdFrameLen(n) == IF n > 64 THEN 0 ELSE Smallest({l \in FdLengths : n <= l})

\* What the controller sends of a frame of the driver: its bytes and zeros.
OnWire(frame) ==
  [i \in 1..DlcToLen(LenToDlc(Len(frame))) |-> IF i <= Len(frame) THEN frame[i] ELSE 0]

(***************************************************************************)
(* Securing and verifying.                                                 *)
(***************************************************************************)
U16(v) == << v % 256, v \div 256 >>
Value(p) == p[1] + 256 * p[2]

MacInput(id, fresh, pdu) == U16(id) \o (fresh \o pdu)

Tag(id, fresh, pdu) == SubSeq(Mac(MacInput(id, fresh, pdu)), 1, MacLen)

\* The secured frame, or << >>.
Secure(works, id, epoch, counter, pdu, cap) ==
  LET fresh == U16(epoch) \o U16(counter)
  IN  IF ~works \/ Len(pdu) > MaxPdu \/ cap < Len(pdu) + TrailerLen
      THEN << >>
      ELSE pdu \o (fresh \o Tag(id, fresh, pdu))

Pdu(frame, len) == SubSeq(frame, 1, len)
Fresh(frame, len) == SubSeq(frame, len + 1, len + FreshLen)
RxMac(frame, len) == SubSeq(frame, len + FreshLen + 1, len + TrailerLen)

Ok(epoch, counter, pdu) ==
  [result |-> "OK", epoch |-> epoch, counter |-> counter, pdu |-> pdu]
Drop(reason) == [result |-> reason]

VerifyCore(works, id, frame, len) ==
  LET fresh == Fresh(frame, len)
  IN  IF ~works THEN Drop("MAC_ERROR")
      ELSE IF Tag(id, fresh, Pdu(frame, len)) # RxMac(frame, len) THEN Drop("BAD_MAC")
      ELSE Ok(Value(fresh), Value(SubSeq(fresh, 3, 4)), Pdu(frame, len))

\* The length of the PDU inferred from the length of the frame.
Verify(works, id, frame, cap) ==
  LET len == Len(frame) - TrailerLen
  IN  IF Len(frame) < TrailerLen \/ len > MaxPdu \/ len > cap
      THEN Drop("BAD_LENGTH")
      ELSE VerifyCore(works, id, frame, len)

\* The length of the PDU configured: the frame has the secured length, or the
\* one CAN FD pads it to.
VerifyLen(works, id, frame, len, cap) ==
  LET secured == len + TrailerLen
  IN  IF \/ len > MaxPdu \/ len > cap
         \/ Len(frame) < secured \/ Len(frame) > FdFrameLen(secured)
      THEN Drop("BAD_LENGTH")
      ELSE VerifyCore(works, id, frame, len)

(***************************************************************************)
(* The messages: identifiers, lengths and layout.                          *)
(***************************************************************************)
DOOR_CMD == 288
LIGHT_CMD == 289
SENSOR_RPT == 512
FRESHNESS_SYNC == 752
GW_FRESHNESS_SYNC == 496

PduLenOf(id) ==
  IF id \in {DOOR_CMD, LIGHT_CMD} THEN 1
  ELSE IF id \in {FRESHNESS_SYNC, GW_FRESHNESS_SYNC} THEN 2
  ELSE IF id = SENSOR_RPT THEN 3 ELSE 0

\* The verdict on the MAC at the seam of both receivers.
Received(works, id, frame, cap) ==
  IF PduLenOf(id) # 0 THEN VerifyLen(works, id, frame, PduLenOf(id), cap)
                      ELSE Verify(works, id, frame, cap)

PackLight(pct) == IF pct > 100 THEN << >> ELSE << pct >>

\* Big-endian, unlike the freshness value and the floor of a sync.
PackReport(ambient, ajar) ==
  IF ambient > 1023 \/ ajar > 1 THEN << >>
                                ELSE << ambient \div 256, ambient % 256, ajar >>

NoMessage == [kind |-> "NONE"]

Decode(id, pdu) ==
  IF id = DOOR_CMD /\ Len(pdu) >= 1 /\ pdu[1] <= 1
  THEN [kind |-> "DOOR_CMD", cmd |-> pdu[1]]
  ELSE IF id = LIGHT_CMD /\ Len(pdu) >= 1 /\ pdu[1] <= 100
  THEN [kind |-> "LIGHT_CMD", pct |-> pdu[1]]
  ELSE IF id = SENSOR_RPT /\ Len(pdu) >= 3 /\ 256 * pdu[1] + pdu[2] <= 1023 /\ pdu[3] <= 1
  THEN [kind |-> "SENSOR_REPORT", ambient |-> 256 * pdu[1] + pdu[2], ajar |-> pdu[3]]
  ELSE NoMessage
=============================================================================
