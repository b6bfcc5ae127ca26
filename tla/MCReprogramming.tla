--------------------------- MODULE MCReprogramming ---------------------------
(***************************************************************************)
(* Reprogramming on a region of four rows: one large sector and two small. *)
(* The old image takes two rows, the new one all four and two blocks; the  *)
(* block counter wraps after two. The third image has the trailer of the   *)
(* first milestone, a CRC.                                                 *)
(***************************************************************************)
EXTENDS Reprogramming, SignedImage

MCImage ==
    [old      |-> [body |-> 1, magic |-> TRUE, signed |-> TRUE,  msp |-> SramBase + 1024, reset |-> 5],
     new      |-> [body |-> 3, magic |-> TRUE, signed |-> TRUE,  msp |-> SramBase + 2048, reset |-> 7],
     unsigned |-> [body |-> 2, magic |-> TRUE, signed |-> FALSE, msp |-> SramBase + 2048, reset |-> 5]]

MCImages == DOMAIN MCImage

\* The three are what the host tools make.
ASSUME ToolsMakeThese ==
    /\ Image["old"] = ImageOf(Signed(Linked(1, SramBase + 1024, 5), "dev", DevKeyId))
    /\ Image["new"] = ImageOf(Signed(Linked(3, SramBase + 2048, 7), "dev", DevKeyId))
    /\ Image["unsigned"] = ImageOf(Stamped(Linked(2, SramBase + 2048, 5)))

\* The vector check at its boundaries, and the mixed geometry.
ASSUME VectorBoundaries ==
    /\ ~VectorSane(SramBase, 5)
    /\ VectorSane(SramBase + SramSize, 5) /\ ~VectorSane(SramBase + SramSize + 8, 5)
    /\ ~VectorSane(SramBase + 1020, 5)
    /\ ~VectorSane(SramBase + 1024, Base) /\ ~VectorSane(SramBase + 1024, Base + Size + 1)

\* Every accepted range is a union of the sectors its walk stands on.
ASSUME GeometryFits ==
    \A addr \in 0 .. Base + Size, len \in 0 .. Size :
        EraseAccepted(addr, len) =>
            \A pos \in addr .. addr + len - 1 :
                pos % SectorSize(pos) = 0 => SectorFits(pos, addr + len) /\ SectorAccepted(pos)

\* make_test_image.py:4-10: of its three images the CM0+ accepts the good one; nor does
\* it accept an id it has no key for, a CRC, or what no tool has touched.
ASSUME TestImages ==
    LET body == Linked(HeaderEnd, SramBase + 1024, 5)
        good == Signed(body, "dev", DevKeyId)
    IN  /\ HeaderFits(body)
        /\ Verifies(good)
        /\ \A bad \in {Tampered(good), Signed(body, "throwaway", DevKeyId),
                       Signed(body, "dev", DevKeyId + 1), Stamped(body), body} : ~Verifies(bad)
=============================================================================
