----------------------------- MODULE SignedImage -----------------------------
(***************************************************************************)
(* The files the host tools make of a linked application: sign_image.py,   *)
(* its predecessor fbl_image_stamp.py that appends a CRC32 only, and the   *)
(* three images of make_test_image.py; and what the CM0+ finds when it     *)
(* verifies one where it lies in flash (do_verify_image).                  *)
(*                                                                         *)
(* A digest is the triple of what it covers, a signature the digest and    *)
(* the key it was made with: neither collides nor is forged.               *)
(***************************************************************************)
EXTENDS BootDecision

DevKeyId == 1      \* --key-id of the tools, CRYPTO_DEV_KEY_ID of the CM0+

\* The application as it is linked, with an empty slot for the header.
Linked(len, msp, reset) ==
    [len |-> len, magic |-> FALSE, content |-> "as linked", trailer |-> [kind |-> "none"],
     msp |-> msp, reset |-> reset]

\* Both tools raise ValueError when the header does not fit.
HeaderFits(file) == file.len >= HeaderEnd

\* The header is written before anything is computed: a digest covers it.
Digest(file) == <<file.content, file.magic, file.len>>
Headed(file) == [file EXCEPT !.magic = TRUE]

\* stamp_image: the integrity of M1.
Stamped(file) ==
    [Headed(file) EXCEPT !.trailer = [kind |-> "crc32", of |-> Digest(Headed(file))]]

\* sign_image: hash, signature over the hash, and the id that the caller claims.
Signed(file, key, id) ==
    LET digest == Digest(Headed(file))
    IN  [Headed(file) EXCEPT !.trailer =
            [kind |-> "signature", hash |-> digest, sig |-> [over |-> digest, by |-> key], id |-> id]]

\* A covered byte that changes after the signing.
Tampered(file) == [file EXCEPT !.content = "flipped"]

\* The key compiled into the CM0+ image: the public half of what gen_dev_key.py makes.
KnownKey(id) == IF id = DevKeyId THEN "dev" ELSE "none"

\* The key is looked up, then stage 1, the hash, and stage 2, the signature.
Verifies(file) ==
    LET t == file.trailer
    IN  /\ t.kind = "signature"
        /\ KnownKey(t.id) # "none"
        /\ t.hash = Digest(file)
        /\ t.sig = [over |-> t.hash, by |-> KnownKey(t.id)]

\* What the bootloader may find of the file.
ImageOf(file) ==
    [body |-> file.len, magic |-> file.magic, signed |-> Verifies(file),
     msp |-> file.msp, reset |-> file.reset]
=============================================================================
