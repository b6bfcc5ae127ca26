---------------------------- MODULE BootDecision ----------------------------
(***************************************************************************)
(* The pure rules of the bootloader's boot decision (shared/boot/boot.c):  *)
(* what a reset cause means for the handshake and for the boot-loop        *)
(* counter, and which application image may be started.                    *)
(*                                                                         *)
(* Flash is a function on addresses. A cell written as it was downloaded   *)
(* names its image and its place in it; an erased or a torn cell names no  *)
(* image. An image is a record: the length its header gives, whether the   *)
(* header has the magic, whether the CM0+ accepts its signature, and its   *)
(* first two vectors. Vectors and header share the first row.              *)
(***************************************************************************)
EXTENDS AppFlash, Integers

CONSTANTS
    Images,         \* the images a workstation may download
    Image,          \* the contents of each
    HeaderEnd,      \* FBL_APP_HEADER_OFFSET + sizeof(fbl_app_header_t)
    Trailer,        \* FBL_TRAILER_SIZE: hash, signature, key id
    Threshold       \* FBL_BOOTLOOP_THRESHOLD

ImageType == [body : Nat, magic : BOOLEAN, signed : BOOLEAN, msp : Nat, reset : Nat]

ASSUME BootAssumption ==
    /\ Image \in [Images -> ImageType]
    /\ HeaderEnd \in Nat \ {0} /\ Trailer \in Nat
    /\ Threshold \in Nat

SramBase == 134217728       \* 0x0800_0000
SramSize == 131072

Causes == {"power_on", "software", "watchdog", "debug", "hibernate", "other"}

\* fbl_classify_noinit: only a warm reset leaves .noinit readable.
Retained(cause) == cause \in {"software", "watchdog", "debug"}

\* The handshake: a valid one that asks for the application or for
\* programming, or anything that fails the magic or the CRC.
Handshakes == {"boot_app", "programming_requested", "invalid"}

Reconciled_PrimesAlways(cause, h) ==
    IF cause # "watchdog" \/ h = "invalid" THEN "boot_app" ELSE h

\* What fbl_run_boot makes of the handshake it finds: primed and defaulted
\* after a cold reset, defaulted when invalid, used as it is otherwise.
Reconciled(cause, h) ==
    IF ~Retained(cause) \/ h = "invalid" THEN "boot_app" ELSE h

CounterUpdate_WatchdogClears(cause, requested, current) ==
    CASE cause \in {"power_on", "other", "watchdog"} -> 0
      [] cause = "software" -> IF requested THEN 0 ELSE current + 1
      [] OTHER -> current

\* fbl_counter_update.
CounterUpdate(cause, requested, current) ==
    CASE cause \in {"power_on", "other"} -> 0
      [] cause = "software" -> IF requested THEN 0 ELSE current + 1
      [] cause = "watchdog" -> current + 1
      [] OTHER -> current

\* Without the magic the backup registers hold no counter.
StoredCounter(breg) == IF breg.magic THEN breg.counter ELSE 0

Lifecycles == {"normal", "transition_to_secure", "secure", "rma"}

KnockAllowed(lifecycle) == lifecycle \in {"normal", "transition_to_secure"}

VectorSane(msp, reset) ==
    /\ msp > SramBase
    /\ msp <= SramBase + SramSize
    /\ msp % 8 = 0
    /\ reset >= Base
    /\ reset < Base + Size
    /\ reset % 2 = 1

Cell(image, at) == [image |-> image, at |-> at]

\* The image lies at the start of the application region, trailer included.
Holds(flash, image) ==
    \A at \in 0 .. Image[image].body + Trailer - 1 : flash[Base + at] = Cell(image, at)

\* crypto_verify_image: the CM0+ hashes the body in flash and checks the
\* signature in the trailer; without an answer of its own it is an error.
Verdict(flash, image, answered) ==
    CASE ~answered -> "error"
      [] answered /\ Holds(flash, image) /\ Image[image].signed -> "valid"
      [] OTHER -> "invalid"

\* What comes before the verdict in fbl_app_image_valid.
HeaderSane(image) ==
    /\ Size >= HeaderEnd + Trailer
    /\ image \in Images
    /\ Image[image].magic
    /\ Image[image].body >= HeaderEnd
    /\ Image[image].body <= Size - Trailer

ImageValid_HeaderOnly(flash, answered) ==
    LET image == flash[Base].image
    IN  /\ HeaderSane(image)
        /\ answered
        /\ VectorSane(Image[image].msp, Image[image].reset)

\* fbl_app_image_valid.
ImageValid(flash, answered) ==
    LET image == flash[Base].image
    IN  /\ HeaderSane(image)
        /\ Verdict(flash, image, answered) = "valid"
        /\ VectorSane(Image[image].msp, Image[image].reset)

\* Steps 1, 2, 4 and 5 of the decision tree; step 3, the knock, is an action.
MustStay(requested, counter) == requested \/ counter > Threshold
=============================================================================
