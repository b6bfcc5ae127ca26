----------------------------- MODULE ProtRegion -----------------------------
(***************************************************************************)
(* The descriptor of a protection region (shared/prot/prot_region.c) and   *)
(* the wall the CM0+ of Node A builds from one before it starts the CM4    *)
(* (prot_config_cm0p.c, a build with FBL_M4_SEAM5_PROT).  A region is a    *)
(* power of two bytes, aligned to its size, in eight subregions that can   *)
(* be disabled one by one.  Functions only: Cm0p_proofs has what they      *)
(* promise for every target range.                                         *)
(***************************************************************************)
EXTENDS Integers

AddressSpace == 65536 * 65536

(***************************************************************************)
(* The sizes from 256 bytes to the whole address space, doubling.  The     *)
(* code of a size is the exponent of two less one: 7 for 256 bytes.        *)
(***************************************************************************)
SizeOf ==
  << 256, 512, 1024, 2048, 4096, 8192, 16384, 32768, 65536, 131072, 262144, 524288,
     1048576, 2097152, 4194304, 8388608, 16777216, 33554432, 67108864, 134217728,
     268435456, 536870912, 1073741824, 32768 * 65536, AddressSpace >>

FirstCode == 7
LastCode == 31
Size(code) == SizeOf[code - FirstCode + 1]

InvalidCode == 255

\* An argument of 32 bits: the size of the whole address space arrives as 0.
EncodeRegionSize(bytes) ==
  LET codes == {c \in FirstCode..LastCode : Size(c) = bytes % AddressSpace}
  IN  IF codes = {} THEN InvalidCode ELSE CHOOSE c \in codes : TRUE

\* base rounded down to a multiple of the size.
RegionBase(base, size) == base - (base % size)

Contains(base, end, size) == end <= RegionBase(base, size) + size

\* The code of the smallest region that contains the range.
CoverCode(base, end) ==
  CHOOSE c \in FirstCode..LastCode :
    /\ Contains(base, end, Size(c))
    /\ \A d \in FirstCode..(c - 1) : ~Contains(base, end, Size(d))

\* Subregion i of a region lies between these.
SubStart(region, sub, i) == region + i * sub
SubEnd(region, sub, i) == region + i * sub + sub

NoRegion == [found |-> FALSE]

Cover(base, len) ==
  LET end == base + len
      size == Size(CoverCode(base, end))
      region == RegionBase(base, size)
      sub == size \div 8
  IN  IF len = 0 \/ end > AddressSpace
      THEN NoRegion
      ELSE [found |-> TRUE,
            base |-> region,
            sizeCode |-> EncodeRegionSize(size),
            disabled |-> {i \in 0..7 : ~(SubStart(region, sub, i) < end /\ SubEnd(region, sub, i) > base)},
            exact |-> base % sub = 0 /\ end % sub = 0]

\* The addresses the rule of a region that starts and is disabled there applies to.
Matches(start, size, disabled, addr) ==
  /\ start <= addr /\ addr < start + size
  /\ (addr - start) \div (size \div 8) \notin disabled

(***************************************************************************)
(* The wall: the CM4 gets a protection context of its own, and the one     *)
(* rule denies that context the image of the CM0+.                         *)
(***************************************************************************)
KeyRegionBase == 268435456
KeyRegionLen == 131072
PcCm0p == 2
PcCm4 == 3

KeyRegion == Cover(KeyRegionBase, KeyRegionLen)

\* MATCH mode: the rule takes part in the accesses of the contexts in its mask only.
DeniedTo == {PcCm4}

Denied(pc, addr) ==
  /\ pc \in DeniedTo
  /\ KeyRegion.found
  /\ Matches(KeyRegionBase, Size(KeyRegion.sizeCode), KeyRegion.disabled, addr)
=============================================================================
