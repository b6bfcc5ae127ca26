------------------------------ MODULE Cm0p_proofs ------------------------------
(***************************************************************************)
(* Proofs about the CM0+ of the nodes: the wall it builds around its keys, *)
(* for every range of the address space, and the service behind that wall, *)
(* for any number of calls, faults of the block and spoiled replies.       *)
(***************************************************************************)
EXTENDS ProtRegion, CryptoService, TLAPS

Codes == FirstCode..LastCode

\* Every size is one of these, and the sizes double.
LEMMA SizeValues ==
  \A c \in Codes : /\ Size(c) \in { 256, 512, 1024, 2048, 4096, 8192, 16384, 32768, 65536,
                                    131072, 262144, 524288, 1048576, 2097152, 4194304, 8388608,
                                    16777216, 33554432, 67108864, 134217728, 268435456, 536870912,
                                    1073741824, 32768 * 65536, 65536 * 65536 }
<1> SUFFICES ASSUME NEW c \in Codes
             PROVE  Size(c) \in { 256, 512, 1024, 2048, 4096, 8192, 16384, 32768, 65536,
                                  131072, 262144, 524288, 1048576, 2097152, 4194304, 8388608,
                                  16777216, 33554432, 67108864, 134217728, 268435456, 536870912,
                                  1073741824, 32768 * 65536, 65536 * 65536 }
  OBVIOUS
<1>1. c - 6 \in {1, 2, 3, 4, 5, 6, 7, 8, 9, 10, 11, 12, 13, 14, 15, 16, 17, 18, 19, 20, 21, 22,
                 23, 24, 25}
  BY DEF Codes, FirstCode, LastCode
<1>2. c - FirstCode + 1 = c - 6
  BY DEF Codes, FirstCode, LastCode
<1> QED
  BY <1>1, <1>2 DEF Size, SizeOf, AddressSpace

\* A size is a multiple of eight; rounding down to one leaves the remainder.
LEMMA Rounding ==
  ASSUME NEW c \in Codes, NEW base \in Nat
  PROVE  LET s == Size(c)
         IN  /\ s \in Nat /\ s >= 256 /\ s \div 8 \in Nat /\ s \div 8 > 0 /\ s = 8 * (s \div 8)
             /\ base % s \in 0..(s - 1)
             /\ RegionBase(base, s) \in Nat
             /\ RegionBase(base, s) <= base /\ base < RegionBase(base, s) + s
<1> DEFINE s == Size(c)
<1>1. s \in { 256, 512, 1024, 2048, 4096, 8192, 16384, 32768, 65536,
              131072, 262144, 524288, 1048576, 2097152, 4194304, 8388608,
              16777216, 33554432, 67108864, 134217728, 268435456, 536870912,
              1073741824, 32768 * 65536, 65536 * 65536 }
  BY SizeValues
<1> HIDE DEF s
<1>2. s \in Nat /\ s >= 256
  BY <1>1
<1>3. s \div 8 \in Nat /\ s \div 8 > 0 /\ s = 8 * (s \div 8)
  BY <1>1
<1>4. base % s \in 0..(s - 1)
  BY <1>2
<1>5. base % s <= base
  BY <1>1
<1> QED
  BY <1>2, <1>3, <1>4, <1>5 DEF s, RegionBase

LEMMA Division ==
  ASSUME NEW x \in Nat, NEW y \in Nat, y > 0
  PROVE  /\ x \div y \in Nat
         /\ y * (x \div y) <= x
         /\ x < y * (x \div y) + y
         /\ x % y = x - y * (x \div y)
  BY SMT

\* Among the codes that are good for something there is a first one.
LEMMA FirstCodeOf ==
  ASSUME NEW T, T \subseteq Codes, LastCode \in T
  PROVE  \E c \in T : \A d \in FirstCode..(c - 1) : d \notin T
  BY SMT DEF Codes, FirstCode, LastCode

\* The range the region is asked for.
Target(base, len) == base \in Nat /\ len \in Nat \ {0} /\ base + len <= AddressSpace

LEMMA CodeChosen ==
  ASSUME NEW base, NEW len, Target(base, len)
  PROVE  /\ CoverCode(base, base + len) \in Codes
         /\ Contains(base, base + len, Size(CoverCode(base, base + len)))
         /\ \A d \in FirstCode..(CoverCode(base, base + len) - 1) : ~Contains(base, base + len, Size(d))
<1> DEFINE end == base + len
           T == {c \in Codes : Contains(base, end, Size(c))}
<1>1. base \in Nat /\ base + len <= 65536 * 65536 /\ len \in Nat
  BY DEF Target, AddressSpace
<1>2. Size(LastCode) = 65536 * 65536
  BY DEF Size, SizeOf, LastCode, FirstCode, AddressSpace
<1>3. LastCode \in Codes
  BY DEF Codes, FirstCode, LastCode
<1>4. RegionBase(base, Size(LastCode)) \in Nat
  BY <1>1, <1>3, Rounding
<1>5. Contains(base, end, Size(LastCode))
  BY <1>1, <1>2, <1>4 DEF Contains
<1>6. LastCode \in T
  BY <1>3, <1>5
<1>7. PICK c \in T : \A d \in FirstCode..(c - 1) : d \notin T
  <2> HIDE DEF T
  <2>1. T \subseteq Codes
    BY DEF T
  <2> QED
    BY <1>6, <2>1, FirstCodeOf
<1>8. \A d \in FirstCode..(c - 1) : d \in Codes
  BY <1>7 DEF Codes, FirstCode, LastCode
<1>9. /\ Contains(base, end, Size(c))
      /\ \A d \in FirstCode..(c - 1) : ~Contains(base, end, Size(d))
  BY <1>7, <1>8
<1> QED
  BY <1>7, <1>9, Zenon DEF CoverCode, Codes

-----------------------------------------------------------------------------
Covering(base, len) == Size(CoverCode(base, base + len))

\* The region that is found, with its size and the size of a subregion as numbers.
LEMMA CoverShape ==
  ASSUME NEW base, NEW len, Target(base, len)
  PROVE  LET r == Cover(base, len)
             size == Covering(base, len)
             sub == size \div 8
         IN  /\ size \in Nat /\ sub \in Nat /\ sub > 0 /\ size = 8 * sub
             /\ r.found
             /\ r.base \in Nat /\ r.base <= base /\ base + len <= r.base + size
             /\ r.base = RegionBase(base, size)
             /\ r.disabled = {i \in 0..7 : ~(SubStart(r.base, sub, i) < base + len /\ SubEnd(r.base, sub, i) > base)}
             /\ (r.exact <=> base % sub = 0 /\ (base + len) % sub = 0)
             /\ r.sizeCode = EncodeRegionSize(size)
<1> DEFINE size == Covering(base, len)
           sub == size \div 8
           region == RegionBase(base, size)
<1>1. base \in Nat /\ len \in Nat /\ len # 0 /\ ~(base + len > AddressSpace)
  BY DEF Target, AddressSpace
<1>2. Cover(base, len) =
        [found |-> TRUE, base |-> region, sizeCode |-> EncodeRegionSize(size),
         disabled |-> {i \in 0..7 : ~(SubStart(region, sub, i) < base + len /\ SubEnd(region, sub, i) > base)},
         exact |-> base % sub = 0 /\ (base + len) % sub = 0]
  BY <1>1, Zenon DEF Cover, Covering
<1>3. CoverCode(base, base + len) \in Codes /\ Contains(base, base + len, size)
  BY CodeChosen DEF Covering
<1>4. /\ size \in Nat /\ sub \in Nat /\ sub > 0 /\ size = 8 * sub
      /\ region \in Nat /\ region <= base
  BY <1>1, <1>3, Rounding DEF Covering
<1>5. base + len <= region + size
  BY <1>3 DEF Contains
<1> DEFINE off == {i \in 0..7 : ~(SubStart(region, sub, i) < base + len /\ SubEnd(region, sub, i) > base)}
           tiled == base % sub = 0 /\ (base + len) % sub = 0
<1> HIDE DEF size, sub, region
<1>7. Cover(base, len) =
        [found |-> TRUE, base |-> region, sizeCode |-> EncodeRegionSize(size),
         disabled |-> off, exact |-> tiled]
  BY <1>2, Zenon
<1>8. Cover(base, len).exact = tiled
  <2> HIDE DEF off, tiled
  <2> QED
    BY <1>7
<1>6. LET r == Cover(base, len)
      IN  /\ r.found /\ r.base = region /\ r.sizeCode = EncodeRegionSize(size)
          /\ r.disabled = {i \in 0..7 : ~(SubStart(region, sub, i) < base + len /\ SubEnd(region, sub, i) > base)}
          /\ (r.exact <=> base % sub = 0 /\ (base + len) % sub = 0)
  <2>1. LET r == Cover(base, len)
        IN  r.found /\ r.base = region /\ r.sizeCode = EncodeRegionSize(size) /\ r.disabled = off
    <3> HIDE DEF off, tiled
    <3> QED
      BY <1>7
  <2> QED
    BY <1>8, <2>1, Zenon
<1> QED
  BY <1>4, <1>5, <1>6, Zenon DEF size, sub, region

\* Where an address lies in a region of eight equal parts.
LEMMA Part ==
  ASSUME NEW b \in Nat, NEW sub \in Nat, sub > 0, NEW a \in Nat, b <= a, a < b + 8 * sub
  PROVE  LET i == (a - b) \div sub
         IN  /\ i \in 0..7
             /\ SubStart(b, sub, i) <= a /\ a < SubEnd(b, sub, i)
<1> DEFINE i == (a - b) \div sub
<1>1. a - b \in Nat
  OBVIOUS
<1>2. i \in Nat /\ sub * i <= a - b /\ a - b < sub * i + sub
  BY <1>1, Division
<1> HIDE DEF i
<1>3. sub * i < sub * 8
  BY <1>1, <1>2
<1>4. i < 8
  BY <1>2, <1>3
<1>5. i * sub = sub * i /\ i * sub \in Nat
  BY <1>2
<1>6. SubStart(b, sub, i) <= a /\ a < SubEnd(b, sub, i)
  BY <1>2, <1>5 DEF SubStart, SubEnd
<1> QED
  BY <1>2, <1>4, <1>6 DEF i

(***************************************************************************)
(* prot_region_cover (prot_region.c:33-89): the rule of the region it      *)
(* finds applies to every address of the target: no subregion that holds a *)
(* byte of the target is disabled, and no byte lies outside the region.    *)
(***************************************************************************)
THEOREM NothingIsLeftOut ==
  ASSUME NEW base, NEW len, Target(base, len), NEW addr \in base..(base + len - 1)
  PROVE  Matches(Cover(base, len).base, Covering(base, len), Cover(base, len).disabled, addr)
<1> DEFINE r == Cover(base, len)
           sub == Covering(base, len) \div 8
           i == (addr - r.base) \div sub
<1>1. /\ Covering(base, len) \in Nat /\ sub \in Nat /\ sub > 0 /\ Covering(base, len) = 8 * sub
      /\ r.base \in Nat /\ r.base <= base /\ base + len <= r.base + Covering(base, len)
      /\ r.disabled = {j \in 0..7 : ~(SubStart(r.base, sub, j) < base + len /\ SubEnd(r.base, sub, j) > base)}
  BY CoverShape
<1>2. base \in Nat /\ len \in Nat /\ addr \in Nat /\ base <= addr /\ addr < base + len
  BY DEF Target
<1> HIDE DEF r, sub
<1>3. r.base <= addr /\ addr < r.base + 8 * sub
  BY <1>1, <1>2
<1>4. SubStart(r.base, sub, i) <= addr /\ addr < SubEnd(r.base, sub, i) /\ i \in 0..7
  BY <1>1, <1>2, <1>3, Part
<1> HIDE DEF i
<1>5. SubStart(r.base, sub, i) < base + len /\ SubEnd(r.base, sub, i) > base
  BY <1>1, <1>2, <1>4 DEF SubStart, SubEnd
<1>6. i \notin r.disabled
  BY <1>1, <1>5
<1> QED
  BY <1>1, <1>3, <1>6 DEF Matches, r, sub, i

(***************************************************************************)
(* prot_region_cover (prot_region.c:65-77): a subregion stays enabled only *)
(* for the sake of the target, one of whose bytes it holds.                *)
(***************************************************************************)
THEOREM EnabledForTheTarget ==
  ASSUME NEW base, NEW len, Target(base, len),
         NEW i \in (0..7) \ Cover(base, len).disabled
  PROVE  LET sub == Covering(base, len) \div 8
             b == Cover(base, len).base
         IN  \E addr \in base..(base + len - 1) : SubStart(b, sub, i) <= addr /\ addr < SubEnd(b, sub, i)
<1> DEFINE r == Cover(base, len)
           sub == Covering(base, len) \div 8
           start == SubStart(r.base, sub, i)
<1>1. /\ sub \in Nat /\ sub > 0 /\ r.base \in Nat
      /\ r.disabled = {j \in 0..7 : ~(SubStart(r.base, sub, j) < base + len /\ SubEnd(r.base, sub, j) > base)}
  BY CoverShape
<1>2. base \in Nat /\ len \in Nat /\ len > 0
  BY DEF Target
<1>3. i \in 0..7 /\ i \notin r.disabled
  OBVIOUS
<1> HIDE DEF r, sub
<1>4. start < base + len /\ SubEnd(r.base, sub, i) > base
  BY <1>1, <1>3
<1>5. i * sub \in Nat
  BY <1>1, <1>3
<1>6. start \in Nat /\ SubEnd(r.base, sub, i) = start + sub
  BY <1>1, <1>5 DEF SubStart, SubEnd
<1> HIDE DEF start
<1>7. CASE start <= base
  <2>1. base \in base..(base + len - 1) /\ start <= base /\ base < SubEnd(r.base, sub, i)
    BY <1>2, <1>4, <1>6, <1>7
  <2> QED
    BY <2>1 DEF r, sub, start
<1>8. CASE start > base
  <2>1. start \in base..(base + len - 1) /\ start <= start /\ start < SubEnd(r.base, sub, i)
    BY <1>1, <1>2, <1>4, <1>6, <1>8
  <2> QED
    BY <2>1 DEF r, sub, start
<1> QED
  BY <1>2, <1>6, <1>7, <1>8

LEMMA Multiples ==
  ASSUME NEW sub \in Nat, sub > 0, NEW j \in Int, NEW k \in Int
  PROVE  /\ sub * j < sub * k => sub * j + sub <= sub * k
         /\ j * sub = sub * j
<1>1. CASE j < k
  <2>1. k - j - 1 \in Nat
    BY <1>1
  <2>2. sub * (k - j - 1) >= 0
    BY <2>1
  <2> QED
    BY <2>2
<1>2. CASE j >= k
  <2>1. j - k \in Nat
    BY <1>2
  <2>2. sub * (j - k) >= 0
    BY <2>1
  <2> QED
    BY <2>2
<1> QED
  BY <1>1, <1>2

(***************************************************************************)
(* prot_region_cover (prot_region.c:79-81): when it reports an exact fit,  *)
(* the rule applies to the target and to nothing else.                     *)
(***************************************************************************)
THEOREM ExactIsExact ==
  ASSUME NEW base, NEW len, Target(base, len), Cover(base, len).exact, NEW addr \in Nat
  PROVE  Matches(Cover(base, len).base, Covering(base, len), Cover(base, len).disabled, addr)
           <=> addr \in base..(base + len - 1)
<1>4. ASSUME addr \in base..(base + len - 1)
      PROVE  Matches(Cover(base, len).base, Covering(base, len), Cover(base, len).disabled, addr)
  BY <1>4, NothingIsLeftOut
<1> DEFINE r == Cover(base, len)
           size == Covering(base, len)
           sub == size \div 8
           i == (addr - r.base) \div sub
           end == base + len
<1>1. /\ size \in Nat /\ sub \in Nat /\ sub > 0 /\ size = 8 * sub
      /\ r.base \in Nat /\ r.base <= base /\ end <= r.base + size
      /\ r.base = RegionBase(base, size)
      /\ r.disabled = {j \in 0..7 : ~(SubStart(r.base, sub, j) < end /\ SubEnd(r.base, sub, j) > base)}
  BY CoverShape
<1>2. base % sub = 0 /\ end % sub = 0
  BY CoverShape
<1>3. base \in Nat /\ len \in Nat /\ len > 0 /\ end \in Nat
  BY DEF Target
<1>5. Matches(Cover(base, len).base, Covering(base, len), Cover(base, len).disabled, addr)
        => addr \in base..(base + len - 1)
  <2> SUFFICES ASSUME Matches(Cover(base, len).base, Covering(base, len), Cover(base, len).disabled, addr)
               PROVE  addr \in base..(base + len - 1)
    OBVIOUS
  <2>1. r.base <= addr /\ addr < r.base + size /\ i \notin r.disabled
    BY DEF Matches
  <2> HIDE DEF r, size, sub, end
  <2>2. r.base <= addr /\ addr < r.base + 8 * sub
    BY <1>1, <2>1
  <2>3. i \in 0..7 /\ SubStart(r.base, sub, i) <= addr /\ addr < SubEnd(r.base, sub, i)
    BY <1>1, <2>2, Part
  <2> HIDE DEF i
  <2>4. SubStart(r.base, sub, i) < end /\ SubEnd(r.base, sub, i) > base
    BY <1>1, <2>1, <2>3
  <2> DEFINE kb == 8 * (base \div size)
             kp == base \div sub
             ke == end \div sub
  <2>16. size > 0
    BY <1>1
  <2>5. base \div size \in Nat /\ base % size = base - size * (base \div size)
    BY <1>1, <1>3, <2>16, Division
  <2>6. r.base = size * (base \div size)
    BY <1>1, <1>3, <2>5 DEF RegionBase
  <2>7. size * (base \div size) = sub * kb /\ kb \in Nat
    <3> HIDE DEF kb
    <3>1. kb = 8 * (base \div size) /\ kb \in Nat
      BY <2>5 DEF kb
    <3> QED
      BY <1>1, <2>5, <3>1
  <2>8. base = sub * kp /\ kp \in Nat
    BY <1>1, <1>2, <1>3, Division
  <2>9. end = sub * ke /\ ke \in Nat
    BY <1>1, <1>2, <1>3, Division
  <2> HIDE DEF kb, kp, ke
  <2>10. r.base = sub * kb
    BY <2>6, <2>7
  <2> DEFINE n == kb + i
  <2>11. n \in Nat /\ sub * n = sub * kb + sub * i /\ i * sub = sub * i
    BY <1>1, <2>3, <2>7
  <2>12. SubStart(r.base, sub, i) = sub * n /\ SubEnd(r.base, sub, i) = sub * n + sub
    BY <2>10, <2>11 DEF SubStart, SubEnd
  <2> HIDE DEF n
  <2>13. sub * n + sub <= end
    <3>1. sub * n < sub * ke
      BY <2>4, <2>9, <2>12
    <3>2. sub * n + sub <= sub * ke
      BY <1>1, <2>9, <2>11, <3>1, Multiples
    <3> QED
      BY <2>9, <3>2
  <2>14. base <= sub * n
    <3>1. ~(sub * n < base)
      <4> SUFFICES ASSUME sub * n < sub * kp PROVE FALSE
        BY <2>8
      <4>2. n \in Int /\ kp \in Int
        BY <2>8, <2>11
      <4>1. sub * n + sub <= sub * kp
        BY <1>1, <4>2, Multiples, Zenon
      <4> QED
        BY <2>4, <2>8, <2>12, <4>1, <1>3, <1>1, <2>11
    <3> QED
      BY <3>1, <1>1, <1>3, <2>11
  <2>15. base <= addr /\ addr < end
    BY <1>1, <1>3, <2>3, <2>11, <2>12, <2>13, <2>14
  <2> QED
    BY <1>3, <2>15 DEF end
<1> HIDE DEF r, size, sub, i, end
<1> QED
  BY <1>4, <1>5

(***************************************************************************)
(* The arithmetic of the wall (prot_config_cm0p.c:55-57): the helper gives *)
(* the base, code 16, no disabled subregion and an exact fit.              *)
(***************************************************************************)
LEMMA KeyCode ==
  /\ Target(KeyRegionBase, KeyRegionLen)
  /\ CoverCode(KeyRegionBase, KeyRegionBase + KeyRegionLen) = 16
  /\ Covering(KeyRegionBase, KeyRegionLen) = 131072
<1> DEFINE c == CoverCode(KeyRegionBase, KeyRegionBase + KeyRegionLen)
<1>1. Target(KeyRegionBase, KeyRegionLen)
  BY DEF Target, KeyRegionBase, KeyRegionLen, AddressSpace
<1>2. /\ c \in Codes
      /\ Contains(KeyRegionBase, KeyRegionBase + KeyRegionLen, Size(c))
      /\ \A d \in FirstCode..(c - 1) : ~Contains(KeyRegionBase, KeyRegionBase + KeyRegionLen, Size(d))
  BY <1>1, CodeChosen
<1> HIDE DEF c
<1>3. Contains(KeyRegionBase, KeyRegionBase + KeyRegionLen, Size(16)) /\ Size(16) = 131072
  BY DEF Contains, RegionBase, KeyRegionBase, KeyRegionLen, Size, SizeOf, FirstCode
<1>4. ~(c > 16)
  BY <1>2, <1>3 DEF Codes, FirstCode, LastCode
<1>5. ASSUME c \in {7, 8, 9, 10, 11, 12, 13, 14, 15} PROVE FALSE
  <2>1. Size(c) \in {256, 512, 1024, 2048, 4096, 8192, 16384, 32768, 65536}
    BY <1>5 DEF Size, SizeOf, FirstCode
  <2> HIDE DEF c
  <2>2. KeyRegionBase % Size(c) = 0
    BY <2>1 DEF KeyRegionBase
  <2> QED
    BY <1>2, <2>1, <2>2 DEF Contains, RegionBase, KeyRegionBase, KeyRegionLen
<1>6. c = 16
  BY <1>2, <1>4, <1>5 DEF Codes, FirstCode, LastCode
<1> QED
  BY <1>1, <1>3, <1>6 DEF c, Covering

(***************************************************************************)
(* The wall the CM0+ builds (prot_config_cm0p.c:55-81, 135-139): it keeps  *)
(* the CM4 out of the CM0+'s image, all of it and nothing else, and does   *)
(* not touch the accesses of the CM0+ itself.                              *)
(***************************************************************************)
THEOREM WallIsTheKeyRegion ==
  ASSUME NEW pc, NEW addr \in Nat
  PROVE  /\ Denied(pc, addr) <=> pc = PcCm4 /\ addr \in KeyRegionBase..(KeyRegionBase + KeyRegionLen - 1)
         /\ ~Denied(PcCm0p, addr)
<1>1. Target(KeyRegionBase, KeyRegionLen) /\ Covering(KeyRegionBase, KeyRegionLen) = 131072
  BY KeyCode
<1>2. /\ KeyRegion.found /\ KeyRegion.sizeCode = EncodeRegionSize(131072)
      /\ KeyRegion.base = RegionBase(KeyRegionBase, 131072)
      /\ (KeyRegion.exact <=> KeyRegionBase % 16384 = 0 /\ (KeyRegionBase + KeyRegionLen) % 16384 = 0)
  <2>1. 131072 \div 8 = 16384
    OBVIOUS
  <2> QED
    BY <1>1, <2>1, CoverShape DEF KeyRegion
<1>3. KeyRegion.base = KeyRegionBase
  BY <1>2 DEF RegionBase, KeyRegionBase
<1>4. KeyRegion.exact
  <2>1. KeyRegionBase % 16384 = 0 /\ (KeyRegionBase + KeyRegionLen) % 16384 = 0
    BY DEF KeyRegionBase, KeyRegionLen
  <2> QED
    BY <1>2, <2>1
<1>5. Size(EncodeRegionSize(131072)) = 131072
  <2> DEFINE codes == {c \in FirstCode..LastCode : Size(c) = 131072 % AddressSpace}
  <2>1. 131072 % AddressSpace = 131072
    BY DEF AddressSpace
  <2>2. 16 \in codes
    BY <2>1 DEF FirstCode, LastCode, Size, SizeOf
  <2>3. \A c \in codes : Size(c) = 131072
    BY <2>1
  <2>4. EncodeRegionSize(131072) = IF codes = {} THEN InvalidCode ELSE CHOOSE c \in codes : TRUE
    BY DEF EncodeRegionSize
  <2> HIDE DEF codes
  <2> QED
    BY <2>2, <2>3, <2>4
<1>6. Matches(KeyRegion.base, 131072, KeyRegion.disabled, addr)
        <=> addr \in KeyRegionBase..(KeyRegionBase + KeyRegionLen - 1)
  <2>1. Cover(KeyRegionBase, KeyRegionLen).exact
    BY <1>4 DEF KeyRegion
  <2>2. Matches(Cover(KeyRegionBase, KeyRegionLen).base, Covering(KeyRegionBase, KeyRegionLen),
                Cover(KeyRegionBase, KeyRegionLen).disabled, addr)
          <=> addr \in KeyRegionBase..(KeyRegionBase + KeyRegionLen - 1)
    BY <1>1, <2>1, ExactIsExact
  <2> QED
    BY <1>1, <2>2 DEF KeyRegion
<1>7. Size(KeyRegion.sizeCode) = 131072
  BY <1>2, <1>5
<1>8. Denied(pc, addr) <=> pc = PcCm4 /\ Matches(KeyRegion.base, 131072, KeyRegion.disabled, addr)
  BY <1>2, <1>3, <1>7 DEF Denied, DeniedTo
<1>9. ~Denied(PcCm0p, addr)
  BY DEF Denied, DeniedTo, PcCm0p, PcCm4
<1> QED
  BY <1>6, <1>8, <1>9

-----------------------------------------------------------------------------
(***************************************************************************)
(* The crypto service.  While no client has given up, a request and its    *)
(* answer are alone in the mailbox, and the answer is one that the request *)
(* deserves; once a client has, its answer may meet the next request.      *)
(***************************************************************************)
Request(c) == IF c = "fbl" THEN Verify \cup Hash
              ELSE [op : {"MAC"}, key : {"mac", "other"}, msg : Nat, len : MacLengths]

\* What the CM0+ of a node that holds both keys may answer, by what the block did.
VerdictsOn(r) ==
  IF Genuine(r) THEN {"VALID"} \cup IF faults > 0 THEN {"INVALID", "ERROR"} ELSE {}
  ELSE {"INVALID"} \cup IF faults > 0 THEN {"ERROR"} ELSE {}

Replies(r) ==
  CASE r.op = "VERIFY" -> {Verdict("VERIFY", v) : v \in VerdictsOn(r)}
    [] r.op = "MAC" -> (IF r.key = "mac" THEN {TagReply(r.key, r.msg)} ELSE {})
                       \cup IF r.key = "other" \/ faults > 0 THEN {Verdict("MAC", "ERROR")} ELSE {}
    [] r.op = "HASH" -> {DigestReply(r.msg), DigestReply(-1), Verdict("HASH", "ERROR")}

\* What FBL_M4_SEAM6_GARBAGE may have made of a reply on its way.
Wires(m) == {Encode(m)} \cup IF garbles > 0 THEN {[Encode(m) EXCEPT !.op = "garbled"]} ELSE {}

\* Request and answer of the client that holds the lock.
Exchange(r) ==
  \/ /\ mailbox = [status |-> "REQUEST", wire |-> Encode(Message(r))]
     /\ server.pc = "poll" \/ (server.pc = "busy" /\ server.reply \in Replies(r))
  \/ /\ mailbox.status = "RESPONSE" /\ server.pc = "poll"
     /\ \E m \in Replies(r) : mailbox.wire \in Wires(m)

OneExchange == ~late =>
  /\ lock \in Client \cup {NoClient}
  /\ \A c \in Client : IF lock = c THEN client[c].pc = "wait" ELSE client[c].pc = "idle"
  /\ lock = NoClient => mailbox.status = "IDLE" /\ server.pc = "poll"
  /\ lock \in Client => LET r == client[lock].request IN
       r \in Request(lock) /\ ~Refusable(r) /\ Exchange(r)

\* The bootloader runs on Node A only, and alone.
WhoRuns ==
  /\ node \in Node /\ (running = "fbl" => node = "A")
  /\ ~late /\ running = "fbl" => lock \in {"fbl", NoClient}
  /\ ~late /\ lock = "fbl" => running = "fbl"

\* An error bit that is set stands for a fault that has cost no MAC yet.
BitIsAFault ==
  /\ faults \in Nat /\ refused \in Nat /\ garbles \in Nat /\ calls \in Nat /\ busError \in BOOLEAN
  /\ refused <= faults /\ (busError => refused < faults)

ClientShape == client = [c \in Client |-> client[c]]

ServiceInv == ClientShape /\ BitIsAFault /\ WhoRuns /\ OneExchange /\ CallsTellTheTruth

\* The three kinds of request.
LEMMA RequestKinds ==
  ASSUME NEW c, NEW r \in Request(c)
  PROVE  \/ r.op = "VERIFY" /\ r \in Verify /\ c = "fbl"
         \/ r.op = "HASH" /\ r \in Hash /\ c = "fbl"
         \/ r.op = "MAC" /\ r.key \in {"mac", "other"} /\ r.len \in MacLengths /\ c # "fbl"
BY DEF Request, Verify, Hash

\* What the envelope of a request that is sent holds (crypto_msg.c).
LEMMA MessageIs ==
  ASSUME NEW c, NEW r \in Request(c), ~Refusable(r)
  PROVE  /\ r.op = "VERIFY" => Message(r) = VerifyRequest(r.image, r.key)
         /\ r.op = "HASH" => Message(r) = HashRequest(r.msg)
         /\ r.op = "MAC" => /\ r.len \in Nat /\ 6 + r.len <= MaxPayload
                            /\ Message(r) = [op |-> "MAC", length |-> 6 + r.len,
                                   body |-> [kind |-> "bytes", key |-> r.key, msg |-> r.msg, len |-> r.len]]
<1>1. CASE r.op = "MAC"
  <2>1. r.len \in Nat
    BY <1>1, RequestKinds, ServiceAssumption
  <2>2. ~(r.len > MaxPayload - 6)
    BY <1>1 DEF Refusable
  <2>3. 6 + r.len <= MaxPayload
    BY <2>1, <2>2 DEF MaxPayload
  <2>4. ~(6 + r.len > MaxPayload)
    BY <2>1, <2>3 DEF MaxPayload
  <2> QED BY <1>1, <2>1, <2>3, <2>4 DEF Message, MacRequest
<1>2. CASE r.op # "MAC"
  BY <1>2 DEF Message
<1> QED BY <1>1, <1>2

\* Whatever the CM0+ finds in the mailbox, it answers, and the account of faults
\* and refused MACs holds (crypto_dispatch, cmac_compute).
LEMMA DispatchAnswers ==
  ASSUME NEW w, Dispatch(w), BitIsAFault
  PROVE  /\ server'.pc = "busy"
         /\ faults' \in Nat /\ faults' >= faults /\ refused' \in Nat /\ busError' \in BOOLEAN
         /\ refused' <= faults' /\ (busError' => refused' < faults')
<1> USE DEF BitIsAFault
<1>1. ASSUME NEW m, Refuse(m)
      PROVE  server'.pc = "busy" /\ UNCHANGED <<busError, faults, refused>>
  BY <1>1 DEF Refuse, Answer
<1>2. ASSUME NEW f, BlockRuns(f)
      PROVE  faults' \in Nat /\ faults' = IF f = "works" THEN faults ELSE faults + 1
  BY <1>2 DEF BlockRuns
<1>3. ASSUME NEW m, HashHandler(m) \/ VerifyHandler(m)
      PROVE  \/ server'.pc = "busy" /\ UNCHANGED <<busError, faults, refused>>
             \/ \E f \in Outcome : /\ BlockRuns(f) /\ busError' = (busError \/ f = "bus")
                                   /\ server'.pc = "busy" /\ refused' = refused
  BY <1>1, <1>3 DEF HashHandler, VerifyHandler, Answer
<1>4. ASSUME NEW m, MacHandler(m)
      PROVE  \/ server'.pc = "busy" /\ UNCHANGED <<busError, faults, refused>>
             \/ \E f \in Outcome : /\ BlockRuns(f) /\ busError' = FALSE /\ server'.pc = "busy"
                                   /\ IF f = "works" /\ ~busError THEN refused' = refused
                                      ELSE refused' = refused + 1
  BY <1>1, <1>4 DEF MacHandler, Answer, AfterMac
<1>5. \/ \E m : Refuse(m)
      \/ \E m : HashHandler(m) \/ VerifyHandler(m)
      \/ \E m : MacHandler(m)
  <2>1. CASE ~Decodable(w)
    BY <2>1 DEF Dispatch
  <2>2. CASE Decodable(w)
    BY <2>2 DEF Dispatch, Handled
  <2> QED BY <2>1, <2>2
<1>6. ASSUME NEW f, BlockRuns(f) PROVE faults' >= faults /\ (f # "works" => faults' = faults + 1)
  BY <1>2, <1>6
<1>7. CASE server'.pc = "busy" /\ UNCHANGED <<busError, faults, refused>>
  BY <1>7
<1>8. CASE \E m : HashHandler(m) \/ VerifyHandler(m)
  <2>1. ASSUME NEW f \in Outcome, BlockRuns(f), busError' = (busError \/ f = "bus"), refused' = refused
        PROVE  refused' <= faults' /\ (busError' => refused' < faults') /\ busError' \in BOOLEAN
    <3>1. CASE f = "works"
      BY <1>2, <2>1, <3>1
    <3>2. CASE f # "works"
      BY <1>2, <2>1, <3>2
    <3> QED BY <3>1, <3>2
  <2> QED BY <1>2, <1>3, <1>6, <1>7, <1>8, <2>1
<1>9. CASE \E m : MacHandler(m)
  <2>1. ASSUME NEW f \in Outcome, BlockRuns(f), busError' = FALSE,
               IF f = "works" /\ ~busError THEN refused' = refused ELSE refused' = refused + 1
        PROVE  /\ refused' \in Nat /\ busError' \in BOOLEAN
               /\ refused' <= faults' /\ (busError' => refused' < faults')
    <3>1. CASE f = "works" /\ ~busError
      BY <1>2, <2>1, <3>1
    <3>2. CASE ~(f = "works" /\ ~busError)
      <4>1. refused' = refused + 1 /\ ~busError'
        BY <2>1, <3>2, Zenon
      <4>2. faults' > refused
        <5>1. CASE f = "works"
          BY <1>2, <2>1, <3>2, <5>1
        <5>2. CASE f # "works"
          BY <1>2, <2>1, <5>2
        <5> QED BY <5>1, <5>2
      <4>3. refused \in Nat /\ faults' \in Nat
        BY <1>2, <2>1
      <4>4. refused' \in Nat /\ refused' <= faults'
        BY <4>1, <4>2, <4>3
      <4> QED BY <2>1, <4>1, <4>4
    <3> QED BY <3>1, <3>2
  <2> QED BY <1>2, <1>4, <1>6, <1>7, <1>9, <2>1
<1> QED BY <1>1, <1>5, <1>7, <1>8, <1>9

\* The answer to a request that was sent is one the request deserves
\* (crypto_dispatch, do_verify_image, cmac_compute, crypto_keystore_lookup).
LEMMA AnswerIsDeserved ==
  ASSUME NEW c, NEW r \in Request(c), ~Refusable(r), c = "fbl" => node = "A",
         BitIsAFault, Dispatch(Encode(Message(r)))
  PROVE  server'.reply \in Replies(r)'
<1> DEFINE m == Message(r)
<1>0. faults' \in Nat /\ faults' >= faults /\ faults \in Nat /\ (busError => faults > 0)
  BY DispatchAnswers DEF BitIsAFault
<1>b. ASSUME NEW f, BlockRuns(f), f # "works" PROVE faults' > 0
  BY <1>0, <1>b DEF BlockRuns
<1>1. CASE r.op = "VERIFY"
  <2>1. m = VerifyRequest(r.image, r.key) /\ r \in Verify /\ node = "A"
    BY <1>1, MessageIs, RequestKinds
  <2>2. /\ Decodable(Encode(m)) /\ Decode(Encode(m)) = m /\ Encode(m).op = "VERIFY"
        /\ IsVerifyRequest(m) /\ m.body.key = r.key /\ m.body.image = r.image
    BY <2>1 DEF Decodable, Decode, Encode, VerifyRequest, IsVerifyRequest, MaxPayload, HdrSize
  <2>3. VerifyHandler(m)
    BY <2>1, <2>2 DEF Dispatch, Handled
  <2>4. CASE Lookup(r.key) # "public" /\ server'.reply = Verdict("VERIFY", "INVALID")
    <3>1. ~Genuine(r)
      BY <2>1, <2>4 DEF Genuine, Lookup, HasPublicKey
    <3> QED BY <1>1, <2>4, <3>1 DEF Replies, VerdictsOn, Genuine
  <2>5. ASSUME NEW f \in Outcome, BlockRuns(f), Lookup(r.key) = "public",
               server'.reply = Verdict("VERIFY", Verified(r.image, f))
        PROVE  server'.reply \in Replies(r)'
    <3>1. r.key = "dev"
      BY <2>1, <2>5 DEF Lookup, Verify, Key
    <3>2. CASE f = "works"
      <4>1. Verified(r.image, f) = IF Genuine(r) THEN "VALID" ELSE "INVALID"
        BY <3>1, <3>2 DEF Verified, Genuine
      <4>2. Verified(r.image, f) \in VerdictsOn(r)'
        BY <4>1 DEF VerdictsOn, Genuine
      <4> QED BY <1>1, <2>5, <4>2 DEF Replies
    <3>3. CASE f # "works"
      <4>1. Verified(r.image, f) \in {"INVALID", "ERROR"} /\ faults' > 0
        BY <1>b, <2>5, <3>3 DEF Verified
      <4>2. Verified(r.image, f) \in VerdictsOn(r)'
        BY <4>1 DEF VerdictsOn, Genuine
      <4> QED BY <1>1, <2>5, <4>2 DEF Replies
    <3> QED BY <3>2, <3>3
  <2>6. \/ Lookup(r.key) # "public" /\ server'.reply = Verdict("VERIFY", "INVALID")
        \/ \E f \in Outcome : /\ BlockRuns(f) /\ Lookup(r.key) = "public"
                              /\ server'.reply = Verdict("VERIFY", Verified(r.image, f))
    BY <2>2, <2>3 DEF VerifyHandler, Refuse, Answer
  <2> QED BY <2>4, <2>5, <2>6
<1>2. CASE r.op = "MAC"
  <2>1. /\ m = [op |-> "MAC", length |-> 6 + r.len,
                body |-> [kind |-> "bytes", key |-> r.key, msg |-> r.msg, len |-> r.len]]
        /\ r.len \in Nat /\ 6 + r.len <= MaxPayload /\ r.key \in {"mac", "other"}
    BY <1>2, MessageIs, RequestKinds
  <2>2. /\ Decodable(Encode(m)) /\ Decode(Encode(m)) = m /\ Encode(m).op = "MAC"
        /\ IsMacRequest(m) /\ m.body.key = r.key /\ m.body.msg = r.msg
    BY <2>1 DEF Decodable, Decode, Encode, IsMacRequest, MaxPayload, HdrSize
  <2>3. MacHandler(m)
    BY <2>1, <2>2 DEF Dispatch, Handled
  <2>4. CASE Lookup(r.key) # "secret" /\ server'.reply = Verdict("MAC", "ERROR")
    <3>1. r.key = "other"
      BY <2>1, <2>4 DEF Lookup
    <3> QED BY <1>2, <2>4, <3>1 DEF Replies
  <2>5. ASSUME NEW f \in Outcome, BlockRuns(f), Lookup(r.key) = "secret",
               IF f = "works" /\ ~busError THEN server'.reply = TagReply(r.key, r.msg)
               ELSE server'.reply = Verdict("MAC", "ERROR")
        PROVE  server'.reply \in Replies(r)'
    <3>1. r.key = "mac"
      BY <2>1, <2>5 DEF Lookup
    <3>2. CASE f = "works" /\ ~busError
      BY <1>2, <2>5, <3>1, <3>2 DEF Replies
    <3>3. CASE ~(f = "works" /\ ~busError)
      <4>1. faults' > 0
        BY <1>0, <1>b, <2>5, <3>3
      <4> QED BY <1>2, <2>5, <3>3, <4>1 DEF Replies
    <3> QED BY <3>2, <3>3
  <2>6. \/ Lookup(r.key) # "secret" /\ server'.reply = Verdict("MAC", "ERROR")
        \/ \E f \in Outcome : /\ BlockRuns(f) /\ Lookup(r.key) = "secret"
                              /\ IF f = "works" /\ ~busError
                                 THEN server'.reply = TagReply(r.key, r.msg)
                                 ELSE server'.reply = Verdict("MAC", "ERROR")
    BY <2>2, <2>3 DEF MacHandler, Refuse, Answer
  <2> QED BY <2>4, <2>5, <2>6
<1>3. CASE r.op = "HASH"
  <2>1. m = HashRequest(r.msg) /\ node = "A"
    BY <1>3, MessageIs, RequestKinds
  <2>2. /\ Decodable(Encode(m)) /\ Decode(Encode(m)) = m /\ Encode(m).op = "HASH"
        /\ m.body.msg = r.msg
    BY <2>1 DEF Decodable, Decode, Encode, HashRequest, MaxPayload, HdrSize
  <2>3. HashHandler(m)
    BY <2>1, <2>2 DEF Dispatch, Handled
  <2> QED BY <1>3, <2>2, <2>3 DEF HashHandler, Answer, Outcome, Replies
<1> QED BY <1>1, <1>2, <1>3, RequestKinds


\* How a call ends: what it returns is true of its request, and it reports what
\* it failed of.
Right(e) ==
  /\ e.result = "VALID" => Genuine(e.request)
  /\ e.result = "INVALID" /\ faults = 0 => ~Genuine(e.request)
  /\ e.result # "wrong tag"
  /\ e.request.op # "HASH" =>
       /\ Len(e.reports) = IF e.result \in {"ERROR", "failed"} THEN 1 ELSE 0
       /\ e.reports = <<"REFUSED">> => faults > 0 \/ garbles > 0 \/ e.request.key = "other"

Ending(r, e) == e.pc = "idle" /\ e.request = r /\ Right(e)

LEMMA FailedIsRight ==
  ASSUME NEW c, NEW r \in Request(c), NEW reason,
         reason = "REFUSED" => faults > 0 \/ garbles > 0 \/ (r.op = "MAC" /\ r.key = "other")
  PROVE  Ending(r, Failed(r, reason))
<1>1. /\ Failed(r, reason).pc = "idle" /\ Failed(r, reason).request = r
      /\ Failed(r, reason).result = Failure(r)
      /\ Failed(r, reason).reports = IF r.op = "HASH" THEN <<>> ELSE <<reason>>
  BY DEF Failed, Idle
<1>2. Failure(r) \in {"ERROR", "failed", "mismatch"} /\ (r.op # "HASH" => Failure(r) \in {"ERROR", "failed"})
  BY RequestKinds DEF Failure
<1>3. Len(<<reason>>) = 1 /\ (<<reason>> = <<"REFUSED">> => reason = "REFUSED")
  OBVIOUS
<1> QED BY <1>1, <1>2, <1>3 DEF Ending, Right

\* A call that is answered as it deserves ends right, whatever is cut off or
\* spoiled on the way (crypto_verify, crypto_mac, crypto_hash_check).
LEMMA EndsRight ==
  ASSUME NEW c, NEW r \in Request(c), NEW m \in Replies(r), NEW w \in Wires(m), NEW e \in Ends(r, w),
         BitIsAFault
  PROVE  Ending(r, e)
<1>0. /\ w.length = m.length /\ w.body = m.body
      /\ w.op = m.op \/ (w.op = "garbled" /\ garbles > 0)
  BY DEF Wires, Encode
<1>1. CASE ~Decodable(w)
  BY <1>1, FailedIsRight DEF Ends
<1>2. CASE Decodable(w) /\ r.op = "VERIFY"
  <2>1. PICK v \in VerdictsOn(r) : m = Verdict("VERIFY", v)
    BY <1>2 DEF Replies
  <2>2. ParsedVerdicts(Decode(w)) = {v}
    BY <1>0, <2>1 DEF ParsedVerdicts, Decode, Verdict
  <2>3. v \in {"VALID", "INVALID", "ERROR"}
    BY <2>1 DEF VerdictsOn
  <2>4. e = IF v = "ERROR" THEN Failed(r, "REFUSED") ELSE Idle(r, v, <<>>)
    BY <1>2, <2>2, <2>3 DEF Ends, VerifyEnds
  <2>5. CASE v = "ERROR"
    <3>1. faults > 0
      BY <2>1, <2>5 DEF VerdictsOn
    <3> QED BY <2>4, <2>5, <3>1, FailedIsRight
  <2>6. CASE v # "ERROR"
    <3>1. /\ e.pc = "idle" /\ e.request = r /\ e.result = v /\ e.reports = <<>>
          /\ v \in {"VALID", "INVALID"}
      BY <2>3, <2>4, <2>6 DEF Idle
    <3>2. /\ v = "VALID" => Genuine(r)
          /\ v = "INVALID" /\ faults = 0 => ~Genuine(r)
      BY <2>1 DEF VerdictsOn
    <3>3. Len(e.reports) = 0 /\ e.reports # <<"REFUSED">>
      BY <3>1
    <3>4. Len(e.reports) = IF e.result \in {"ERROR", "failed"} THEN 1 ELSE 0
      BY <3>1, <3>3
    <3> QED BY <3>1, <3>2, <3>3, <3>4 DEF Ending, Right
  <2> QED BY <2>5, <2>6
<1>3. CASE Decodable(w) /\ r.op = "MAC"
  <2>1. CASE m = Verdict("MAC", "ERROR") /\ (r.key = "other" \/ faults > 0)
    <3>1. ~IsMacReply(Decode(w)) /\ ParsedVerdicts(Decode(w)) = {"ERROR"}
      BY <1>0, <2>1 DEF ParsedVerdicts, Decode, Verdict, IsMacReply, TagLen
    <3>2. e = Failed(r, "REFUSED")
      BY <1>3, <3>1 DEF Ends, MacEnds
    <3> QED BY <1>3, <2>1, <3>2, FailedIsRight
  <2>2. CASE m = TagReply(r.key, r.msg) /\ w.op = m.op
    <3>1. IsMacReply(Decode(w)) /\ Decode(w).body = TagReply(r.key, r.msg).body
      BY <1>0, <2>2 DEF IsMacReply, Decode, TagReply, TagLen
    <3>2. e = Idle(r, "tag", <<>>)
      BY <1>3, <3>1 DEF Ends, MacEnds
    <3>3. Len(<<>>) = 0 /\ <<>> # <<"REFUSED">>
      OBVIOUS
    <3> QED BY <3>2, <3>3 DEF Ending, Right, Idle
  <2>3. CASE w.op = "garbled" /\ garbles > 0
    <3>1. ~IsMacReply(Decode(w))
      BY <2>3 DEF IsMacReply, Decode
    <3>2. PICK reason \in {"BAD_REPLY", "REFUSED"} : e = Failed(r, reason)
      BY <1>3, <3>1 DEF Ends, MacEnds
    <3> QED BY <2>3, <3>2, FailedIsRight
  <2> QED BY <1>0, <1>3, <2>1, <2>2, <2>3 DEF Replies
<1>4. CASE Decodable(w) /\ r.op = "HASH"
  <2>1. e = Idle(r, "match", <<>>) \/ e = Failed(r, "none")
    BY <1>4 DEF Ends, HashEnds
  <2>2. CASE e = Idle(r, "match", <<>>)
    BY <1>4, <2>2 DEF Ending, Right, Idle
  <2> QED BY <2>1, <2>2, FailedIsRight
<1> QED BY <1>1, <1>2, <1>3, <1>4, RequestKinds


\* The counts of faults and spoiled replies only grow, and what was right stays
\* right.
Grown == /\ faults \in Nat /\ faults' \in Nat /\ faults' >= faults
         /\ garbles \in Nat /\ garbles' \in Nat /\ garbles' >= garbles

LEMMA RightStays ==
  ASSUME Grown, NEW e, Right(e)
  PROVE  Right(e)'
<1>1. (faults' = 0 => faults = 0) /\ (faults > 0 => faults' > 0) /\ (garbles > 0 => garbles' > 0)
  BY DEF Grown
<1> QED BY <1>1 DEF Right, Genuine

LEMMA RepliesGrow ==
  ASSUME Grown, NEW c, NEW r \in Request(c), NEW m
  PROVE  Replies(r) \subseteq Replies(r)' /\ Wires(m) \subseteq Wires(m)'
<1>1. (faults > 0 => faults' > 0) /\ (garbles > 0 => garbles' > 0)
  BY DEF Grown
<1>2. Wires(m) \subseteq Wires(m)'
  BY <1>1 DEF Wires
<1>3. CASE r.op = "VERIFY"
  <2>1. VerdictsOn(r) \subseteq VerdictsOn(r)'
    BY <1>1 DEF VerdictsOn, Genuine
  <2> QED BY <1>2, <1>3, <2>1 DEF Replies
<1>4. CASE r.op = "MAC"
  BY <1>1, <1>2, <1>4 DEF Replies
<1>5. CASE r.op = "HASH"
  BY <1>2, <1>5 DEF Replies
<1> QED BY <1>3, <1>4, <1>5, RequestKinds

LEMMA BitStep ==
  ASSUME BitIsAFault, [Next]_vars
  PROVE  BitIsAFault' /\ Grown
<1>1. ASSUME NEW c \in Client, Call(c) PROVE BitIsAFault' /\ Grown
  BY <1>1 DEF Call, BitIsAFault, Grown
<1>2. ASSUME NEW c \in Client, Return(c) \/ GiveUp(c) PROVE BitIsAFault' /\ Grown
  BY <1>2 DEF Return, GiveUp, Released, BitIsAFault, Grown
<1>3. CASE Jump
  BY <1>3 DEF Jump, BitIsAFault, Grown
<1>4. CASE Serve
  BY <1>4, DispatchAnswers DEF Serve, BitIsAFault, Grown
<1>5. CASE Respond
  BY <1>5 DEF Respond, BitIsAFault, Grown
<1>6. CASE UNCHANGED vars
  BY <1>6 DEF vars, BitIsAFault, Grown
<1> QED BY <1>1, <1>2, <1>3, <1>4, <1>5, <1>6 DEF Next

\* While nobody has given up, the ended calls were answered right; a call that
\* ends has to be.
LEMMA TruthStep ==
  ASSUME ClientShape, CallsTellTheTruth, Grown, UNCHANGED late, NEW d \in Client,
         UNCHANGED client \/ \E e : client' = [client EXCEPT ![d] = e] /\ (e.pc = "idle" => Right(e)')
  PROVE  CallsTellTheTruth'
<1> SUFFICES ASSUME ~late, NEW c \in Client, Ended(c)' PROVE Right(client[c])'
  BY DEF CallsTellTheTruth, AnswerIsRight, ReportIsRight, Right
<1>1. CASE client'[c] = client[c]
  <2>1. Right(client[c])
    BY <1>1 DEF CallsTellTheTruth, AnswerIsRight, ReportIsRight, Right, Ended, NoRequest
  <2>2. \A e : Right(e) => Right(e)'
    BY RightStays
  <2> QED BY <1>1, <2>1, <2>2 DEF Right, Genuine
<1>2. CASE client'[c] # client[c]
  <2>1. PICK e : client' = [client EXCEPT ![d] = e] /\ (e.pc = "idle" => Right(e)')
    BY <1>2
  <2>2. c = d /\ client'[c] = e
    BY <1>2, <2>1 DEF ClientShape
  <2> QED BY <2>1, <2>2 DEF Ended, Right, Genuine
<1> QED BY <1>1, <1>2


LEMMA InitService == Init => ServiceInv
<1> SUFFICES ASSUME Init PROVE ServiceInv
  OBVIOUS
<1>1. NoClient \notin Client
  BY DEF NoClient, Client
<1>2. \A c \in Client : client[c].pc = "idle" /\ client[c].request = NoRequest
  BY DEF Init, Idle
<1>3. ClientShape
  BY DEF Init, ClientShape
<1>4. BitIsAFault
  <2>1. faults \in Nat /\ refused \in Nat /\ garbles \in Nat /\ calls \in Nat /\ refused <= faults
    BY DEF Init
  <2>2. ~busError /\ busError \in BOOLEAN
    BY DEF Init
  <2> QED BY <2>1, <2>2 DEF BitIsAFault
<1>5. WhoRuns
  BY DEF Init, WhoRuns, NoClient, Node
<1>6. OneExchange /\ CallsTellTheTruth
  BY <1>1, <1>2 DEF Init, OneExchange, CallsTellTheTruth, Ended
<1> QED BY <1>3, <1>4, <1>5, <1>6 DEF ServiceInv

\* A client that waits holds the lock, and its exchange is the one in the mailbox.
LEMMA Waiting ==
  ASSUME OneExchange, ~late, NEW c \in Client, client[c].pc = "wait"
  PROVE  /\ lock = c /\ client[c].request \in Request(c) /\ ~Refusable(client[c].request)
         /\ Exchange(client[c].request)
BY DEF OneExchange

LEMMA CallStep ==
  ASSUME ServiceInv, NEW c \in Client, Call(c)
  PROVE  ClientShape' /\ WhoRuns' /\ OneExchange' /\ CallsTellTheTruth'
<1> USE DEF ServiceInv
<1>0. /\ NoClient \notin Client /\ client[c].pc = "idle" /\ Grown /\ UNCHANGED <<late, running, node>>
      /\ c = "fbl" <=> running = "fbl"
      /\ UNCHANGED <<server, faults, garbles>> /\ calls \in Nat
  <2>1. Next
    BY DEF Next
  <2> QED BY <2>1, BitStep DEF NoClient, Client, Call, BitIsAFault
<1>1. PICK r \in Requests(c) :
        \/ Refusable(r) /\ CallFails(c, r, "REQUEST")
        \/ ~Refusable(r) /\ Encode(Message(r)).len > MailboxCap /\ CallFails(c, r, "IPC_MALFORMED")
        \/ /\ ~Refusable(r) /\ Encode(Message(r)).len <= MailboxCap
           /\ lock # NoClient /\ CallFails(c, r, "IPC_BUSY")
        \/ /\ ~Refusable(r) /\ Encode(Message(r)).len <= MailboxCap
           /\ lock = NoClient /\ lock' = c
           /\ mailbox' = [status |-> "REQUEST", wire |-> Encode(Message(r))]
           /\ client' = [client EXCEPT ![c] = [pc |-> "wait", request |-> r]]
  BY DEF Call
<1>2. r \in Request(c)
  BY <1>0 DEF Requests, Request, Mac
<1>3. ASSUME NEW reason \in {"REQUEST", "IPC_MALFORMED", "IPC_BUSY"}, CallFails(c, r, reason)
      PROVE  ClientShape' /\ WhoRuns' /\ OneExchange' /\ CallsTellTheTruth'
  <2> DEFINE e == Failed(r, reason)
  <2>1. client' = [client EXCEPT ![c] = e] /\ UNCHANGED <<lock, mailbox>>
    BY <1>3 DEF CallFails
  <2>2. Ending(r, e)
    BY <1>2, FailedIsRight
  <2>3. e.pc = "idle" /\ Right(e)'
    BY <1>0, <2>2, RightStays DEF Ending
  <2> HIDE DEF e
  <2>4. CallsTellTheTruth'
    BY <1>0, <2>1, <2>3, TruthStep
  <2>5. ClientShape' /\ client'[c] = e /\ \A d \in Client \ {c} : client'[d] = client[d]
    BY <2>1 DEF ClientShape
  <2>6. ~late => lock # c
    BY <1>0 DEF OneExchange
  <2>7. ~late /\ lock \in Client =>
          Exchange(client[lock].request)' /\ client'[lock] = client[lock]
    <3> SUFFICES ASSUME ~late, lock \in Client
                 PROVE  Exchange(client[lock].request)' /\ client'[lock] = client[lock]
      OBVIOUS
    <3>1. client'[lock] = client[lock] /\ lock' = lock
      BY <2>1, <2>5, <2>6
    <3>2. Exchange(client[lock].request)
      BY DEF OneExchange
    <3> QED BY <1>0, <2>1, <3>1, <3>2 DEF Exchange, Replies, VerdictsOn, Genuine, Wires
  <2>8. OneExchange'
    BY <1>0, <2>1, <2>3, <2>5, <2>6, <2>7 DEF OneExchange, Refusable, Request
  <2>9. WhoRuns'
    BY <1>0, <2>1 DEF WhoRuns
  <2> QED BY <2>4, <2>5, <2>8, <2>9
<1>4. ASSUME ~Refusable(r), lock = NoClient, lock' = c,
             mailbox' = [status |-> "REQUEST", wire |-> Encode(Message(r))],
             client' = [client EXCEPT ![c] = [pc |-> "wait", request |-> r]]
      PROVE  ClientShape' /\ WhoRuns' /\ OneExchange' /\ CallsTellTheTruth'
  <2> DEFINE e == [pc |-> "wait", request |-> r]
  <2>1. CallsTellTheTruth'
    <3>1. e.pc # "idle"
      OBVIOUS
    <3> QED BY <1>0, <1>4, <3>1, TruthStep
  <2>2. ClientShape' /\ client'[c] = e /\ \A d \in Client \ {c} : client'[d] = client[d]
    BY <1>4 DEF ClientShape
  <2>3. OneExchange'
    <3> SUFFICES ASSUME ~late PROVE OneExchange'
      BY <1>0 DEF OneExchange
    <3>1. server.pc = "poll" /\ \A d \in Client : client[d].pc = "idle"
      BY <1>0, <1>4 DEF OneExchange
    <3>2. client'[c].pc = "wait" /\ client'[c].request = r
      BY <2>2
    <3>3. Exchange(r)'
      BY <1>0, <1>4, <3>1 DEF Exchange
    <3>4. \A d \in Client : IF lock' = d THEN client'[d].pc = "wait" ELSE client'[d].pc = "idle"
      BY <1>4, <2>2, <3>1, <3>2
    <3> QED BY <1>0, <1>2, <1>4, <3>2, <3>3, <3>4 DEF OneExchange, Refusable, Request, Exchange,
                                                  Replies, VerdictsOn, Genuine, Wires
  <2>4. WhoRuns'
    BY <1>0, <1>4 DEF WhoRuns
  <2> QED BY <2>1, <2>2, <2>3, <2>4
<1> QED BY <1>1, <1>3, <1>4

LEMMA ReturnStep ==
  ASSUME ServiceInv, NEW c \in Client, Return(c)
  PROVE  ClientShape' /\ WhoRuns' /\ OneExchange' /\ CallsTellTheTruth'
<1> USE DEF ServiceInv
<1>0. /\ NoClient \notin Client /\ client[c].pc = "wait" /\ mailbox.status = "RESPONSE" /\ Grown
      /\ UNCHANGED <<late, running, node, server, faults, garbles>>
      /\ lock' = NoClient /\ mailbox'.status = "IDLE"
  <2>1. Next
    BY DEF Next
  <2> QED BY <2>1, BitStep DEF NoClient, Client, Return, Released, BitIsAFault
<1> DEFINE r == client[c].request
<1>1. PICK e \in IF mailbox.wire.len > MailboxCap THEN {Failed(r, "IPC_MALFORMED")}
                 ELSE Ends(r, mailbox.wire) :
        client' = [client EXCEPT ![c] = e]
  BY DEF Return
<1>2. ClientShape' /\ client'[c] = e /\ \A d \in Client \ {c} : client'[d] = client[d]
  BY <1>1 DEF ClientShape
<1>3. WhoRuns'
  BY <1>0 DEF WhoRuns, NoClient
<1>4. CASE late
  BY <1>0, <1>2, <1>3, <1>4 DEF OneExchange, CallsTellTheTruth
<1>5. CASE ~late
  <2>1. /\ r \in Request(c) /\ Exchange(r)
    BY <1>0, <1>5, Waiting
  <2>2. /\ server.pc = "poll"
        /\ \E m \in Replies(r) : mailbox.wire \in Wires(m)
    BY <1>0, <2>1 DEF Exchange
  <2> HIDE DEF r
  <2>3. Ending(r, e)
    BY <1>1, <2>1, <2>2, EndsRight, FailedIsRight
  <2>4. Right(e)' /\ e.pc = "idle"
    BY <1>0, <2>3, RightStays DEF Ending
  <2>5. CallsTellTheTruth'
    BY <1>0, <1>1, <2>4, TruthStep
  <2>6. \A d \in Client \ {c} : client[d].pc = "idle"
    BY <1>0, <1>5 DEF OneExchange
  <2>7. OneExchange'
    BY <1>0, <1>2, <2>2, <2>4, <2>6 DEF OneExchange
  <2> QED BY <1>2, <1>3, <2>5, <2>7
<1> QED BY <1>4, <1>5

LEMMA GiveUpStep ==
  ASSUME ServiceInv, NEW c \in Client, GiveUp(c)
  PROVE  ClientShape' /\ WhoRuns' /\ OneExchange' /\ CallsTellTheTruth'
BY DEF ServiceInv, GiveUp, Released, ClientShape, WhoRuns, OneExchange, CallsTellTheTruth

LEMMA JumpStep ==
  ASSUME ServiceInv, Jump
  PROVE  ClientShape' /\ WhoRuns' /\ OneExchange' /\ CallsTellTheTruth'
<1> USE DEF ServiceInv
<1>0. Grown /\ NoClient \notin Client /\ "fbl" \in Client
  BY BitStep DEF Next, Client, NoClient
<1>1. CallsTellTheTruth'
  BY <1>0, TruthStep DEF Jump
<1>2. ~late => lock = NoClient
  BY <1>0 DEF Jump, WhoRuns, OneExchange
<1> QED BY <1>0, <1>1, <1>2 DEF Jump, ClientShape, WhoRuns, OneExchange

LEMMA ServeStep ==
  ASSUME ServiceInv, Serve
  PROVE  ClientShape' /\ WhoRuns' /\ OneExchange' /\ CallsTellTheTruth'
<1> USE DEF ServiceInv
<1>0. /\ Grown /\ NoClient \notin Client
      /\ UNCHANGED <<node, running, lock, mailbox, client, late>>
      /\ Dispatch(mailbox.wire) /\ server.pc = "poll" /\ mailbox.status = "REQUEST"
      /\ server'.pc = "busy"
  BY BitStep, DispatchAnswers DEF Next, Client, NoClient, Serve
<1>1. CallsTellTheTruth'
  <2>1. "fbl" \in Client
    BY DEF Client
  <2> QED BY <1>0, <2>1, TruthStep
<1>2. OneExchange'
  <2> SUFFICES ASSUME ~late PROVE OneExchange'
    BY <1>0 DEF OneExchange
  <2>1. lock \in Client
    BY <1>0 DEF OneExchange
  <2>r. PICK r : r = client[lock].request
    OBVIOUS
  <2>2. r \in Request(lock) /\ ~Refusable(r) /\ Exchange(r)
    BY <2>r, <2>1 DEF OneExchange
  <2>3. lock = "fbl" => node = "A"
    BY DEF WhoRuns
  <2>4. mailbox = [status |-> "REQUEST", wire |-> Encode(Message(r))]
    BY <1>0, <2>2 DEF Exchange
  <2>5. Dispatch(Encode(Message(r)))
    BY <1>0, <2>4
  <2>6. server'.reply \in Replies(r)'
    BY <2>2, <2>3, <2>5, AnswerIsDeserved
  <2>7. Exchange(r)'
    BY <1>0, <2>4, <2>6 DEF Exchange
  <2> QED BY <1>0, <2>r, <2>1, <2>2, <2>7 DEF OneExchange, Refusable, Request
<1> QED BY <1>0, <1>1, <1>2 DEF ClientShape, WhoRuns

LEMMA RespondStep ==
  ASSUME ServiceInv, Respond
  PROVE  ClientShape' /\ WhoRuns' /\ OneExchange' /\ CallsTellTheTruth'
<1> USE DEF ServiceInv
<1>0. /\ Grown /\ NoClient \notin Client
      /\ UNCHANGED <<node, running, lock, client, late>> /\ server.pc = "busy" /\ server'.pc = "poll"
  BY BitStep DEF Next, Client, NoClient, Respond
<1>1. CallsTellTheTruth'
  <2>1. "fbl" \in Client
    BY DEF Client
  <2> QED BY <1>0, <2>1, TruthStep
<1>2. OneExchange'
  <2> SUFFICES ASSUME ~late PROVE OneExchange'
    BY <1>0 DEF OneExchange
  <2>1. lock \in Client
    BY <1>0 DEF OneExchange
  <2>r. PICK r, m : r = client[lock].request /\ m = server.reply
    OBVIOUS
  <2>2. r \in Request(lock) /\ ~Refusable(r) /\ Exchange(r)
    BY <2>r, <2>1 DEF OneExchange
  <2>3. m \in Replies(r)
    BY <1>0, <2>r, <2>2 DEF Exchange
  <2>4. mailbox'.status = "RESPONSE" /\ mailbox'.wire \in Wires(m)'
    <3>1. \/ mailbox' = [status |-> "RESPONSE", wire |-> Encode(m)]
          \/ /\ garbles' = garbles + 1
             /\ mailbox' = [status |-> "RESPONSE", wire |-> [Encode(m) EXCEPT !.op = "garbled"]]
      BY <2>r DEF Respond
    <3>2. garbles' = garbles + 1 => garbles' > 0
      BY <1>0 DEF Grown
    <3> QED BY <3>1, <3>2 DEF Wires
  <2>5. m \in Replies(r)'
    BY <1>0, <2>2, <2>3, RepliesGrow
  <2>6. Exchange(r)'
    BY <1>0, <2>4, <2>5 DEF Exchange, Wires
  <2> QED BY <1>0, <2>r, <2>1, <2>2, <2>6 DEF OneExchange, Refusable, Request
<1> QED BY <1>0, <1>1, <1>2 DEF ClientShape, WhoRuns

LEMMA NextService == ServiceInv /\ [Next]_vars => ServiceInv'
<1> SUFFICES ASSUME ServiceInv, [Next]_vars PROVE ServiceInv'
  OBVIOUS
<1>1. BitIsAFault'
  BY BitStep DEF ServiceInv
<1>2. CASE Next
  BY <1>1, <1>2, CallStep, ReturnStep, GiveUpStep, JumpStep, ServeStep, RespondStep DEF Next, ServiceInv
<1>3. CASE UNCHANGED vars
  <2>1. ClientShape' /\ WhoRuns' /\ CallsTellTheTruth'
    BY <1>3 DEF vars, ServiceInv, ClientShape, WhoRuns, CallsTellTheTruth, Ended, AnswerIsRight, ReportIsRight
  <2>2. OneExchange'
    BY <1>3 DEF vars, ServiceInv, OneExchange, Exchange, Replies, VerdictsOn, Wires, Refusable, Request
  <2> QED BY <1>1, <2>1, <2>2 DEF ServiceInv
<1> QED BY <1>2, <1>3

\* What a call returns, and what it reports, is what happened, while no client
\* has given up on an answer (crypto_service.c).
THEOREM ServiceTellsTheTruth == Spec => []CallsTellTheTruth
<1>1. ServiceInv => CallsTellTheTruth
  BY DEF ServiceInv
<1> QED BY <1>1, InitService, NextService, PTL DEF Spec

\* A fault of the block costs one MAC, whoever gave up on what (cmac_compute).
THEOREM FaultsCostOneMac == Spec => []OneFaultOneMac
<1>1. ServiceInv => OneFaultOneMac
  BY DEF ServiceInv, BitIsAFault, OneFaultOneMac
<1> QED BY <1>1, InitService, NextService, PTL DEF Spec
=============================================================================
