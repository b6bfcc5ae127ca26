----------------------------- MODULE Log_proofs -----------------------------
(***************************************************************************)
(* The logging channel from the task to the screen.  First the ring of the *)
(* target (LogRing): its counters as producers preempt each other, and the *)
(* ring as a byte queue, for every capacity, priority and interleaving.    *)
(* Then what the log view shows, for every sequence of records, losses and *)
(* restarts; the baud rate of the log for every clock that the images may  *)
(* measure (UartClock); and the sign of life at every tick count (Alive).  *)
(***************************************************************************)
EXTENDS LogRing, LogView, UartClock, Alive, SequenceTheorems, TLAPS

-----------------------------------------------------------------------------
(* LogRing.  Arithmetic of counters that wrap. *)

LEMMA DivMod ==
    ASSUME NEW a \in Int, NEW b \in Nat \ {0}
    PROVE  a = b * (a \div b) + (a % b) /\ a % b \in 0 .. b - 1 /\ a \div b \in Int
  OBVIOUS

LEMMA ModIs ==
    ASSUME NEW b \in Nat \ {0}, NEW q \in Int, NEW r \in 0 .. b - 1
    PROVE  (b * q + r) % b = r
  OBVIOUS

LEMMA ModAdds ==
    ASSUME NEW b \in Nat \ {0}, NEW q \in Int, NEW x \in Int
    PROVE  (b * q + x) % b = x % b
  <1> DEFINE p == x \div b
             r == x % b
  <1>1. x = b * p + r /\ r \in 0 .. b - 1 /\ p \in Int
    BY DivMod
  <1> HIDE DEF p, r
  <1>2. b * q + x = b * (q + p) + r /\ q + p \in Int
    <2>1. b * (q + p) = b * q + b * p
      BY <1>1
    <2> QED
      BY <1>1, <2>1
  <1>3. (b * (q + p) + r) % b = r
    BY <1>1, <1>2, ModIs
  <1> QED
    BY <1>2, <1>3 DEF r

\* The counters wrap at a multiple of the ring.
LEMMA ModMod ==
    ASSUME NEW c \in Nat \ {0}, NEW w \in Nat \ {0}, w % c = 0, NEW x \in Int
    PROVE  (x % w) % c = x % c
  <1> DEFINE q == x \div w
             r == x % w
             m == w \div c
  <1>1. x = w * q + r /\ r \in Int /\ q \in Int
    BY DivMod
  <1>2. w = c * m /\ m \in Int
    BY DivMod
  <1> HIDE DEF q, r, m
  <1>3. w * q = c * (m * q) /\ m * q \in Int
    <2>1. (c * m) * q = c * (m * q)
      BY <1>1, <1>2
    <2> QED
      BY <1>1, <1>2, <2>1
  <1>4. x % c = r % c
    <2>1. (c * (m * q) + r) % c = r % c
      BY <1>1, <1>3, ModAdds
    <2> QED
      BY <1>1, <1>3, <2>1
  <1> QED
    BY <1>4 DEF r

LEMMA ModPlus ==
    ASSUME NEW w \in Nat \ {0}, NEW x \in Int, NEW y \in Int
    PROVE  ((x % w) + y) % w = (x + y) % w
  <1> DEFINE q == x \div w
             r == x % w
  <1>1. x = w * q + r /\ r \in Int /\ q \in Int
    BY DivMod
  <1> HIDE DEF q, r
  <1>2. x + y = w * q + (r + y)
    BY <1>1
  <1>3. (w * q + (r + y)) % w = (r + y) % w
    <2> DEFINE z == r + y
    <2>1. z \in Int
      BY <1>1
    <2> HIDE DEF z
    <2>2. (w * q + z) % w = z % w
      BY <1>1, <2>1, ModAdds
    <2> QED
      BY <2>2 DEF z
  <1>4. (x + y) % w = (r + y) % w
    BY <1>2, <1>3
  <1> QED
    BY <1>4 DEF r

LEMMA ModMinus ==
    ASSUME NEW w \in Nat \ {0}, NEW x \in Int, NEW y \in Int
    PROVE  (x - (y % w)) % w = (x - y) % w
  <1> DEFINE q == y \div w
             r == y % w
  <1>1. y = w * q + r /\ r \in Int /\ q \in Int
    BY DivMod
  <1> HIDE DEF q, r
  <1>2. x - r = w * q + (x - y) /\ x - y \in Int
    BY <1>1
  <1>3. (w * q + (x - y)) % w = (x - y) % w
    <2> DEFINE z == x - y
    <2>1. z \in Int
      OBVIOUS
    <2> HIDE DEF z
    <2>2. (w * q + z) % w = z % w
      BY <1>1, <2>1, ModAdds
    <2> QED
      BY <2>2 DEF z
  <1>4. (x - r) % w = (x - y) % w
    BY <1>2, <1>3
  <1> QED
    BY <1>4 DEF r

LEMMA ModSmall ==
    ASSUME NEW w \in Nat \ {0}, NEW x \in 0 .. w - 1
    PROVE  x % w = x
  OBVIOUS

\* One step around.
LEMMA ModStep ==
    ASSUME NEW c \in Nat \ {0}, NEW x \in Int, NEW d \in 0 .. c - 1
    PROVE  (x + d) % c = IF (x % c) + d < c THEN (x % c) + d ELSE (x % c) + d - c
  <1> DEFINE r == x % c
  <1>1. r \in 0 .. c - 1 /\ (x + d) % c = (r + d) % c
    <2>1. d \in Int
      OBVIOUS
    <2>2. ((x % c) + d) % c = (x + d) % c
      BY <2>1, ModPlus
    <2>3. x % c \in 0 .. c - 1
      BY DivMod
    <2> QED
      BY <2>2, <2>3
  <1> HIDE DEF r
  <1>2. CASE r + d < c
    BY <1>1, <1>2 DEF r
  <1>3. CASE ~(r + d < c)
    <2>1. r + d - c \in 0 .. c - 1 /\ r + d = c * 1 + (r + d - c)
      BY <1>1, <1>3
    <2>2. (r + d) % c = r + d - c
      <3> DEFINE z == r + d - c
      <3>1. z \in 0 .. c - 1 /\ r + d = c * 1 + z
        BY <2>1
      <3> HIDE DEF z
      <3>2. (c * 1 + z) % c = z
        BY <3>1, ModIs
      <3>3. (r + d) % c = z
        BY <3>1, <3>2
      <3> QED
        BY <3>3 DEF z
    <2> QED
      BY <1>1, <1>3, <2>2 DEF r
  <1> QED
    BY <1>2, <1>3
-----------------------------------------------------------------------------
(* What the ring holds. *)

LEMMA Constants ==
    /\ Cap \in Nat \ {0} /\ Cap >= 3 /\ Wrap \in Nat \ {0} /\ Wrap > Cap /\ Wrap % Cap = 0
    /\ LogSeqMod \in Nat \ {0} /\ DrainMax \in Nat \ {0} /\ FifoCap \in Nat \ {0}
    /\ MaxStall \in Nat \ {0} /\ MaxCalls \in Nat /\ Drainer \notin Producer
  BY LogAssumption DEF LogAssumption

\* A piece of the ring, from counter t on.
Holds(r, t, s) ==
    /\ r \in [Slot -> Unit] /\ s \in Seq(Unit) /\ Len(s) <= Cap
    /\ \A k \in 1 .. Len(s) : r[(t + k - 1) % Cap] = s[k]

LEMMA InSlot ==
    ASSUME NEW x \in Int
    PROVE  x % Cap \in Slot
  BY Constants, DivMod DEF Slot

LEMMA Apart ==
    ASSUME NEW a \in Int, NEW b \in Int, a < b, b < a + Cap
    PROVE  a % Cap # b % Cap
  <1> DEFINE d == b - a
  <1>1. d \in 0 .. Cap - 1 /\ d > 0 /\ b = a + d
    BY Constants
  <1> HIDE DEF d
  <1>2. b % Cap = IF (a % Cap) + d < Cap THEN (a % Cap) + d ELSE (a % Cap) + d - Cap
    BY <1>1, ModStep, Constants
  <1>3. a % Cap \in 0 .. Cap - 1
    BY DivMod, Constants
  <1> QED
    BY <1>1, <1>2, <1>3, Constants

LEMMA CopyInWrites ==
    ASSUME NEW r \in [Slot -> Unit], NEW from \in Nat, NEW s \in Seq(Unit), Len(s) <= Cap
    PROVE  /\ CopyIn(r, from, s) \in [Slot -> Unit]
           /\ \A j \in 1 .. Len(s) : CopyIn(r, from, s)[(from + j - 1) % Cap] = s[j]
           /\ \A i \in Slot : (\A j \in 1 .. Len(s) : i # (from + j - 1) % Cap)
                                 => CopyIn(r, from, s)[i] = r[i]
  <1> DEFINE idx   == from % Cap
             first == Least(Len(s), Cap - idx)
             n     == Len(s)
             put   == CopyIn(r, from, s)
  <1>1. idx \in 0 .. Cap - 1 /\ n \in Nat /\ n <= Cap /\ \A k \in 1 .. n : s[k] \in Unit
    <2>1. from % Cap \in 0 .. Cap - 1
      <3>1. from \in Int /\ Cap \in Nat \ {0}
        BY Constants
      <3> QED
        BY <3>1, DivMod
    <2> QED
      BY <2>1
  <1>2. /\ first \in Nat /\ first <= n /\ first <= Cap - idx /\ (first < n => first = Cap - idx)
    BY <1>1, Constants DEF Least
  <1>3. \A i \in Slot :
            /\ i >= idx /\ i < idx + first => put[i] = s[i - idx + 1]
            /\ ~(i >= idx /\ i < idx + first) /\ i < n - first => put[i] = s[first + i + 1]
            /\ ~(i >= idx /\ i < idx + first) /\ ~(i < n - first) => put[i] = r[i]
    <2>1. \A i \in Slot : put[i] = CASE i >= idx /\ i < idx + first -> s[i - idx + 1]
                                     [] i < n - first               -> s[first + i + 1]
                                     [] OTHER                       -> r[i]
      BY DEF CopyIn
    <2>2. \A i \in Slot : i >= idx /\ i < idx + first => ~(i < n - first)
      BY <1>1, <1>2, Constants DEF Slot
    <2> HIDE DEF idx, first, n, put
    <2> QED
      BY <2>1, <2>2
  <1>4. \A j \in 1 .. n : (from + j - 1) % Cap = IF j <= first THEN idx + j - 1 ELSE j - first - 1
    <2> SUFFICES ASSUME NEW j \in 1 .. n
                 PROVE  (from + j - 1) % Cap = IF j <= first THEN idx + j - 1 ELSE j - first - 1
      OBVIOUS
    <2> DEFINE d == j - 1
    <2>1. d \in 0 .. Cap - 1 /\ from + j - 1 = from + d /\ j = d + 1
      BY <1>1, Constants
    <2> HIDE DEF d
    <2>2. (from + d) % Cap = IF idx + d < Cap THEN idx + d ELSE idx + d - Cap
      <3>1. from \in Int
        OBVIOUS
      <3>2. (from + d) % Cap = IF (from % Cap) + d < Cap THEN (from % Cap) + d ELSE (from % Cap) + d - Cap
        BY <2>1, <3>1, Constants, ModStep
      <3> QED
        BY <3>2
    <2> HIDE DEF idx, first, n
    <2> QED
      BY <1>1, <1>2, <2>1, <2>2, Constants
  <1>5. put \in [Slot -> Unit]
    <2>1. \A i \in Slot : put[i] \in Unit
      <3> HIDE DEF idx, first, n, put
      <3> SUFFICES ASSUME NEW i \in Slot PROVE put[i] \in Unit
        OBVIOUS
      <3>1. i \in Int /\ r[i] \in Unit
        BY Constants DEF Slot
      <3>2. CASE i >= idx /\ i < idx + first
        <4>1. i - idx + 1 \in 1 .. n
          BY <1>1, <1>2, <3>1, <3>2
        <4> QED
          BY <1>1, <1>3, <3>2, <4>1
      <3>3. CASE ~(i >= idx /\ i < idx + first) /\ i < n - first
        <4>1. first + i + 1 \in 1 .. n
          BY <1>1, <1>2, <3>1, <3>3, Constants DEF Slot
        <4> QED
          BY <1>1, <1>3, <3>3, <4>1
      <3>4. CASE ~(i >= idx /\ i < idx + first) /\ ~(i < n - first)
        BY <1>3, <3>1, <3>4
      <3> QED
        BY <3>2, <3>3, <3>4
    <2> QED
      BY <2>1 DEF CopyIn
  <1>6. ASSUME NEW j \in 1 .. n
        PROVE  put[(from + j - 1) % Cap] = s[j]
    <2> HIDE DEF idx, first, n, put
    <2>1. CASE j <= first
      <3> DEFINE i == idx + j - 1
      <3>1. i \in Slot /\ i >= idx /\ i < idx + first /\ i - idx + 1 = j
        BY <1>1, <1>2, <2>1, Constants DEF Slot
      <3>2. (from + j - 1) % Cap = i
        BY <1>4, <2>1
      <3> HIDE DEF i
      <3> QED
        BY <1>3, <3>1, <3>2
    <2>2. CASE ~(j <= first)
      <3> DEFINE i == j - first - 1
      <3>1. i \in Slot /\ ~(i >= idx) /\ i < n - first /\ first + i + 1 = j
        BY <1>1, <1>2, <2>2, Constants DEF Slot
      <3>2. (from + j - 1) % Cap = i
        BY <1>4, <2>2
      <3> HIDE DEF i
      <3> QED
        BY <1>3, <3>1, <3>2
    <2> QED
      BY <2>1, <2>2
  <1>7. ASSUME NEW i \in Slot, \A j \in 1 .. n : i # (from + j - 1) % Cap
        PROVE  put[i] = r[i]
    <2> HIDE DEF idx, first, n, put
    <2>0. i \in Int /\ i >= 0
      BY Constants DEF Slot
    <2>1. ~(i >= idx /\ i < idx + first)
      <3> SUFFICES ASSUME i >= idx, i < idx + first PROVE FALSE
        OBVIOUS
      <3> DEFINE j == i - idx + 1
      <3>1. j \in 1 .. n /\ j <= first /\ idx + j - 1 = i
        BY <1>1, <1>2, <2>0
      <3> HIDE DEF j
      <3> QED
        BY <1>4, <1>7, <3>1
    <2>2. ~(i < n - first)
      <3> SUFFICES ASSUME i < n - first PROVE FALSE
        OBVIOUS
      <3> DEFINE j == first + i + 1
      <3>1. j \in 1 .. n /\ ~(j <= first) /\ j - first - 1 = i
        BY <1>1, <1>2, <2>0
      <3> HIDE DEF j
      <3> QED
        BY <1>4, <1>7, <3>1
    <2> QED
      BY <1>3, <2>1, <2>2
  <1> QED
    BY <1>5, <1>6, <1>7

\* A copy that begins where a piece ends makes the piece longer.
LEMMA CopyHolds ==
    ASSUME NEW r, NEW t \in Nat, NEW s, Holds(r, t, s), NEW u \in Seq(Unit), NEW from \in Nat,
           Len(s) + Len(u) <= Cap, from % Cap = (t + Len(s)) % Cap
    PROVE  Holds(CopyIn(r, from, u), t, s \o u)
  <1> DEFINE n == Len(s)
             m == Len(u)
             w == CopyIn(r, from, u)
  <1>1. n \in Nat /\ m \in Nat /\ n + m <= Cap /\ r \in [Slot -> Unit] /\ s \in Seq(Unit) /\ m <= Cap
    BY Constants DEF Holds
  <1>2. /\ w \in [Slot -> Unit]
        /\ \A j \in 1 .. m : w[(from + j - 1) % Cap] = u[j]
        /\ \A i \in Slot : (\A j \in 1 .. m : i # (from + j - 1) % Cap) => w[i] = r[i]
    BY <1>1, CopyInWrites
  <1>3. s \o u \in Seq(Unit) /\ Len(s \o u) = n + m
        /\ \A k \in 1 .. n + m : (s \o u)[k] = IF k <= n THEN s[k] ELSE u[k - n]
    BY <1>1
  <1>4. \A j \in 1 .. m : (from + j - 1) % Cap = (t + n + j - 1) % Cap
    <2> SUFFICES ASSUME NEW j \in 1 .. m
                 PROVE  (from + j - 1) % Cap = (t + n + j - 1) % Cap
      OBVIOUS
    <2> DEFINE d == j - 1
               e == t + n
    <2>1. d \in Int /\ e \in Int /\ from + j - 1 = from + d /\ t + n + j - 1 = e + d
      BY <1>1
    <2>2. from % Cap = e % Cap
      OBVIOUS
    <2> HIDE DEF d, e
    <2>3. ((from % Cap) + d) % Cap = (from + d) % Cap
      <3>1. from \in Int
        OBVIOUS
      <3> QED
        BY <2>1, <3>1, ModPlus, Constants
    <2>4. ((e % Cap) + d) % Cap = (e + d) % Cap
      BY <2>1, ModPlus, Constants
    <2> QED
      BY <2>1, <2>2, <2>3, <2>4
  <1>5. \A k \in 1 .. n : r[(t + k - 1) % Cap] = s[k]
    BY DEF Holds
  <1> HIDE DEF n, m, w
  <1>6. ASSUME NEW k \in 1 .. n
        PROVE  w[(t + k - 1) % Cap] = s[k]
    <2>1. (t + k - 1) % Cap \in Slot
      BY <1>1, InSlot
    <2>2. \A j \in 1 .. m : (t + k - 1) % Cap # (from + j - 1) % Cap
      <3> SUFFICES ASSUME NEW j \in 1 .. m
                   PROVE  (t + k - 1) % Cap # (t + n + j - 1) % Cap
        BY <1>4
      <3>1. t + k - 1 \in Int /\ t + n + j - 1 \in Int /\ t + k - 1 < t + n + j - 1
            /\ t + n + j - 1 < t + k - 1 + Cap
        BY <1>1, Constants
      <3> QED
        BY <3>1, Apart
    <2> QED
      BY <1>2, <1>5, <2>1, <2>2
  <1>7. ASSUME NEW k \in 1 .. n + m, ~(k <= n)
        PROVE  w[(t + k - 1) % Cap] = u[k - n]
    <2> DEFINE j == k - n
    <2>1. j \in 1 .. m /\ t + k - 1 = t + n + j - 1
      BY <1>1, <1>7
    <2> HIDE DEF j
    <2>2. w[(from + j - 1) % Cap] = u[j] /\ (from + j - 1) % Cap = (t + n + j - 1) % Cap
      BY <1>2, <1>4, <2>1
    <2>3. w[(t + k - 1) % Cap] = u[j]
      BY <2>1, <2>2
    <2> QED
      BY <2>3 DEF j
  <1>8. \A k \in 1 .. n + m : w[(t + k - 1) % Cap] = (s \o u)[k]
    <2> SUFFICES ASSUME NEW k \in 1 .. n + m
                 PROVE  w[(t + k - 1) % Cap] = (s \o u)[k]
      OBVIOUS
    <2>1. CASE k <= n
      <3>1. k \in 1 .. n
        BY <1>1, <2>1
      <3> QED
        BY <1>3, <1>6, <3>1, <2>1
    <2>2. CASE ~(k <= n)
      BY <1>3, <1>7, <2>2
    <2> QED
      BY <2>1, <2>2
  <1> QED
    BY <1>1, <1>2, <1>3, <1>8 DEF Holds, w
-----------------------------------------------------------------------------
(* The counters of log_evt, when producers preempt each other. *)

PcType == {"idle", "ask", "count", "put", "put2", "seq2", "clear", "drop", "drop2", "note", "note2"}
PType == [pc : PcType, call : Nat, seq : Seq6, over : BOOLEAN, lost : Nat, old : Nat]
CellType == [seq : Seq6, dropped : Nat, pending : Nat]

ProducerTypes ==
    /\ cell \in CellType /\ producer \in [Producer -> PType]
    /\ calls \in Nat /\ refused \in Nat /\ told \in Nat /\ next \in Seq6 /\ nested \in BOOLEAN

\* Refused records that s_dropped, and those that s_pending_overflow, does not
\* know of yet.
Dropping == {"drop", "drop2"}
Noting   == {"drop", "drop2", "note", "note2"}
Moving   == {"put2", "seq2"}

\* The counters as a producer finds them that nobody interrupts.
Counted(me, c, ref, tol, nx) ==
    /\ me.pc \in Dropping => c.dropped + 1 = ref
    /\ me.pc \notin Dropping => c.dropped = ref
    /\ me.pc \in Noting => tol + c.pending + 1 = ref
    /\ me.pc \in Moving \cup {"clear"} /\ me.over => tol = ref
    /\ me.pc \notin Noting /\ ~(me.pc \in Moving \cup {"clear"} /\ me.over) => tol + c.pending = ref
    /\ me.pc \in Moving => nx = (c.seq + Queued(me)) % LogSeqMod
    /\ me.pc \notin Moving => nx = c.seq
    /\ me.pc \in {"ask", "count", "put"} => me.seq = c.seq
    /\ me.pc \in {"ask", "count"} => ~me.over /\ me.lost = 0
    /\ me.pc = "put" => (me.over => me.lost = c.pending) /\ (~me.over => me.lost = 0)
    /\ me.pc = "drop2" => me.old = c.dropped
    /\ me.pc = "note2" => me.old = c.pending
    /\ me.pc = "seq2" => me.old = c.seq
    /\ me.pc = "clear" => me.over

Idle(q) == producer[q].pc = "idle"
Books(q) == Counted(producer[q], cell, refused, told, next)
Balanced == cell.dropped = refused /\ told + cell.pending = refused /\ next = cell.seq

Counting ==
    /\ refused > 0 => cell.dropped > 0 \/ \E q \in Producer : producer[q].pc \in Dropping
    /\ ~nested => \/ Quiescent /\ Balanced
                  \/ \E q \in Producer : Books(q) /\ \A o \in Producer \ {q} : Idle(o)

LEMMA ProducerMoves ==
    ASSUME producer \in [Producer -> PType], NEW p \in Producer, NEW m \in PType,
           producer' = [producer EXCEPT ![p] = m]
    PROVE  /\ producer' \in [Producer -> PType]
           /\ producer'[p] = m
           /\ \A q \in Producer \ {p} : producer'[q] = producer[q]
  OBVIOUS

\* A step of a producer in log_evt keeps the books if it does so on its own.
LEMMA CountingStep ==
    ASSUME ProducerTypes, Counting, NEW p \in Producer, NEW m \in PType, ~Idle(p),
           producer' = [producer EXCEPT ![p] = m], nested' = nested,
           Books(p) => Counted(m, cell', refused', told', next'),
           \/ refused' = refused /\ cell'.dropped = cell.dropped
                                 /\ (producer[p].pc \in Dropping => m.pc \in Dropping)
           \/ m.pc \in Dropping
           \/ cell'.dropped > 0
    PROVE  Counting'
  <1>1. /\ producer' \in [Producer -> PType] /\ producer'[p] = m
        /\ \A q \in Producer \ {p} : producer'[q] = producer[q]
    BY ProducerMoves DEF ProducerTypes
  <1>2. (refused > 0 => cell.dropped > 0 \/ \E q \in Producer : producer[q].pc \in Dropping)'
    BY <1>1 DEF Counting
  <1>3. ASSUME ~nested
        PROVE  Books(p)' /\ \A o \in Producer \ {p} : Idle(o)'
    <2>1. PICK q \in Producer : Books(q) /\ \A o \in Producer \ {q} : Idle(o)
      BY <1>3 DEF Counting, Quiescent, Idle
    <2>2. q = p
      BY <2>1
    <2> QED
      BY <1>1, <2>1, <2>2 DEF Books, Idle
  <1> QED
    BY <1>2, <1>3 DEF Counting

LEMMA SeqNumbers ==
    /\ 0 \in Seq6 /\ \A x \in Int : x % LogSeqMod \in Seq6 /\ ((x % LogSeqMod) + 1) % LogSeqMod = (x + 1) % LogSeqMod
    /\ \A x \in Seq6 : x \in Nat
  <1>1. LogSeqMod \in Nat \ {0}
    BY Constants
  <1>2. \A x \in Int : ((x % LogSeqMod) + 1) % LogSeqMod = (x + 1) % LogSeqMod
    <2> SUFFICES ASSUME NEW x \in Int PROVE ((x % LogSeqMod) + 1) % LogSeqMod = (x + 1) % LogSeqMod
      OBVIOUS
    <2>1. 1 \in Int
      OBVIOUS
    <2> QED
      BY <1>1, <2>1, ModPlus
  <1>3. \A x \in Int : x % LogSeqMod \in 0 .. LogSeqMod - 1
    BY <1>1, DivMod
  <1>4. 0 \in 0 .. LogSeqMod - 1 /\ \A x \in 0 .. LogSeqMod - 1 : x \in Nat
    BY <1>1
  <1> QED
    BY <1>2, <1>3, <1>4 DEF Seq6

LEMMA IdleIs == IdleProducer \in PType /\ IdleProducer.pc = "idle"
  BY SeqNumbers DEF IdleProducer, PType, PcType

LEMMA BeginCounts ==
    ASSUME ProducerTypes, Counting, NEW p \in Producer, Begin(p)
    PROVE  ProducerTypes' /\ Counting'
  <1> DEFINE m == [IdleProducer EXCEPT !.pc = "ask", !.call = calls + 1, !.seq = cell.seq]
  <1>1. /\ Idle(p) /\ calls' = calls + 1 /\ producer' = [producer EXCEPT ![p] = m]
        /\ nested' = (nested \/ \E q \in Producer : producer[q].pc # "idle")
        /\ UNCHANGED <<cell, refused, told, next>>
    BY DEF Begin, Idle
  <1>2. calls + 1 \in Nat /\ cell.seq \in Seq6
    BY DEF ProducerTypes, CellType
  <1>3. m \in PType
    BY <1>2, IdleIs DEF PType, PcType
  <1>4. m.pc = "ask" /\ m.seq = cell.seq /\ m.over = FALSE /\ m.lost = 0
    BY DEF IdleProducer
  <1> HIDE DEF m
  <1>5. /\ producer' \in [Producer -> PType] /\ producer'[p] = m
        /\ \A q \in Producer \ {p} : producer'[q] = producer[q]
    BY <1>1, <1>3, ProducerMoves DEF ProducerTypes
  <1>6. ProducerTypes'
    BY <1>1, <1>2, <1>5 DEF ProducerTypes
  <1>7. (refused > 0 => cell.dropped > 0 \/ \E q \in Producer : producer[q].pc \in Dropping)'
    BY <1>1, <1>5 DEF Counting, Dropping, Idle
  <1>8. ASSUME ~nested'
        PROVE  Books(p)' /\ \A o \in Producer \ {p} : Idle(o)'
    <2>1. ~nested /\ \A q \in Producer : producer[q].pc = "idle"
      BY <1>1, <1>8 DEF ProducerTypes
    <2>2. Balanced
      BY <2>1 DEF Counting, Books, Counted, Balanced, Dropping, Noting, Moving
    <2>3. Counted(m, cell, refused, told, next)
      BY <1>4, <2>2 DEF Counted, Balanced, Dropping, Noting, Moving
    <2> QED
      BY <1>1, <1>5, <2>1, <2>3 DEF Books, Idle
  <1> QED
    BY <1>6, <1>7, <1>8 DEF Counting

LEMMA GoesIs ==
    ASSUME ProducerTypes, NEW p \in Producer, NEW at, NEW to \in PcType, Goes(p, at, to)
    PROVE  \E m \in PType : /\ producer' = [producer EXCEPT ![p] = m] /\ m.pc = to
                            /\ producer[p].pc = at
                            /\ to # "idle" => /\ m.call = producer[p].call /\ m.seq = producer[p].seq
                                              /\ m.over = producer[p].over /\ m.lost = producer[p].lost
                                              /\ m.old = producer[p].old
  <1> DEFINE m == IF to = "idle" THEN IdleProducer ELSE [producer[p] EXCEPT !.pc = to]
  <1>1. producer[p] \in PType
    BY DEF ProducerTypes
  <1>2. m \in PType /\ m.pc = to
    BY <1>1, IdleIs DEF PType
  <1>3. producer' = [producer EXCEPT ![p] = m] /\ producer[p].pc = at
    BY DEF Goes
  <1>4. to # "idle" => /\ m.call = producer[p].call /\ m.seq = producer[p].seq
                       /\ m.over = producer[p].over /\ m.lost = producer[p].lost
                       /\ m.old = producer[p].old
    BY <1>1 DEF PType
  <1> QED
    BY <1>2, <1>3, <1>4

LEMMA AskCounts ==
    ASSUME ProducerTypes, Counting, NEW p \in Producer, Ask(p)
    PROVE  ProducerTypes' /\ Counting'
  <1>1. PICK to \in {"count", "put"} : Goes(p, "ask", to) /\ (to = "put" => cell.pending = 0)
    BY DEF Ask
  <1>2. PICK m \in PType : /\ producer' = [producer EXCEPT ![p] = m] /\ m.pc = to
                           /\ producer[p].pc = "ask"
                           /\ m.seq = producer[p].seq /\ m.over = producer[p].over
                           /\ m.lost = producer[p].lost
    <2>1. to \in PcType /\ to # "idle"
      BY DEF PcType
    <2> QED
      BY <1>1, <2>1, GoesIs
  <1>3. UNCHANGED <<cell, calls, refused, told, next, nested>> /\ (to = "put" => cell.pending = 0)
    BY <1>1 DEF Ask, history
  <1>4. ProducerTypes'
    BY <1>2, <1>3, ProducerMoves DEF ProducerTypes
  <1>5. Books(p) => Counted(m, cell', refused', told', next')
    BY <1>2, <1>3 DEF Books, Counted, Dropping, Noting, Moving
  <1> QED
    BY <1>2, <1>3, <1>4, <1>5, CountingStep DEF Idle, Dropping

LEMMA CountLossesCounts ==
    ASSUME ProducerTypes, Counting, NEW p \in Producer, CountLosses(p)
    PROVE  ProducerTypes' /\ Counting'
  <1> DEFINE m == [producer[p] EXCEPT !.pc = "put", !.over = TRUE, !.lost = cell.pending]
  <1>1. producer[p] \in PType /\ cell.pending \in Nat
    BY DEF ProducerTypes, CellType
  <1>2. /\ m \in PType /\ m.pc = "put" /\ m.over = TRUE /\ m.lost = cell.pending
        /\ m.seq = producer[p].seq
    BY <1>1 DEF PType, PcType
  <1>3. /\ producer[p].pc = "count" /\ producer' = [producer EXCEPT ![p] = m]
        /\ UNCHANGED <<cell, calls, refused, told, next, nested>>
    BY <1>1 DEF CountLosses, history, PType
  <1> HIDE DEF m
  <1>4. ProducerTypes'
    BY <1>2, <1>3, ProducerMoves DEF ProducerTypes
  <1>5. Books(p) => Counted(m, cell', refused', told', next')
    BY <1>2, <1>3 DEF Books, Counted, Dropping, Noting, Moving
  <1> QED
    BY <1>2, <1>3, <1>4, <1>5, CountingStep DEF Idle, Dropping

LEMMA PutCounts ==
    ASSUME ProducerTypes, Counting, NEW p \in Producer, Put(p)
    PROVE  ProducerTypes' /\ Counting'
  <1> DEFINE me == producer[p]
  <1>1. PICK m \in PType : /\ producer' = [producer EXCEPT ![p] = m] /\ m.pc = "put2"
                           /\ me.pc = "put" /\ m.over = me.over
    <2>1. Goes(p, "put", "put2") /\ "put2" \in PcType /\ "put2" # "idle"
      BY DEF Put, PcType
    <2> QED
      BY <2>1, GoesIs
  <1>2. /\ told' = told + me.lost /\ next' = (EventSeq(me) + 1) % LogSeqMod
        /\ UNCHANGED <<cell, calls, refused, nested>>
    BY DEF Put
  <1>3. me \in PType /\ me.seq \in Nat /\ me.lost \in Nat /\ me.over \in BOOLEAN /\ told \in Nat
    BY SeqNumbers DEF ProducerTypes, PType
  <1> HIDE DEF me
  <1>4. next' = (me.seq + Queued(me)) % LogSeqMod /\ next' \in Seq6
    <2>1. CASE me.over
      <3>1. EventSeq(me) = (me.seq + 1) % LogSeqMod /\ Queued(me) = 2
        BY <2>1 DEF EventSeq, Queued
      <3>2. me.seq + 1 \in Int /\ me.seq + 1 + 1 = me.seq + 2
        BY <1>3
      <3>3. (((me.seq + 1) % LogSeqMod) + 1) % LogSeqMod = (me.seq + 1 + 1) % LogSeqMod
            /\ (me.seq + 1 + 1) % LogSeqMod \in Seq6
        BY <3>2, SeqNumbers
      <3> QED
        BY <1>2, <3>1, <3>2, <3>3
    <2>2. CASE ~me.over
      <3>1. EventSeq(me) = (me.seq + 0) % LogSeqMod /\ Queued(me) = 1 /\ me.seq + 0 = me.seq /\ me.seq \in Int
        BY <1>3, <2>2 DEF EventSeq, Queued
      <3>2. ((me.seq % LogSeqMod) + 1) % LogSeqMod = (me.seq + 1) % LogSeqMod
            /\ (me.seq + 1) % LogSeqMod \in Seq6
        BY <1>3, <3>1, SeqNumbers
      <3> QED
        BY <1>2, <3>1, <3>2
    <2> QED
      BY <2>1, <2>2
  <1>5. ProducerTypes'
    BY <1>1, <1>2, <1>3, <1>4, ProducerMoves DEF ProducerTypes
  <1>6. Books(p) => Counted(m, cell', refused', told', next')
    <2> SUFFICES ASSUME Counted(me, cell, refused, told, next)
                 PROVE  Counted(m, cell', refused', told', next')
      BY DEF Books, me
    <2>1. /\ cell.dropped = refused /\ told + cell.pending = refused /\ me.seq = cell.seq
          /\ (me.over => me.lost = cell.pending) /\ (~me.over => me.lost = 0)
      BY <1>1 DEF Counted, Dropping, Noting, Moving
    <2>2. Queued(m) = Queued(me)
      BY <1>1 DEF Queued
    <2>3. (m.over => told' = refused) /\ (~m.over => told' + cell.pending = refused)
      BY <1>1, <1>2, <1>3, <2>1
    <2> QED
      BY <1>1, <1>2, <1>4, <2>1, <2>2, <2>3 DEF Counted, Dropping, Noting, Moving
  <1> QED
    BY <1>1, <1>2, <1>5, <1>6, CountingStep DEF Idle, Dropping, me

LEMMA RefuseCounts ==
    ASSUME ProducerTypes, Counting, NEW p \in Producer, Refuse(p)
    PROVE  ProducerTypes' /\ Counting'
  <1>1. PICK m \in PType : /\ producer' = [producer EXCEPT ![p] = m] /\ m.pc = "drop"
                           /\ producer[p].pc = "put"
    <2>1. Goes(p, "put", "drop") /\ "drop" \in PcType /\ "drop" # "idle"
      BY DEF Refuse, PcType
    <2> QED
      BY <2>1, GoesIs
  <1>2. refused' = refused + 1 /\ UNCHANGED <<cell, calls, told, next, nested>>
    BY DEF Refuse
  <1>3. ProducerTypes'
    BY <1>1, <1>2, ProducerMoves DEF ProducerTypes
  <1>4. Books(p) => Counted(m, cell', refused', told', next')
    BY <1>1, <1>2 DEF Books, Counted, Dropping, Noting, Moving
  <1> QED
    BY <1>1, <1>2, <1>3, <1>4, CountingStep DEF Idle, Dropping

\* A load of a counter.
LEMMA LoadIs ==
    ASSUME ProducerTypes, NEW p \in Producer, NEW at, NEW c \in {"seq", "dropped", "pending"},
           NEW to \in PcType, Load(p, at, c, to)
    PROVE  \E m \in PType : /\ producer' = [producer EXCEPT ![p] = m] /\ m.pc = to
                            /\ producer[p].pc = at /\ m.old = cell[c] /\ UNCHANGED cell
                            /\ m.over = producer[p].over
  <1> DEFINE m == [producer[p] EXCEPT !.pc = to, !.old = cell[c]]
  <1>1. producer[p] \in PType /\ cell[c] \in Nat
    <2>1. cell \in CellType
      BY DEF ProducerTypes
    <2>2. cell.seq \in Nat /\ cell.dropped \in Nat /\ cell.pending \in Nat
      BY <2>1, SeqNumbers DEF CellType
    <2> QED
      BY <2>2 DEF ProducerTypes
  <1>2. m \in PType /\ m.pc = to /\ m.old = cell[c] /\ m.over = producer[p].over
    BY <1>1 DEF PType
  <1>3. producer' = [producer EXCEPT ![p] = m] /\ producer[p].pc = at /\ UNCHANGED cell
    BY <1>1 DEF Load, PType
  <1> QED
    BY <1>2, <1>3

LEMMA NoteDropCounts ==
    ASSUME ProducerTypes, Counting, NEW p \in Producer, NoteDrop(p)
    PROVE  ProducerTypes' /\ Counting'
  <1> DEFINE me == producer[p]
  <1>1. UNCHANGED <<calls, refused, told, next, nested>>
    BY DEF NoteDrop, history
  <1>2. me \in PType /\ me.old \in Nat /\ cell \in CellType /\ refused \in Nat /\ told \in Nat
        /\ cell.dropped \in Nat /\ cell.pending \in Nat
    BY DEF ProducerTypes, PType, CellType
  <1>3. CASE Load(p, "drop", "dropped", "drop2") \/ Load(p, "note", "pending", "note2")
    <2>1. PICK m \in PType :
             /\ producer' = [producer EXCEPT ![p] = m] /\ UNCHANGED cell
             /\ \/ m.pc = "drop2" /\ me.pc = "drop" /\ m.old = cell.dropped
                \/ m.pc = "note2" /\ me.pc = "note" /\ m.old = cell.pending
      BY <1>3, LoadIs DEF PcType
    <2>2. ProducerTypes'
      BY <1>1, <2>1, ProducerMoves DEF ProducerTypes
    <2>3. Books(p) => Counted(m, cell', refused', told', next')
      BY <1>1, <2>1 DEF Books, Counted, Dropping, Noting, Moving
    <2> QED
      BY <1>1, <2>1, <2>2, <2>3, CountingStep DEF Idle, Dropping
  <1>4. CASE Store(p, "drop2", "dropped", me.old + 1, "note")
    <2>1. PICK m \in PType : producer' = [producer EXCEPT ![p] = m] /\ m.pc = "note" /\ me.pc = "drop2"
      <3>1. Goes(p, "drop2", "note") /\ "note" \in PcType
        BY <1>4 DEF Store, PcType
      <3> QED
        BY <3>1, GoesIs
    <2>2. /\ cell' \in CellType /\ cell'.dropped = me.old + 1 /\ cell'.pending = cell.pending
          /\ cell'.seq = cell.seq
      BY <1>2, <1>4 DEF Store, CellType
    <2>3. ProducerTypes'
      BY <1>1, <2>1, <2>2, ProducerMoves DEF ProducerTypes
    <2>4. Books(p) => Counted(m, cell', refused', told', next')
      BY <1>1, <1>2, <2>1, <2>2 DEF Books, Counted, Dropping, Noting, Moving
    <2>5. cell'.dropped > 0
      BY <1>2, <2>2
    <2> QED
      BY <1>1, <2>1, <2>3, <2>4, <2>5, CountingStep DEF Idle
  <1>5. CASE Store(p, "note2", "pending", me.old + 1, "idle")
    <2>1. PICK m \in PType : producer' = [producer EXCEPT ![p] = m] /\ m.pc = "idle" /\ me.pc = "note2"
      <3>1. Goes(p, "note2", "idle") /\ "idle" \in PcType
        BY <1>5 DEF Store, PcType
      <3> QED
        BY <3>1, GoesIs
    <2>2. /\ cell' \in CellType /\ cell'.dropped = cell.dropped /\ cell'.pending = me.old + 1
          /\ cell'.seq = cell.seq
      BY <1>2, <1>5 DEF Store, CellType
    <2>3. ProducerTypes'
      BY <1>1, <2>1, <2>2, ProducerMoves DEF ProducerTypes
    <2>4. Books(p) => Counted(m, cell', refused', told', next')
      BY <1>1, <1>2, <2>1, <2>2 DEF Books, Counted, Dropping, Noting, Moving
    <2> QED
      BY <1>1, <2>1, <2>2, <2>3, <2>4, CountingStep DEF Idle, Dropping
  <1> QED
    BY <1>3, <1>4, <1>5 DEF NoteDrop

LEMMA MoveOnCounts ==
    ASSUME ProducerTypes, Counting, NEW p \in Producer, MoveOn(p)
    PROVE  ProducerTypes' /\ Counting'
  <1> DEFINE me == producer[p]
  <1>1. UNCHANGED <<calls, refused, told, next, nested>>
    BY DEF MoveOn, history
  <1>2. me \in PType /\ me.old \in Nat /\ cell \in CellType /\ refused \in Nat /\ told \in Nat
        /\ me.over \in BOOLEAN /\ cell.dropped \in Nat /\ cell.pending \in Nat
    BY DEF ProducerTypes, PType, CellType
  <1>3. CASE Load(p, "put2", "seq", "seq2")
    <2>1. PICK m \in PType : /\ producer' = [producer EXCEPT ![p] = m] /\ UNCHANGED cell
                             /\ m.pc = "seq2" /\ me.pc = "put2" /\ m.old = cell.seq /\ m.over = me.over
      BY <1>3, LoadIs DEF PcType
    <2>2. ProducerTypes'
      BY <1>1, <2>1, ProducerMoves DEF ProducerTypes
    <2>3. Books(p) => Counted(m, cell', refused', told', next')
      BY <1>1, <2>1 DEF Books, Counted, Dropping, Noting, Moving, Queued
    <2> QED
      BY <1>1, <2>1, <2>2, <2>3, CountingStep DEF Idle, Dropping
  <1>4. CASE Store(p, "seq2", "seq", (me.old + Queued(me)) % LogSeqMod, Reported(me))
    <2>1. Reported(me) \in PcType /\ Goes(p, "seq2", Reported(me))
          /\ (me.over => Reported(me) = "clear") /\ (~me.over => Reported(me) = "idle")
      BY <1>4 DEF Store, Reported, PcType
    <2>2. PICK m \in PType : /\ producer' = [producer EXCEPT ![p] = m] /\ m.pc = Reported(me) /\ me.pc = "seq2"
                             /\ (m.pc # "idle" => m.over = me.over)
      BY <2>1, GoesIs
    <2>3. (me.old + Queued(me)) % LogSeqMod \in Seq6
      <3>1. me.old + Queued(me) \in Int
        BY <1>2 DEF Queued
      <3> QED
        BY <3>1, SeqNumbers
    <2>4. /\ cell' \in CellType /\ cell'.dropped = cell.dropped /\ cell'.pending = cell.pending
          /\ cell'.seq = (me.old + Queued(me)) % LogSeqMod
      BY <1>2, <1>4, <2>3 DEF Store, CellType
    <2>5. ProducerTypes'
      BY <1>1, <2>2, <2>4, ProducerMoves DEF ProducerTypes
    <2>6. Books(p) => Counted(m, cell', refused', told', next')
      <3> SUFFICES ASSUME Counted(me, cell, refused, told, next)
                   PROVE  Counted(m, cell', refused', told', next')
        BY DEF Books
      <3>1. /\ cell.dropped = refused /\ next = cell'.seq
            /\ (me.over => told = refused) /\ (~me.over => told + cell.pending = refused)
        BY <2>2, <2>4 DEF Counted, Dropping, Noting, Moving
      <3> QED
        BY <1>1, <1>2, <2>1, <2>2, <2>4, <3>1 DEF Counted, Dropping, Noting, Moving
    <2> QED
      BY <1>1, <2>2, <2>4, <2>5, <2>6, CountingStep DEF Idle, Dropping
  <1>5. CASE Store(p, "clear", "pending", 0, "idle")
    <2>1. PICK m \in PType : producer' = [producer EXCEPT ![p] = m] /\ m.pc = "idle" /\ me.pc = "clear"
      <3>1. Goes(p, "clear", "idle") /\ "idle" \in PcType
        BY <1>5 DEF Store, PcType
      <3> QED
        BY <3>1, GoesIs
    <2>2. /\ cell' \in CellType /\ cell'.dropped = cell.dropped /\ cell'.pending = 0
          /\ cell'.seq = cell.seq
      BY <1>2, <1>5 DEF Store, CellType
    <2>3. ProducerTypes'
      BY <1>1, <2>1, <2>2, ProducerMoves DEF ProducerTypes
    <2>4. Books(p) => Counted(m, cell', refused', told', next')
      BY <1>1, <1>2, <2>1, <2>2 DEF Books, Counted, Dropping, Noting, Moving
    <2> QED
      BY <1>1, <2>1, <2>2, <2>3, <2>4, CountingStep DEF Idle, Dropping
  <1> QED
    BY <1>3, <1>4, <1>5 DEF MoveOn
-----------------------------------------------------------------------------
(* The ring as a queue: what a producer adds. *)

RingTypes ==
    /\ ring \in [Slot -> Unit] /\ head \in 0 .. Wrap - 1 /\ tail \in 0 .. Wrap - 1
    /\ Used <= Cap

QueueStep == Queue!Next \/ UNCHANGED <<Unsent, sink>>

LEMMA SequenceOf ==
    ASSUME NEW S, NEW n \in Nat, NEW f \in [1 .. n -> S]
    PROVE  f \in Seq(S) /\ Len(f) = n /\ \A i \in 1 .. n : f[i] \in S
  OBVIOUS

LEMMA UsedIs ==
    ASSUME RingTypes
    PROVE  /\ Used \in Nat /\ Used <= Cap /\ Used < Wrap
           /\ head \in Nat /\ tail \in Nat
           /\ head % Cap = (tail + Used) % Cap
           /\ head = (tail + Used) % Wrap
           /\ Contents \in Seq(Unit) /\ Len(Contents) = Used
           /\ Holds(ring, tail, Contents)
  <1> DEFINE u == Used
  <1>1. head \in Int /\ tail \in Int /\ head \in Nat /\ tail \in Nat /\ ring \in [Slot -> Unit]
        /\ Cap \in Nat \ {0} /\ Wrap \in Nat \ {0} /\ Cap < Wrap
        /\ head \in 0 .. Wrap - 1
    BY Constants DEF RingTypes
  <1>2. u \in Nat /\ u <= Cap
    <2>1. (head - tail) % Wrap \in 0 .. Wrap - 1
      BY <1>1, DivMod
    <2> QED
      BY <1>1, <2>1 DEF RingTypes, Used
  <1>3. (tail + u) % Wrap = head
    <2> DEFINE d == head - tail
    <2>1. d \in Int /\ d + tail = head
      BY <1>1
    <2> HIDE DEF d
    <2>2. ((d % Wrap) + tail) % Wrap = (d + tail) % Wrap
      BY <1>1, <2>1, ModPlus
    <2>3. u = d % Wrap
      BY DEF Used, d
    <2> HIDE DEF u
    <2>4. (tail + u) % Wrap = (u + tail) % Wrap
      BY <1>1, <1>2
    <2>5. head % Wrap = head
      BY <1>1, ModSmall
    <2> QED
      BY <2>1, <2>2, <2>3, <2>4, <2>5
  <1>4. head % Cap = (tail + u) % Cap
    <2>1. tail + u \in Int
      BY <1>1, <1>2
    <2> HIDE DEF u
    <2>2. ((tail + u) % Wrap) % Cap = (tail + u) % Cap
      BY <1>1, <2>1, ModMod, Constants
    <2> QED
      BY <1>3, <2>2
  <1>5. \A k \in 1 .. u : (tail + k - 1) % Cap \in Slot
    BY <1>1, <1>2, InSlot
  <1>6. Contents \in [1 .. u -> Unit] /\ \A k \in 1 .. u : Contents[k] = ring[(tail + k - 1) % Cap]
    BY <1>1, <1>5 DEF Contents
  <1> HIDE DEF u
  <1>7. Contents \in Seq(Unit) /\ Len(Contents) = u
    BY <1>2, <1>6, SequenceOf
  <1>8. Holds(ring, tail, Contents)
    BY <1>1, <1>2, <1>6, <1>7 DEF Holds
  <1> QED
    BY <1>1, <1>2, <1>3, <1>4, <1>7, <1>8 DEF u

LEMMA RestIs ==
    ASSUME RingTypes, drain.sent \in Nat, drain.sent <= Used
    PROVE  /\ Unsent \in Seq(Unit) /\ Len(Unsent) = Used - drain.sent
           /\ \A k \in 1 .. Used - drain.sent : Unsent[k] = Contents[drain.sent + k]
  <1> DEFINE u == Used
             s == drain.sent
  <1>1. u \in Nat /\ Contents \in Seq(Unit) /\ Len(Contents) = u /\ s \in Nat /\ s <= u
    BY UsedIs
  <1> HIDE DEF u, s
  <1>2. \A i \in s + 1 .. u : Contents[i] \in Unit
    BY <1>1
  <1>3. s + 1 \in Int /\ u \in Int
    BY <1>1
  <1>4. /\ SubSeq(Contents, s + 1, u) \in Seq(Unit)
        /\ Len(SubSeq(Contents, s + 1, u)) = IF s + 1 <= u THEN u - (s + 1) + 1 ELSE 0
        /\ \A i \in 1 .. u - (s + 1) + 1 : SubSeq(Contents, s + 1, u)[i] = Contents[s + 1 + i - 1]
    BY <1>2, <1>3, SubSeqProperties
  <1>5. \A i \in 1 .. u - s : i \in 1 .. u - (s + 1) + 1 /\ s + 1 + i - 1 = s + i
    BY <1>1
  <1>6. \A i \in 1 .. u - s : SubSeq(Contents, s + 1, u)[i] = Contents[s + i]
    BY <1>4, <1>5
  <1> QED
    BY <1>1, <1>4, <1>6 DEF Unsent, u, s

LEMMA Longer ==
    ASSUME NEW r \in Seq(Unit), NEW m \in Seq(Unit), Len(m) > 0
    PROVE  /\ r \o m \in Seq(Unit) /\ Len(r \o m) = Len(r) + Len(m) /\ Len(r) \in Nat /\ Len(m) \in Nat
           /\ SubSeq(r \o m, 1, Len(r)) = r
           /\ SubSeq(r \o m, Len(r) + 1, Len(r \o m)) = m
  <1> DEFINE w == r \o m
             a == Len(r)
             n == Len(m)
  <1>1. a \in Nat /\ n \in Nat /\ n > 0 /\ w \in Seq(Unit) /\ Len(w) = a + n
        /\ \A i \in 1 .. a + n : w[i] = IF i <= a THEN r[i] ELSE m[i - a]
    BY ConcatProperties
  <1> HIDE DEF w
  <1>2. \A i \in 1 .. a + n : w[i] \in Unit
    BY <1>1
  <1>3. SubSeq(w, 1, a) = r
    <2>1. /\ SubSeq(w, 1, a) \in Seq(Unit)
          /\ Len(SubSeq(w, 1, a)) = IF 1 <= a THEN a - 1 + 1 ELSE 0
          /\ \A i \in 1 .. a - 1 + 1 : SubSeq(w, 1, a)[i] = w[1 + i - 1]
      <3>1. 1 \in Int /\ a \in Int /\ \A i \in 1 .. a : w[i] \in Unit
        BY <1>1, <1>2
      <3> HIDE DEF a
      <3> QED
        BY <3>1, SubSeqProperties
    <2>2. Len(SubSeq(w, 1, a)) = a /\ \A i \in 1 .. a : SubSeq(w, 1, a)[i] = r[i]
      BY <1>1, <2>1
    <2> QED
      BY <2>1, <2>2, SeqEqual
  <1>4. SubSeq(w, a + 1, a + n) = m
    <2> DEFINE b == a + 1
               c == a + n
    <2>1. b \in Int /\ c \in Int /\ b <= c /\ c - b + 1 = n /\ \A i \in b .. c : w[i] \in Unit
      BY <1>1, <1>2
    <2>2. /\ SubSeq(w, b, c) \in Seq(Unit)
          /\ Len(SubSeq(w, b, c)) = IF b <= c THEN c - b + 1 ELSE 0
          /\ \A i \in 1 .. c - b + 1 : SubSeq(w, b, c)[i] = w[b + i - 1]
      <3> HIDE DEF b, c
      <3> QED
        BY <2>1, SubSeqProperties
    <2>3. \A i \in 1 .. n : b + i - 1 = a + i /\ w[a + i] = m[i]
      BY <1>1
    <2>4. Len(SubSeq(w, b, c)) = n /\ \A i \in 1 .. n : SubSeq(w, b, c)[i] = m[i]
      <3> HIDE DEF b, c
      <3> QED
        BY <2>1, <2>2, <2>3
    <2> QED
      BY <2>2, <2>4, SeqEqual
  <1> QED
    BY <1>1, <1>3, <1>4 DEF w

\* Queueing a message, as ByteQueue has it.
LEMMA EnqueueIs ==
    ASSUME NEW m \in Seq(Unit), IsMessage(m), Len(m) > 0, Unsent \in Seq(Unit),
           Unsent' = Unsent \o m, Len(Unsent') <= Cap, sink' = sink
    PROVE  Queue!Next
  <1>1. Len(Unsent') > Len(Unsent)
    BY Longer
  <1>2. SubSeq(Unsent', 1, Len(Unsent)) = Unsent
    BY Longer
  <1>3. SubSeq(Unsent', Len(Unsent) + 1, Len(Unsent')) = m
    BY Longer
  <1>4. IsMessage(SubSeq(Unsent', Len(Unsent) + 1, Len(Unsent')))
    BY <1>3, Zenon
  <1>5. Queue!Enqueue
    BY <1>1, <1>2, <1>4 DEF Queue!Enqueue
  <1> QED
    BY <1>5 DEF Queue!Next

LEMMA EncodeIs ==
    ASSUME NEW r \in Record
    PROVE  /\ Encode(r) \in Seq(Unit) /\ Len(Encode(r)) = 2
           /\ Encode(r)[1].rec = r /\ Encode(r)[2].rec = r
  <1>1. [rec |-> r, part |-> 1] \in Unit /\ [rec |-> r, part |-> 2] \in Unit
    BY DEF Unit
  <1> QED
    BY <1>1 DEF Encode

LEMMA MessageIs ==
    ASSUME ProducerTypes, NEW p \in Producer
    PROVE  LET me == producer[p]
           IN  /\ Report(me) \in Seq(Unit) /\ Event(me) \in Seq(Unit)
               /\ Len(Report(me)) \in Nat /\ Len(Event(me)) \in Nat /\ Len(Event(me)) > 0
               /\ Report(me) \o Event(me) \in Seq(Unit) /\ Len(Report(me) \o Event(me)) > 0
               /\ IsMessage(Report(me) \o Event(me))
  <1> DEFINE me == producer[p]
             e == NewRecord("event", EventSeq(me), me.call)
             o == NewRecord("overflow", me.seq, me.lost)
  <1>1. me \in PType
    BY DEF ProducerTypes
  <1>2. me.seq \in Seq6 /\ me.seq \in Int /\ me.call \in Nat /\ me.lost \in Nat /\ me.over \in BOOLEAN
    BY <1>1, SeqNumbers DEF PType
  <1> HIDE DEF me
  <1>3. EventSeq(me) \in Seq6 /\ (me.over => EventSeq(me) = (me.seq + 1) % LogSeqMod)
    <2>1. CASE me.over
      <3>1. EventSeq(me) = (me.seq + 1) % LogSeqMod
        BY <2>1 DEF EventSeq
      <3>2. me.seq + 1 \in Int
        BY <1>2
      <3> QED
        BY <3>1, <3>2, SeqNumbers
    <2>2. CASE ~me.over
      <3>1. EventSeq(me) = (me.seq + 0) % LogSeqMod
        BY <2>2 DEF EventSeq
      <3>2. me.seq + 0 \in Int
        BY <1>2
      <3> QED
        BY <2>2, <3>1, <3>2, SeqNumbers
    <2> QED
      BY <2>1, <2>2
  <1>4. /\ e \in Record /\ e.kind = "event" /\ e.seq = EventSeq(me)
        /\ o \in Record /\ o.kind = "overflow" /\ o.seq = me.seq
    BY <1>2, <1>3 DEF NewRecord, Record
  <1>5. Event(me) = Encode(e) /\ Report(me) = IF me.over THEN Encode(o) ELSE <<>>
    BY DEF Event, Report
  <1> HIDE DEF e, o
  <1>6. CASE me.over
    <2>1. Report(me) = Encode(o)
      BY <1>5, <1>6
    <2> DEFINE m == Encode(o) \o Encode(e)
    <2>2. /\ Encode(o) \in Seq(Unit) /\ Encode(e) \in Seq(Unit) /\ Len(Encode(o)) = 2 /\ Len(Encode(e)) = 2
          /\ Encode(o)[1].rec = o /\ Encode(e)[1].rec = e
      BY <1>4, EncodeIs
    <2>3. m \in Seq(Unit) /\ Len(m) = 4 /\ m[1] = Encode(o)[1] /\ m[3] = Encode(e)[1]
      BY <2>2, ConcatProperties
    <2>4. m[1].rec = o /\ m[3].rec = e
      BY <2>2, <2>3
    <2> HIDE DEF m
    <2>5. IsMessage(m)
      <3>1. m = Encode(m[1].rec) \o Encode(m[3].rec)
        BY <2>4 DEF m
      <3>2. m[1].rec \in Record /\ m[3].rec \in Record /\ m[1].rec.kind = "overflow" /\ m[3].rec.kind = "event"
        BY <1>4, <2>4
      <3>3. m[3].rec.seq = (m[1].rec.seq + 1) % LogSeqMod
        BY <1>3, <1>4, <1>6, <2>4
      <3> QED
        BY <2>3, <3>1, <3>2, <3>3 DEF IsMessage
    <2> QED
      BY <1>5, <2>1, <2>2, <2>3, <2>5 DEF m, me
  <1>7. CASE ~me.over
    <2>1. Report(me) = <<>>
      BY <1>5, <1>7
    <2>2. Encode(e) \in Seq(Unit) /\ Len(Encode(e)) = 2 /\ Encode(e)[1].rec = e
      BY <1>4, EncodeIs
    <2>3. <<>> \o Encode(e) = Encode(e) /\ <<>> \in Seq(Unit) /\ Len(<<>>) = 0
      BY <2>2, ConcatEmptySeq, EmptySeq
    <2> DEFINE m == Encode(e)
    <2>4. IsMessage(m)
      <3>1. m[1].rec = e
        BY <2>2
      <3> HIDE DEF m
      <3>2. m = Encode(m[1].rec)
        BY <3>1 DEF m
      <3> QED
        BY <1>4, <3>1, <3>2 DEF IsMessage
    <2> QED
      <3>1. Report(me) \o Event(me) = m
        BY <1>5, <2>1, <2>3
      <3>2. IsMessage(Report(me) \o Event(me))
        BY <2>4, <3>1, Zenon
      <3>3. /\ Report(me) \in Seq(Unit) /\ Event(me) \in Seq(Unit)
            /\ Len(Report(me)) \in Nat /\ Len(Event(me)) \in Nat /\ Len(Event(me)) > 0
            /\ Report(me) \o Event(me) \in Seq(Unit) /\ Len(Report(me) \o Event(me)) > 0
        <4>1. Report(me) \in Seq(Unit) /\ Len(Report(me)) \in Nat
          BY <2>1, <2>3
        <4>2. Event(me) \in Seq(Unit) /\ Len(Event(me)) = 2
          BY <1>5, <2>2
        <4>3. Report(me) \o Event(me) \in Seq(Unit) /\ Len(Report(me) \o Event(me)) = 2
          BY <2>2, <3>1
        <4> QED
          BY <4>1, <4>2, <4>3
      <3> QED
        BY <3>2, <3>3, Zenon DEF me
  <1> QED
    BY <1>6, <1>7

\* What is left of a sequence when its beginning is gone grows as it does.
LEMMA Suffix ==
    ASSUME NEW c \in Seq(Unit), NEW m \in Seq(Unit), NEW s \in Nat, s <= Len(c),
           NEW r \in Seq(Unit), Len(r) = Len(c) - s,
           \A k \in 1 .. Len(c) - s : r[k] = c[s + k],
           NEW w \in Seq(Unit), Len(w) = Len(c) + Len(m) - s,
           \A k \in 1 .. Len(c) + Len(m) - s : w[k] = (c \o m)[s + k]
    PROVE  w = r \o m
  <1>1. Len(c) \in Nat /\ Len(m) \in Nat
    OBVIOUS
  <1>2. \A k \in 1 .. Len(c) + Len(m) : (c \o m)[k] = IF k <= Len(c) THEN c[k] ELSE m[k - Len(c)]
    BY ConcatProperties
  <1>3. /\ r \o m \in Seq(Unit) /\ Len(r \o m) = Len(r) + Len(m)
        /\ \A k \in 1 .. Len(r) + Len(m) : (r \o m)[k] = IF k <= Len(r) THEN r[k] ELSE m[k - Len(r)]
    BY ConcatProperties
  <1>4. \A k \in 1 .. Len(w) : w[k] = (r \o m)[k]
    <2> SUFFICES ASSUME NEW k \in 1 .. Len(c) + Len(m) - s PROVE w[k] = (r \o m)[k]
      OBVIOUS
    <2>1. s + k \in 1 .. Len(c) + Len(m) /\ k \in 1 .. Len(r) + Len(m) /\ k \in Nat
      BY <1>1
    <2>2. CASE k <= Len(r)
      <3>1. s + k <= Len(c) /\ k \in 1 .. Len(c) - s
        BY <1>1, <2>1, <2>2
      <3> QED
        BY <1>2, <1>3, <2>1, <2>2, <3>1
    <2>3. CASE ~(k <= Len(r))
      <3>1. ~(s + k <= Len(c)) /\ s + k - Len(c) = k - Len(r)
        BY <1>1, <2>1, <2>3
      <3> QED
        BY <1>2, <1>3, <2>1, <2>3, <3>1
    <2> QED
      BY <2>2, <2>3
  <1>5. Len(w) = Len(r \o m)
    BY <1>1, <1>3
  <1> QED
    BY <1>3, <1>4, <1>5, SeqEqual

LEMMA PutQueues ==
    ASSUME RingTypes, ProducerTypes, drain.sent \in Nat, drain.sent <= Used, NEW p \in Producer, Put(p)
    PROVE  RingTypes' /\ Used <= Used' /\ Queue!Next
  <1> DEFINE a == Report(producer[p])
             b == Event(producer[p])
             u == Used
             la == Len(a)
             lb == Len(b)
  <1>1. /\ a \in Seq(Unit) /\ b \in Seq(Unit) /\ la \in Nat /\ lb \in Nat
        /\ a \o b \in Seq(Unit) /\ Len(a \o b) > 0 /\ IsMessage(a \o b)
        /\ Len(a \o b) = la + lb
    BY MessageIs, ConcatProperties
  <1>2. /\ Cap - u >= la + lb
        /\ ring' = CopyIn(CopyIn(ring, head, a), (head + la) % Wrap, b)
        /\ head' = (head + la + lb) % Wrap
        /\ UNCHANGED <<tail, drain, sink>>
    BY DEF Put, TryEnqueue, Room
  <1>3. /\ u \in Nat /\ head \in Nat /\ tail \in Nat /\ head % Cap = (tail + u) % Cap
        /\ head = (tail + u) % Wrap /\ Contents \in Seq(Unit) /\ Len(Contents) = u
        /\ Holds(ring, tail, Contents) /\ u <= Cap
    BY UsedIs
  <1> HIDE DEF a, b, u, la, lb
  <1>4. /\ Cap \in Nat \ {0} /\ Wrap \in Nat \ {0} /\ Cap < Wrap /\ Wrap % Cap = 0
        /\ u + la \in Nat /\ u + la + lb \in Nat /\ u + la + lb <= Cap
    BY <1>1, <1>2, <1>3, Constants
  <1>5. Holds(CopyIn(ring, head, a), tail, Contents \o a) /\ Len(Contents \o a) = u + la
        /\ Contents \o a \in Seq(Unit)
    <2>1. u + la <= Cap
      BY <1>1, <1>3, <1>4
    <2>2. Len(Contents \o a) = u + la /\ Contents \o a \in Seq(Unit)
      BY <1>1, <1>3, ConcatProperties DEF la
    <2>3. Len(Contents) + Len(a) <= Cap /\ head % Cap = (tail + Len(Contents)) % Cap
      BY <1>3, <2>1 DEF la
    <2>4. Holds(CopyIn(ring, head, a), tail, Contents \o a)
      BY <1>1, <1>3, <2>3, CopyHolds
    <2> QED
      BY <2>2, <2>4
  <1> DEFINE from == (head + la) % Wrap
             r1 == CopyIn(ring, head, a)
             s1 == Contents \o a
  <1>6. from \in Nat /\ from % Cap = (tail + Len(s1)) % Cap
    <2>1. head + la \in Int /\ head \in Int /\ la \in Int /\ tail + u \in Int
      BY <1>1, <1>3
    <2>2. ((head + la) % Wrap) % Cap = (head + la) % Cap
      BY <1>4, <2>1, ModMod
    <2>3. ((head % Cap) + la) % Cap = (head + la) % Cap
      BY <1>4, <2>1, ModPlus
    <2>4. (((tail + u) % Cap) + la) % Cap = (tail + u + la) % Cap
      BY <1>4, <2>1, ModPlus
    <2>5. tail + u + la = tail + Len(s1)
      BY <1>1, <1>3, <1>5
    <2>6. (head + la) % Wrap \in 0 .. Wrap - 1
      BY <1>4, <2>1, DivMod
    <2>7. from \in Nat
      BY <1>4, <2>6
    <2> QED
      BY <1>3, <2>2, <2>3, <2>4, <2>5, <2>7
  <1> HIDE DEF from, r1, s1
  <1>7. Holds(CopyIn(r1, from, b), tail, s1 \o b)
    <2>1. Len(s1) + Len(b) <= Cap /\ s1 \in Seq(Unit) /\ Holds(r1, tail, s1)
      BY <1>1, <1>4, <1>5 DEF s1, r1, lb
    <2> QED
      BY <1>1, <1>3, <1>6, <2>1, CopyHolds
  <1>8. ring' = CopyIn(r1, from, b)
    BY <1>2 DEF r1, from
  <1> DEFINE c == s1 \o b
             n == u + la + lb
  <1>9. c \in Seq(Unit) /\ Len(c) = n /\ \A k \in 1 .. n : ring'[(tail + k - 1) % Cap] = c[k]
    <2>1. Len(s1 \o b) = Len(s1) + lb
      BY <1>1, <1>5, ConcatProperties DEF s1, lb
    <2>2. Len(s1) = u + la
      BY <1>5 DEF s1
    <2> QED
      BY <1>7, <1>8, <2>1, <2>2 DEF Holds
  <1>10. Used' = n /\ head' \in 0 .. Wrap - 1 /\ head' \in Nat
    <2> DEFINE l == la + lb
    <2>1. l \in Int /\ head + la + lb = head + l /\ head \in Int /\ tail \in Int /\ head + l \in Int
          /\ u + l = n /\ head - tail \in Int
      BY <1>1, <1>3
    <2> HIDE DEF l
    <2>2. head' = (head + l) % Wrap
      BY <1>2, <2>1
    <2>3. head' \in 0 .. Wrap - 1
      BY <1>4, <2>1, <2>2, DivMod
    <2>4. Used' = (head' - tail) % Wrap
      BY <1>2 DEF Used
    <2>5. (((head + l) % Wrap) + (0 - tail)) % Wrap = ((head + l) + (0 - tail)) % Wrap
      <3>1. 0 - tail \in Int
        BY <2>1
      <3> QED
        BY <1>4, <2>1, <3>1, ModPlus
    <2>6. head' - tail = ((head + l) % Wrap) + (0 - tail)
      <3>1. (head + l) % Wrap \in Int
        BY <1>4, <2>2, <2>3
      <3> QED
        BY <2>1, <2>2, <3>1
    <2>7. (head + l) + (0 - tail) = (head - tail) + l
      BY <2>1
    <2>8. (((head - tail) % Wrap) + l) % Wrap = ((head - tail) + l) % Wrap
      BY <1>4, <2>1, ModPlus
    <2>9. u = (head - tail) % Wrap
      BY DEF u, Used
    <2>10. Used' = (u + l) % Wrap
      BY <2>4, <2>5, <2>6, <2>7, <2>8, <2>9
    <2>11. n \in 0 .. Wrap - 1
      BY <1>4
    <2>12. n % Wrap = n
      <3> HIDE DEF n
      <3> QED
        BY <1>4, <2>11, ModSmall
    <2> QED
      BY <1>4, <2>1, <2>3, <2>10, <2>12
  <1>11. RingTypes'
    <2>1. ring' \in [Slot -> Unit]
      BY <1>7, <1>8 DEF Holds
    <2>2. tail' \in 0 .. Wrap - 1
      BY <1>2 DEF RingTypes
    <2> QED
      BY <1>4, <1>10, <2>1, <2>2 DEF RingTypes
  <1>12. Contents' = c
    <2>1. /\ Contents' \in Seq(Unit) /\ Len(Contents') = n
          /\ \A k \in 1 .. n : Contents'[k] = ring'[(tail' + k - 1) % Cap]
      <3>1. (Contents \in Seq(Unit) /\ Len(Contents) = Used)'
        BY <1>11, UsedIs, PTL
      <3>2. \A k \in 1 .. Used' : Contents'[k] = ring'[(tail' + k - 1) % Cap]
        BY DEF Contents
      <3> QED
        BY <1>10, <3>1, <3>2
    <2>2. \A k \in 1 .. n : Contents'[k] = c[k]
      BY <1>2, <1>9, <2>1
    <2> HIDE DEF c, n
    <2> QED
      BY <1>9, <2>1, <2>2, SeqEqual
  <1>13. Unsent' = Unsent \o (a \o b)
    <2> DEFINE s == drain.sent
               m == a \o b
    <2>1. s \in Nat /\ s <= u /\ drain'.sent = s
      BY <1>2 DEF u
    <2>2. Unsent \in Seq(Unit) /\ Len(Unsent) = u - s
          /\ \A k \in 1 .. u - s : Unsent[k] = Contents[s + k]
      BY RestIs DEF u
    <2>3. Unsent' \in Seq(Unit) /\ Len(Unsent') = n - s
          /\ \A k \in 1 .. n - s : Unsent'[k] = c[s + k]
      <3>1. (drain.sent \in Nat /\ drain.sent <= Used)'
        BY <1>1, <1>3, <1>10, <2>1
      <3>2. (/\ Unsent \in Seq(Unit) /\ Len(Unsent) = Used - drain.sent
             /\ \A k \in 1 .. Used - drain.sent : Unsent[k] = Contents[drain.sent + k])'
        BY <1>11, <3>1, RestIs, PTL
      <3> QED
        BY <1>10, <1>12, <2>1, <3>2
    <2>4. c = Contents \o m
      <3>1. a \in Seq(Unit) /\ b \in Seq(Unit) /\ Contents \in Seq(Unit)
        BY <1>1, <1>3
      <3>2. (Contents \o a) \o b = Contents \o (a \o b)
        BY <3>1, ConcatAssociative
      <3> QED
        BY <3>2 DEF s1
    <2>5. Len(m) = la + lb /\ m \in Seq(Unit) /\ Len(Contents) = u /\ Contents \in Seq(Unit)
      BY <1>1, <1>3
    <2> HIDE DEF s, c, m
    <2>6. n - s = Len(Contents) + Len(m) - s
      BY <1>1, <1>3, <2>1, <2>5
    <2> HIDE DEF n
    <2>7. \A k \in 1 .. Len(Contents) + Len(m) - s : Unsent'[k] = (Contents \o m)[s + k]
      BY <2>3, <2>4, <2>6
    <2>8. s <= Len(Contents) /\ Len(Unsent) = Len(Contents) - s
          /\ \A k \in 1 .. Len(Contents) - s : Unsent[k] = Contents[s + k]
      BY <2>1, <2>2, <2>5
    <2>9. Unsent' \in Seq(Unit) /\ Len(Unsent') = Len(Contents) + Len(m) - s /\ Unsent \in Seq(Unit)
          /\ s \in Nat /\ m \in Seq(Unit) /\ Contents \in Seq(Unit)
      BY <2>1, <2>2, <2>3, <2>5, <2>6
    <2>10. Unsent' = Unsent \o m
      BY <2>7, <2>8, <2>9, Suffix
    <2> QED
      BY <2>10 DEF m
  <1>14. Queue!Next
    <2>1. Unsent \in Seq(Unit)
      BY RestIs
    <2>2. Len(Unsent') <= Cap
      <3>1. (drain.sent \in Nat /\ drain.sent <= Used)'
        BY <1>1, <1>2, <1>3, <1>10 DEF u
      <3>2. (Len(Unsent) = Used - drain.sent)'
        BY <1>11, <3>1, RestIs, PTL
      <3> QED
        BY <1>4, <1>10, <3>1, <3>2
    <2> QED
      BY <1>1, <1>2, <1>13, <2>1, <2>2, EnqueueIs
  <1> QED
    BY <1>1, <1>3, <1>10, <1>11, <1>14 DEF u
-----------------------------------------------------------------------------
(* The drain, the UART and the flush. *)

DrainType == [pc : {"off", "look", "send", "advance"}, max : {0, DrainMax}, left : Nat,
              any : BOOLEAN, used : Nat, chunk : Nat, sent : Nat, result : {"IDLE", "SENT", "BLOCKED"}]
FlushType == [pc : {"none", "drain", "wait", "check", "flushed", "gave up"},
              stalled : Nat, drained : BOOLEAN, progress : BOOLEAN]

\* What the drain found in the ring stays there until it moves the tail.
DrainInv ==
    /\ drain \in DrainType /\ drain.left <= DrainMax /\ drain.used <= Cap /\ drain.chunk <= Cap
    /\ drain.pc = "send" => /\ 0 < drain.used /\ drain.used <= Used
                            /\ drain.max # 0 => drain.left > 0
    /\ drain.pc = "advance" => /\ 0 < drain.sent /\ drain.sent <= drain.chunk /\ drain.chunk <= Used
                               /\ drain.max # 0 => drain.chunk <= drain.left
    /\ drain.pc # "advance" => drain.sent = 0

\* Nobody queues while the bootloader flushes.
FlushInv ==
    /\ flush \in FlushType /\ flush.stalled <= MaxStall
    /\ Flushing => image = "fbl" /\ flush.stalled < MaxStall
    /\ flush.pc \in {"drain", "check"} => drain.pc = "off"
    /\ Flushing /\ flush.drained => Used = 0
    /\ flush.pc = "wait" /\ drain.pc # "off" => drain.max = 0
    /\ flush.pc = "wait" /\ drain.pc = "off" /\ drain.result = "IDLE" => Used = 0

SideInv ==
    /\ RingTypes /\ DrainInv /\ FlushInv
    /\ image \in {"app", "fbl"} /\ ready \in BOOLEAN /\ fifo \in Nat /\ fifo <= FifoCap

LEMMA SentIs ==
    ASSUME SideInv
    PROVE  drain.sent \in Nat /\ drain.sent <= Used
  <1>1. drain \in DrainType /\ drain.sent \in Nat /\ drain.chunk \in Nat /\ Used \in Nat
    BY UsedIs DEF SideInv, DrainInv, DrainType
  <1> QED
    BY <1>1 DEF SideInv, DrainInv

\* A step that neither queues nor drains.
LEMMA SideStays ==
    ASSUME SideInv, UNCHANGED <<image, ready, ringVars, drain, flush, fifo>>
    PROVE  SideInv'
  BY DEF SideInv, RingTypes, DrainInv, FlushInv, ringVars, Used, Flushing

LEMMA ContentsStay ==
    ASSUME UNCHANGED ringVars
    PROVE  Used' = Used /\ Contents' = Contents
  BY DEF ringVars, Used, Contents

LEMMA QueueStays ==
    ASSUME UNCHANGED <<ringVars, sink>>, drain'.sent = drain.sent
    PROVE  QueueStep
  BY ContentsStay DEF QueueStep, Unsent

LEMMA ProducerSide ==
    ASSUME SideInv, ProducerTypes, NEW p \in Producer, Produce(p)
    PROVE  SideInv' /\ QueueStep
  <1>1. CASE Put(p)
    <2>1. RingTypes' /\ Used <= Used' /\ Queue!Next
      BY <1>1, SentIs, PutQueues DEF SideInv
    <2>2. UNCHANGED <<image, ready, drain, flush, fifo>>
      BY <1>1 DEF Put
    <2>3. Used \in Nat /\ (Used \in Nat)'
      BY <2>1, UsedIs, PTL DEF SideInv
    <2>4. ~Flushing
      <3>1. MayRun(p)
        BY <1>1 DEF Put, Goes
      <3>2. Drainer \in Thread \ {p}
        BY Constants DEF Thread
      <3>3. Busy(Drainer) => image = "app"
        BY <3>1, <3>2 DEF MayRun
      <3> QED
        BY <3>3 DEF Busy, SideInv, FlushInv
    <2>5. DrainInv'
      <3>1. drain \in DrainType /\ drain.used \in Nat /\ drain.chunk \in Nat
        BY DEF SideInv, DrainInv, DrainType
      <3> QED
        BY <2>1, <2>2, <2>3, <3>1 DEF SideInv, DrainInv
    <2>6. FlushInv'
      BY <2>2, <2>4 DEF SideInv, FlushInv, Flushing
    <2> QED
      BY <2>1, <2>2, <2>5, <2>6 DEF SideInv, QueueStep
  <1>2. CASE ~Put(p)
    <2>1. UNCHANGED <<image, ready, ringVars, drain, flush, fifo, sink>>
      BY <1>2 DEF Produce, Begin, Ask, CountLosses, Refuse, NoteDrop, MoveOn
    <2> QED
      BY <2>1, SideStays, QueueStays
  <1> QED
    BY <1>1, <1>2

LEMMA FreshDrains ==
    /\ IdleDrain \in DrainType /\ IdleDrain.pc = "off" /\ IdleDrain.sent = 0 /\ IdleDrain.left = 0
    /\ IdleDrain.used = 0 /\ IdleDrain.chunk = 0 /\ IdleDrain.result = "IDLE"
    /\ \A max \in {0, DrainMax} :
          /\ StartDrain(max) \in DrainType /\ StartDrain(max).pc = "look" /\ StartDrain(max).sent = 0
          /\ StartDrain(max).left = max /\ StartDrain(max).max = max
          /\ StartDrain(max).used = 0 /\ StartDrain(max).chunk = 0
  <1>1. /\ IdleDrain \in DrainType /\ IdleDrain.pc = "off" /\ IdleDrain.sent = 0 /\ IdleDrain.left = 0
        /\ IdleDrain.used = 0 /\ IdleDrain.chunk = 0 /\ IdleDrain.result = "IDLE"
    BY DEF IdleDrain, DrainType
  <1>2. ASSUME NEW max \in {0, DrainMax}
        PROVE  /\ StartDrain(max) \in DrainType /\ StartDrain(max).pc = "look" /\ StartDrain(max).sent = 0
               /\ StartDrain(max).left = max /\ StartDrain(max).max = max
               /\ StartDrain(max).used = 0 /\ StartDrain(max).chunk = 0
    <2>1. max \in Nat
      BY Constants
    <2> QED
      BY <1>1, <2>1 DEF StartDrain, DrainType
  <1> QED
    BY <1>1, <1>2

LEMMA StoppedDrain ==
    ASSUME NEW result \in {"IDLE", "SENT", "BLOCKED"}, NEW any \in BOOLEAN
    PROVE  LET d == [IdleDrain EXCEPT !.result = result, !.any = any]
           IN  /\ d \in DrainType /\ d.pc = "off" /\ d.sent = 0 /\ d.left = 0 /\ d.used = 0
               /\ d.chunk = 0 /\ d.result = result
  BY FreshDrains DEF DrainType

LEMMA ReturnIs ==
    ASSUME SideInv, NEW result \in {"IDLE", "SENT", "BLOCKED"}, Return(result)
    PROVE  /\ drain' \in DrainType /\ drain'.sent = 0 /\ drain'.left <= DrainMax
           /\ drain'.used = 0 /\ drain'.chunk = 0
           /\ \/ drain'.pc = "look" /\ image = "app"
              \/ drain'.pc = "off" /\ drain'.result = result
  <1>1. drain \in DrainType /\ drain.max \in {0, DrainMax} /\ drain.any \in BOOLEAN
    BY DEF SideInv, DrainInv, DrainType
  <1>2. CASE result = "SENT" /\ image = "app"
    <2>1. drain' = StartDrain(drain.max)
      BY <1>2 DEF Return
    <2> QED
      BY <1>1, <1>2, <2>1, FreshDrains, Constants
  <1>3. CASE ~(result = "SENT" /\ image = "app")
    <2>1. drain' = [IdleDrain EXCEPT !.result = result, !.any = drain.any]
      BY <1>3 DEF Return
    <2> QED
      <3>1. drain' = [pc |-> "off", max |-> 0, left |-> 0, any |-> drain.any, used |-> 0,
                      chunk |-> 0, sent |-> 0, result |-> result]
        BY <2>1 DEF IdleDrain
      <3>2. 0 <= DrainMax
        BY Constants
      <3> QED
        BY <1>1, <3>1, <3>2 DEF DrainType
  <1> QED
    BY <1>2, <1>3

\* Steps of the drain that leave the ring alone.
LEMMA DrainSide ==
    ASSUME SideInv, UNCHANGED <<image, ready, ringVars, flush>>, fifo' \in Nat, fifo' <= FifoCap,
           DrainInv', ~(flush.pc \in {"drain", "check"}),
           flush.pc = "wait" => /\ drain'.pc # "off" => drain'.max = 0
                                /\ drain'.pc = "off" /\ drain'.result = "IDLE" => Used = 0
    PROVE  SideInv'
  <1>1. RingTypes' /\ Used' = Used
    BY ContentsStay DEF SideInv, RingTypes, ringVars
  <1>2. FlushInv'
    BY <1>1 DEF SideInv, FlushInv, Flushing
  <1> QED
    BY <1>1, <1>2 DEF SideInv

LEMMA LookSide ==
    ASSUME SideInv, Look
    PROVE  SideInv' /\ QueueStep
  <1>1. drain.pc = "look" /\ UNCHANGED <<image, ready, ringVars, flush, fifo, sink>>
    BY DEF Look
  <1>2. drain \in DrainType /\ Used \in Nat /\ Used <= Cap /\ drain.left \in Nat /\ drain.max \in Nat
        /\ drain.sent = 0 /\ drain.max \in {0, DrainMax}
    BY <1>1, UsedIs, Constants DEF SideInv, DrainInv, DrainType
  <1>3. ~(flush.pc \in {"drain", "check"}) /\ (flush.pc = "wait" => drain.max = 0 /\ image = "fbl")
    BY <1>1 DEF SideInv, FlushInv, Flushing
  <1>4. Used' = Used
    BY <1>1, ContentsStay
  <1>5. CASE \E result \in {"IDLE", "SENT", "BLOCKED"} :
                Return(result) /\ (result = "IDLE" => Used = 0 \/ (drain.max # 0 /\ drain.left = 0))
    <2>1. PICK result \in {"IDLE", "SENT", "BLOCKED"} :
                Return(result) /\ (result = "IDLE" => Used = 0 \/ (drain.max # 0 /\ drain.left = 0))
      BY <1>5
    <2>2. /\ drain' \in DrainType /\ drain'.sent = 0 /\ drain'.left <= DrainMax
          /\ drain'.used = 0 /\ drain'.chunk = 0
          /\ \/ drain'.pc = "look" /\ image = "app"
             \/ drain'.pc = "off" /\ drain'.result = result
      BY <2>1, ReturnIs
    <2>3. DrainInv'
      BY <1>4, <2>2, Constants DEF DrainInv
    <2>4. SideInv'
      BY <1>1, <1>3, <2>1, <2>2, <2>3, DrainSide DEF SideInv
    <2> QED
      BY <1>1, <1>2, <2>2, <2>4, QueueStays
  <1>6. CASE /\ Used # 0 /\ ~(drain.max # 0 /\ drain.left = 0)
             /\ drain' = [drain EXCEPT !.pc = "send", !.used = Used]
    <2>1. /\ drain' \in DrainType /\ drain'.pc = "send" /\ drain'.used = Used /\ drain'.sent = 0
          /\ drain'.max = drain.max /\ drain'.left = drain.left /\ drain'.chunk = drain.chunk
      BY <1>2, <1>6 DEF DrainType
    <2>2. DrainInv'
      BY <1>2, <1>4, <1>6, <2>1, Constants DEF DrainInv, SideInv
    <2>3. SideInv'
      BY <1>1, <1>3, <2>1, <2>2, DrainSide DEF SideInv
    <2> QED
      BY <1>1, <1>2, <2>1, <2>3, QueueStays
  <1> QED
    BY <1>5, <1>6 DEF Look

LEMMA ServiceSide ==
    ASSUME SideInv, Service
    PROVE  SideInv' /\ QueueStep
  <1>1. /\ drain.pc = "off" /\ ~Flushing /\ drain' = StartDrain(DrainMax)
        /\ UNCHANGED <<image, ready, ringVars, flush, fifo, sink>>
    BY DEF Service
  <1>2. DrainInv'
    BY <1>1, FreshDrains, Constants DEF DrainInv
  <1>3. drain'.sent = 0 /\ drain.sent = 0
    BY <1>1, FreshDrains DEF SideInv, DrainInv
  <1>4. SideInv'
    BY <1>1, <1>2, DrainSide DEF SideInv, Flushing
  <1> QED
    BY <1>1, <1>3, <1>4, QueueStays

\* The sink takes the beginning of what it was not handed.
LEMMA HandedIs ==
    ASSUME NEW c \in Seq(Unit), NEW n \in Nat, 0 < n, n <= Len(c),
           NEW h \in Seq(Unit), Len(h) = n, \A k \in 1 .. n : h[k] = c[k],
           NEW r \in Seq(Unit), Len(r) = Len(c) - n, \A k \in 1 .. Len(c) - n : r[k] = c[n + k]
    PROVE  h = SubSeq(c, 1, n) /\ r = SubSeq(c, n + 1, Len(c))
  <1> DEFINE l == Len(c)
  <1>1. l \in Nat /\ \A i \in 1 .. l : c[i] \in Unit
    OBVIOUS
  <1>2. h = SubSeq(c, 1, n)
    <2>1. 1 \in Int /\ n \in Int /\ \A i \in 1 .. n : c[i] \in Unit
      BY <1>1
    <2>2. /\ SubSeq(c, 1, n) \in Seq(Unit) /\ Len(SubSeq(c, 1, n)) = IF 1 <= n THEN n - 1 + 1 ELSE 0
          /\ \A i \in 1 .. n - 1 + 1 : SubSeq(c, 1, n)[i] = c[1 + i - 1]
      BY <2>1, SubSeqProperties
    <2>3. Len(SubSeq(c, 1, n)) = n /\ \A i \in 1 .. n : SubSeq(c, 1, n)[i] = c[i]
      BY <2>2
    <2> QED
      BY <2>2, <2>3, SeqEqual
  <1>3. r = SubSeq(c, n + 1, l)
    <2> DEFINE a == n + 1
    <2>1. a \in Int /\ l \in Int /\ \A i \in a .. l : c[i] \in Unit
      BY <1>1
    <2> HIDE DEF l
    <2>2. /\ SubSeq(c, a, l) \in Seq(Unit) /\ Len(SubSeq(c, a, l)) = IF a <= l THEN l - a + 1 ELSE 0
          /\ \A i \in 1 .. l - a + 1 : SubSeq(c, a, l)[i] = c[a + i - 1]
      <3> HIDE DEF a
      <3> QED
        BY <2>1, SubSeqProperties
    <2>3. Len(SubSeq(c, a, l)) = l - n
      BY <1>1, <2>2 DEF l
    <2>4. \A i \in 1 .. l - n : SubSeq(c, a, l)[i] = c[n + i]
      <3>1. \A i \in 1 .. l - n : i \in 1 .. l - a + 1 /\ a + i - 1 = n + i
        BY <1>1
      <3> QED
        BY <2>2, <3>1
    <2> HIDE DEF a
    <2>5. Len(r) = l - n /\ \A i \in 1 .. l - n : r[i] = c[n + i]
      BY DEF l
    <2>6. r = SubSeq(c, a, l)
      <3> DEFINE w == SubSeq(c, a, l)
      <3>1. w \in Seq(Unit) /\ Len(w) = Len(r)
        BY <2>2, <2>3, <2>5
      <3>2. \A i \in 1 .. Len(r) : r[i] = w[i]
        BY <2>4, <2>5
      <3> HIDE DEF w
      <3>3. r = w
        BY <3>1, <3>2, SeqEqual
      <3> QED
        BY <3>3 DEF w
    <2> QED
      BY <2>6 DEF a, l
  <1> QED
    BY <1>2, <1>3

LEMMA SendSide ==
    ASSUME SideInv, Send
    PROVE  SideInv' /\ QueueStep
  <1> DEFINE sent == Least(Chunk, FifoCap - fifo)
             u == Used
             idx == tail % Cap
  <1>1. drain.pc = "send" /\ UNCHANGED <<image, ready, ringVars, flush>>
        /\ \/ sent = 0 /\ Return("BLOCKED") /\ UNCHANGED <<sink, fifo>>
           \/ /\ sent # 0
              /\ drain' = [drain EXCEPT !.pc = "advance", !.chunk = Chunk, !.sent = sent]
              /\ sink' = [k \in 1 .. sent |-> ring[idx + k - 1]]
              /\ fifo' = fifo + sent
    BY DEF Send
  <1>2. /\ drain \in DrainType /\ drain.left \in Nat /\ drain.used \in Nat /\ drain.sent = 0
        /\ drain.left <= DrainMax /\ drain.max \in Nat /\ 0 < drain.used /\ drain.used <= u
        /\ (drain.max # 0 => drain.left > 0) /\ fifo \in Nat /\ fifo <= FifoCap /\ FifoCap \in Nat
        /\ Cap \in Nat
    BY <1>1, Constants DEF SideInv, DrainInv, DrainType
  <1>3. u \in Nat /\ u <= Cap /\ Contents \in Seq(Unit) /\ Len(Contents) = u /\ tail \in Int
        /\ \A k \in 1 .. u : Contents[k] = ring[(tail + k - 1) % Cap]
        /\ ring \in [Slot -> Unit]
    BY UsedIs DEF SideInv, Holds
  <1>4. idx \in 0 .. Cap - 1
    BY <1>3, Constants, DivMod
  <1> HIDE DEF u, idx
  <1>5. /\ Chunk \in Nat /\ 0 < Chunk /\ Chunk <= u /\ Chunk <= Cap - idx
        /\ (drain.max # 0 => Chunk <= drain.left)
    BY <1>2, <1>3, <1>4 DEF Chunk, Least, idx
  <1>6. sent \in Nat /\ sent <= Chunk /\ fifo + sent <= FifoCap
    BY <1>2, <1>5 DEF Least
  <1> HIDE DEF sent
  <1>7. ~(flush.pc \in {"drain", "check"}) /\ (flush.pc = "wait" => drain.max = 0 /\ image = "fbl")
    BY <1>1 DEF SideInv, FlushInv, Flushing
  <1>8. Used' = u /\ Contents' = Contents
    BY <1>1, ContentsStay DEF u
  <1>9. CASE sent = 0 /\ Return("BLOCKED") /\ UNCHANGED <<sink, fifo>>
    <2>1. /\ drain' \in DrainType /\ drain'.sent = 0 /\ drain'.left <= DrainMax
          /\ drain'.used = 0 /\ drain'.chunk = 0
          /\ \/ drain'.pc = "look" /\ image = "app"
             \/ drain'.pc = "off" /\ drain'.result = "BLOCKED"
      BY <1>9, ReturnIs
    <2>2. DrainInv'
      BY <2>1, Constants DEF DrainInv
    <2>3. SideInv'
      BY <1>1, <1>2, <1>7, <1>9, <2>1, <2>2, DrainSide
    <2> QED
      BY <1>1, <1>2, <1>9, <2>1, <2>3, QueueStays
  <1>10. CASE /\ sent # 0
              /\ drain' = [drain EXCEPT !.pc = "advance", !.chunk = Chunk, !.sent = sent]
              /\ sink' = [k \in 1 .. sent |-> ring[idx + k - 1]]
              /\ fifo' = fifo + sent
    <2>1. /\ drain' \in DrainType /\ drain'.pc = "advance" /\ drain'.chunk = Chunk /\ drain'.sent = sent
          /\ drain'.max = drain.max /\ drain'.left = drain.left /\ drain'.used = drain.used
      BY <1>2, <1>5, <1>6, <1>10 DEF DrainType
    <2>2. DrainInv'
      <3>1. 0 < sent /\ drain.used <= Cap /\ Chunk <= Cap
        BY <1>2, <1>3, <1>5, <1>6, <1>10
      <3> QED
        BY <1>2, <1>5, <1>6, <1>8, <2>1, <3>1 DEF DrainInv
    <2>3. SideInv'
      <3>1. fifo' \in Nat /\ fifo' <= FifoCap
        BY <1>2, <1>6, <1>10
      <3> QED
        BY <1>1, <1>7, <2>1, <2>2, <3>1, DrainSide
    <2>4. Unsent = Contents
      <3>1. Unsent \in Seq(Unit) /\ Len(Unsent) = u /\ \A k \in 1 .. u : Unsent[k] = Contents[k]
        <4>1. /\ Unsent \in Seq(Unit) /\ Len(Unsent) = u - 0
              /\ \A k \in 1 .. u - 0 : Unsent[k] = Contents[0 + k]
          BY <1>2, <1>3, SentIs, RestIs DEF u, SideInv
        <4>2. u - 0 = u /\ \A k \in 1 .. u : 0 + k = k
          BY <1>3
        <4> QED
          BY <4>1, <4>2
      <3> QED
        BY <1>3, <3>1, SeqEqual
    <2>5. /\ Unsent' \in Seq(Unit) /\ Len(Unsent') = u - sent
          /\ \A k \in 1 .. u - sent : Unsent'[k] = Contents[sent + k]
      <3>1. (RingTypes /\ drain.sent \in Nat /\ drain.sent <= Used)'
        BY <1>3, <1>5, <1>6, <1>8, <2>1, <2>3 DEF SideInv
      <3>2. (/\ Unsent \in Seq(Unit) /\ Len(Unsent) = Used - drain.sent
             /\ \A k \in 1 .. Used - drain.sent : Unsent[k] = Contents[drain.sent + k])'
        BY <3>1, RestIs, PTL
      <3> QED
        BY <1>8, <2>1, <3>2
    <2>6. \A k \in 1 .. sent : ring[idx + k - 1] = Contents[k] /\ Contents[k] \in Unit
      <3> SUFFICES ASSUME NEW k \in 1 .. sent
                   PROVE  ring[idx + k - 1] = Contents[k] /\ Contents[k] \in Unit
        OBVIOUS
      <3> DEFINE d == k - 1
      <3>1. d \in 0 .. Cap - 1 /\ idx + d < Cap /\ tail + k - 1 = tail + d /\ idx + k - 1 = idx + d
            /\ k \in 1 .. u
        BY <1>2, <1>3, <1>4, <1>5, <1>6
      <3> HIDE DEF d
      <3>2. (tail + d) % Cap = idx + d
        <4>1. (tail + d) % Cap = IF (tail % Cap) + d < Cap THEN (tail % Cap) + d ELSE (tail % Cap) + d - Cap
          BY <1>3, <3>1, Constants, ModStep
        <4> QED
          BY <3>1, <4>1 DEF idx
      <3> QED
        BY <1>3, <3>1, <3>2, ElementOfSeq
    <2>7. sink' \in Seq(Unit) /\ Len(sink') = sent /\ \A k \in 1 .. sent : sink'[k] = Contents[k]
      <3>1. sink' \in [1 .. sent -> Unit] /\ \A k \in 1 .. sent : sink'[k] = Contents[k]
        BY <1>10, <2>6
      <3> QED
        BY <1>6, <3>1, SequenceOf
    <2>8. 0 < sent /\ sent <= Len(Contents) /\ Len(Unsent') = Len(Contents) - sent
          /\ \A k \in 1 .. Len(Contents) - sent : Unsent'[k] = Contents[sent + k]
      BY <1>3, <1>5, <1>6, <1>10, <2>5
    <2>9. sink' = SubSeq(Contents, 1, sent) /\ Unsent' = SubSeq(Contents, sent + 1, Len(Contents))
      BY <1>3, <1>6, <2>5, <2>7, <2>8, HandedIs
    <2>10. Queue!HandOver(sent) /\ sent \in 1 .. Len(Unsent)
      <3>1. sent \in 1 .. Len(Unsent)
        BY <1>3, <1>6, <2>4, <2>8
      <3>2. sink' = SubSeq(Unsent, 1, sent) /\ Unsent' = SubSeq(Unsent, sent + 1, Len(Unsent))
        BY <2>4, <2>9, Zenon
      <3> QED
        BY <3>1, <3>2 DEF Queue!HandOver
    <2> QED
      BY <2>3, <2>10 DEF QueueStep, Queue!Next
  <1> QED
    BY <1>1, <1>9, <1>10

LEMMA SlotMoves ==
    ASSUME NEW x \in Int, NEW d \in Int
    PROVE  ((x % Wrap) + d) % Cap = (x + d) % Cap
  <1> DEFINE y == x % Wrap
  <1>1. y \in Int /\ y % Cap = x % Cap
    <2>1. y \in 0 .. Wrap - 1
      BY Constants, DivMod
    <2>2. y % Cap = x % Cap
      BY Constants, ModMod
    <2> QED
      BY <2>1, <2>2, Constants
  <1> HIDE DEF y
  <1>2. ((y % Cap) + d) % Cap = (y + d) % Cap
    BY <1>1, Constants, ModPlus
  <1>3. ((x % Cap) + d) % Cap = (x + d) % Cap
    BY Constants, ModPlus
  <1> QED
    BY <1>1, <1>2, <1>3 DEF y

\* The tail moves on over what was sent.
LEMMA TailMoves ==
    ASSUME RingTypes, NEW s \in Nat, s <= Used,
           tail' = (tail + s) % Wrap, UNCHANGED <<ring, head>>
    PROVE  /\ RingTypes' /\ Used' = Used - s
           /\ \A k \in 1 .. Used - s : Contents'[k] = Contents[s + k]
  <1> DEFINE u == Used
             x == tail + s
  <1>1. /\ u \in Nat /\ u <= Cap /\ u < Wrap /\ head \in Int /\ tail \in Int /\ Wrap \in Nat \ {0}
        /\ head \in Nat /\ tail \in Nat
        /\ Contents \in Seq(Unit) /\ Len(Contents) = u
        /\ \A k \in 1 .. u : Contents[k] = ring[(tail + k - 1) % Cap]
    BY UsedIs, Constants DEF Holds
  <1>2. x \in Int /\ s \in Int /\ s <= u
    BY <1>1
  <1>3. tail' \in 0 .. Wrap - 1
    BY <1>1, <1>2, DivMod
  <1>4. Used' = u - s
    <2> DEFINE e == head - tail
               m == 0 - s
    <2>1. e \in Int /\ m \in Int /\ head - x = e + m /\ u = e % Wrap /\ u + m = u - s
          /\ u - s \in 0 .. Wrap - 1
      BY <1>1, <1>2 DEF Used
    <2>2. Used' = (head - (x % Wrap)) % Wrap
      BY DEF Used
    <2> HIDE DEF e, m, x, u
    <2>3. (head - (x % Wrap)) % Wrap = (head - x) % Wrap
      BY <1>1, <1>2, ModMinus
    <2>4. ((e % Wrap) + m) % Wrap = (e + m) % Wrap
      BY <1>1, <2>1, ModPlus
    <2>5. (u - s) % Wrap = u - s
      BY <1>1, <2>1, ModSmall
    <2> QED
      BY <2>1, <2>2, <2>3, <2>4, <2>5
  <1>5. RingTypes'
    <2>1. Used' <= Cap
      BY <1>1, <1>2, <1>4, Constants
    <2> HIDE DEF u, x
    <2> QED
      BY <1>3, <2>1 DEF RingTypes
  <1>6. ASSUME NEW k \in 1 .. u - s
        PROVE  Contents'[k] = Contents[s + k]
    <2> DEFINE d == k - 1
    <2>1. d \in Int /\ s + k \in 1 .. u /\ x + d = tail + (s + k) - 1 /\ (x % Wrap) + k - 1 = (x % Wrap) + d
      BY <1>1, <1>2, DivMod
    <2>2. (/\ Used \in Nat /\ Used <= Cap /\ Used < Wrap
           /\ head \in Nat /\ tail \in Nat
           /\ head % Cap = (tail + Used) % Cap
           /\ head = (tail + Used) % Wrap
           /\ Contents \in Seq(Unit) /\ Len(Contents) = Used
           /\ Holds(ring, tail, Contents))'
      BY <1>5, UsedIs, PTL
    <2>3. Contents'[k] = ring[((x % Wrap) + d) % Cap]
      <3>1. k \in 1 .. Used' /\ \A i \in 1 .. Used' : Contents'[i] = ring'[(tail' + i - 1) % Cap]
        BY <1>4, <2>2 DEF Holds
      <3>2. Contents'[k] = ring[(tail' + k - 1) % Cap] /\ tail' = x % Wrap
        BY <3>1
      <3> HIDE DEF x, d
      <3> QED
        BY <2>1, <3>2
    <2> HIDE DEF d, x
    <2>4. ((x % Wrap) + d) % Cap = (x + d) % Cap
      BY <1>2, <2>1, SlotMoves
    <2>5. Contents[s + k] = ring[(tail + (s + k) - 1) % Cap]
      BY <1>1, <2>1
    <2> QED
      BY <2>1, <2>3, <2>4, <2>5
  <1> QED
    BY <1>4, <1>5, <1>6 DEF u

LEMMA AdvanceSide ==
    ASSUME SideInv, Advance
    PROVE  SideInv' /\ QueueStep
  <1> DEFINE s == drain.sent
             u == Used
  <1>1. /\ drain.pc = "advance" /\ UNCHANGED <<image, ready, ring, head, flush, fifo, sink>>
        /\ tail' = (tail + s) % Wrap
    BY DEF Advance
  <1>2. /\ drain \in DrainType /\ drain.left \in Nat /\ s \in Nat /\ drain.chunk \in Nat
        /\ 0 < s /\ s <= drain.chunk /\ drain.chunk <= u /\ drain.left <= DrainMax
        /\ (drain.max # 0 => drain.chunk <= drain.left) /\ u \in Nat /\ u <= Cap
        /\ DrainMax \in Nat /\ Cap \in Nat
    BY <1>1, UsedIs, Constants DEF SideInv, DrainInv, DrainType
  <1>3. s <= u /\ u # 0
    BY <1>2
  <1>4. /\ RingTypes' /\ Used' = u - s
        /\ \A k \in 1 .. u - s : Contents'[k] = Contents[s + k]
    BY <1>1, <1>2, <1>3, TailMoves DEF SideInv
  <1> HIDE DEF u
  <1>5. /\ drain' \in DrainType /\ drain'.sent = 0 /\ drain'.left <= DrainMax /\ drain'.used = 0
        /\ \/ drain'.pc = "look" /\ drain'.max = drain.max
           \/ drain'.pc = "off" /\ drain'.result = "BLOCKED"
        /\ drain'.chunk = 0
    <2>1. CASE s < drain.chunk
      <3>1. drain' = [IdleDrain EXCEPT !.result = "BLOCKED", !.any = TRUE]
        BY <2>1 DEF Advance
      <3>2. "BLOCKED" \in {"IDLE", "SENT", "BLOCKED"} /\ TRUE \in BOOLEAN
        OBVIOUS
      <3>3. /\ drain' \in DrainType /\ drain'.pc = "off" /\ drain'.sent = 0 /\ drain'.left = 0
            /\ drain'.used = 0 /\ drain'.chunk = 0 /\ drain'.result = "BLOCKED"
        BY <3>1, <3>2, StoppedDrain, Zenon
      <3> QED
        BY <1>2, <3>3
    <2>2. CASE ~(s < drain.chunk)
      <3> DEFINE l == IF drain.max = 0 THEN 0 ELSE drain.left - s
      <3>1. l \in Nat /\ l <= DrainMax
        BY <1>2
      <3>2. drain' = [drain EXCEPT !.pc = "look", !.any = TRUE, !.used = 0, !.chunk = 0, !.sent = 0,
                                   !.left = l]
        BY <2>2 DEF Advance
      <3> HIDE DEF l
      <3> QED
        BY <1>2, <3>1, <3>2 DEF DrainType
    <2> QED
      BY <2>1, <2>2
  <1>6. DrainInv'
    BY <1>2, <1>5 DEF DrainInv
  <1>7. FlushInv'
    BY <1>1, <1>3, <1>5 DEF SideInv, FlushInv, Flushing, u
  <1>8. SideInv'
    BY <1>1, <1>4, <1>6, <1>7 DEF SideInv
  <1>9. Unsent' = Unsent
    <2>1. Unsent \in Seq(Unit) /\ Len(Unsent) = u - s /\ \A k \in 1 .. u - s : Unsent[k] = Contents[s + k]
      BY <1>2, <1>3, RestIs DEF SideInv, u
    <2>2. (/\ Unsent \in Seq(Unit) /\ Len(Unsent) = Used - drain.sent
           /\ \A k \in 1 .. Used - drain.sent : Unsent[k] = Contents[drain.sent + k])'
      <3>1. (SideInv)' /\ (drain.sent \in Nat /\ drain.sent <= Used)'
        BY <1>2, <1>3, <1>4, <1>5, <1>8
      <3> QED
        BY <3>1, RestIs, PTL DEF SideInv
    <2>3. (u - s) - 0 = u - s /\ \A k \in 1 .. u - s : 0 + k = k
      BY <1>2
    <2>4. /\ Unsent' \in Seq(Unit) /\ Len(Unsent') = u - s
          /\ \A k \in 1 .. u - s : Unsent'[k] = Contents'[k]
      BY <1>4, <1>5, <2>2, <2>3
    <2> QED
      BY <1>4, <2>1, <2>4, SeqEqual
  <1> QED
    BY <1>1, <1>8, <1>9 DEF QueueStep

LEMMA ShiftSide ==
    ASSUME SideInv, Shift
    PROVE  SideInv' /\ QueueStep
  <1>1. fifo > 0 /\ fifo' = fifo - 1 /\ UNCHANGED <<image, ready, ringVars, drain, flush, sink>>
    BY DEF Shift
  <1>2. fifo' \in Nat /\ fifo' <= FifoCap
    BY <1>1, Constants DEF SideInv
  <1>3. Used' = Used /\ RingTypes'
    BY <1>1, ContentsStay DEF SideInv, RingTypes, ringVars
  <1>4. SideInv'
    BY <1>1, <1>2, <1>3 DEF SideInv, DrainInv, FlushInv, Flushing
  <1> QED
    BY <1>1, <1>4, QueueStays

\* Steps of the flush that leave the drain alone.
LEMMA FlushLeaves ==
    ASSUME SideInv, UNCHANGED <<image, ready, ringVars, drain, fifo, sink>>, FlushInv'
    PROVE  SideInv' /\ QueueStep
  <1>1. Used' = Used /\ RingTypes'
    BY ContentsStay DEF SideInv, RingTypes, ringVars
  <1>2. SideInv'
    BY <1>1 DEF SideInv, DrainInv
  <1> QED
    BY <1>2, QueueStays

LEMMA FlushSide ==
    ASSUME SideInv, Flush
    PROVE  SideInv' /\ QueueStep
  <1>1. /\ flush \in FlushType /\ flush.stalled \in Nat /\ flush.stalled <= MaxStall
        /\ MaxStall \in Nat /\ MaxStall > 0
    <2>1. flush \in FlushType /\ flush.stalled <= MaxStall
      BY DEF SideInv, FlushInv
    <2>2. flush.stalled \in Nat
      BY <2>1 DEF FlushType
    <2> QED
      BY <2>1, <2>2, Constants
  <1>2. CASE BeginFlush
    <2>1. /\ image = "fbl" /\ drain.pc = "off" /\ flush' = [IdleFlush EXCEPT !.pc = "drain"]
          /\ UNCHANGED <<image, ready, ringVars, drain, fifo, sink>>
      BY <1>2 DEF BeginFlush
    <2>2. IdleFlush \in FlushType /\ IdleFlush.stalled = 0 /\ IdleFlush.drained = FALSE
      BY DEF IdleFlush, FlushType
    <2>3. flush' \in FlushType /\ flush'.pc = "drain" /\ flush'.stalled = 0 /\ flush'.drained = FALSE
      BY <2>1, <2>2 DEF FlushType
    <2>4. FlushInv'
      BY <1>1, <2>1, <2>3 DEF FlushInv, Flushing
    <2> QED
      BY <2>1, <2>4, FlushLeaves
  <1>3. CASE FlushDrain /\ flush.drained
    <2>1. /\ flush.pc = "drain" /\ flush' = [flush EXCEPT !.pc = "check", !.progress = FALSE]
          /\ UNCHANGED <<image, ready, ringVars, drain, fifo, sink>>
      BY <1>3 DEF FlushDrain
    <2>2. flush' \in FlushType /\ flush'.pc = "check" /\ flush'.stalled = flush.stalled
          /\ flush'.drained = flush.drained
      BY <1>1, <2>1 DEF FlushType
    <2>3. Used' = Used
      BY <2>1, ContentsStay
    <2>4. FlushInv'
      BY <1>1, <2>1, <2>2, <2>3 DEF SideInv, FlushInv, Flushing
    <2> QED
      BY <2>1, <2>4, FlushLeaves
  <1>4. CASE FlushDrain /\ ~flush.drained
    <2>1. /\ flush.pc = "drain" /\ flush' = [flush EXCEPT !.pc = "wait"] /\ drain' = StartDrain(0)
          /\ UNCHANGED <<image, ready, ringVars, fifo, sink>>
      BY <1>4 DEF FlushDrain
    <2>2. flush' \in FlushType /\ flush'.pc = "wait" /\ flush'.stalled = flush.stalled
          /\ flush'.drained = flush.drained
      BY <1>1, <2>1 DEF FlushType
    <2>3. /\ drain' \in DrainType /\ drain'.pc = "look" /\ drain'.sent = 0 /\ drain'.left = 0
          /\ drain'.max = 0 /\ drain'.used = 0 /\ drain'.chunk = 0
      BY <2>1, FreshDrains
    <2>4. Used' = Used /\ RingTypes'
      BY <2>1, ContentsStay DEF SideInv, RingTypes, ringVars
    <2>5. DrainInv'
      BY <2>3, Constants DEF DrainInv
    <2>6. FlushInv'
      BY <1>1, <1>4, <2>1, <2>2, <2>3, <2>4 DEF SideInv, FlushInv, Flushing
    <2>7. SideInv'
      BY <2>1, <2>4, <2>5, <2>6 DEF SideInv
    <2>8. drain.sent = 0
      BY <2>1 DEF SideInv, DrainInv, FlushInv
    <2> QED
      BY <2>1, <2>3, <2>7, <2>8, QueueStays
  <1>5. CASE FlushDrained
    <2>1. /\ flush.pc = "wait" /\ drain.pc = "off"
          /\ flush' = [flush EXCEPT !.pc = "check", !.drained = (drain.result = "IDLE"),
                                    !.progress = (drain.result # "BLOCKED")]
          /\ UNCHANGED <<image, ready, ringVars, drain, fifo, sink>>
      BY <1>5 DEF FlushDrained
    <2> DEFINE d == drain.result = "IDLE"
               g == drain.result # "BLOCKED"
    <2>2. d \in BOOLEAN /\ g \in BOOLEAN
      OBVIOUS
    <2>3. flush' = [flush EXCEPT !.pc = "check", !.drained = d, !.progress = g]
      BY <2>1
    <2>4. d => Used = 0
      BY <2>1 DEF SideInv, FlushInv
    <2> HIDE DEF d, g
    <2>5. flush' \in FlushType /\ flush'.pc = "check" /\ flush'.stalled = flush.stalled /\ flush'.drained = d
      BY <1>1, <2>2, <2>3 DEF FlushType
    <2>6. Used' = Used
      BY <2>1, ContentsStay
    <2>7. FlushInv'
      BY <1>1, <2>1, <2>4, <2>5, <2>6 DEF SideInv, FlushInv, Flushing
    <2> QED
      BY <2>1, <2>7, FlushLeaves
  <1>6. CASE FlushCheck
    <2> DEFINE n == Stalled(flush.progress, flush.stalled)
    <2>1. /\ flush.pc = "check" /\ UNCHANGED <<image, ready, ringVars, drain, fifo, sink>>
          /\ \/ flush' = [flush EXCEPT !.pc = "flushed"]
             \/ flush' = [flush EXCEPT !.pc = "gave up", !.stalled = n]
             \/ n < MaxStall /\ flush' = [flush EXCEPT !.pc = "drain", !.stalled = n]
      BY <1>6 DEF FlushCheck
    <2>2. n \in Nat /\ n <= MaxStall
      <3>1. flush.stalled < MaxStall
        BY <2>1 DEF SideInv, FlushInv, Flushing
      <3> QED
        BY <1>1, <3>1 DEF Stalled
    <2> HIDE DEF n
    <2>3. /\ flush' \in FlushType /\ flush'.stalled <= MaxStall /\ flush'.drained = flush.drained
          /\ flush'.pc \in {"flushed", "gave up"} \/ (flush'.pc = "drain" /\ flush'.stalled < MaxStall)
      BY <1>1, <2>1, <2>2 DEF FlushType
    <2>4. Used' = Used
      BY <2>1, ContentsStay
    <2>5. FlushInv'
      BY <1>1, <2>1, <2>3, <2>4 DEF SideInv, FlushInv, Flushing
    <2> QED
      BY <2>1, <2>5, FlushLeaves
  <1> QED
    BY <1>2, <1>3, <1>4, <1>5, <1>6 DEF Flush
-----------------------------------------------------------------------------
(* The start, all steps, and the theorems. *)

LogInv == ProducerTypes /\ Counting /\ SideInv

Starts == {<<>>, Banner, Banner \o BootRecord}

LEMMA StartIs ==
    ASSUME NEW queued \in Starts
    PROVE  queued \in Seq(Unit) /\ Len(queued) \in Nat /\ Len(queued) <= 3 /\ Banner[1] \in Unit
  <1>1. Banner[1] \in Unit /\ Banner \in Seq(Unit) /\ Len(Banner) = 1
    BY DEF Banner, Unit
  <1>2. NewRecord("event", 0, 0) \in Record
    BY SeqNumbers DEF NewRecord, Record
  <1>3. BootRecord \in Seq(Unit) /\ Len(BootRecord) = 2
    BY <1>2, EncodeIs DEF BootRecord
  <1>4. Banner \o BootRecord \in Seq(Unit) /\ Len(Banner \o BootRecord) = 1 + 2
    <2>1. \A a \in Seq(Unit), b \in Seq(Unit) : a \o b \in Seq(Unit) /\ Len(a \o b) = Len(a) + Len(b)
      BY ConcatProperties
    <2>2. Banner \o BootRecord \in Seq(Unit) /\ Len(Banner \o BootRecord) = Len(Banner) + Len(BootRecord)
      BY <1>1, <1>3, <2>1
    <2> QED
      BY <1>1, <1>3, <2>2
  <1>5. CASE queued = <<>>
    BY <1>1, <1>5
  <1>6. CASE queued = Banner
    BY <1>1, <1>6
  <1>7. CASE queued = Banner \o BootRecord
    BY <1>1, <1>4, <1>7
  <1> QED
    BY <1>5, <1>6, <1>7 DEF Starts

\* What the start queues is what the ring holds.
LEMMA StartHolds ==
    ASSUME NEW queued \in Starts, head = Len(queued), tail = 0,
           ring = [i \in Slot |-> IF i < Len(queued) THEN queued[i + 1] ELSE Banner[1]]
    PROVE  RingTypes /\ Used = Len(queued) /\ Contents = queued
  <1> DEFINE n == Len(queued)
  <1>1. /\ queued \in Seq(Unit) /\ n \in Nat /\ n <= Cap /\ n < Wrap /\ n \in 0 .. Wrap - 1
        /\ 0 \in 0 .. Wrap - 1 /\ \A i \in 1 .. n : queued[i] \in Unit
    BY StartIs, Constants, ElementOfSeq
  <1>2. ring \in [Slot -> Unit]
    <2>1. ASSUME NEW i \in Slot, i < n
          PROVE  queued[i + 1] \in Unit
      BY <1>1, <2>1, Constants DEF Slot
    <2> HIDE DEF n
    <2> QED
      BY <2>1, StartIs DEF n
  <1>3. Used = n
    <2>1. Used = (n - 0) % Wrap /\ n - 0 = n
      BY <1>1 DEF Used
    <2> HIDE DEF n
    <2> QED
      BY <1>1, <2>1, Constants, ModSmall
  <1>4. RingTypes
    BY <1>1, <1>2, <1>3 DEF RingTypes
  <1>5. Contents \in Seq(Unit) /\ Len(Contents) = n /\ \A k \in 1 .. n : Contents[k] = ring[(tail + k - 1) % Cap]
    BY <1>3, <1>4, UsedIs DEF Holds
  <1>6. ASSUME NEW k \in 1 .. n
        PROVE  Contents[k] = queued[k]
    <2> DEFINE i == k - 1
    <2>1. i \in 0 .. Cap - 1 /\ i \in Slot /\ i < n /\ i + 1 = k /\ tail + k - 1 = i
      BY <1>1, Constants DEF Slot
    <2> HIDE DEF i
    <2>2. i % Cap = i
      BY <2>1, Constants, ModSmall
    <2> QED
      BY <1>5, <2>1, <2>2
  <1> QED
    BY <1>1, <1>3, <1>4, <1>5, <1>6, SeqEqual

LEMMA LogStarts ==
    ASSUME LogInit
    PROVE  LogInv /\ Queue!Init
  <1>1. PICK queued \in Starts, first \in {0, 1 % LogSeqMod} :
           /\ head = Len(queued)
           /\ ring = [i \in Slot |-> IF i < Len(queued) THEN queued[i + 1] ELSE Banner[1]]
           /\ cell = [seq |-> first, dropped |-> 0, pending |-> 0]
           /\ next = first
    <2> DEFINE queued == IF image = "app" THEN AppStart(ready) ELSE FblStart(ready)
               first == IF queued = AppStart(TRUE) THEN 1 % LogSeqMod ELSE 0
    <2>1. queued \in Starts
      BY DEF AppStart, FblStart, Starts
    <2>2. first \in {0, 1 % LogSeqMod}
      OBVIOUS
    <2>3. /\ head = Len(queued)
          /\ ring = [i \in Slot |-> IF i < Len(queued) THEN queued[i + 1] ELSE Banner[1]]
          /\ cell = [seq |-> first, dropped |-> 0, pending |-> 0]
          /\ next = first
      BY DEF LogInit
    <2> HIDE DEF queued, first
    <2> QED
      BY <2>1, <2>2, <2>3
  <1>2. /\ tail = 0 /\ producer = [p \in Producer |-> IdleProducer] /\ drain = IdleDrain
        /\ flush = IdleFlush /\ fifo = 0 /\ sink = <<>> /\ calls = 0 /\ refused = 0 /\ told = 0
        /\ nested = FALSE /\ image \in {"app", "fbl"} /\ ready \in BOOLEAN
    BY DEF LogInit, SinkReady
  <1>3. first \in Seq6
    <2>1. 1 \in Int
      OBVIOUS
    <2>2. 1 % LogSeqMod \in Seq6 /\ 0 \in Seq6
      BY <2>1, SeqNumbers
    <2> QED
      BY <1>1, <2>2
  <1>4. ProducerTypes
    BY <1>1, <1>2, <1>3, IdleIs DEF ProducerTypes, CellType
  <1>5. Counting
    BY <1>1, <1>2, IdleIs DEF Counting, Quiescent, Balanced
  <1>6. RingTypes /\ Used = Len(queued) /\ Contents = queued
    BY <1>1, <1>2, StartHolds
  <1>7. DrainInv
    BY <1>2, FreshDrains, Constants DEF DrainInv
  <1>8. FlushInv
    <2>1. IdleFlush \in FlushType /\ IdleFlush.stalled = 0 /\ IdleFlush.pc = "none"
      BY DEF IdleFlush, FlushType
    <2> QED
      BY <1>2, <2>1, Constants DEF FlushInv, Flushing
  <1>9. SideInv
    BY <1>2, <1>6, <1>7, <1>8, Constants DEF SideInv
  <1>10. Unsent = queued
    <2>1. drain.sent = 0 /\ queued \in Seq(Unit) /\ Len(queued) \in Nat
      BY <1>1, <1>2, FreshDrains, StartIs
    <2>2. /\ Unsent \in Seq(Unit) /\ Len(Unsent) = Len(queued) - 0
          /\ \A k \in 1 .. Len(queued) - 0 : Unsent[k] = queued[0 + k]
      BY <1>6, <1>9, <2>1, SentIs, RestIs
    <2>3. Len(queued) - 0 = Len(queued) /\ \A k \in 1 .. Len(queued) : 0 + k = k
      BY <2>1
    <2> QED
      BY <2>1, <2>2, <2>3, SeqEqual
  <1> QED
    BY <1>1, <1>2, <1>4, <1>5, <1>9, <1>10 DEF LogInv, Queue!Init, Starts

LEMMA ProduceSteps ==
    ASSUME LogInv, NEW p \in Producer, Produce(p)
    PROVE  LogInv' /\ QueueStep
  <1>1. ProducerTypes' /\ Counting'
    BY BeginCounts, AskCounts, CountLossesCounts, PutCounts, RefuseCounts, NoteDropCounts,
       MoveOnCounts DEF LogInv, Produce
  <1> QED
    BY <1>1, ProducerSide DEF LogInv

LEMMA LogSteps ==
    ASSUME LogInv, [LogNext]_logVars
    PROVE  LogInv' /\ QueueStep
  <1>1. ASSUME NEW p \in Producer, Produce(p)
        PROVE  LogInv' /\ QueueStep
    BY <1>1, ProduceSteps
  <1>2. ASSUME UNCHANGED <<cell, producer, calls, refused, told, next, nested>>
        PROVE  ProducerTypes' /\ Counting'
    BY <1>2 DEF LogInv, ProducerTypes, Counting, Quiescent, Balanced, Books, Idle
  <1>3. CASE Service \/ Drain \/ Shift \/ Flush
    <2>1. UNCHANGED <<cell, producer, calls, refused, told, next, nested>>
      BY <1>3 DEF Service, Drain, Look, Send, Advance, Shift, Flush, BeginFlush, FlushDrain,
                  FlushDrained, FlushCheck, history
    <2>2. SideInv' /\ QueueStep
      BY <1>3, ServiceSide, LookSide, SendSide, AdvanceSide, ShiftSide, FlushSide DEF LogInv, Drain
    <2> QED
      BY <1>2, <2>1, <2>2 DEF LogInv
  <1>4. CASE UNCHANGED logVars
    <2>1. /\ UNCHANGED <<cell, producer, calls, refused, told, next, nested>>
          /\ UNCHANGED <<image, ready, ringVars, drain, flush, fifo, sink>>
      BY <1>4 DEF logVars, ringVars
    <2> QED
      BY <1>2, <2>1, SideStays, QueueStays DEF LogInv
  <1> QED
    BY <1>1, <1>3, <1>4 DEF LogNext

LEMMA LogInvariant == LogSpec => []LogInv
  <1>1. LogInit => LogInv
    BY LogStarts
  <1>2. LogInv /\ [LogNext]_logVars => LogInv'
    BY LogSteps
  <1> QED
    BY <1>1, <1>2, PTL DEF LogSpec

\* The ring, its counters and the places of the producers, of the drain and of the
\* flush stay in their types: never more than LOG_RING_CAP in the ring, never a piece
\* larger than it, never more rounds without progress than LOG_FLUSH_MAX_STALL.
THEOREM LogTypeCorrect == LogSpec => []TypeOK
  <1>1. LogInv => TypeOK
    <2> SUFFICES ASSUME LogInv PROVE TypeOK
      OBVIOUS
    <2>1. /\ drain \in DrainType /\ drain.left \in Nat /\ drain.used \in Nat /\ drain.chunk \in Nat
          /\ drain.sent \in Nat /\ drain.left <= DrainMax /\ drain.used <= Cap /\ drain.chunk <= Cap
          /\ drain.sent <= Used /\ Used \in Nat /\ Used <= Cap
      BY SentIs, UsedIs DEF LogInv, SideInv, DrainInv, DrainType
    <2>2. /\ drain.left \in 0 .. DrainMax /\ drain.used \in 0 .. Cap /\ drain.chunk \in 0 .. Cap
          /\ drain.sent \in 0 .. Cap
      BY <2>1, Constants
    <2>3. drain \in [pc : {"off", "look", "send", "advance"}, max : {0, DrainMax}, left : 0 .. DrainMax,
                     any : BOOLEAN, used : 0 .. Cap, chunk : 0 .. Cap, sent : 0 .. Cap,
                     result : {"IDLE", "SENT", "BLOCKED"}]
      BY <2>1, <2>2 DEF DrainType
    <2>4. flush \in FlushType /\ flush.stalled \in Nat /\ flush.stalled <= MaxStall
      BY DEF LogInv, SideInv, FlushInv, FlushType
    <2>5. flush.stalled \in 0 .. MaxStall
      BY <2>4, Constants
    <2>6. flush \in [pc : {"none", "drain", "wait", "check", "flushed", "gave up"},
                     stalled : 0 .. MaxStall, drained : BOOLEAN, progress : BOOLEAN]
      BY <2>4, <2>5 DEF FlushType
    <2>7. fifo \in 0 .. FifoCap
      BY Constants DEF LogInv, SideInv
    <2>8. RingTypes /\ image \in {"app", "fbl"} /\ ready \in BOOLEAN
      BY DEF LogInv, SideInv
    <2>9. cell \in CellType /\ producer \in [Producer -> PType]
      BY DEF LogInv, ProducerTypes
    <2> QED
      BY <2>3, <2>6, <2>7, <2>8, <2>9 DEF TypeOK, RingTypes, CellType, PType, PcType
  <1> QED
    BY <1>1, LogInvariant, PTL

\* However tasks preempt each other inside log_evt, once they are out of it a record
\* that found no room has left a count in s_dropped; and when none preempted another,
\* every such record is counted there once, and once among the losses that overflow
\* records reported or s_pending_overflow still has to report.
THEOREM DropsAlwaysAccounted == LogSpec => []DropsAreAccounted
  <1>1. LogInv => DropsAreAccounted
    <2> SUFFICES ASSUME LogInv, Quiescent
                 PROVE  /\ refused > 0 => cell.dropped > 0
                        /\ ~nested => Balanced
      BY DEF DropsAreAccounted, Balanced
    <2>1. refused > 0 => cell.dropped > 0
      BY DEF LogInv, Counting, Quiescent, Dropping
    <2>2. ASSUME NEW q \in Producer, Books(q)
          PROVE  Balanced
      <3>1. producer[q].pc = "idle"
        BY DEF Quiescent
      <3> QED
        BY <2>2, <3>1 DEF Books, Counted, Balanced, Dropping, Noting, Moving
    <2> QED
      BY <2>1, <2>2 DEF LogInv, Counting
  <1> QED
    BY <1>1, LogInvariant, PTL

\* As long as no log_evt began inside another, the next record carries on the numbers
\* of the records queued, also after an overflow record took one: the host sees no loss
\* where there was none.
THEOREM NumbersAlwaysContinue == LogSpec => []NumbersContinue
  <1>1. LogInv => NumbersContinue
    <2> SUFFICES ASSUME LogInv, Quiescent, ~nested PROVE cell.seq = next
      BY DEF NumbersContinue
    <2>1. ASSUME NEW q \in Producer, Books(q)
          PROVE  cell.seq = next
      <3>1. producer[q].pc = "idle"
        BY DEF Quiescent
      <3> QED
        BY <2>1, <3>1 DEF Books, Counted, Moving
    <2> QED
      BY <2>1 DEF LogInv, Counting, Balanced
  <1> QED
    BY <1>1, LogInvariant, PTL

\* The ring with its wrapping counters, the drain that reads and moves the tail in two
\* steps, and the producers that queue between them implement the byte queue: whole
\* records or nothing, at most LOG_RING_CAP, each byte to the sink once and in order.
THEOREM RingIsAQueue == LogSpec => ImplementsQueue
  <1>1. LogInit => Queue!Init
    BY LogStarts
  <1>2. LogInv /\ [LogNext]_logVars => [Queue!Next]_(Queue!vars)
    <2> SUFFICES ASSUME LogInv, [LogNext]_logVars PROVE [Queue!Next]_(Queue!vars)
      OBVIOUS
    <2>1. Queue!Next \/ UNCHANGED <<Unsent, sink>>
      BY LogSteps DEF QueueStep
    <2> QED
      BY <2>1 DEF Queue!vars
  <1> QED
    BY <1>1, <1>2, LogInvariant, PTL DEF LogSpec, ImplementsQueue, Queue!Spec

\* log_flush reports success only over an empty ring and, where the UART is up, an
\* empty FIFO, so that the jump to the application cuts no record short.
THEOREM FlushMeansSent == LogSpec => FlushedIsOnTheWire
  <1> DEFINE Done == flush.pc = "check" /\ flush'.pc = "flushed" => Used = 0 /\ (ready => fifo = 0)
  <1>1. LogInv /\ [LogNext]_logVars => [Done]_logVars
    <2> SUFFICES ASSUME LogInv, LogNext, flush.pc = "check", flush'.pc = "flushed"
                 PROVE  Used = 0 /\ (ready => fifo = 0)
      OBVIOUS
    <2>1. flush' # flush
      OBVIOUS
    <2>2. Flush
      BY <2>1 DEF LogNext, Produce, Begin, Ask, CountLosses, Put, Refuse, NoteDrop, MoveOn,
                  Service, Drain, Look, Send, Advance, Shift
    <2>3. FlushCheck
      BY <2>2 DEF Flush, BeginFlush, Flushing, FlushDrain, FlushDrained
    <2>4. flush \in FlushType /\ (flush.drained => Used = 0)
      BY DEF LogInv, SideInv, FlushInv, Flushing
    <2>5. flush.drained /\ SinkIdle
      <3> SUFFICES ASSUME ~(flush.drained /\ SinkIdle) PROVE FALSE
        OBVIOUS
      <3>1. PICK n : \/ flush' = [flush EXCEPT !.pc = "gave up", !.stalled = n]
                     \/ flush' = [flush EXCEPT !.pc = "drain", !.stalled = n]
        BY <2>3 DEF FlushCheck
      <3> QED
        BY <2>4, <3>1 DEF FlushType
    <2> QED
      BY <2>4, <2>5 DEF SinkIdle
  <1> QED
    BY <1>1, LogInvariant, PTL DEF LogSpec, FlushedIsOnTheWire

-----------------------------------------------------------------------------
(* LogView.  What the view shows. *)

Summaries == [count : Nat, first : Nat, last : Nat, life : Nat]
MaybeTime == Nat \cup {None}


\* The decoder's number, what was passed over since and the number that is due agree;
\* and it is the next one unless calls have preempted each other.
InStep ==
  /\ ~cut /\ last # None => (due - last - 1 - missed) % SeqMod = 0
  /\ cut => last # None
  /\ ~overlap => s_seq = due

\* Nothing that waits is of another life, unless the view was misled about a restart.
OfThisLife ==
  ~unseen /\ ~cut => \A id \in CanId : pending[id].count > 0 => pending[id].life = life


\* The numbers: the decoder's side of the invariant.
NumbersOK ==
  /\ s_seq \in Number /\ due \in Number /\ overlap \in BOOLEAN /\ displaced \in Nat
  /\ last \in -1 .. 63 /\ lost \in Nat
  /\ missed \in Nat /\ gone \in Nat /\ hidden \in Nat /\ wrapped \in Int
  /\ cut \in BOOLEAN /\ misled \in BOOLEAN
  /\ InStep /\ GapsAreLosses

\* What the view knows, without the history of the link.
ViewOK ==
  /\ pending \in [CanId -> Summaries]
  /\ start \in MaybeTime /\ lastTs \in MaybeTime
  /\ accepted \in [CanId -> Nat] /\ shown \in [CanId -> Nat]
  /\ start # None => lastTs # None /\ start <= lastTs
  /\ NoAcceptIsHidden /\ SummaryIsOfOneWindow

\* What waits was accepted in this life, as far as can be seen.
LivesOK ==
  /\ life \in Nat /\ mixed \in BOOLEAN /\ unseen \in BOOLEAN
  /\ last = None => \A id \in CanId : pending[id].count = 0
  /\ OfThisLife /\ NoSummaryStraddles

IInv == NumbersOK /\ ViewOK /\ LivesOK

-----------------------------------------------------------------------------
(* The numbers. *)

LEMMA PassedIs ==
  ASSUME NEW n \in 0 .. 63, NEW d \in 0 .. 63
  PROVE  /\ (n - d) % 64 \in 0 .. 63 /\ (d - d) % 64 = 0
         /\ (n + 1) % 64 \in 0 .. 63 /\ (((n + 1) % 64) - n - 1) % 64 = 0
  OBVIOUS

LEMMA MultiplesAdd ==
  ASSUME NEW a \in Int, NEW b \in Int, a % 64 = 0, b % 64 = 0
  PROVE  (a + b) % 64 = 0
  OBVIOUS

\* A record gets its number.
LEMMA NumberedIs ==
  ASSUME NumbersOK, NEW n \in Number, Numbered(n)
  PROVE  /\ Passed(n) = (n - due) % 64 /\ Passed(n) \in 0 .. 63
         /\ due' = (n + 1) % 64 /\ due' \in Number /\ s_seq' \in Number
         /\ overlap' \in BOOLEAN /\ displaced' = displaced + Passed(n) /\ displaced' \in Nat
         /\ ~overlap' => ~overlap /\ Passed(n) = 0 /\ s_seq' = due'
<1>1. /\ n \in 0 .. 63 /\ due \in 0 .. 63 /\ s_seq \in 0 .. 63 /\ displaced \in Nat
      /\ overlap \in BOOLEAN /\ (~overlap => s_seq = due)
  BY DEF NumbersOK, InStep, Number, SeqMod
<1>2. Passed(n) = (n - due) % 64 /\ Passed(n) \in 0 .. 63
  BY <1>1, PassedIs DEF Passed, SeqMod
<1>3. due' = (n + 1) % 64 /\ due' \in 0 .. 63 /\ displaced' = displaced + Passed(n)
  BY <1>1, PassedIs DEF Numbered, SeqMod
<1>4. \/ n = s_seq /\ s_seq' = (n + 1) % 64 /\ overlap' = overlap
      \/ overlap' = TRUE /\ s_seq' \in 0 .. 63
  BY DEF Numbered, SeqMod, Number
<1>5. ~overlap' => ~overlap /\ n = due /\ s_seq' = due'
  BY <1>1, <1>3, <1>4
<1>6. s_seq' \in 0 .. 63 /\ overlap' \in BOOLEAN
  BY <1>1, <1>3, <1>4
<1>7. n = due => Passed(n) = 0
  BY <1>1, <1>2, PassedIs
<1>8. displaced' \in Nat
  BY <1>1, <1>2, <1>3
<1> QED
  BY <1>2, <1>3, <1>5, <1>6, <1>7, <1>8 DEF Number, SeqMod

\* A record that arrives.
LEMMA ArrivesCounts ==
  ASSUME NumbersOK, NEW n \in Number, Arrives(n)
  PROVE  NumbersOK'
<1> DEFINE g == (n - last - 1) % 64
           k == Passed(n)
           x == missed + k - g
<1>1. /\ n \in 0 .. 63 /\ due \in 0 .. 63
      /\ last \in -1 .. 63 /\ lost \in Nat
      /\ missed \in Nat /\ gone \in Nat /\ hidden \in Nat /\ wrapped \in Int
      /\ cut \in BOOLEAN /\ misled \in BOOLEAN /\ InStep /\ GapsAreLosses
  BY DEF NumbersOK, Number, SeqMod
<1>2. /\ k = (n - due) % 64 /\ k \in 0 .. 63
      /\ due' = (n + 1) % 64 /\ due' \in Number /\ s_seq' \in Number
      /\ overlap' \in BOOLEAN /\ displaced' = displaced + k /\ displaced' \in Nat
      /\ ~overlap' => ~overlap /\ k = 0 /\ s_seq' = due'
  BY NumberedIs DEF Arrives
<1>d. displaced \in Nat
  BY DEF NumbersOK
<1>3. /\ last' = n
      /\ missed' = 0 /\ cut' = FALSE /\ misled' = (misled \/ cut)
      /\ lost' = lost + Missing(n) /\ gone' = gone
      /\ last = -1 => hidden' = hidden + missed + k /\ wrapped' = wrapped
      /\ last # -1 => wrapped' = wrapped + (missed + k - Missing(n)) /\ hidden' = hidden
  BY DEF Arrives, None
<1>4. Missing(n) = IF last = -1 THEN 0 ELSE g
  BY DEF Missing, SeqMod, None
<1>5. InStep'
  <2>1. (due' - last' - 1 - missed') % 64 = 0
    <3>1. due' - last' - 1 - missed' = ((n + 1) % 64) - n - 1
      BY <1>1, <1>2, <1>3
    <3> QED
      BY <3>1, <1>1, PassedIs
  <2> QED
    BY <2>1, <1>2, <1>3 DEF InStep, SeqMod, None
<1>8. cut' \in BOOLEAN /\ misled' \in BOOLEAN
  BY <1>3
<1>9. last' \in -1 .. 63 /\ missed' \in Nat /\ gone' \in Nat
  BY <1>1, <1>3
<1> HIDE DEF k
<1>c. ~overlap' => displaced' = 0 \/ misled
  BY <1>1, <1>2, <1>d DEF GapsAreLosses
<1>6. CASE last = -1
  <2>1. lost' = lost /\ hidden' = hidden + missed + k /\ wrapped' = wrapped /\ ~cut
    BY <1>1, <1>3, <1>4, <1>6 DEF InStep, None
  <2>2. GapsAreLosses'
    BY <2>1, <1>1, <1>2, <1>3, <1>c, <1>d DEF GapsAreLosses, SeqMod
  <2> QED
    BY <2>1, <2>2, <1>1, <1>2, <1>5, <1>8, <1>9 DEF NumbersOK
<1>7. CASE last # -1
  <2>1. last \in 0 .. 63
    BY <1>1, <1>7
  <2>2. g \in 0 .. 63
    BY <1>1, <2>1
  <2>3. lost' = lost + g /\ wrapped' = wrapped + x /\ hidden' = hidden
    BY <1>3, <1>4, <1>7
  <2>4. ASSUME ~misled'
        PROVE  ~misled /\ x >= 0 /\ x % 64 = 0
    <3>1. ~misled /\ ~cut
      BY <2>4, <1>3
    <3>2. (due - last - 1 - missed) % 64 = 0
      BY <3>1, <1>1, <1>7 DEF InStep, SeqMod, None
    <3>3. x >= 0 /\ x % 64 = 0
      <4>1. g = (n - last - 1) % 64 /\ x = missed + k - g
        OBVIOUS
      \* A gap is what was passed over, modulo 64, and never more.
      <4>2. n \in 0 .. 63 /\ due \in 0 .. 63 /\ missed \in Nat /\ k = (n - due) % 64
        BY <1>1, <1>2
      <4> HIDE DEF g, x
      <4> QED
        BY ONLY <3>2, <4>1, <4>2, <2>1
    <3> QED
      BY <3>1, <3>3
  <2>5. GapsAreLosses'
    <3> HIDE DEF g
    <3> SUFFICES ASSUME ~misled'
                 PROVE  /\ gone' + displaced' = lost' + hidden' + missed' + wrapped'
                        /\ wrapped' >= 0 /\ wrapped' % 64 = 0
                        /\ ~overlap' => displaced' = 0
      BY DEF GapsAreLosses, SeqMod
    <3>1. ~misled /\ x >= 0 /\ x % 64 = 0
      BY <2>4
    <3>2. /\ gone + displaced = lost + hidden + missed + wrapped
          /\ wrapped >= 0 /\ wrapped % 64 = 0
      BY <3>1, <1>1 DEF GapsAreLosses, SeqMod
    <3>x. x \in Int /\ x = missed + k - g
      BY <1>1, <1>2, <2>2
    <3> HIDE DEF x
    <3>3. (wrapped + x) % 64 = 0
      BY <3>1, <3>2, <3>x, <1>1, MultiplesAdd
    <3> QED
      BY <3>1, <3>2, <3>3, <3>x, <2>2, <2>3, <1>1, <1>2, <1>3, <1>c, <1>d
  <2>6. lost' \in Nat /\ hidden' \in Nat /\ wrapped' \in Int
    <3> HIDE DEF g
    <3> QED  BY <2>2, <2>3, <1>1, <1>2
  <2> QED
    BY <2>5, <2>6, <1>2, <1>5, <1>8, <1>9 DEF NumbersOK
<1> QED
  BY <1>6, <1>7

\* A record that is lost.
LEMMA LoseCounts ==
  ASSUME NumbersOK, Lose
  PROVE  NumbersOK'
<1>1. PICK n \in Number :
        /\ Numbered(n)
        /\ missed' = missed + Passed(n) + 1 /\ gone' = gone + 1
        /\ UNCHANGED <<last, lost, cut, misled, hidden, wrapped>>
  BY DEF Lose, decoder
<1>2. /\ Passed(n) = (n - due) % 64 /\ Passed(n) \in 0 .. 63
      /\ due' = (n + 1) % 64 /\ due' \in Number /\ s_seq' \in Number
      /\ overlap' \in BOOLEAN /\ displaced' = displaced + Passed(n) /\ displaced' \in Nat
      /\ ~overlap' => ~overlap /\ Passed(n) = 0 /\ s_seq' = due'
  BY <1>1, NumberedIs
<1>3. /\ n \in 0 .. 63 /\ due \in 0 .. 63 /\ displaced \in Nat
      /\ last \in -1 .. 63 /\ lost \in Nat
      /\ missed \in Nat /\ gone \in Nat /\ hidden \in Nat /\ wrapped \in Int
      /\ cut \in BOOLEAN /\ misled \in BOOLEAN /\ InStep /\ GapsAreLosses
  BY DEF NumbersOK, Number, SeqMod
<1>4. InStep'
  <2>1. ASSUME ~cut, last # None
        PROVE  (due' - last - 1 - missed') % 64 = 0
    <3>1. (due - last - 1 - missed) % 64 = 0 /\ last \in 0 .. 63
      BY <2>1, <1>3 DEF InStep, SeqMod, None
    <3> QED
      <4>1. n \in 0 .. 63 /\ due \in 0 .. 63 /\ missed \in Nat
        BY <1>3
      <4>2. Passed(n) = (n - due) % 64 /\ due' = (n + 1) % 64 /\ missed' = missed + Passed(n) + 1
        BY <1>1, <1>2
      <4> QED
        BY ONLY <3>1, <4>1, <4>2
  <2> QED
    BY <2>1, <1>1, <1>2, <1>3 DEF InStep, SeqMod
<1>5. GapsAreLosses'
  BY <1>1, <1>2, <1>3 DEF GapsAreLosses, SeqMod
<1> QED
  BY <1>1, <1>2, <1>3, <1>4, <1>5 DEF NumbersOK

\* A boot record that arrives.
LEMMA BootCounts ==
  ASSUME NumbersOK, BootArrives
  PROVE  NumbersOK'
<1>1. /\ s_seq' = 1 /\ due' = 1 /\ displaced' = displaced /\ (overlap' <=> overlap)
      /\ last' = 0 /\ lost' = lost /\ missed' = 0 /\ ~cut'
      /\ hidden' = hidden + missed /\ gone' = gone /\ wrapped' = wrapped
      /\ misled' <=> misled
  BY DEF BootArrives, Restart
<1>2. cut' \in BOOLEAN /\ misled' \in BOOLEAN /\ overlap' \in BOOLEAN
  BY DEF BootArrives, Restart, NumbersOK
<1>3. InStep'
  BY <1>1 DEF InStep, SeqMod, None
<1>4. GapsAreLosses'
  BY <1>1 DEF NumbersOK, GapsAreLosses, SeqMod
<1> QED
  BY <1>1, <1>2, <1>3, <1>4 DEF NumbersOK, Number, SeqMod

\* A boot record that is lost.
LEMMA BootLostCounts ==
  ASSUME NumbersOK, BootLost
  PROVE  NumbersOK'
<1>1. /\ s_seq' = 1 /\ due' = 1 /\ displaced' = displaced /\ (overlap' <=> overlap)
      /\ last' = last /\ lost' = lost /\ missed' = 1
      /\ cut' <=> last # None
      /\ hidden' = hidden + missed /\ gone' = gone + 1 /\ wrapped' = wrapped
      /\ misled' <=> misled
  BY DEF BootLost, Restart, decoder
<1>2. cut' \in BOOLEAN /\ misled' \in BOOLEAN /\ overlap' \in BOOLEAN
  BY DEF BootLost, Restart, NumbersOK
<1>3. InStep'
  BY <1>1 DEF InStep
<1>4. GapsAreLosses'
  BY <1>1 DEF NumbersOK, GapsAreLosses, SeqMod
<1> QED
  BY <1>1, <1>2, <1>3, <1>4 DEF NumbersOK, Number, SeqMod

-----------------------------------------------------------------------------
(* The summaries. *)

LEMMA EmptyIsEmpty ==
  /\ Empty \in [CanId -> Summaries]
  /\ \A id \in CanId : Empty[id].count = 0
  BY DEF Empty, NoSummary, Summaries

LEMMA FlushKeepsView ==
  ASSUME ViewOK, FlushView, accepted' = accepted, lastTs' \in MaybeTime
  PROVE  ViewOK'
<1>1. pending' = Empty /\ start' = None /\ shown' = Printed
  BY DEF FlushView
<1>2. Empty \in [CanId -> Summaries] /\ \A id \in CanId : Empty[id].count = 0
  BY EmptyIsEmpty
<1>3. \A id \in CanId : pending[id].count \in Nat
  BY DEF ViewOK, Summaries
<1>4. /\ Printed \in [CanId -> Nat]
      /\ \A id \in CanId : Printed[id] = shown[id] + pending[id].count
  BY <1>3 DEF ViewOK, Printed
<1>5. NoAcceptIsHidden'
  <2> SUFFICES ASSUME NEW id \in CanId
               PROVE  accepted'[id] = shown'[id] + pending'[id].count
    BY DEF NoAcceptIsHidden
  <2>1. accepted[id] = shown[id] + pending[id].count /\ accepted[id] \in Nat
    BY DEF ViewOK, NoAcceptIsHidden
  <2>2. shown'[id] = accepted[id] /\ pending'[id].count = 0
    BY <1>1, <1>2, <1>4, <2>1
  <2> QED  BY <2>1, <2>2
<1>6. SummaryIsOfOneWindow'
  BY <1>1, <1>2 DEF SummaryIsOfOneWindow
<1> QED
  BY <1>1, <1>2, <1>4, <1>5, <1>6 DEF ViewOK, MaybeTime

LEMMA OtherKeepsView ==
  ASSUME ViewOK, NEW ts \in Nat, NEW cause \in BOOLEAN, FoldOther(cause, ts)
  PROVE  ViewOK'
<1>1. lastTs' = ts /\ accepted' = accepted
  BY DEF FoldOther
<1>2. CASE Flushes(cause, ts)
  BY <1>1, <1>2, FlushKeepsView DEF FoldOther, MaybeTime
<1>3. CASE ~Flushes(cause, ts)
  <2>1. pending' = pending /\ start' = start /\ shown' = shown
    BY <1>3 DEF FoldOther
  <2>2. lastTs = None \/ lastTs <= ts
    BY <1>3 DEF Flushes, ViewOK, MaybeTime
  <2>3. start # None => start <= ts
    BY <2>2 DEF ViewOK, MaybeTime, None
  <2>4. NoAcceptIsHidden'
    BY <1>1, <2>1 DEF ViewOK, NoAcceptIsHidden
  <2>5. SummaryIsOfOneWindow'
    <3> SUFFICES ASSUME NEW id \in CanId, pending[id].count > 0
                 PROVE  /\ start # None /\ ts # None
                        /\ start <= pending[id].first /\ pending[id].first <= pending[id].last
                        /\ pending[id].last <= ts /\ pending[id].last - start < FoldMs
      BY <1>1, <2>1 DEF SummaryIsOfOneWindow
    <3>1. /\ start # None /\ lastTs # None
          /\ start <= pending[id].first /\ pending[id].first <= pending[id].last
          /\ pending[id].last <= lastTs /\ pending[id].last - start < FoldMs
      BY DEF ViewOK, SummaryIsOfOneWindow
    <3>2. pending[id].last \in Nat /\ lastTs \in Nat
      BY <3>1 DEF ViewOK, Summaries, MaybeTime
    <3> QED  BY <3>1, <3>2, <2>2 DEF None
  <2> QED
    BY <1>1, <2>1, <2>3, <2>4, <2>5 DEF ViewOK, MaybeTime, None
<1> QED
  BY <1>2, <1>3

\* The accept that is added, to a view that may just have been flushed.
LEMMA AddedKeepsView ==
  ASSUME FoldMs \in Nat \ {0}, NEW id \in CanId, NEW ts \in Nat, NEW of \in Nat,
         NEW kept \in [CanId -> Summaries], NEW opened \in Nat,
         opened <= ts, ts - opened < FoldMs,
         \A i \in CanId : kept[i].count > 0 =>
            /\ opened <= kept[i].first /\ kept[i].first <= kept[i].last
            /\ kept[i].last <= ts /\ kept[i].last - opened < FoldMs,
         pending' = [kept EXCEPT ![id] = Added(@, ts, of)], start' = opened, lastTs' = ts
  PROVE  /\ pending' \in [CanId -> Summaries]
         /\ pending'[id].count = kept[id].count + 1
         /\ \A i \in CanId : i # id => pending'[i] = kept[i]
         /\ SummaryIsOfOneWindow'
<1> DEFINE new == Added(kept[id], ts, of)
<1>1. kept[id] \in Summaries
  OBVIOUS
<1>2. /\ new \in Summaries /\ new.count = kept[id].count + 1
      /\ new.last = ts /\ opened <= new.first /\ new.first <= ts
  <2>1. CASE kept[id].count = 0
    BY <1>1, <2>1 DEF Added, Summaries
  <2>2. CASE kept[id].count # 0
    <3>1. kept[id].count \in Nat /\ kept[id].first \in Nat /\ kept[id].last \in Nat
          /\ kept[id].life \in Nat
      BY <1>1 DEF Summaries
    <3>2. opened <= kept[id].first /\ kept[id].first <= ts
      BY <3>1, <2>2
    <3> QED  BY <3>1, <3>2, <2>2 DEF Added, Summaries
  <2> QED  BY <2>1, <2>2
<1>3. /\ pending' = [kept EXCEPT ![id] = new] 
  OBVIOUS
<1> HIDE DEF new
<1>4. pending' \in [CanId -> Summaries] /\ pending'[id] = new
      /\ \A i \in CanId : i # id => pending'[i] = kept[i]
  BY <1>2, <1>3
<1>5. SummaryIsOfOneWindow'
  <2> SUFFICES ASSUME NEW i \in CanId, pending'[i].count > 0
               PROVE  /\ opened # None /\ ts # None
                      /\ opened <= pending'[i].first /\ pending'[i].first <= pending'[i].last
                      /\ pending'[i].last <= ts /\ pending'[i].last - opened < FoldMs
    BY DEF SummaryIsOfOneWindow
  <2>1. CASE i = id
    BY <2>1, <1>2, <1>4 DEF None
  <2>2. CASE i # id
    BY <2>2, <1>4 DEF None
  <2> QED  BY <2>1, <2>2
<1> QED  BY <1>2, <1>4, <1>5

LEMMA AcceptKeepsView ==
  ASSUME FoldMs \in Nat \ {0}, ViewOK, life \in Nat,
         NEW id \in CanId, NEW ts \in Nat, NEW cause \in BOOLEAN, FoldAccept(id, ts, cause)
  PROVE  ViewOK'
<1> DEFINE kept == IF Flushes(cause, ts) THEN Empty ELSE pending
           opened == IF Flushes(cause, ts) \/ start = None THEN ts ELSE start
           printed == IF Flushes(cause, ts) THEN Printed ELSE shown
<1>1. /\ lastTs' = ts /\ shown' = printed /\ start' = opened
      /\ pending' = [kept EXCEPT ![id] = Added(@, ts, life)]
      /\ accepted' = [accepted EXCEPT ![id] = @ + 1]
  BY DEF FoldAccept
<1>2. Empty \in [CanId -> Summaries] /\ \A i \in CanId : Empty[i].count = 0
  BY EmptyIsEmpty
<1>3. \A i \in CanId : pending[i].count \in Nat /\ shown[i] \in Nat
  BY DEF ViewOK, Summaries
<1>4. /\ printed \in [CanId -> Nat] /\ kept \in [CanId -> Summaries]
      /\ \A i \in CanId : printed[i] + kept[i].count = shown[i] + pending[i].count
  <2>1. CASE Flushes(cause, ts)
    <3>1. printed = [i \in CanId |-> shown[i] + pending[i].count] /\ kept = Empty
      BY <2>1 DEF Printed
    <3> HIDE DEF printed, kept
    <3>2. \A i \in CanId : printed[i] = shown[i] + pending[i].count /\ kept[i].count = 0
      BY <3>1, <1>2
    <3> QED  BY <3>1, <3>2, <1>2, <1>3
  <2>2. CASE ~Flushes(cause, ts)
    BY <2>2 DEF ViewOK
  <2> QED  BY <2>1, <2>2
<1>5. /\ opened \in Nat /\ opened <= ts /\ ts - opened < FoldMs
      /\ \A i \in CanId : kept[i].count > 0 =>
            /\ opened <= kept[i].first /\ kept[i].first <= kept[i].last
            /\ kept[i].last <= ts /\ kept[i].last - opened < FoldMs
  <2>1. CASE Flushes(cause, ts)
    BY <2>1, <1>2
  <2>2. CASE ~Flushes(cause, ts)
    <3>1. /\ lastTs = None \/ lastTs <= ts
          /\ start = None \/ ts - start < FoldMs
      BY <2>2 DEF Flushes, ViewOK, MaybeTime
    <3>2. start \in Nat \cup {None} /\ lastTs \in Nat \cup {None}
          /\ (start # None => lastTs # None /\ start <= lastTs)
      BY DEF ViewOK, MaybeTime
    <3>3. /\ opened = (IF start = None THEN ts ELSE start) /\ kept = pending
      BY <2>2
    <3> HIDE DEF opened, kept
    <3>4. opened \in Nat /\ opened <= ts /\ ts - opened < FoldMs
      BY <3>1, <3>2, <3>3 DEF None
    <3>5. ASSUME NEW i \in CanId, pending[i].count > 0
          PROVE  /\ opened <= pending[i].first /\ pending[i].first <= pending[i].last
                 /\ pending[i].last <= ts /\ pending[i].last - opened < FoldMs
      <4>1. /\ start # None /\ lastTs # None
            /\ start <= pending[i].first /\ pending[i].first <= pending[i].last
            /\ pending[i].last <= lastTs /\ pending[i].last - start < FoldMs
        BY <3>5 DEF ViewOK, SummaryIsOfOneWindow
      <4>2. pending[i].last \in Nat /\ lastTs \in Nat
        BY <4>1 DEF ViewOK, Summaries, MaybeTime
      <4> QED  BY <4>1, <4>2, <3>1, <3>3
    <3> QED  BY <3>3, <3>4, <3>5
  <2> QED  BY <2>1, <2>2
<1> HIDE DEF kept, opened, printed
<1>6. /\ pending' \in [CanId -> Summaries]
      /\ pending'[id].count = kept[id].count + 1
      /\ \A i \in CanId : i # id => pending'[i] = kept[i]
      /\ SummaryIsOfOneWindow'
  BY <1>1, <1>4, <1>5, AddedKeepsView
<1>7. accepted \in [CanId -> Nat]
      /\ \A i \in CanId : accepted[i] = printed[i] + kept[i].count
  BY <1>4 DEF ViewOK, NoAcceptIsHidden
<1>8. NoAcceptIsHidden'
  <2> SUFFICES ASSUME NEW i \in CanId
               PROVE  accepted'[i] = printed[i] + pending'[i].count
    BY <1>1 DEF NoAcceptIsHidden
  <2>1. kept[i].count \in Nat /\ printed[i] \in Nat
    BY <1>4 DEF Summaries
  <2>2. CASE i = id
    BY <2>1, <2>2, <1>1, <1>6, <1>7
  <2>3. CASE i # id
    BY <2>3, <1>1, <1>6, <1>7
  <2> QED  BY <2>2, <2>3
<1>9. accepted' \in [CanId -> Nat]
  BY <1>1, <1>7
<1> QED
  BY <1>1, <1>4, <1>5, <1>6, <1>8, <1>9 DEF ViewOK, MaybeTime, None

-----------------------------------------------------------------------------
(* The lives of the target. *)

\* A gap is reported before the record behind it: what waits is printed.
LEMMA AcceptKeepsLives ==
  ASSUME NumbersOK, ViewOK, ViewOK', LivesOK, NEW n \in Number, Arrives(n),
         NEW id \in CanId, NEW ts \in Nat, FoldAccept(id, ts, Gap(n))
  PROVE  LivesOK'
<1> DEFINE kept == IF Flushes(Gap(n), ts) THEN Empty ELSE pending
<1>1. /\ pending' = [kept EXCEPT ![id] = Added(@, ts, life)]
      /\ mixed' <=> (mixed \/ (kept[id].count > 0 /\ kept[id].life # life))
  BY DEF FoldAccept
<1>2. /\ last' = n /\ life' = life /\ ~cut'
      /\ unseen' <=> (unseen \/ (cut /\ Missing(n) = 0))
  BY DEF Arrives
<1>3. kept \in [CanId -> Summaries] /\ (Flushes(Gap(n), ts) => \A i \in CanId : kept[i].count = 0)
  BY EmptyIsEmpty DEF ViewOK
<1>4. ASSUME ~unseen'
      PROVE  \A i \in CanId : kept[i].count > 0 => kept[i].life = life
  <2>1. CASE Flushes(Gap(n), ts)
    BY <2>1, <1>3
  <2>2. CASE ~Flushes(Gap(n), ts)
    <3>1. ~(Missing(n) > 0)
      BY <2>2 DEF Flushes, Gap
    <3>2. Missing(n) \in Nat
      BY DEF Missing, Number, SeqMod, NumbersOK
    <3>3. ~cut /\ ~unseen
      BY <3>1, <3>2, <1>2, <1>4 DEF NumbersOK
    <3> QED  BY <3>3, <2>2 DEF LivesOK, OfThisLife
  <2> QED  BY <2>1, <2>2
<1> HIDE DEF kept
<1>5. mixed' \in BOOLEAN /\ unseen' \in BOOLEAN /\ life' \in Nat
  BY <1>2 DEF FoldAccept, Arrives, LivesOK
<1>6. last' # None
  BY <1>2 DEF Number, SeqMod, None
<1>7. NoSummaryStraddles'
  BY <1>1, <1>2, <1>4 DEF NoSummaryStraddles, LivesOK
<1>8. OfThisLife'
  <2> SUFFICES ASSUME ~unseen', NEW i \in CanId, pending'[i].count > 0
               PROVE  pending'[i].life = life
    BY <1>2 DEF OfThisLife
  <2>1. CASE i # id
    BY <2>1, <1>1, <1>3, <1>4
  <2>2. CASE i = id
    <3>1. pending'[i] = Added(kept[id], ts, life)
      BY <2>2, <1>1, <1>3
    <3>2. kept[id].count \in Nat
      BY <1>3 DEF Summaries
    <3>3. kept[id].count # 0 => kept[id].life = life
      BY <3>2, <1>4
    <3> QED  BY <3>1, <3>3 DEF Added
  <2> QED  BY <2>1, <2>2
<1> QED  BY <1>5, <1>6, <1>7, <1>8 DEF LivesOK

\* Any other record: the view keeps what it has, or nothing.
LEMMA OtherKeepsLives ==
  ASSUME NumbersOK, ViewOK, LivesOK, NEW n \in Number, Arrives(n),
         NEW ts \in Nat, FoldOther(Gap(n), ts)
  PROVE  LivesOK'
<1>1. /\ last' = n /\ life' = life /\ ~cut' /\ (mixed' <=> mixed)
      /\ unseen' <=> (unseen \/ (cut /\ Missing(n) = 0))
  BY DEF Arrives, FoldOther
<1>2. mixed' \in BOOLEAN /\ unseen' \in BOOLEAN /\ life' \in Nat
  BY DEF FoldOther, Arrives, LivesOK
<1>3. last' # None
  BY <1>1 DEF Number, SeqMod, None
<1>4. NoSummaryStraddles'
  BY <1>1 DEF NoSummaryStraddles, LivesOK
<1>5. OfThisLife'
  <2>1. CASE Flushes(Gap(n), ts)
    BY <2>1, EmptyIsEmpty DEF FoldOther, FlushView, OfThisLife
  <2>2. CASE ~Flushes(Gap(n), ts)
    <3>1. ~(Missing(n) > 0)
      BY <2>2 DEF Flushes, Gap
    <3>2. Missing(n) \in Nat
      BY DEF Missing, Number, SeqMod, NumbersOK
    <3>3. ~unseen' => ~cut /\ ~unseen
      BY <3>1, <3>2, <1>1 DEF NumbersOK
    <3>4. pending' = pending
      BY <2>2 DEF FoldOther
    <3> QED  BY <3>3, <3>4, <1>1 DEF LivesOK, OfThisLife
  <2> QED  BY <2>1, <2>2
<1> QED  BY <1>2, <1>3, <1>4, <1>5 DEF LivesOK

\* A boot record empties the view.
LEMMA BootKeepsLives ==
  ASSUME LivesOK, BootArrives
  PROVE  LivesOK'
<1>1. PICK ts \in Nat : FoldOther(TRUE, ts)
  BY DEF BootArrives
<1>2. pending' = Empty /\ (mixed' <=> mixed)
  BY <1>1 DEF FoldOther, Flushes, FlushView
<1>3. last' = 0 /\ life' = life + 1 /\ (unseen' <=> unseen)
  BY DEF BootArrives, Restart
<1>4. mixed' \in BOOLEAN /\ unseen' \in BOOLEAN
  BY <1>1 DEF FoldOther, BootArrives, LivesOK
<1>5. OfThisLife'
  BY <1>2, EmptyIsEmpty DEF OfThisLife
<1>6. NoSummaryStraddles'
  BY <1>2, <1>3 DEF NoSummaryStraddles, LivesOK
<1> QED  BY <1>3, <1>4, <1>5, <1>6 DEF LivesOK, None

\* A restart that goes unheard: nothing waits, or the next record is looked at.
LEMMA BootLostKeepsLives ==
  ASSUME LivesOK, BootLost
  PROVE  LivesOK'
<1>1. /\ pending' = pending /\ last' = last /\ life' = life + 1
      /\ (unseen' <=> unseen) /\ (mixed' <=> mixed) /\ (cut' <=> last # None)
  BY DEF BootLost, Restart, view, decoder, folded
<1>2. mixed' \in BOOLEAN /\ unseen' \in BOOLEAN
  BY DEF BootLost, folded, LivesOK
<1>3. OfThisLife'
  BY <1>1 DEF LivesOK, OfThisLife
<1>4. NoSummaryStraddles'
  BY <1>1 DEF NoSummaryStraddles, LivesOK
<1> QED  BY <1>1, <1>2, <1>3, <1>4 DEF LivesOK

-----------------------------------------------------------------------------
(* The theorem. *)

LEMMA InitIInv ==
  ASSUME Init
  PROVE  IInv
<1>1. NumbersOK
  <2>1. /\ s_seq = 0 /\ due = 0 /\ displaced = 0 /\ ~overlap /\ last = -1 /\ lost = 0 /\ missed = 0 /\ ~cut
        /\ gone = 0 /\ hidden = 0 /\ wrapped = 0
    BY DEF Init, None
  <2>2. cut \in BOOLEAN /\ misled \in BOOLEAN /\ overlap \in BOOLEAN
    BY DEF Init
  <2> QED
    BY <2>1, <2>2 DEF NumbersOK, Number, InStep, GapsAreLosses, SeqMod, None
<1>2. ViewOK
  BY DEF Init, ViewOK, NoAcceptIsHidden, SummaryIsOfOneWindow, NoSummary, Summaries, MaybeTime, None
<1>3. LivesOK
  BY DEF Init, LivesOK, OfThisLife, NoSummaryStraddles, NoSummary
<1> QED  BY <1>1, <1>2, <1>3 DEF IInv

LEMMA NextIInv ==
  ASSUME FoldMs \in Nat \ {0}, IInv, [Next]_vars
  PROVE  IInv'
<1>0. NumbersOK /\ ViewOK /\ LivesOK /\ life \in Nat
  BY DEF IInv, LivesOK
<1>1. CASE Accept
  <2>1. PICK n \in Number, id \in CanId, ts \in Nat : Arrives(n) /\ FoldAccept(id, ts, Gap(n))
    BY <1>1 DEF Accept
  <2>2. ViewOK'
    <3>1. Gap(n) \in BOOLEAN
      BY DEF Gap
    <3> QED  BY <3>1, <2>1, <1>0, AcceptKeepsView
  <2> QED
    BY <2>1, <2>2, <1>0, ArrivesCounts, AcceptKeepsLives DEF IInv
<1>2. CASE Other
  <2>1. PICK n \in Number, ts \in Nat : Arrives(n) /\ FoldOther(Gap(n), ts)
    BY <1>2 DEF Other
  <2>2. ViewOK'
    <3>1. Gap(n) \in BOOLEAN
      BY DEF Gap
    <3> QED  BY <3>1, <2>1, <1>0, OtherKeepsView
  <2> QED
    BY <2>1, <2>2, <1>0, ArrivesCounts, OtherKeepsLives DEF IInv
<1>3. CASE Lose
  <2>1. /\ pending' = pending /\ start' = start /\ lastTs' = lastTs
        /\ accepted' = accepted /\ shown' = shown /\ (mixed' <=> mixed)
        /\ last' = last /\ life' = life /\ (cut' <=> cut) /\ (unseen' <=> unseen)
    BY <1>3 DEF Lose, view, folded, decoder
  <2>2. ViewOK'
    BY <2>1, <1>0 DEF ViewOK, NoAcceptIsHidden, SummaryIsOfOneWindow
  <2>3. mixed' \in BOOLEAN /\ unseen' \in BOOLEAN
    BY <1>3, <1>0 DEF Lose, folded, LivesOK
  <2>4. LivesOK'
    BY <2>1, <2>3, <1>0 DEF LivesOK, OfThisLife, NoSummaryStraddles
  <2> QED
    BY <2>2, <2>4, <1>0, <1>3, LoseCounts DEF IInv
<1>4. CASE BootArrives
  <2>1. PICK ts \in Nat : FoldOther(TRUE, ts)
    BY <1>4 DEF BootArrives
  <2>2. ViewOK'
    BY <2>1, <1>0, OtherKeepsView
  <2> QED
    BY <2>2, <1>0, <1>4, BootCounts, BootKeepsLives DEF IInv
<1>5. CASE BootLost
  <2>1. ViewOK'
    BY <1>0, <1>5 DEF BootLost, view, folded, ViewOK, NoAcceptIsHidden, SummaryIsOfOneWindow
  <2> QED
    BY <2>1, <1>0, <1>5, BootLostCounts, BootLostKeepsLives DEF IInv
<1>6. CASE Text
  <2>1. /\ FlushView /\ lastTs' = lastTs /\ accepted' = accepted /\ (mixed' <=> mixed)
        /\ s_seq' = s_seq /\ due' = due /\ displaced' = displaced /\ overlap' = overlap
        /\ last' = last /\ lost' = lost
        /\ life' = life /\ missed' = missed /\ cut' = cut /\ misled' = misled
        /\ (unseen' <=> unseen) /\ gone' = gone /\ hidden' = hidden /\ wrapped' = wrapped
    BY <1>6 DEF Text, numbers, decoder, truth
  <2>2. ViewOK'
    BY <2>1, <1>0, FlushKeepsView DEF ViewOK
  <2>3. NumbersOK'
    BY <2>1, <1>0 DEF NumbersOK, InStep, GapsAreLosses
  <2>4. pending' = Empty
    BY <2>1 DEF FlushView
  <2>5. mixed' \in BOOLEAN /\ unseen' \in BOOLEAN
    BY <1>6, <1>0 DEF Text, truth, LivesOK
  <2>6. LivesOK'
    BY <2>1, <2>4, <2>5, <1>0, EmptyIsEmpty DEF LivesOK, OfThisLife, NoSummaryStraddles
  <2> QED
    BY <2>2, <2>3, <2>6 DEF IInv
<1>7. CASE UNCHANGED vars
  <2>1. NumbersOK'
    BY <1>0, <1>7 DEF vars, numbers, decoder, truth, NumbersOK, InStep, GapsAreLosses
  <2>2. ViewOK'
    BY <1>0, <1>7 DEF vars, view, folded, ViewOK, NoAcceptIsHidden, SummaryIsOfOneWindow
  <2>3. LivesOK'
    BY <1>0, <1>7 DEF vars, decoder, view, truth, folded, LivesOK, OfThisLife, NoSummaryStraddles
  <2> QED  BY <2>1, <2>2, <2>3 DEF IInv
<1> QED
  BY <1>1, <1>2, <1>3, <1>4, <1>5, <1>6, <1>7 DEF Next

LEMMA Invariance ==
  ASSUME FoldMs \in Nat \ {0}
  PROVE  Spec => []IInv
<1>1. FoldMs \in Nat \ {0}
  OBVIOUS
<1>2. Init => IInv
  BY InitIInv
<1>3. IInv /\ [Next]_vars => IInv'
  BY <1>1, NextIInv
<1> QED
  BY <1>2, <1>3, PTL DEF Spec

\* The gaps the decoder reports account for the lost records and for the numbers that
\* calls of log_evt passed over or repeated by preempting each other (Decoder._emit,
\* log_evt), for every sequence of losses and restarts, up to the multiples of 64 the
\* number cannot show.  Without such calls they are the losses.
THEOREM GapsAccount ==
  ASSUME FoldMs \in Nat \ {0}
  PROVE  Spec => []GapsAreLosses
<1>1. IInv => GapsAreLosses
  BY DEF IInv, NumbersOK
<1> QED
  BY <1>1, Invariance, PTL

\* Folding loses no accept, for any timestamps (AcceptFolder.feed, flush).
THEOREM FoldingLosesNothing ==
  ASSUME FoldMs \in Nat \ {0}
  PROVE  Spec => [](NoAcceptIsHidden /\ SummaryIsOfOneWindow)
<1>1. IInv => NoAcceptIsHidden /\ SummaryIsOfOneWindow
  BY DEF IInv, ViewOK
<1> QED
  BY <1>1, Invariance, PTL

\* A summary mixes two lives of the target only when its boot record was lost and the
\* next number was by chance the one that was due (the comment of AcceptFolder).
THEOREM RestartsSplitSummaries ==
  ASSUME FoldMs \in Nat \ {0}
  PROVE  Spec => []NoSummaryStraddles
<1>1. IInv => NoSummaryStraddles
  BY DEF IInv, LivesOK
<1> QED
  BY <1>1, Invariance, PTL

-----------------------------------------------------------------------------
(* The baud rate. *)

LEMMA QuotientBounds ==
  ASSUME NEW n \in Nat, NEW d \in Nat \ {0}
  PROVE  /\ n \div d \in Nat
         /\ (n \div d) * d <= n /\ n < (n \div d) * d + d
  OBVIOUS

LEMMA ProductGrows ==
  ASSUME NEW a \in Nat, NEW b \in Nat, NEW d \in Nat, a <= b
  PROVE  a * d <= b * d
  OBVIOUS

\* A source of 24 MHz or more is divided by two at least, and what comes out is within
\* a quarter of the target.
LEMMA QuarterOff ==
  ASSUME NEW src \in Nat, src >= 24000000, src <= 2000000000, NEW ovs \in Oversamples
  PROVE  /\ Divider(src, ovs) \in 2 .. 256
         /\ Actual(src, ovs) \in Nat
         /\ 4 * Distance(Actual(src, ovs), Target(ovs)) <= Target(ovs) + 4
<1> DEFINE t == 1000000 * ovs
           div == (src + t \div 2) \div t
           a == src \div div
<1>1. t \in Nat /\ t >= 8000000 /\ t <= 16000000
  BY SMT DEF Oversamples
<1>2. 2 * (t \div 2) = t /\ t \div 2 \in Nat
  BY SMT DEF Oversamples
<1> HIDE DEF t
<1>3. (src + t \div 2) % Word = src + t \div 2
  BY SMT, <1>1, <1>2 DEF Word
<1>4. /\ div \in Nat /\ div * t <= src + t \div 2 /\ src + t \div 2 < div * t + t
  <2>1. src + t \div 2 \in Nat
    BY SMT, <1>1, <1>2
  <2> QED
    BY SMT, <2>1, <1>1, QuotientBounds
<1> HIDE DEF div
<1>5. div >= 2
  <2>1. src + t \div 2 >= 2 * t
    BY SMT, <1>1, <1>2
  <2>2. ASSUME div <= 1 PROVE FALSE
    <3>1. div * t <= 1 * t
      BY SMT, <2>2, <1>1, <1>4, ProductGrows
    <3> QED
      BY SMT, <3>1, <2>1, <1>1, <1>4
  <2> QED
    BY SMT, <2>2, <1>4
<1>6. div <= 256
  <2>1. ASSUME div >= 257 PROVE FALSE
    <3>1. 257 * t <= div * t
      BY SMT, <2>1, <1>1, <1>4, ProductGrows
    <3> QED
      BY SMT, <3>1, <1>1, <1>2, <1>4
  <2> QED
    BY SMT, <2>1, <1>4
<1>7. /\ a \in Nat /\ a * div <= src /\ src < a * div + div
  BY SMT, <1>4, <1>5, QuotientBounds
<1> HIDE DEF a
<1>8. 4 * a <= 5 * t
  <2>1. ASSUME 4 * a >= 5 * t + 1 PROVE FALSE
    <3>1. (5 * t + 1) * div <= (4 * a) * div
      BY SMT, <2>1, <1>1, <1>4, <1>7, ProductGrows
    <3>2. (5 * t + 1) * div = 5 * (div * t) + div /\ (4 * a) * div = 4 * (a * div)
      BY SMT, <1>1, <1>4, <1>7
    <3>3. 2 * t <= div * t
      BY SMT, <1>1, <1>4, <1>5, ProductGrows
    <3> QED
      BY SMT, <3>1, <3>2, <3>3, <1>1, <1>2, <1>4, <1>5, <1>7
  <2> QED
    BY SMT, <2>1, <1>1, <1>7
<1>9. 4 * a + 4 >= 3 * t
  <2>1. ASSUME 4 * a + 5 <= 3 * t PROVE FALSE
    <3>1. (4 * a + 5) * div <= (3 * t) * div
      BY SMT, <2>1, <1>1, <1>4, <1>7, ProductGrows
    <3>2. (3 * t) * div = 3 * (div * t) /\ (4 * a + 5) * div = 4 * (a * div) + 5 * div
      BY SMT, <1>1, <1>4, <1>7
    <3>3. 2 * t <= div * t
      BY SMT, <1>1, <1>4, <1>5, ProductGrows
    <3> QED
      BY SMT, <3>1, <3>2, <3>3, <1>1, <1>2, <1>4, <1>5, <1>7
  <2> QED
    BY SMT, <2>1, <1>1, <1>7
<1>10. Target(ovs) = t /\ Divider(src, ovs) = div /\ Actual(src, ovs) = a
  <2>1. Target(ovs) = t
    BY DEF t, Target, Baud
  <2>2. Divider(src, ovs) = div
    BY SMT, <2>1, <1>3, <1>4, <1>5 DEF Divider, div
  <2> QED
    BY <2>1, <2>2 DEF Actual, a
<1>11. 4 * Distance(a, t) <= t + 4
  BY SMT, <1>1, <1>7, <1>8, <1>9 DEF Distance
<1> QED
  BY SMT, <1>5, <1>6, <1>4, <1>7, <1>10, <1>11

\* From 24 MHz on the product of the error does not wrap: a sink that is up is within
\* 2.1 percent of its rate, the last step of the per mille included
\* (LOG_BAUD_TOLERANCE_PM of log_uart_clock_init), and its divider has 8 bits up to
\* 2 GHz.
THEOREM UpIsInTolerance ==
  ASSUME NEW src \in Nat, src >= 24000000, src <= 2000000000,
         NEW ovs \in Oversamples, SinkUp(src, ovs)
  PROVE  /\ Distance(Actual(src, ovs), Target(ovs)) * 1000 < (Tolerance + 1) * Target(ovs)
         /\ Divider(src, ovs) \in 2 .. DividerMax
<1> DEFINE t == Target(ovs)
           off == Distance(Actual(src, ovs), Target(ovs))
<1>1. /\ Divider(src, ovs) \in 2 .. 256 /\ Actual(src, ovs) \in Nat /\ 4 * off <= t + 4
  BY SMT, QuarterOff
<1>2. t \in Nat /\ t >= 8000000 /\ t <= 16000000
  BY SMT DEF Target, Baud, Oversamples
<1>3. off \in Nat
  BY SMT, <1>1, <1>2 DEF Distance
<1>4. (off * 1000) % Word = off * 1000
  BY SMT, <1>1, <1>2, <1>3 DEF Word
<1>5. (off * 1000) \div t <= 20
  BY SMT, <1>4 DEF SinkUp, Error, Tolerance
<1> HIDE DEF t, off
<1>6. off * 1000 < ((off * 1000) \div t) * t + t
  BY SMT, <1>2, <1>3, QuotientBounds
<1>10. (off * 1000) \div t \in Nat
  BY SMT, <1>2, <1>3, QuotientBounds
<1>7. ((off * 1000) \div t) * t <= 20 * t
  BY SMT, <1>5, <1>2, <1>3, <1>10, ProductGrows
<1>8. off * 1000 < 21 * t
  BY SMT, <1>2, <1>3, <1>6, <1>7, QuotientBounds
<1> QED
  BY SMT, <1>1, <1>8 DEF Tolerance, DividerMax, t, off

LEMMA ErrorIsNat ==
  ASSUME NEW src \in Nat, src >= 24000000, src <= 2000000000, NEW ovs \in Oversamples
  PROVE  Error(src, ovs) \in Nat
<1> DEFINE t == Target(ovs)
           off == Distance(Actual(src, ovs), t)
           p == (off * 1000) % Word
<1>1. t \in Nat /\ t >= 8000000
  BY SMT DEF Target, Baud, Oversamples
<1>2. off \in Nat
  BY SMT, <1>1, QuarterOff DEF Distance
<1>3. p \in Nat
  BY SMT, <1>2 DEF Word
<1>4. Error(src, ovs) = p \div t
  BY DEF Error
<1> HIDE DEF t, off, p
<1> QED
  BY SMT, <1>1, <1>3, <1>4, QuotientBounds

LEMMA ChosenIsLeast ==
  ASSUME NEW src, NEW a, NEW b, Chosen(src, a), Chosen(src, b)
  PROVE  /\ a \in Oversamples /\ b \in Oversamples
         /\ Error(src, b) > Error(src, a) \/ (Error(src, b) = Error(src, a) /\ b >= a)
  BY Zenon DEF Chosen

\* One oversampling comes out of the search.
LEMMA OneIsChosen ==
  ASSUME NEW src \in Nat, src >= 24000000, src <= 2000000000,
         NEW a, NEW b, Chosen(src, a), Chosen(src, b)
  PROVE  a = b
<1>1. a \in Oversamples /\ b \in Oversamples
  BY SMT, ChosenIsLeast
<1>2. Error(src, b) > Error(src, a) \/ (Error(src, b) = Error(src, a) /\ b >= a)
  BY SMT, ChosenIsLeast
<1>3. Error(src, a) > Error(src, b) \/ (Error(src, a) = Error(src, b) /\ a >= b)
  BY SMT, ChosenIsLeast
<1>4. Error(src, a) \in Nat /\ Error(src, b) \in Nat
  BY SMT, <1>1, ErrorIsNat
<1> QED
  BY SMT, <1>1, <1>2, <1>3, <1>4 DEF Oversamples

\* The comment of the search: 80 MHz is exact at 8, 100 MHz is 3.8 percent off at 8 and
\* exact at 10.
THEOREM NodeClocksAreExact ==
  /\ \A ovs : SinkUp(80000000, ovs) <=> ovs = 8
  /\ Divider(80000000, 8) = 10 /\ Actual(80000000, 8) = Target(8)
  /\ \A ovs : SinkUp(100000000, ovs) <=> ovs = 10
  /\ Divider(100000000, 10) = 10 /\ Actual(100000000, 10) = Target(10)
  /\ Error(100000000, 8) = 38
<1>1. /\ Divider(80000000, 8) = 10 /\ Actual(80000000, 8) = Target(8)
      /\ Error(80000000, 8) = 0
  BY SMT DEF Divider, Actual, Target, Error, Distance, Baud, Word
<1>2. /\ Divider(100000000, 10) = 10 /\ Actual(100000000, 10) = Target(10)
      /\ Error(100000000, 10) = 0
  BY SMT DEF Divider, Actual, Target, Error, Distance, Baud, Word
<1>3. Error(100000000, 8) = 38 /\ Error(100000000, 9) = 10
  BY SMT DEF Divider, Actual, Target, Error, Distance, Baud, Word
<1>4. \A o \in Oversamples : Error(80000000, o) \in Nat /\ Error(100000000, o) \in Nat
  BY SMT, ErrorIsNat
<1>5. Chosen(80000000, 8)
  BY SMT, <1>1, <1>4 DEF Chosen, Oversamples
<1>6. Chosen(100000000, 10)
  BY SMT, <1>2, <1>3, <1>4 DEF Chosen, Oversamples
<1>7. SinkUp(80000000, 8) /\ SinkUp(100000000, 10)
  BY SMT, <1>1, <1>2, <1>5, <1>6 DEF SinkUp, Tolerance
<1>8. ASSUME NEW ovs, SinkUp(80000000, ovs) PROVE ovs = 8
  BY SMT, <1>5, <1>8, OneIsChosen DEF SinkUp
<1>9. ASSUME NEW ovs, SinkUp(100000000, ovs) PROVE ovs = 10
  BY SMT, <1>6, <1>9, OneIsChosen DEF SinkUp
<1> QED
  BY SMT, <1>1, <1>2, <1>3, <1>7, <1>8, <1>9
-----------------------------------------------------------------------------
(* The sign of life. *)

\* The last sign was logged at the time e, and none has been due since.
SignedAt(alive, e, t) ==
  /\ alive = [started |-> TRUE, last |-> TickCount(e)]
  /\ e <= t /\ t - e < AlivePeriod

\* The unsigned difference of two tick counts is the time between them, as long as
\* that is shorter than a round of the counter.
LEMMA TickDifference ==
  ASSUME NEW e \in Nat, NEW d \in Nat, d < TickMod
  PROVE  (TickCount(e + d) - TickCount(e)) % TickMod = d
  BY DEF TickCount, TickMod

\* However often the counter has wrapped, a sign is due exactly when its period is over.
THEOREM DueWhenThePeriodIsOver ==
  ASSUME NEW e \in Nat, NEW t \in Nat, e <= t, t - e < TickMod
  PROVE  AliveDue([started |-> TRUE, last |-> TickCount(e)], t) <=> t - e >= AlivePeriod
  <1>1. (TickCount(e + (t - e)) - TickCount(e)) % TickMod = t - e
    <2>1. t - e \in Nat
      OBVIOUS
    <2> QED
      BY <2>1, TickDifference
  <1>2. e + (t - e) = t
    OBVIOUS
  <1> QED
    BY <1>1, <1>2 DEF AliveDue

\* The first call after a reset logs a sign; then, with calls no more than gap apart,
\* the next sign comes within the period and one gap (health_task, heartbeat_task).
THEOREM SignsKeepComing ==
  ASSUME NEW gap \in Nat, AlivePeriod + gap < TickMod
  PROVE  /\ \A t \in Nat : AliveDue(NotStarted, t) /\ SignedAt(AliveAfter(NotStarted, t), t, t)
         /\ \A alive, e \in Nat, t \in Nat, u \in Nat :
               SignedAt(alive, e, t) /\ t <= u /\ u - t <= gap =>
                  IF AliveDue(alive, u)
                  THEN u - e < AlivePeriod + gap /\ SignedAt(AliveAfter(alive, u), u, u)
                  ELSE SignedAt(AliveAfter(alive, u), e, u)
  <1>1. ASSUME NEW t \in Nat
        PROVE  AliveDue(NotStarted, t) /\ SignedAt(AliveAfter(NotStarted, t), t, t)
    BY DEF AliveDue, AliveAfter, NotStarted, SignedAt, AlivePeriod
  <1>2. ASSUME NEW alive, NEW e \in Nat, NEW t \in Nat, NEW u \in Nat,
               SignedAt(alive, e, t), t <= u, u - t <= gap
        PROVE  IF AliveDue(alive, u)
               THEN u - e < AlivePeriod + gap /\ SignedAt(AliveAfter(alive, u), u, u)
               ELSE SignedAt(AliveAfter(alive, u), e, u)
    <2>1. e <= u /\ u - e < AlivePeriod + gap
      BY <1>2 DEF SignedAt, AlivePeriod
    <2>2. alive = [started |-> TRUE, last |-> TickCount(e)]
      BY <1>2 DEF SignedAt
    <2>3. AliveDue(alive, u) <=> u - e >= AlivePeriod
      BY <2>1, <2>2, DueWhenThePeriodIsOver DEF TickMod, AlivePeriod
    <2>4. CASE AliveDue(alive, u)
      BY <2>1, <2>4 DEF AliveAfter, SignedAt, AlivePeriod
    <2>5. CASE ~AliveDue(alive, u)
      BY <2>1, <2>2, <2>3, <2>5 DEF AliveAfter, SignedAt, AlivePeriod
    <2> QED
      BY <2>4, <2>5
  <1> QED
    BY <1>1, <1>2
=============================================================================
