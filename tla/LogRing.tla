------------------------------- MODULE LogRing -------------------------------
(***************************************************************************)
(* The logging channel of shared/log/src/log.c: tasks that preempt each    *)
(* other produce records into one byte ring, one thread drains it into the *)
(* UART, and the bootloader flushes it before it jumps.                    *)
(*                                                                         *)
(* Only the enqueue is masked.  The sequence number and the drop counters  *)
(* are read and written outside the mask, one memory access a step here.   *)
(* The application image (either node) has several producers and a drain   *)
(* task; the bootloader does everything in one thread and drains by        *)
(* fbl_log_service and log_flush.                                          *)
(*                                                                         *)
(* A record is two units, so that drains and the end of the ring cut it;   *)
(* the banner is one, so that records are not aligned in the ring.         *)
(***************************************************************************)
EXTENDS Integers, Sequences, FiniteSets

CONSTANTS
  Producer,  \* the tasks that call log_evt
  Drainer,   \* the thread that calls log_drain
  Prio,      \* their priorities; equal ones are time-sliced
  Cap,       \* LOG_RING_CAP in units
  Wrap,      \* 2^32 in the code: head and tail are uint32_t
  LogSeqMod, \* LOG_SEQ_MASK + 1
  DrainMax,  \* LOG_TASK_MAX_BYTES, FBL_LOG_SERVICE_MAX_BYTES
  FifoCap,   \* the transmit FIFO of the UART
  MaxStall,  \* LOG_FLUSH_MAX_STALL
  MaxCalls   \* bound on the calls of log_evt

ASSUME LogAssumption ==
  /\ Drainer \notin Producer
  /\ Prio \in [Producer \cup {Drainer} -> Nat]
  /\ {Cap, Wrap, LogSeqMod, DrainMax, FifoCap, MaxStall} \subseteq Nat \ {0}
  /\ MaxCalls \in Nat
  /\ Wrap % Cap = 0 /\ Wrap > Cap   \* Cap is a power of two
  /\ Cap >= 3                       \* and holds what the start queues

Thread == Producer \cup {Drainer}
Slot   == 0..Cap - 1
Seq6   == 0..LogSeqMod - 1

\* arg: the call that produced an event; the losses an overflow record reports.
Record == [kind : {"event", "overflow"}, seq : Seq6, arg : Nat]
Unit   == [rec : Record, part : 1..2]
       \cup [rec : {[kind |-> "text", seq |-> 0, arg |-> 0]}, part : {1}]

NewRecord(k, s, a) == [kind |-> k, seq |-> s, arg |-> a]
Encode(r) == <<[rec |-> r, part |-> 1], [rec |-> r, part |-> 2]>>
Banner    == <<[rec |-> [kind |-> "text", seq |-> 0, arg |-> 0], part |-> 1]>>

VARIABLES
  image,     \* "app" or "fbl"
  ready,     \* s_sink_ready, fixed at start-up
  ring, head, tail,
  cell,      \* s_seq, s_dropped, s_pending_overflow
  producer,  \* where each producer is in log_evt, and its locals
  drain,     \* the same of log_drain
  flush,     \* the same of log_flush
  fifo,      \* units in the transmit FIFO
  sink,      \* what log_port_tx accepted last
  calls,     \* calls of log_evt so far
  refused,   \* history: records that found no room
  told,      \* history: the losses reported by the overflow records queued
  next,      \* history: the number after that of the last record queued
  nested     \* history: some log_evt began inside another

logVars == <<image, ready, ring, head, tail, cell, producer, drain, flush, fifo, sink,
            calls, refused, told, next, nested>>
ringVars == <<ring, head, tail>>
history  == <<refused, told, next, nested>>

IdleProducer == [pc |-> "idle", call |-> 0, seq |-> 0, over |-> FALSE, lost |-> 0, old |-> 0]
IdleDrain    == [pc |-> "off", max |-> 0, left |-> 0, any |-> FALSE, used |-> 0,
                 chunk |-> 0, sent |-> 0, result |-> "IDLE"]
IdleFlush    == [pc |-> "none", stalled |-> 0, drained |-> FALSE, progress |-> FALSE]

Flushing == flush.pc \in {"drain", "wait", "check"}

\* Tasks that wait do not count; a thread inside a call of the log does.
Busy(t) == IF t = Drainer THEN drain.pc # "off" \/ Flushing ELSE producer[t].pc # "idle"

\* A task runs unless one of higher priority does; the bootloader has no tasks.
MayRun(t) == \A u \in Thread \ {t} : Busy(u) => image = "app" /\ Prio[u] <= Prio[t]

Least(a, b) == IF a < b THEN a ELSE b
Used == (head - tail) % Wrap

-----------------------------------------------------------------------------
(* Producers. *)

\* log_ring_copy_in: up to the end of the ring, and the rest from its start.
CopyIn_RestartsMessage(r, start, s) ==
  LET idx   == start % Cap
      first == Least(Len(s), Cap - idx)
  IN [i \in Slot |-> CASE i >= idx /\ i < idx + first -> s[i - idx + 1]
                       [] i < Len(s) - first          -> s[i + 1]
                       [] OTHER                       -> r[i]]
CopyIn(r, start, s) ==
  LET idx   == start % Cap
      first == Least(Len(s), Cap - idx)
  IN [i \in Slot |-> CASE i >= idx /\ i < idx + first -> s[i - idx + 1]
                       [] i < Len(s) - first          -> s[first + i + 1]
                       [] OTHER                       -> r[i]]

Room(n) == Cap - Used >= n

\* log_try_enqueue, with the interrupts masked.
TryEnqueue(first, second) ==
  /\ Room(Len(first) + Len(second))
  /\ ring' = CopyIn(CopyIn(ring, head, first), (head + Len(first)) % Wrap, second)
  /\ head' = (head + Len(first) + Len(second)) % Wrap

Goes(p, at, to) ==
  /\ producer[p].pc = at
  /\ MayRun(p)
  /\ producer' = [producer EXCEPT ![p] = IF to = "idle" THEN IdleProducer ELSE [@ EXCEPT !.pc = to]]

\* log_evt begins: the clock and s_seq are read.
Begin(p) ==
  /\ producer[p].pc = "idle"
  /\ MayRun(p)
  /\ calls < MaxCalls
  /\ calls' = calls + 1
  /\ producer' = [producer EXCEPT ![p] =
       [IdleProducer EXCEPT !.pc = "ask", !.call = calls + 1, !.seq = cell.seq]]
  /\ nested' = (nested \/ \E q \in Producer : producer[q].pc # "idle")
  /\ UNCHANGED <<image, ready, ringVars, cell, drain, flush, fifo, sink, refused, told, next>>

\* Is a loss to be reported, and then how many?
Ask(p) ==
  /\ IF cell.pending # 0 THEN Goes(p, "ask", "count") ELSE Goes(p, "ask", "put")
  /\ UNCHANGED <<image, ready, ringVars, cell, drain, flush, fifo, sink, calls, history>>

CountLosses(p) ==
  /\ producer[p].pc = "count"
  /\ MayRun(p)
  /\ producer' = [producer EXCEPT ![p].pc = "put", ![p].over = TRUE, ![p].lost = cell.pending]
  /\ UNCHANGED <<image, ready, ringVars, cell, drain, flush, fifo, sink, calls, history>>

EventSeq(me) == (me.seq + IF me.over THEN 1 ELSE 0) % LogSeqMod
Report(me) == IF me.over THEN Encode(NewRecord("overflow", me.seq, me.lost)) ELSE <<>>
Event(me)  == Encode(NewRecord("event", EventSeq(me), me.call))

\* The record is queued, after the report of the losses before it if there are any.
Put(p) == LET me == producer[p] IN
  /\ Goes(p, "put", "put2")
  /\ TryEnqueue(Report(me), Event(me))
  /\ told' = told + me.lost
  /\ next' = (EventSeq(me) + 1) % LogSeqMod
  /\ UNCHANGED <<image, ready, tail, cell, drain, flush, fifo, sink, calls, refused, nested>>

Refuse(p) == LET me == producer[p] IN
  /\ Goes(p, "put", "drop")
  /\ ~Room(Len(Report(me)) + Len(Event(me)))
  /\ refused' = refused + 1
  /\ UNCHANGED <<image, ready, ringVars, cell, drain, flush, fifo, sink, calls, told, next, nested>>

Load(p, at, c, to) ==
  /\ producer[p].pc = at
  /\ MayRun(p)
  /\ producer' = [producer EXCEPT ![p].pc = to, ![p].old = cell[c]]
  /\ UNCHANGED cell

Store(p, at, c, v, to) ==
  /\ Goes(p, at, to)
  /\ cell' = [cell EXCEPT ![c] = v]

\* log_note_drop: two increments of two accesses each.
NoteDrop(p) == LET me == producer[p] IN
  /\ \/ Load(p, "drop", "dropped", "drop2")
     \/ Store(p, "drop2", "dropped", me.old + 1, "note")
     \/ Load(p, "note", "pending", "note2")
     \/ Store(p, "note2", "pending", me.old + 1, "idle")
  /\ UNCHANGED <<image, ready, ringVars, drain, flush, fifo, sink, calls, history>>

\* s_seq moves on by what was queued, and the losses count as reported.
Queued_EventOnly(me) == 1
Queued(me) == IF me.over THEN 2 ELSE 1
Reported_NotCleared(me) == "idle"
Reported(me) == IF me.over THEN "clear" ELSE "idle"

MoveOn(p) == LET me == producer[p] IN
  /\ \/ Load(p, "put2", "seq", "seq2")
     \/ Store(p, "seq2", "seq", (me.old + Queued(me)) % LogSeqMod, Reported(me))
     \/ Store(p, "clear", "pending", 0, "idle")
  /\ UNCHANGED <<image, ready, ringVars, drain, flush, fifo, sink, calls, history>>

Produce(p) ==
  Begin(p) \/ Ask(p) \/ CountLosses(p) \/ Put(p) \/ Refuse(p) \/ NoteDrop(p) \/ MoveOn(p)

-----------------------------------------------------------------------------
(* The drain. *)

StartDrain(max) == [IdleDrain EXCEPT !.pc = "look", !.max = max, !.left = max]

\* log_drain returns.  The log task calls it again at once after a success.
Return(result) ==
  drain' = IF result = "SENT" /\ image = "app"
           THEN StartDrain(drain.max)
           ELSE [IdleDrain EXCEPT !.result = result, !.any = drain.any]

\* The log task wakes, or the loop of the bootloader calls fbl_log_service.
Service ==
  /\ drain.pc = "off" /\ ~Flushing
  /\ MayRun(Drainer)
  /\ drain' = StartDrain(DrainMax)
  /\ UNCHANGED <<image, ready, ringVars, cell, producer, flush, fifo, sink, calls, history>>

Look ==
  /\ drain.pc = "look"
  /\ MayRun(Drainer)
  /\ IF Used = 0 \/ (drain.max # 0 /\ drain.left = 0)
     THEN Return(IF drain.any THEN "SENT" ELSE "IDLE")
     ELSE IF ~ready THEN Return("BLOCKED")
     ELSE drain' = [drain EXCEPT !.pc = "send", !.used = Used]
  /\ UNCHANGED <<image, ready, ringVars, cell, producer, flush, fifo, sink, calls, history>>

\* What one piece may be: not past the end of the ring, not beyond the limit.
Chunk_ShortOfEnd ==
  LET contiguous == Least(drain.used, Cap - (tail % Cap) - 1)
  IN IF drain.max = 0 THEN contiguous ELSE Least(contiguous, drain.left)
Chunk ==
  LET contiguous == Least(drain.used, Cap - (tail % Cap))
  IN IF drain.max = 0 THEN contiguous ELSE Least(contiguous, drain.left)

\* log_port_tx: the FIFO takes what it has room for.
Send == LET sent == Least(Chunk, FifoCap - fifo) IN
  /\ drain.pc = "send"
  /\ MayRun(Drainer)
  /\ IF sent = 0
     THEN Return("BLOCKED") /\ UNCHANGED <<sink, fifo>>
     ELSE /\ drain' = [drain EXCEPT !.pc = "advance", !.chunk = Chunk, !.sent = sent]
          /\ sink' = [k \in 1..sent |-> ring[(tail % Cap) + k - 1]]
          /\ fifo' = fifo + sent
  /\ UNCHANGED <<image, ready, ringVars, cell, producer, flush, calls, history>>

\* The tail follows; a piece the FIFO cut short ends the call.
Advance ==
  /\ drain.pc = "advance"
  /\ MayRun(Drainer)
  /\ tail' = (tail + drain.sent) % Wrap
  /\ drain' = IF drain.sent < drain.chunk
              THEN [IdleDrain EXCEPT !.result = "BLOCKED", !.any = TRUE]
              ELSE [drain EXCEPT !.pc = "look", !.any = TRUE, !.used = 0, !.chunk = 0, !.sent = 0,
                                 !.left = IF drain.max = 0 THEN 0 ELSE @ - drain.sent]
  /\ UNCHANGED <<image, ready, ring, head, cell, producer, flush, fifo, sink, calls, history>>

Drain == Look \/ Send \/ Advance

\* The UART puts a unit on the wire.
Shift ==
  /\ fifo > 0
  /\ fifo' = fifo - 1
  /\ UNCHANGED <<image, ready, ringVars, cell, producer, drain, flush, sink, calls, history>>

-----------------------------------------------------------------------------
(* log_flush, in the bootloader. *)

BeginFlush ==
  /\ image = "fbl"
  /\ ~Flushing /\ drain.pc = "off"
  /\ MayRun(Drainer)
  /\ flush' = [IdleFlush EXCEPT !.pc = "drain"]
  /\ UNCHANGED <<image, ready, ringVars, cell, producer, drain, fifo, sink, calls, history>>

\* Phase 1: log_drain(0) until the ring is empty.
FlushDrain ==
  /\ flush.pc = "drain"
  /\ IF flush.drained
     THEN flush' = [flush EXCEPT !.pc = "check", !.progress = FALSE] /\ UNCHANGED drain
     ELSE flush' = [flush EXCEPT !.pc = "wait"] /\ drain' = StartDrain(0)
  /\ UNCHANGED <<image, ready, ringVars, cell, producer, fifo, sink, calls, history>>

FlushDrained ==
  /\ flush.pc = "wait" /\ drain.pc = "off"
  /\ flush' = [flush EXCEPT !.pc = "check", !.drained = (drain.result = "IDLE"),
                            !.progress = (drain.result # "BLOCKED")]
  /\ UNCHANGED <<image, ready, ringVars, cell, producer, drain, fifo, sink, calls, history>>

SinkIdle_Ignored == TRUE
SinkIdle == ~ready \/ fifo = 0

Stalled_Unbounded(progress, n) == IF progress THEN 0 ELSE Least(n + 1, MaxStall - 1)
Stalled(progress, n) == IF progress THEN 0 ELSE n + 1

\* Phase 2: the UART is idle, or too many rounds without progress, or the time is
\* up; the clock may also stand still.
FlushCheck == LET stalled == Stalled(flush.progress, flush.stalled) IN
  /\ flush.pc = "check"
  /\ IF flush.drained /\ SinkIdle
     THEN flush' = [flush EXCEPT !.pc = "flushed"]
     ELSE \/ flush' = [flush EXCEPT !.pc = "gave up", !.stalled = stalled]
          \/ stalled < MaxStall /\ flush' = [flush EXCEPT !.pc = "drain", !.stalled = stalled]
  /\ UNCHANGED <<image, ready, ringVars, cell, producer, drain, fifo, sink, calls, history>>

Flush == BeginFlush \/ FlushDrain \/ FlushDrained \/ FlushCheck

-----------------------------------------------------------------------------
\* The sink is up when a divider gives the baud rate and the UART accepts it;
\* log_init runs only then.
SinkReady(clock, uart) == clock /\ uart

\* What an image queues before its first task: log_init the banner, and log_port_init
\* of an application the record of its start (fbl_log_init queues none).
BootRecord   == Encode(NewRecord("event", 0, 0))
AppStart(up) == IF up THEN Banner \o BootRecord ELSE <<>>
FblStart(up) == IF up THEN Banner ELSE <<>>

\* log_init: an empty ring and counters at zero, then what the start queues.
LogInit ==
  /\ image \in {"app", "fbl"}
  /\ \E clock, uart \in BOOLEAN : ready = SinkReady(clock, uart)
  /\ LET start == IF image = "app" THEN AppStart(ready) ELSE FblStart(ready)
         first == IF start = AppStart(TRUE) THEN 1 % LogSeqMod ELSE 0
     IN  /\ head = Len(start)
         /\ ring = [i \in Slot |-> IF i < Len(start) THEN start[i + 1] ELSE Banner[1]]
         /\ cell = [seq |-> first, dropped |-> 0, pending |-> 0]
         /\ next = first
  /\ tail = 0
  /\ producer = [p \in Producer |-> IdleProducer]
  /\ drain = IdleDrain /\ flush = IdleFlush
  /\ fifo = 0 /\ sink = <<>>
  /\ calls = 0 /\ refused = 0 /\ told = 0 /\ nested = FALSE

LogNext == (\E p \in Producer : Produce(p)) \/ Service \/ Drain \/ Shift \/ Flush

\* Threads go on; the log task wakes again and again.  Neither the UART nor the
\* clock is trusted.
Fairness ==
  /\ \A p \in Producer :
       WF_logVars(Ask(p) \/ CountLosses(p) \/ Put(p) \/ Refuse(p) \/ NoteDrop(p) \/ MoveOn(p))
  /\ WF_logVars(Drain)
  /\ WF_logVars(image = "app" /\ Service)
  /\ WF_logVars(FlushDrain \/ FlushDrained \/ FlushCheck)

LogSpec == LogInit /\ [][LogNext]_logVars /\ Fairness

-----------------------------------------------------------------------------
(* Properties. *)

TypeOK ==
  /\ image \in {"app", "fbl"} /\ ready \in BOOLEAN
  /\ ring \in [Slot -> Unit] /\ head \in 0..Wrap - 1 /\ tail \in 0..Wrap - 1
  /\ Used <= Cap
  /\ cell \in [seq : Seq6, dropped : Nat, pending : Nat]
  /\ producer \in [Producer -> [pc : {"idle", "ask", "count", "put", "put2", "seq2", "clear",
                                      "drop", "drop2", "note", "note2"},
                                call : Nat, seq : Seq6, over : BOOLEAN, lost : Nat, old : Nat]]
  /\ drain \in [pc : {"off", "look", "send", "advance"}, max : {0, DrainMax}, left : 0..DrainMax,
                any : BOOLEAN, used : 0..Cap, chunk : 0..Cap, sent : 0..Cap,
                result : {"IDLE", "SENT", "BLOCKED"}]
  /\ flush \in [pc : {"none", "drain", "wait", "check", "flushed", "gave up"},
                stalled : 0..MaxStall, drained : BOOLEAN, progress : BOOLEAN]
  /\ fifo \in 0..FifoCap

\* The ring implements a byte queue: whole records in order, the newest dropped, the
\* sink handed each byte once, whatever is queued between the reading of head and the
\* writing of tail, at the end of the ring and when head and tail wrap (log_try_enqueue,
\* log_drain).
Contents == [k \in 1..Used |-> ring[(tail + k - 1) % Cap]]
Unsent   == SubSeq(Contents, drain.sent + 1, Used)
IsMessage(m) ==
  \/ m = Encode(m[1].rec) /\ m[1].rec \in Record /\ m[1].rec.kind = "event"
  \/ /\ Len(m) = 4 /\ m = Encode(m[1].rec) \o Encode(m[3].rec)
     /\ {m[1].rec, m[3].rec} \subseteq Record
     /\ m[1].rec.kind = "overflow" /\ m[3].rec.kind = "event"
     /\ m[3].rec.seq = (m[1].rec.seq + 1) % LogSeqMod
Queue == INSTANCE ByteQueue WITH
  queue <- Unsent, handed <- sink,
  Start <- {<<>>, Banner, Banner \o BootRecord}
ImplementsQueue == Queue!Spec

\* A drop leaves a count (log_dropped) even when tasks preempt each other inside
\* log_evt, and when they do not every drop is reported once or still pending.
Quiescent == \A p \in Producer : producer[p].pc = "idle"
DropsAreAccounted == Quiescent =>
  /\ refused > 0 => cell.dropped > 0
  /\ ~nested => cell.dropped = refused /\ told + cell.pending = refused

\* The next record continues the numbers of the stream, unless calls have nested: the
\* host takes any other number for lost records (log_evt, port_log.c of both nodes).
NumbersContinue == Quiescent /\ ~nested => cell.seq = next

\* log_flush returns true only when every byte is on the wire: the jump that follows
\* resets the FIFO (log_port_sink_idle).
FlushedIsOnTheWire ==
  [][flush.pc = "check" /\ flush'.pc = "flushed" => Used = 0 /\ (ready => fifo = 0)]_logVars

\* log_flush returns, also with a UART that takes nothing and a clock that stands
\* still (LOG_FLUSH_MAX_STALL).
FlushReturns == Flushing ~> ~Flushing

\* In the application, as long as the UART goes on sending, the log task empties the ring.
BacklogDrains == (image = "app" /\ ready /\ []<>(fifo = 0)) => []<>(Used = 0)
=============================================================================
