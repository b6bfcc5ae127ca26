------------------------------ MODULE LogView ------------------------------
(***************************************************************************)
(* The host's end of the log: the decoder (host_tools/lib/log_decode.py)   *)
(* that reports gaps in the numbers of the records, and the view           *)
(* (logview.py) that folds the accepts of one CAN identifier into a line.  *)
(*                                                                         *)
(* The link hands over a record whole or not at all: a record with a bad   *)
(* CRC is passed over byte by byte and the next one is found.  Only the    *)
(* application core produces (log_types.h).  A record refused by a full    *)
(* ring takes no number: LogRing has those, here it never existed.         *)
(*                                                                         *)
(* log_evt reads s_seq before it queues and writes it after: calls that    *)
(* preempt each other there queue records whose numbers repeat or jump.    *)
(* LogRing has those steps; here such a call takes and leaves any number.  *)
(***************************************************************************)
EXTENDS Integers

CONSTANTS
  CanId,   \* the identifiers of secured frames
  FoldMs   \* --fold-ms

SeqMod == 64
Number == 0 .. SeqMod - 1
None == -1

VARIABLES
  s_seq,     \* the number of the next record
  last,      \* the decoder: _last_seq of the core
  lost,      \* the decoder: lost
  pending,   \* the view: the summary of each identifier
  start,     \* the view: _window_start
  lastTs,    \* the view: _last_ts
  life,      \* history: restarts of the target
  missed,    \* history: numbers of this life passed over since the last record heard
  cut,       \* history: a restart whose boot record was lost, nothing heard since
  misled,    \* history: a record arrived after such a restart
  unseen,    \* history: and by chance it had the number that was due
  gone,      \* history: all records lost on the way
  overlap,   \* history: calls of log_evt have preempted each other
  due,       \* history: the number after that of the last record queued
  displaced, \* history: numbers passed over by records that were not given the one due
  hidden,    \* history: passed over before a restart, or before the first record heard
  wrapped,   \* history: passed over, and left out of a gap as a multiple of 64
  accepted,  \* history: the accepts that arrived, by identifier
  shown,     \* history: the accepts of the summaries printed
  mixed      \* history: a summary has accepts of two lives

decoder == <<last, lost>>
view == <<pending, start, lastTs>>
numbers == <<s_seq, overlap, due, displaced>>
truth == <<life, missed, cut, misled, unseen, gone, hidden, wrapped>>
folded == <<accepted, shown, mixed>>
vars == <<numbers, decoder, view, truth, folded>>

NoSummary == [count |-> 0, first |-> 0, last |-> 0, life |-> 0]

Init ==
  /\ s_seq = 0 /\ overlap = FALSE /\ due = 0 /\ displaced = 0
  /\ last = None /\ lost = 0
  /\ pending = [id \in CanId |-> NoSummary] /\ start = None /\ lastTs = None
  /\ life = 0 /\ missed = 0 /\ cut = FALSE /\ misled = FALSE /\ unseen = FALSE
  /\ gone = 0 /\ hidden = 0 /\ wrapped = 0
  /\ accepted = [id \in CanId |-> 0] /\ shown = [id \in CanId |-> 0] /\ mixed = FALSE

-----------------------------------------------------------------------------
(* The view. *)

Empty == [id \in CanId |-> NoSummary]

\* Every pending summary is printed.
Printed == [id \in CanId |-> shown[id] + pending[id].count]

FlushView ==
  /\ pending' = Empty /\ start' = None
  /\ shown' = Printed

\* AcceptSummary.add, for a summary that may have to be opened.
Added(summary, ts, of) ==
  IF summary.count = 0
  THEN [count |-> 1, first |-> ts, last |-> ts, life |-> of]
  ELSE [count |-> summary.count + 1, first |-> summary.first, last |-> ts, life |-> summary.life]

\* What makes the view print first: a gap or a boot record, time that goes back, the
\* end of the window.
Flushes(cause, ts) ==
  \/ cause
  \/ lastTs # None /\ ts < lastTs
  \/ start # None /\ ts - start >= FoldMs

\* A record that is printed as it arrives.
FoldOther(cause, ts) ==
  /\ lastTs' = ts
  /\ IF Flushes(cause, ts) THEN FlushView ELSE UNCHANGED <<pending, start, shown>>
  /\ UNCHANGED <<accepted, mixed>>

FoldAccept(id, ts, cause) ==
  LET kept == IF Flushes(cause, ts) THEN Empty ELSE pending
      opened == IF Flushes(cause, ts) \/ start = None THEN ts ELSE start
  IN  /\ lastTs' = ts
      /\ shown' = IF Flushes(cause, ts) THEN Printed ELSE shown
      /\ start' = opened
      /\ pending' = [kept EXCEPT ![id] = Added(@, ts, life)]
      /\ accepted' = [accepted EXCEPT ![id] = @ + 1]
      /\ mixed' = (mixed \/ (kept[id].count > 0 /\ kept[id].life # life))

-----------------------------------------------------------------------------
(* The decoder. *)

\* The records a gap reports, between the one before and this one.
Missing(n) == IF last = None THEN 0 ELSE (n - last - 1) % SeqMod

Gap(n) == Missing(n) > 0

Passed(n) == (n - due) % SeqMod

\* A record is queued with the number n.
Numbered(n) ==
  /\ \/ n = s_seq /\ s_seq' = (s_seq + 1) % SeqMod /\ UNCHANGED overlap
     \/ overlap' = TRUE /\ s_seq' \in Number
  /\ due' = (n + 1) % SeqMod
  /\ displaced' = displaced + Passed(n)

\* A record of the running image arrives.
Arrives(n) ==
  /\ Numbered(n)
  /\ last' = n
  /\ lost' = lost + Missing(n)
  /\ missed' = 0 /\ cut' = FALSE
  /\ misled' = (misled \/ cut)
  /\ unseen' = (unseen \/ (cut /\ Missing(n) = 0))
  /\ IF last = None
     THEN hidden' = hidden + missed + Passed(n) /\ UNCHANGED wrapped
     ELSE wrapped' = wrapped + (missed + Passed(n) - Missing(n)) /\ UNCHANGED hidden
  /\ UNCHANGED <<life, gone>>

Accept == \E n \in Number, id \in CanId, ts \in Nat : Arrives(n) /\ FoldAccept(id, ts, Gap(n))
Other == \E n \in Number, ts \in Nat : Arrives(n) /\ FoldOther(Gap(n), ts)

\* The record is damaged, or the host does not listen yet.
Lose == \E n \in Number :
  /\ Numbered(n)
  /\ missed' = missed + Passed(n) + 1 /\ gone' = gone + 1
  /\ UNCHANGED <<decoder, view, life, cut, misled, unseen, hidden, wrapped, folded>>

\* An image starts: log_init puts the number back to 0 and the boot record is the first.
Restart ==
  /\ s_seq' = 1 /\ due' = 1
  /\ life' = life + 1
  /\ UNCHANGED <<overlap, displaced>>

\* For the decoder a boot record has nothing before it.
BootArrives ==
  /\ Restart
  /\ last' = 0 /\ UNCHANGED lost
  /\ missed' = 0 /\ cut' = FALSE
  /\ hidden' = hidden + missed
  /\ \E ts \in Nat : FoldOther(TRUE, ts)
  /\ UNCHANGED <<misled, unseen, gone, wrapped>>

BootLost ==
  /\ Restart
  /\ missed' = 1 /\ cut' = (last # None)
  /\ gone' = gone + 1 /\ hidden' = hidden + missed
  /\ UNCHANGED <<decoder, view, misled, unseen, wrapped, folded>>

\* A banner, or any other run of text; the end of a capture.
Text ==
  /\ FlushView
  /\ UNCHANGED <<numbers, decoder, lastTs, truth, accepted, mixed>>

Next == Accept \/ Other \/ Lose \/ BootArrives \/ BootLost \/ Text

Spec == Init /\ [][Next]_vars

-----------------------------------------------------------------------------
(* Properties. *)

\* The gaps account for every record that was lost in the life of an image and, when
\* calls of log_evt preempted each other, for every number passed over in the queue
\* (63 for a number used twice), up to multiples of 64, as long as no record was heard
\* after a restart whose boot record was lost (Decoder._emit, log_evt, the 6 bits of
\* log_types.h).
GapsAreLosses ==
  ~misled => /\ gone + displaced = lost + hidden + missed + wrapped
             /\ wrapped >= 0 /\ wrapped % SeqMod = 0
             /\ ~overlap => displaced = 0

\* Folding hides no accept: each is in the summary that waits or in one that was printed
\* (AcceptFolder.feed).
NoAcceptIsHidden == \A id \in CanId : accepted[id] = shown[id] + pending[id].count

\* A summary is of one stretch of time shorter than the window, forwards.
SummaryIsOfOneWindow ==
  \A id \in CanId : pending[id].count > 0 =>
    /\ start # None /\ lastTs # None
    /\ start <= pending[id].first /\ pending[id].first <= pending[id].last
    /\ pending[id].last <= lastTs /\ pending[id].last - start < FoldMs

\* No summary straddles a restart (the comment of AcceptFolder), unless the boot record
\* was lost and the next record heard had the very number that was due.
NoSummaryStraddles == mixed => unseen
=============================================================================
