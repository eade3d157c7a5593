------------------------------ MODULE SpanBatch ------------------------------
(***************************************************************************)
(* BatchSpanProcessor of src/observability/batch-span-processor.ts.  A flush *)
(* never awaits, so it runs in one go: the races against a timer in          *)
(* forceFlush() and shutdown() are always won by it.  What can go wrong is   *)
(* the exporter: it may throw at any span, and it may itself produce spans,  *)
(* which go to the queue that is being emptied.                              *)
(***************************************************************************)
EXTENDS Integers, FiniteSets, SequencesExt

CONSTANTS
  Spans,          \* bound: the spans that end, numbered
  QueueMax,       \* maxQueueSize
  BatchMax        \* maxExportBatchSize

ASSUME SpanAssumption == Spans \in Nat /\ QueueMax \in Nat /\ BatchMax \in Nat \ {0}

VARIABLES
  spans         \* [queue, batch, dropped, timer, flush, next, exported, lost]

spanVars == spans

SpanInit ==
  spans = [queue |-> <<>>,     \* _queue
           batch |-> <<>>,     \* what the flush under way took and has not exported
           dropped |-> 0,      \* _spansDropped
           timer |-> TRUE,     \* _timer # null
           flush |-> "none",   \* who called the flush under way
           answer |-> "none",  \* how the last forceFlush() or shutdown() ended
           next |-> 1,         \* the number of the next span
           exported |-> <<>>,  \* history: what the exporter was given, in order
           lost |-> {},        \* history: taken or queued, and given up
           refused |-> {}]     \* history: dropped on arrival

\* onSpan, between two flushes or from inside the exporter.
OnSpan ==
  /\ spans.next <= Spans
  /\ spans' = IF Len(spans.queue) >= QueueMax
       THEN [spans EXCEPT !.dropped = @ + 1, !.next = @ + 1,
                          !.refused = @ \cup {spans.next}]
       ELSE [spans EXCEPT !.queue = Append(@, spans.next), !.next = @ + 1]

\* The timer fires, or a caller asks.
FlushStarts ==
  /\ spans.flush = "none"
  /\ \E who \in {"timer", "force", "shutdown"} :
       /\ who = "timer" => spans.timer
       /\ spans' = [spans EXCEPT !.flush = who,
                                 !.timer = @ /\ who # "shutdown"]

\* mutant: the batch stays in the queue until it is exported.
CopiesBatch ==
  /\ spans.flush # "none" /\ spans.batch = <<>> /\ spans.queue # <<>>
  /\ spans' = [spans EXCEPT !.batch = SubSeq(spans.queue, 1, 1)]

\* _flush takes the next batch out of the queue before it exports any of it.
TakeBatch ==
  /\ spans.flush # "none" /\ spans.batch = <<>> /\ spans.queue # <<>>
  /\ LET n == IF Len(spans.queue) < BatchMax THEN Len(spans.queue) ELSE BatchMax IN
       spans' = [spans EXCEPT !.batch = SubSeq(spans.queue, 1, n),
                              !.queue = SubSeq(spans.queue, n + 1, Len(spans.queue))]

ExportSpan ==
  /\ spans.batch # <<>>
  /\ spans' = [spans EXCEPT !.batch = Tail(@), !.exported = Append(@, Head(spans.batch))]

\* The rest of the batch is gone.  shutdown() catches that and empties the
\* queue, forceFlush() rejects, the rejection of the timer's flush is nobody's.
ExporterThrows ==
  /\ spans.batch # <<>>
  /\ spans' = [spans EXCEPT
       !.lost = @ \cup ToSet(spans.batch)
                  \cup (IF spans.flush = "shutdown" THEN ToSet(spans.queue) ELSE {}),
       !.batch = <<>>,
       !.queue = IF spans.flush = "shutdown" THEN <<>> ELSE @,
       !.flush = "none",
       !.answer = CASE spans.flush = "force" -> "rejected"
                    [] spans.flush = "shutdown" -> "closed"
                    [] OTHER -> @]

FlushEndsEmpty ==
  /\ spans.flush # "none" /\ spans.batch = <<>> /\ spans.queue = <<>>
  /\ spans' = [spans EXCEPT !.flush = "none",
       !.answer = CASE spans.flush = "force" -> "true"
                    [] spans.flush = "shutdown" -> "closed"
                    [] OTHER -> @]

SpanNext ==
  OnSpan \/ FlushStarts \/ TakeBatch \/ ExportSpan \/ ExporterThrows \/ FlushEndsEmpty

SpanSpec == SpanInit /\ [][SpanNext]_spanVars

----------------------------------------------------------------------------
(* Properties *)

\* Every span that ended is in exactly one place: exported once, still in the
\* queue or in a batch, refused and counted, or lost to an exporter that threw;
\* spans are exported in the order they ended; the queue respects its limit,
\* also while the exporter feeds it.
SpanFate ==
  LET placed == spans.exported \o spans.batch \o spans.queue IN
  /\ IsInjective(placed) /\ \A i, j \in DOMAIN placed : i < j => placed[i] < placed[j]
  /\ 1..(spans.next - 1) = ToSet(placed) \cup spans.lost \cup spans.refused
  /\ ToSet(placed) \cap (spans.lost \cup spans.refused) = {}
  /\ spans.lost \cap spans.refused = {}
  /\ spans.dropped = Cardinality(spans.refused)
  /\ Len(spans.queue) <= QueueMax
=============================================================================
