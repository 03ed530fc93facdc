------------------------------ MODULE LogStore ------------------------------
(***************************************************************************)
(* The log store (internal/logstore): handlers capture records into a      *)
(* bounded queue, one writer batches them into SQLite under a size limit,  *)
(* Close drains the queue within a deadline.  A record is its number in    *)
(* capture order; a row costs one unit of the room the main file offers.   *)
(***************************************************************************)
EXTENDS Naturals, Sequences, FiniteSets, SequencesExt

CONSTANTS
  Buffer,      \* capacity of the queue
  batchLimit,  \* rows per batch
  Room,        \* rows that fit in three quarters of mainLimit
  MaxRecords   \* bound: records captured in a behaviour

ASSUME LogAssumption ==
  /\ Buffer \in Nat \ {0} /\ batchLimit \in Nat \ {0}
  /\ Room \in Nat /\ Room >= batchLimit /\ MaxRecords \in Nat

VARIABLES
  queue, closed,     \* the channel, and whether Close closed it
  canceled,          \* s.ctx
  batch, hand,       \* run's batch; a record received while a flush is due
  logPC, resume,     \* where run is; where it goes on after a flush
  table,             \* rows on disk, oldest first
  metrics,           \* counters
  closer,            \* the caller of Close
  captured,          \* number of records captured so far
  opened, accepted, landed,  \* history: captured at Open, records queued, committed since
  dropped            \* history: records of batches that failed before their commit

logVars == <<queue, closed, canceled, batch, hand, logPC, resume, table, metrics,
             closer, captured, opened, accepted, landed, dropped>>
writer == <<batch, hand, logPC, resume>>

Zero == [written |-> 0, removed |-> 0, failures |-> 0, overflow |-> 0,
         oversized |-> 0, lost |-> 0, rows |-> 0]
NoRecord == 0

-----------------------------------------------------------------------------
\* enqueue under the read lock: refused after Close, the newest is dropped when
\* the queue is full.
Enqueue(r) ==
  \/ /\ closed
     /\ metrics' = [metrics EXCEPT !.lost = @ + 1]
     /\ UNCHANGED <<queue, accepted>>
  \/ /\ ~closed /\ Len(queue) = Buffer
     /\ metrics' = [metrics EXCEPT !.overflow = @ + 1]
     /\ UNCHANGED <<queue, accepted>>
  \/ /\ ~closed /\ Len(queue) < Buffer
     /\ queue' = Append(queue, r) /\ accepted' = accepted \cup {r}
     /\ UNCHANGED metrics

\* capture: a value that panics while it is sanitised counts as a failure, a
\* record above recordLimit as oversized; neither disturbs the caller.
Capture ==
  /\ logPC # "down" /\ captured < MaxRecords
  /\ captured' = captured + 1
  /\ \/ Enqueue(captured + 1)
     \/ /\ metrics' = [metrics EXCEPT !.failures = @ + 1, !.lost = @ + 1]
        /\ UNCHANGED <<queue, accepted>>
     \/ /\ metrics' = [metrics EXCEPT !.oversized = @ + 1]
        /\ UNCHANGED <<queue, accepted>>
  /\ UNCHANGED <<closed, canceled, writer, table, closer, opened, landed, dropped>>

-----------------------------------------------------------------------------
\* run: one writer; select takes any ready case.

Flush(next) ==
  IF batch = <<>> THEN logPC' = next /\ UNCHANGED resume
                  ELSE logPC' = "maintain" /\ resume' = next

\* <-s.ctx.Done(): what is still held is counted as lost.
RunCanceled ==
  /\ logPC = "select" /\ canceled
  /\ metrics' = [metrics EXCEPT !.lost = @ + Len(batch) + Len(queue)]
  /\ queue' = <<>> /\ batch' = <<>> /\ logPC' = "ended"
  /\ UNCHANGED <<closed, canceled, hand, resume, table, closer, captured, opened, accepted, landed, dropped>>

\* A record is received; when its bytes would exceed the batch the batch is
\* flushed first (how many bytes a record has is left open).
Receive ==
  /\ logPC = "select" /\ queue # <<>>
  /\ queue' = Tail(queue) /\ hand' = Head(queue)
  /\ \/ logPC' = "append" /\ UNCHANGED resume
     \/ batch # <<>> /\ Flush("append")
  /\ UNCHANGED <<closed, canceled, batch, table, metrics, closer, captured, opened, accepted, landed, dropped>>

AppendHand ==
  /\ logPC = "append"
  /\ batch' = Append(batch, hand) /\ hand' = NoRecord
  /\ IF Len(batch) + 1 >= batchLimit THEN logPC' = "maintain" /\ resume' = "select"
                                     ELSE logPC' = "select" /\ UNCHANGED resume
  /\ UNCHANGED <<queue, closed, canceled, table, metrics, closer, captured, opened, accepted, landed, dropped>>

TickerFlush ==
  /\ logPC = "select" /\ batch # <<>>
  /\ Flush("select")
  /\ UNCHANGED <<queue, closed, canceled, batch, hand, table, metrics, closer, captured, opened, accepted, landed, dropped>>

\* Mutant of RunClosed: the writer leaves without the last flush.
RunClosedUnflushed ==
  /\ logPC = "select" /\ closed /\ queue = <<>>
  /\ logPC' = "ended" /\ batch' = <<>>
  /\ UNCHANGED <<queue, closed, canceled, hand, resume, table, metrics, closer, captured, opened, accepted, landed, dropped>>

\* Mutant of RunClosed: the writer flushes and goes on.
RunClosedContinues ==
  /\ logPC = "select" /\ closed /\ queue = <<>>
  /\ Flush("select")
  /\ UNCHANGED <<queue, closed, canceled, batch, hand, table, metrics, closer, captured, opened, accepted, landed, dropped>>

\* The queue is closed and drained.
RunClosed ==
  /\ logPC = "select" /\ closed /\ queue = <<>>
  /\ Flush("ended")
  /\ UNCHANGED <<queue, closed, canceled, batch, hand, table, metrics, closer, captured, opened, accepted, landed, dropped>>

-----------------------------------------------------------------------------
\* write: maintain makes room, one transaction inserts the batch, a last
\* checkpoint and size check may still fail after the commit.

\* Mutant of FlushFails: the whole batch counts as lost after a late error too.
FlushFailsAll ==
  /\ metrics' = [metrics EXCEPT !.failures = @ + 1, !.lost = @ + Len(batch)]
  /\ dropped' = dropped \cup ToSet(batch)
  /\ batch' = <<>> /\ logPC' = resume

\* flush after an error: what was not committed is lost.
FlushFails ==
  /\ metrics' = [metrics EXCEPT !.failures = @ + 1,
                                !.lost = @ + (IF logPC = "settle" THEN 0 ELSE Len(batch))]
  /\ dropped' = dropped \cup (IF logPC = "settle" THEN {} ELSE ToSet(batch))
  /\ batch' = <<>> /\ logPC' = resume

WriteFails ==
  /\ logPC \in {"maintain", "insert", "settle"}
  /\ FlushFails
  /\ UNCHANGED <<queue, closed, canceled, hand, resume, table, closer, captured, opened, accepted, landed>>

Fits == Len(table) + Len(batch) <= Room
remove == IF Len(table) < 20 THEN 1 ELSE IF Len(table) < 640 THEN Len(table) \div 10 ELSE 64

\* How many of the oldest rows a retention step deletes, never the newest.
Expired == {n \in {IF remove < Len(table) THEN remove ELSE Len(table) - 1} : n > 0}

MaintainDeletes ==
  /\ logPC = "maintain" /\ ~Fits
  /\ \E n \in Expired :
       /\ table' = SubSeq(table, n + 1, Len(table))
       /\ metrics' = [metrics EXCEPT !.removed = @ + n, !.rows = @ - n]
  /\ UNCHANGED <<queue, closed, canceled, writer, closer, captured, opened, accepted, landed, dropped>>

MaintainDone ==
  /\ logPC = "maintain" /\ Fits /\ ~canceled
  /\ logPC' = "insert"
  /\ UNCHANGED <<queue, closed, canceled, batch, hand, resume, table, metrics, closer, captured, opened, accepted, landed, dropped>>

\* Mutant of Commit: the rows are counted when they are inserted, before the
\* commit that may fail.
CommitCountedEarly ==
  /\ logPC = "insert" /\ ~canceled
  /\ \E ok \in BOOLEAN : table' = IF ok THEN table \o batch ELSE table
  /\ landed' = landed \cup ToSet(batch)
  /\ metrics' = [metrics EXCEPT !.written = @ + Len(batch), !.rows = @ + Len(batch)]
  /\ logPC' = "settle"
  /\ UNCHANGED <<queue, closed, canceled, batch, hand, resume, closer, captured, opened, accepted, dropped>>

Commit ==
  /\ logPC = "insert" /\ ~canceled
  /\ table' = table \o batch
  /\ landed' = landed \cup ToSet(batch)
  /\ metrics' = [metrics EXCEPT !.written = @ + Len(batch), !.rows = @ + Len(batch)]
  /\ logPC' = "settle"
  /\ UNCHANGED <<queue, closed, canceled, batch, hand, resume, closer, captured, opened, accepted, dropped>>

Settle ==
  /\ logPC = "settle"
  /\ batch' = <<>> /\ logPC' = resume
  /\ UNCHANGED <<queue, closed, canceled, hand, resume, table, metrics, closer, captured, opened, accepted, landed, dropped>>

-----------------------------------------------------------------------------
\* Close closes the queue once and waits for run or for its deadline, which
\* cancels the writer.

CloseStore ==
  /\ logPC # "down" /\ closer = "none"
  /\ closed' = TRUE /\ closer' = "waiting"
  /\ UNCHANGED <<queue, canceled, writer, table, metrics, captured, opened, accepted, landed, dropped>>

CloseDone ==
  /\ closer = "waiting" /\ logPC = "ended"
  /\ closer' = "done"
  /\ UNCHANGED <<queue, closed, canceled, writer, table, metrics, captured, opened, accepted, landed, dropped>>

CloseExpires ==
  /\ closer = "waiting"
  /\ closer' = "expired" /\ canceled' = TRUE
  /\ UNCHANGED <<queue, closed, writer, table, metrics, captured, opened, accepted, landed, dropped>>

Fresh(rows) ==
  /\ queue' = <<>> /\ closed' = FALSE /\ canceled' = FALSE
  /\ batch' = <<>> /\ hand' = NoRecord /\ resume' = "select"
  /\ metrics' = [Zero EXCEPT !.rows = rows]
  /\ closer' = "none" /\ accepted' = {} /\ landed' = {} /\ dropped' = {}
  /\ opened' = captured
  /\ UNCHANGED <<table, captured>>

\* The process ends, by a crash or after run released the file lock.
Exit == logPC # "down" /\ logPC' = "down" /\ Fresh(0)

\* Open takes the file lock, checks the schema, counts the rows and makes the
\* table fit; a failure leaves the file as it is.
Open == logPC = "down" /\ Fits /\ logPC' = "select" /\ Fresh(Len(table))

LogInit ==
  /\ queue = <<>> /\ closed = FALSE /\ canceled = FALSE
  /\ batch = <<>> /\ hand = NoRecord /\ logPC = "down" /\ resume = "select"
  /\ table = <<>> /\ metrics = Zero /\ closer = "none"
  /\ captured = 0 /\ opened = 0 /\ accepted = {} /\ landed = {} /\ dropped = {}

RunStep ==
  \/ RunCanceled \/ Receive \/ AppendHand \/ TickerFlush \/ RunClosed
  \/ WriteFails \/ MaintainDeletes \/ MaintainDone \/ Commit \/ Settle

LogNext ==
  \/ Capture \/ RunStep
  \/ CloseStore \/ CloseDone \/ CloseExpires
  \/ Exit \/ Open

\* Every statement of the writer is bounded by WriteTimeout, and select does
\* not ignore a ready case for ever.
LogProgress == RunStep \/ CloseDone
LogFairness == WF_logVars(LogProgress)
LogSpec == LogInit /\ [][LogNext]_logVars /\ LogFairness

-----------------------------------------------------------------------------
(* Types of the queue, the writer and the counters.                        *)
LogTypeOK ==
  /\ queue \in Seq(1..MaxRecords) /\ Len(queue) <= Buffer
  /\ batch \in Seq(1..MaxRecords) /\ Len(batch) <= batchLimit
  /\ table \in Seq(1..MaxRecords) /\ hand \in 0..MaxRecords
  /\ logPC \in {"down", "select", "append", "maintain", "insert", "settle", "ended"}
  /\ resume \in {"select", "append", "ended"}
  /\ closer \in {"none", "waiting", "done", "expired"}
  /\ \A m \in DOMAIN metrics : metrics[m] \in Nat

(* The counters account for every record of the process: at any moment it *)
(* is queued, in the writer's hands or counted once as written, lost,      *)
(* overflowed or oversized, whether a flush fails before or after its      *)
(* commit, Close is cut short or records arrive after it.                  *)
Holding == Len(queue) + (IF logPC = "settle" THEN 0 ELSE Len(batch))
                      + (IF hand = NoRecord THEN 0 ELSE 1)
EveryRecordCounted ==
  logPC # "down" =>
    captured - opened = Holding + metrics.written + metrics.lost + metrics.overflow + metrics.oversized

(* A Close that was not cut short by its deadline has written every record *)
(* queued before it, whatever failed meanwhile, except those of a batch    *)
(* that failed before its commit.                                          *)
CloseFlushes ==
  /\ closer = "done" /\ ~canceled => accepted \subseteq landed \cup dropped
  /\ metrics.failures = 0 => dropped = {}

(* The row counter that retention divides by is the number of rows on disk *)
(* through failed writes, retention and restarts; it never wraps below 0.  *)
RowsExact == logPC # "down" => metrics.rows = Len(table)

(* The queue is closed and the writer has yet to empty it, or to be        *)
(* cancelled, and to release the file for the next process.                *)
LogWaits == closed /\ logPC \notin {"ended", "down"}

\* Every record is accounted for, in memory and on disk, through failures and Close.
LogSound == LogTypeOK /\ EveryRecordCounted /\ CloseFlushes /\ RowsExact
=============================================================================
