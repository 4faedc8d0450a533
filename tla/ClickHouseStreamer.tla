------------------------- MODULE ClickHouseStreamer -------------------------
(***************************************************************************)
(* The analytics streamer (cmd/clickhouse-streamer/main.go): it takes      *)
(* enriched scans from ENRICHED_SCANS into a batch and inserts the batch   *)
(* in ClickHouse when it is full, when a ticker fires and at shutdown.     *)
(*                                                                         *)
(* Three goroutines call flushBatch: the subscription's callback, the      *)
(* ticker's and main.  A channel of capacity one is the mutex of the batch *)
(* and is held for as long as an insert takes.                             *)
(***************************************************************************)
EXTENDS WorkQueue

CONSTANTS
  BatchSize,  \* --batch-size
  Ends,       \* whether the process is told to stop or is killed
  MaxUnsure   \* bound of a run on the commits whose outcome is not known

VARIABLES
  ctx,    \* the process: "up", "cancelled" by a signal, or "down"
  pc,     \* where each goroutine is
  cur,    \* the event the callback has
  batch,  \* the buffered events
  lock,   \* who holds batchMutex
  rows,   \* ClickHouse: the rows of each event
  dropped, \* history: events that were in the batch when the process ended
  unsure  \* history: commits reported as failed that ClickHouse applied

vars == <<queueVars, ctx, pc, cur, batch, lock, rows, dropped, unsure>>

None     == "none"
Streamer == CHOOSE w \in Worker : TRUE
Thread   == {"callback", "ticker", "main"}

ASSUME StreamerAssumption ==
  /\ None \notin Msg
  /\ BatchSize \in Nat \ {0}
  /\ Worker = {Streamer}
  /\ Ends \in BOOLEAN
  /\ MaxUnsure \in Nat

TypeOK ==
  /\ QueueTypeOK
  /\ ctx \in {"up", "cancelled", "down"}
  /\ pc \in [Thread -> {"idle", "append", "flush", "inserting", "ok", "error"}]
  /\ cur \in Msg \cup {None}
  /\ batch \in Seq(Msg)
  /\ lock \in Thread \cup {None}
  /\ \A t \in Thread : pc[t] = "inserting" <=> lock = t
  /\ rows \in [Msg -> Nat]
  /\ dropped \subseteq Msg
  /\ unsure \in Nat

Init ==
  /\ QueueInit
  /\ ctx = "down"
  /\ pc = [t \in Thread |-> "idle"]
  /\ cur = None
  /\ batch = <<>>
  /\ lock = None
  /\ rows = [m \in Msg |-> 0]
  /\ dropped = {}
  /\ unsure = 0

Buffered == {batch[i] : i \in 1..Len(batch)}
At(t, where) == pc' = [pc EXCEPT ![t] = where]

Start ==
  /\ ctx = "down"
  /\ ctx' = "up"
  /\ UNCHANGED <<queueVars, pc, cur, batch, lock, rows, dropped, unsure>>
-----------------------------------------------------------------------------
\* The callback.  It runs until the subscription ends, after main's last flush.
Receive ==
  /\ ctx # "down" /\ pc["callback"] = "idle"
  /\ inbox[Streamer] # <<>>
  /\ cur' = Head(inbox[Streamer])
  /\ inbox' = [inbox EXCEPT ![Streamer] = Tail(@)]
  /\ At("callback", IF cur' \in Junk THEN "error" ELSE "append")
  /\ UNCHANGED <<status, tries, ctx, batch, lock, rows, dropped, unsure>>

\* Lock, append, unlock; a full batch is to be flushed.
AppendEvent ==
  /\ pc["callback"] = "append" /\ lock = None
  /\ batch' = Append(batch, cur)
  /\ At("callback", IF Len(batch') >= BatchSize THEN "flush" ELSE "ok")
  /\ UNCHANGED <<queueVars, ctx, cur, lock, rows, dropped, unsure>>

\* msg.Ack(), or msg.Nak() after a failed flush or an unreadable payload.
Answer ==
  /\ \/ pc["callback"] = "ok" /\ Acked(cur)
     \/ pc["callback"] = "error" /\ Naked(cur)
  /\ At("callback", "idle")
  /\ cur' = None
  /\ UNCHANGED <<tries, inbox, ctx, batch, lock, rows, dropped, unsure>>
-----------------------------------------------------------------------------
\* flushBatch.  Nothing to flush is a success, a cancelled context an error.
Flush(t) ==
  /\ pc[t] = "flush" /\ lock = None
  /\ \/ batch = <<>> /\ At(t, "ok") /\ UNCHANGED lock
     \/ batch # <<>> /\ ctx = "cancelled" /\ At(t, "error") /\ UNCHANGED lock
     \/ batch # <<>> /\ ctx = "up" /\ At(t, "inserting") /\ lock' = t
  /\ UNCHANGED <<queueVars, ctx, cur, batch, rows, dropped, unsure>>

Occurrences(m) == Cardinality({i \in 1..Len(batch) : batch[i] = m})
InsertBatch == rows' = [m \in Msg |-> rows[m] + Occurrences(m)]

\* Mutant: the batch is kept after it was inserted.
FlushedKeepsBatch(t) ==
  /\ pc[t] = "inserting"
  /\ InsertBatch
  /\ At(t, "ok") /\ lock' = None
  /\ UNCHANGED <<queueVars, ctx, cur, batch, dropped, unsure>>

\* BatchInsertScanEvents commits, and the batch is cleared.
Flushed(t) ==
  /\ pc[t] = "inserting"
  /\ InsertBatch
  /\ batch' = <<>>
  /\ At(t, "ok") /\ lock' = None
  /\ UNCHANGED <<queueVars, ctx, cur, dropped, unsure>>

\* Mutant: the batch is cleared when the insert failed.
FlushFailsClears(t) ==
  /\ pc[t] = "inserting"
  /\ Faults
  /\ batch' = <<>>
  /\ At(t, "error") /\ lock' = None
  /\ UNCHANGED <<queueVars, ctx, cur, rows, dropped, unsure>>

\* Mutant: a failed flush returns without the deferred unlock.
FlushFailsLocked(t) ==
  /\ pc[t] = "inserting"
  /\ Faults
  /\ At(t, "error")
  /\ UNCHANGED <<queueVars, ctx, cur, batch, lock, rows, dropped, unsure>>

\* It fails: rolled back, or applied by a commit that reports an error.  The
\* batch stays as it is.
FlushFails(t) ==
  /\ pc[t] = "inserting"
  /\ \/ (Faults \/ ctx = "cancelled") /\ UNCHANGED <<rows, unsure>>
     \/ Faults /\ unsure < MaxUnsure /\ InsertBatch /\ unsure' = unsure + 1
  /\ At(t, "error") /\ lock' = None
  /\ UNCHANGED <<queueVars, ctx, cur, batch, dropped>>

\* The ticker's goroutine; it only logs errors.  With the context cancelled and
\* a tick in the channel, select may still take the tick.
TickerFires ==
  /\ ctx # "down" /\ pc["ticker"] = "idle"
  /\ At("ticker", "flush")
  /\ UNCHANGED <<queueVars, ctx, cur, batch, lock, rows, dropped, unsure>>

TickerReturns ==
  /\ pc["ticker"] \in {"ok", "error"}
  /\ At("ticker", "idle")
  /\ UNCHANGED <<queueVars, ctx, cur, batch, lock, rows, dropped, unsure>>
-----------------------------------------------------------------------------
\* SIGTERM or an interrupt cancels the context; main goes on to the final flush.
Signal ==
  /\ Ends /\ ctx = "up"
  /\ ctx' = "cancelled"
  /\ At("main", "flush")
  /\ UNCHANGED <<queueVars, cur, batch, lock, rows, dropped, unsure>>

\* The process is gone, and the compose file restarts it.
Gone ==
  /\ ctx' = "down"
  /\ pc' = [t \in Thread |-> "idle"]
  /\ cur' = None /\ lock' = None /\ batch' = <<>>
  /\ inbox' = [inbox EXCEPT ![Streamer] = <<>>]
  /\ dropped' = dropped \cup Buffered
  /\ UNCHANGED <<status, tries, rows, unsure>>

\* run returns after the final flush, whatever it returned.
Exit == pc["main"] \in {"ok", "error"} /\ Gone

Kill == Ends /\ ctx # "down" /\ Gone

Environment == QueueNext /\ UNCHANGED <<ctx, pc, cur, batch, lock, rows, dropped, unsure>>

Next ==
  \/ Environment
  \/ Start \/ Receive \/ AppendEvent \/ Answer
  \/ \E t \in Thread : Flush(t) \/ Flushed(t) \/ FlushFails(t)
  \/ TickerFires \/ TickerReturns
  \/ Signal \/ Exit \/ Kill

Spec == Init /\ [][Next]_vars

\* The ticker's goroutine and main run and get the mutex in their turn (waiters
\* on a channel are served in order), and inserts succeed again and again.
FairSpec ==
  /\ Spec
  /\ WF_vars(TickerFires \/ TickerReturns) /\ WF_vars(Exit)
  /\ SF_vars(Flush("ticker")) /\ SF_vars(Flush("main"))
  /\ SF_vars(\E t \in Thread : Flushed(t))
-----------------------------------------------------------------------------
(* While the process runs, no acknowledged event is lost: it is in         *)
(* ClickHouse or in the batch a later flush will insert, whatever inserts  *)
(* fail, whichever goroutine flushes and however often it is redelivered.  *)
(* What a stop loses is what it had in memory.                             *)
AckedIsKept ==
  \A m \in Msg : status[m] = "acked" => rows[m] > 0 \/ m \in Buffered \cup dropped

(* An event has no more rows than deliveries, unless a commit failed after *)
(* it was applied, and then as many again for each: a flush that fails     *)
(* leaves the event in the batch and naks it, so that the redelivery makes *)
(* a second row, but no third.                                             *)
RowsWithinDeliveries ==
  \A m \in Msg : rows[m] + Occurrences(m) <= tries[m] * (1 + unsure)

(* An acknowledged event reaches ClickHouse, if inserts succeed again and  *)
(* again, or is lost with the process: none stays in a batch that never    *)
(* fills or behind a mutex that is never released.                         *)
AckedIsInserted ==
  \A m \in Msg : status[m] = "acked" ~> rows[m] > 0 \/ m \in dropped

(* main.go:175, "Shutting down, flushing remaining events...": a streamer  *)
(* told to stop, whose inserts succeed, leaves no acknowledged event       *)
(* behind.                                                                 *)
FlushedAtShutdown ==
  [][Exit => \A m \in Buffered : rows[m] > 0 \/ status[m] # "acked"]_vars
=============================================================================
