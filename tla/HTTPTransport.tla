---------------------------- MODULE HTTPTransport ----------------------------
(***************************************************************************)
(* transport.go, HTTPTransport: the transport of clients that do without   *)
(* the telemetry buffer.  Events go into the channel of the current batch; *)
(* one worker empties batch after batch; Flush ends the current batch,     *)
(* starts another and waits until the worker is done with the old one.     *)
(*                                                                         *)
(* The channel t.buffer, of capacity one, holds the current batch and is   *)
(* its lock: whoever wants the batch receives it and sends it back.  Every *)
(* such receive is a step here, and so is every send back.                 *)
(***************************************************************************)
EXTENDS Integers, Sequences, FiniteSets

CONSTANTS
  Sender, Flusher,   \* goroutines that call SendEvent, Flush
  Event, Category, CategoryOf,
  BufferSize,        \* capacity of a batch
  NoEvent

ASSUME HTTPTransportAssumption ==
  /\ IsFiniteSet(Flusher)
  /\ CategoryOf \in [Event -> Category]
  /\ BufferSize \in Nat \ {0}
  /\ NoEvent \notin Event

\* Batches in the order they are made: one, and one more for each flush.
Batch == 1 .. Cardinality(Flusher) + 1
Taken == 0                    \* the channel is empty, somebody has the batch

VARIABLES
  buffer,              \* the channel t.buffer
  made,                \* how many batches have been made
  items,               \* the channel items of each batch
  itemsClosed, started, finished,  \* the batches whose items, started, done
                                   \* are closed
  done,                \* whether t.done is closed
  limited,             \* the categories whose limit has not expired
  sending, sendBatch,  \* the event in each SendEvent, the batch it has taken
  fate,                \* what has become of each event
  flush, flushBatch,   \* where each flush is, the batch it has or waits for
  asked,               \* history: what was on its way when each flush began
  worker, workerBatch, current,    \* where the worker is, its batch and event
  panicked,            \* whether a closed channel was sent on or closed again
  unreported, riding, reported, unsent  \* client reports, as in AsyncTransport

batchVars == <<made, items, itemsClosed, started, finished>>
sendVars == <<sending, sendBatch>>
flushVars == <<flush, flushBatch, asked>>
workerVars == <<worker, workerBatch, current>>
reportVars == <<unreported, riding, reported, unsent>>
vars == <<buffer, made, items, itemsClosed, started, finished, done, limited,
          sending, sendBatch, fate, flush, flushBatch, asked, worker, workerBatch,
          current, panicked, unreported, riding, reported, unsent>>

Recorded == {"ratelimit_backoff", "queue_overflow", "network_error",
             "send_error", "internal_error"}

\* Configure, which also starts the worker.
Init ==
  /\ buffer = 1
  /\ made = 1
  /\ items = [b \in Batch |-> <<>>]
  /\ itemsClosed = {}
  /\ started = {}
  /\ finished = {}
  /\ done = FALSE
  /\ limited = {}
  /\ sending = [s \in Sender |-> NoEvent]
  /\ sendBatch = [s \in Sender |-> Taken]
  /\ fate = [e \in Event |-> "new"]
  /\ flush = [f \in Flusher |-> "idle"]
  /\ flushBatch = [f \in Flusher |-> Taken]
  /\ asked = [f \in Flusher |-> {}]
  /\ worker = "range"
  /\ workerBatch = Taken
  /\ current = NoEvent
  /\ panicked = FALSE
  /\ unreported = {}
  /\ riding = {}
  /\ reported = {}
  /\ unsent = {}

Disabled(e) == CategoryOf[e] \in limited

\* b := <-t.buffer and t.buffer <- b
Receive(b) ==
  /\ buffer # Taken
  /\ b = buffer
  /\ buffer' = Taken

PutBack(b) ==
  /\ buffer = Taken
  /\ buffer' = b

\* A fault: the drop is not recorded.
DropUncounted(e, reason) ==
  /\ fate' = [fate EXCEPT ![e] = reason]
  /\ UNCHANGED unreported

\* recordForEvent and recordForBatchItem.
Drop(e, reason) ==
  /\ fate' = [fate EXCEPT ![e] = reason]
  /\ unreported' = unreported \cup {e}

-----------------------------------------------------------------------------
(* SendEvent                                                               *)

\* Up to the lock: the rate limit, and the conversion, which may fail.
SendCheck(s, e) ==
  /\ sending[s] = NoEvent
  /\ fate[e] = "new"
  /\ \/ /\ Disabled(e)
        /\ Drop(e, "ratelimit_backoff")
        /\ UNCHANGED sending
     \/ /\ ~Disabled(e)
        /\ Drop(e, "internal_error")
        /\ UNCHANGED sending
     \/ /\ ~Disabled(e)
        /\ sending' = [sending EXCEPT ![s] = e]
        /\ fate' = [fate EXCEPT ![e] = "offered"]
        /\ UNCHANGED unreported
  /\ UNCHANGED <<buffer, batchVars, done, limited, sendBatch, flushVars, workerVars,
                 panicked, riding, reported, unsent>>

SendLock(s) ==
  /\ sending[s] # NoEvent
  /\ sendBatch[s] = Taken
  /\ \E b \in Batch :
       /\ Receive(b)
       /\ sendBatch' = [sendBatch EXCEPT ![s] = b]
  /\ UNCHANGED <<batchVars, done, limited, sending, fate, flushVars, workerVars,
                 panicked, reportVars>>

\* A fault: one event too many.
FullLate(b) == Len(items[b]) > BufferSize

Full(b) == Len(items[b]) >= BufferSize

\* The select that queues the event or drops it, and the batch is put back.
SendQueue(s) ==
  LET e == sending[s]
      b == sendBatch[s]
  IN
  /\ b # Taken
  /\ IF Full(b)
       THEN Drop(e, "queue_overflow") /\ UNCHANGED items
       ELSE /\ items' = [items EXCEPT ![b] = Append(@, e)]
            /\ fate' = [fate EXCEPT ![e] = "queued"]
            /\ UNCHANGED unreported
  /\ panicked' = (panicked \/ b \in itemsClosed)
  /\ PutBack(b)
  /\ sending' = [sending EXCEPT ![s] = NoEvent]
  /\ sendBatch' = [sendBatch EXCEPT ![s] = Taken]
  /\ UNCHANGED <<made, itemsClosed, started, finished, done, limited, flushVars,
                 workerVars, riding, reported, unsent>>

-----------------------------------------------------------------------------
(* Flush *)

FlushCall(f) ==
  /\ flush[f] = "idle"
  /\ flush' = [flush EXCEPT ![f] = "spin"]
  /\ asked' = [asked EXCEPT ![f] = {e \in Event : fate[e] \in {"queued", "sending"}}]
  /\ UNCHANGED <<buffer, batchVars, done, limited, sendVars, fate, flushBatch,
                 workerVars, panicked, reportVars>>

\* A turn of the loop takes the batch to see whether the worker has started it.
FlushTake(f) ==
  /\ flush[f] = "spin"
  /\ \E b \in Batch :
       /\ Receive(b)
       /\ flushBatch' = [flushBatch EXCEPT ![f] = b]
  /\ flush' = [flush EXCEPT ![f] = "look"]
  /\ UNCHANGED <<batchVars, done, limited, sendVars, fate, asked, workerVars,
                 panicked, reportVars>>

FlushPutBack(f) ==
  /\ flush[f] = "look"
  /\ flushBatch[f] \notin started
  /\ PutBack(flushBatch[f])
  /\ flush' = [flush EXCEPT ![f] = "spin"]
  /\ flushBatch' = [flushBatch EXCEPT ![f] = Taken]
  /\ UNCHANGED <<batchVars, done, limited, sendVars, fate, asked, workerVars,
                 panicked, reportVars>>

\* A fault: Flush does not wait until the worker has started the batch.
SeenByWorker(b) == b \in Batch

Seen(b) == b \in started

\* close(b.items)
FlushClose(f) ==
  /\ flush[f] = "look"
  /\ Seen(flushBatch[f])
  /\ itemsClosed' = itemsClosed \cup {flushBatch[f]}
  /\ panicked' = (panicked \/ flushBatch[f] \in itemsClosed)
  /\ flush' = [flush EXCEPT ![f] = "renew"]
  /\ UNCHANGED <<buffer, made, items, started, finished, done, limited, sendVars,
                 fate, flushBatch, asked, workerVars, reportVars>>

\* A fault: the ended batch goes back into the channel.
FlushReuse(f) ==
  /\ flush[f] = "renew"
  /\ PutBack(flushBatch[f])
  /\ flush' = [flush EXCEPT ![f] = "wait"]
  /\ UNCHANGED <<batchVars, done, limited, sendVars, fate, flushBatch, asked,
                 workerVars, panicked, reportVars>>

\* t.buffer <- batch{...}
FlushRenew(f) ==
  /\ flush[f] = "renew"
  /\ made' = made + 1
  /\ PutBack(made + 1)
  /\ flush' = [flush EXCEPT ![f] = "wait"]
  /\ UNCHANGED <<items, itemsClosed, started, finished, done, limited, sendVars,
                 fate, flushBatch, asked, workerVars, panicked, reportVars>>

\* A fault: it does not wait for the end of the batch.
FlushAtOnce(f) ==
  /\ flush[f] = "wait"
  /\ flush' = [flush EXCEPT ![f] = "true"]
  /\ flushBatch' = [flushBatch EXCEPT ![f] = Taken]
  /\ UNCHANGED <<buffer, batchVars, done, limited, sendVars, fate, asked, workerVars,
                 panicked, reportVars>>

FlushTrue(f) ==
  /\ flush[f] = "wait"
  /\ flushBatch[f] \in finished
  /\ flush' = [flush EXCEPT ![f] = "true"]
  /\ flushBatch' = [flushBatch EXCEPT ![f] = Taken]
  /\ UNCHANGED <<buffer, batchVars, done, limited, sendVars, fate, asked, workerVars,
                 panicked, reportVars>>

\* The timeout, looked at while Flush spins and while it waits.
FlushFalse(f) ==
  /\ flush[f] \in {"spin", "wait"}
  /\ flush' = [flush EXCEPT ![f] = "false"]
  /\ flushBatch' = [flushBatch EXCEPT ![f] = Taken]
  /\ UNCHANGED <<buffer, batchVars, done, limited, sendVars, fate, asked, workerVars,
                 panicked, reportVars>>

-----------------------------------------------------------------------------
(* worker *)

\* for b := range t.buffer
WorkerTake ==
  /\ worker = "range"
  /\ \E b \in Batch : Receive(b) /\ workerBatch' = b
  /\ worker' = "begin"
  /\ UNCHANGED <<batchVars, done, limited, sendVars, fate, flushVars, current,
                 panicked, reportVars>>

\* close(b.started), and the batch is put back.
WorkerStart ==
  /\ worker = "begin"
  /\ started' = started \cup {workerBatch}
  /\ panicked' = (panicked \/ workerBatch \in started)
  /\ PutBack(workerBatch)
  /\ worker' = "loop"
  /\ UNCHANGED <<made, items, itemsClosed, finished, done, limited, sendVars, fate,
                 flushVars, workerBatch, current, reportVars>>

WorkerReceive ==
  LET b == workerBatch
      e == Head(items[b])
  IN
  /\ worker = "loop"
  /\ items[b] # <<>>
  /\ items' = [items EXCEPT ![b] = Tail(@)]
  /\ IF Disabled(e)
       THEN /\ Drop(e, "ratelimit_backoff")
            /\ UNCHANGED <<worker, current, riding>>
       ELSE /\ worker' = "send"
            /\ current' = e
            /\ fate' = [fate EXCEPT ![e] = "sending"]
            /\ riding' = unreported          \* attachClientReport
            /\ unreported' = {}
  /\ UNCHANGED <<buffer, made, itemsClosed, started, finished, done, limited, sendVars,
                 flushVars, workerBatch, panicked, reported, unsent>>

\* The request ends, or could not be made.
SendDone ==
  /\ worker = "send"
  /\ \/ /\ \E reason \in {"internal_error", "network_error"} : Drop(current, reason)
        /\ unsent' = unsent \cup riding
        /\ UNCHANGED <<limited, reported>>
     \/ /\ \/ Drop(current, "send_error")
           \/ /\ fate' = [fate EXCEPT ![current] = "sent"]
              /\ UNCHANGED unreported
        /\ reported' = reported \cup riding
        /\ \E L \in SUBSET Category : limited' = limited \cup L
        /\ UNCHANGED unsent
  /\ worker' = "loop"
  /\ current' = NoEvent
  /\ riding' = {}
  /\ UNCHANGED <<buffer, batchVars, done, sendVars, flushVars, workerBatch, panicked>>

\* The ticker's branch of the select, with its request.
WorkerReport ==
  /\ worker = "loop"
  /\ unreported # {}
  /\ worker' = "report"
  /\ riding' = unreported
  /\ unreported' = {}
  /\ UNCHANGED <<buffer, batchVars, done, limited, sendVars, fate, flushVars,
                 workerBatch, current, panicked, reported, unsent>>

ReportDone ==
  /\ worker = "report"
  /\ worker' = "loop"
  /\ riding' = {}
  /\ \/ /\ unsent' = unsent \cup riding
        /\ UNCHANGED <<limited, reported>>
     \/ /\ reported' = reported \cup riding
        /\ \E L \in SUBSET Category : limited' = limited \cup L
        /\ UNCHANGED unsent
  /\ UNCHANGED <<buffer, batchVars, done, sendVars, fate, flushVars, workerBatch,
                 current, panicked, unreported>>

\* A fault: the batch is done as soon as its channel is closed.
DrainedEarly == workerBatch \in itemsClosed

\* A receive from a closed channel fails only once it is empty.
Drained == workerBatch \in itemsClosed /\ items[workerBatch] = <<>>

\* break loop; close(b.done)
WorkerFinish ==
  /\ worker = "loop"
  /\ Drained
  /\ finished' = finished \cup {workerBatch}
  /\ panicked' = (panicked \/ workerBatch \in finished)
  /\ worker' = "range"
  /\ workerBatch' = Taken
  /\ UNCHANGED <<buffer, made, items, itemsClosed, started, done, limited, sendVars,
                 fate, flushVars, current, reportVars>>

\* A fault: the worker looks at t.done between batches only.
ExitBetweenBatches ==
  /\ worker = "range"
  /\ done
  /\ worker' = "exited"
  /\ UNCHANGED <<buffer, batchVars, done, limited, sendVars, fate, flushVars,
                 workerBatch, current, panicked, reportVars>>

WorkerExit ==
  /\ worker = "loop"
  /\ done
  /\ worker' = "exited"
  /\ UNCHANGED <<buffer, batchVars, done, limited, sendVars, fate, flushVars,
                 workerBatch, current, panicked, reportVars>>

-----------------------------------------------------------------------------

Close ==
  /\ ~done
  /\ done' = TRUE
  /\ UNCHANGED <<buffer, batchVars, limited, sendVars, fate, flushVars, workerVars,
                 panicked, reportVars>>

LimitExpires ==
  /\ \E c \in limited : limited' = limited \ {c}
  /\ UNCHANGED <<buffer, batchVars, done, sendVars, fate, flushVars, workerVars,
                 panicked, reportVars>>

Flushing(f) ==
  FlushPutBack(f) \/ FlushClose(f) \/ FlushRenew(f) \/ FlushTrue(f)

Working ==
  \/ WorkerTake \/ WorkerStart \/ WorkerReceive \/ SendDone
  \/ WorkerReport \/ ReportDone \/ WorkerFinish \/ WorkerExit

Next ==
  \/ \E s \in Sender : SendLock(s) \/ SendQueue(s) \/ \E e \in Event : SendCheck(s, e)
  \/ \E f \in Flusher : FlushCall(f) \/ FlushTake(f) \/ Flushing(f) \/ FlushFalse(f)
  \/ Working
  \/ Close
  \/ LimitExpires

Spec == Init /\ [][Next]_vars

(***************************************************************************)
(* Fairness: goroutines run on and requests end; a channel serves its      *)
(* receivers in the order they came, so none is passed over for ever; the  *)
(* worker's select takes a branch some time that stays ready.  No timeout  *)
(* of a flush is assumed.                                                  *)
(***************************************************************************)
Fairness ==
  /\ \A s \in Sender : SF_vars(SendLock(s)) /\ WF_vars(SendQueue(s))
  /\ \A f \in Flusher : SF_vars(FlushTake(f)) /\ WF_vars(Flushing(f))
  /\ SF_vars(WorkerTake)
  /\ WF_vars(WorkerStart \/ SendDone \/ ReportDone)
  /\ WF_vars(WorkerReceive \/ WorkerFinish) /\ WF_vars(WorkerExit)

FairSpec == Spec /\ Fairness

-----------------------------------------------------------------------------
(* Properties *)

TypeOK ==
  /\ buffer \in Batch \cup {Taken}
  /\ made \in Batch
  /\ items \in [Batch -> Seq(Event)]
  /\ \A b \in Batch : Len(items[b]) <= BufferSize
  /\ itemsClosed \in SUBSET Batch
  /\ started \in SUBSET Batch
  /\ finished \in SUBSET Batch
  /\ {done, panicked} \subseteq BOOLEAN
  /\ limited \in SUBSET Category
  /\ sending \in [Sender -> Event \cup {NoEvent}]
  /\ sendBatch \in [Sender -> Batch \cup {Taken}]
  /\ fate \in [Event -> Recorded \cup {"new", "offered", "queued", "sending", "sent"}]
  /\ flush \in [Flusher -> {"idle", "spin", "look", "renew", "wait", "true", "false"}]
  /\ flushBatch \in [Flusher -> Batch \cup {Taken}]
  /\ asked \in [Flusher -> SUBSET Event]
  /\ worker \in {"range", "begin", "loop", "send", "report", "exited"}
  /\ workerBatch \in Batch \cup {Taken}
  /\ current \in Event \cup {NoEvent}
  /\ unreported \in SUBSET Event
  /\ riding \in SUBSET Event
  /\ reported \in SUBSET Event
  /\ unsent \in SUBSET Event

\* "The lock must be held [...] to guarantee that b.items is not closed while
\* trying to send to it": no channel is sent on or closed after it was closed,
\* by senders, flushes and the worker that all handle the same batches.
NoPanic == TypeOK /\ ~panicked

\* An event is pending from when it is queued until the worker is done with it.
Place(e) ==
  CASE fate[e] \in {"new", "offered"} -> "outside"
    [] fate[e] \in {"queued", "sending"} -> "pending"
    [] OTHER -> "settled"

Call(f) ==
  IF flush[f] \in {"spin", "look", "renew", "wait"} THEN "waiting" ELSE flush[f]

Abstract == INSTANCE TelemetryTransport
              WITH Item <- Event,
                   place <- [e \in Event |-> Place(e)],
                   call <- [f \in Flusher |-> Call(f)],
                   owed <- asked

\* HTTPTransport makes the promise that AsyncTransport makes: Flush is true only
\* when all that was pending at its call is settled, also what other flushes have
\* put into earlier batches.
ImplementsTransport == Abstract!Spec

\* Each dropped event is told of at most once in client reports.
ReportedOnce ==
  /\ {e \in Event : fate[e] \in Recorded} = unreported \cup riding \cup reported \cup unsent
  /\ unreported \cap (riding \cup reported \cup unsent) = {}
  /\ riding \cap (reported \cup unsent) = {}
  /\ reported \cap unsent = {}

\* All comes to rest.  While the transport is open, a Flush ends without help from its
\* timeout (the comment in flushInternal says why it waits until the worker has seen the
\* batch) and every queued event is sent or recorded; and Close ends the worker, which
\* its doc says is what it is for.
ComesToRest ==
  <>[](IF done
         THEN worker = "exited"
         ELSE /\ \A f \in Flusher : flush[f] \in {"idle", "true", "false"}
              /\ \A e \in Event : fate[e] \notin {"queued", "sending"})

===============================================================================
