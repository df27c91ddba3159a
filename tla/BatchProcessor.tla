---------------------------- MODULE BatchProcessor ----------------------------
(***************************************************************************)
(* batch_processor.go: without the telemetry buffer a client batches its   *)
(* logs in one processor and its metrics in another.  Each has a channel   *)
(* for items, a goroutine run that collects them and a timer.  client.go's *)
(* Flush and Close go through the processors one after the other and then  *)
(* to the transport, of which only what TelemetryTransport says is known.  *)
(*                                                                         *)
(* The timer's channel is that of Go 1.23 or later (go.mod asks for 1.25): *)
(* Reset takes back a tick that was not received.                          *)
(***************************************************************************)
EXTENDS Integers, Sequences, FiniteSets

CONSTANTS
  MaxItems,             \* bound: how many logs and metrics are captured; they
  ProcessorOf,          \*   are numbered in that order; where each is batched
  Order,                \* the processors, in the order Flush and Close take them
  batchSize,            \* the batch, and the capacity of the channel
  Flusher,              \* goroutines that call client.Flush
  NoOne

Item == 1 .. MaxItems
Processor == {Order[k] : k \in 1 .. Len(Order)}

ASSUME BatchAssumption ==
  /\ Order \in Seq(Processor) /\ Order # <<>>
  /\ \A j, k \in 1 .. Len(Order) : Order[j] = Order[k] => j = k
  /\ MaxItems \in Nat
  /\ ProcessorOf \in [Item -> Processor]
  /\ batchSize \in Nat \ {0}
  /\ NoOne \notin Flusher

VARIABLES
  itemCh,       \* the channel of each processor
  items,        \* what its run has collected
  armed,        \* the processors whose timer runs, or has a tick to be received
  worker,       \* where its run is
  done,         \* the flush run works for
  answered,     \* the done channels that are closed, by flush and processor
  cancelled,    \* the processors whose context is done
  flush, stage, \* where each client.Flush is, and at which processor
  gaveUp,       \* the flushes that saw their context done
  closeStage,   \* the processor that client.Close shuts down, 0 before
  dropped,      \* items refused because the channel was full
  accepted,     \* history: the items Send took, by processor
  sent,         \* history: those given to sendBatch
  asked,        \* history: what was not settled when each flush began
  before,       \* history: how many were accepted when Shutdown began
  events,       \* the batches the transport has, each as one event
  place, call, owed

queueVars == <<itemCh, items, armed>>
workerVars == <<worker, done, answered>>
flushVars == <<flush, stage, gaveUp, asked>>
closeVars == <<cancelled, closeStage, before>>
historyVars == <<dropped, accepted>>
transportVars == <<events, place, call, owed>>
vars == <<itemCh, items, armed, worker, done, answered, cancelled, flush, stage,
          gaveUp, closeStage, dropped, accepted, sent, asked, before, events, place,
          call, owed>>

Transport == INSTANCE TelemetryTransport

Elements(s) == {s[i] : i \in 1 .. Len(s)}

\* NewClient makes the processors and starts them.
Init ==
  /\ itemCh = [p \in Processor |-> <<>>]
  /\ items = [p \in Processor |-> <<>>]
  /\ armed = {}
  /\ worker = [p \in Processor |-> "select"]
  /\ done = [p \in Processor |-> NoOne]
  /\ answered = {}
  /\ cancelled = {}
  /\ flush = [f \in Flusher |-> "idle"]
  /\ stage = [f \in Flusher |-> 0]
  /\ gaveUp = {}
  /\ closeStage = 0
  /\ dropped = {}
  /\ accepted = [p \in Processor |-> <<>>]
  /\ sent = [p \in Processor |-> <<>>]
  /\ asked = [f \in Flusher |-> {}]
  /\ before = [p \in Processor |-> 0]
  /\ events = {}
  /\ Transport!Init

Accepted == UNION {Elements(accepted[p]) : p \in Processor}
closed == closeStage > Len(Order)

-----------------------------------------------------------------------------
(* Send, and the branches of the select in run                             *)

\* Send never blocks; the client records what it could not send.
Send(i) ==
  LET p == ProcessorOf[i]
  IN
  /\ Accepted \cup dropped = 1 .. i - 1
  /\ \/ /\ Len(itemCh[p]) < batchSize
        /\ itemCh' = [itemCh EXCEPT ![p] = Append(@, i)]
        /\ accepted' = [accepted EXCEPT ![p] = Append(@, i)]
        /\ UNCHANGED dropped
     \/ /\ Len(itemCh[p]) >= batchSize
        /\ dropped' = dropped \cup {i}
        /\ UNCHANGED <<itemCh, accepted>>
  /\ UNCHANGED <<items, armed, workerVars, flushVars, closeVars, sent, transportVars>>

\* Faults: the size is tested before the item is added; nothing starts the timer.
FullBefore(n) == n - 1 >= batchSize
NoReset(p) == armed

Full(n) == n >= batchSize

\* The first item of a batch starts the timer.
Started(p) == IF items[p] = <<>> THEN armed \cup {p} ELSE armed

Take(p) ==
  /\ itemCh[p] # <<>>
  /\ itemCh' = [itemCh EXCEPT ![p] = Tail(@)]
  /\ items' = [items EXCEPT ![p] = Append(@, Head(itemCh[p]))]

Receive(p) ==
  /\ worker[p] = "select"
  /\ Take(p)
  /\ armed' = Started(p)
  /\ worker' = [worker EXCEPT ![p] = IF Full(Len(items[p]) + 1) THEN "send" ELSE @]
  /\ UNCHANGED <<done, answered, flushVars, closeVars, historyVars, sent, transportVars>>

Timeout(p) ==
  /\ worker[p] = "select"
  /\ p \in armed
  /\ armed' = armed \ {p}
  /\ worker' = [worker EXCEPT ![p] = IF items[p] = <<>> THEN @ ELSE "send"]
  /\ UNCHANGED <<itemCh, items, done, answered, flushVars, closeVars, historyVars, sent,
                 transportVars>>

\* A fault: what has been collected is sent, the channel is not emptied.
SendCollected(p, f) ==
  /\ worker[p] = "select"
  /\ flush[f] = "offer" /\ Order[stage[f]] = p
  /\ flush' = [flush EXCEPT ![f] = "await"]
  /\ worker' = [worker EXCEPT ![p] = "flush"]
  /\ done' = [done EXCEPT ![p] = f]
  /\ UNCHANGED <<queueVars, answered, stage, gaveUp, asked, closeVars, historyVars, sent,
                 transportVars>>

\* A flush has its done channel received by run.
TakeFlush(p, f) ==
  /\ worker[p] = "select"
  /\ flush[f] = "offer" /\ Order[stage[f]] = p
  /\ flush' = [flush EXCEPT ![f] = "await"]
  /\ worker' = [worker EXCEPT ![p] = "drain"]
  /\ done' = [done EXCEPT ![p] = f]
  /\ UNCHANGED <<queueVars, answered, stage, gaveUp, asked, closeVars, historyVars, sent,
                 transportVars>>

\* A fault: run returns with items in the channel.
LeaveAtOnce(p) ==
  /\ worker[p] = "select"
  /\ p \in cancelled
  /\ worker' = [worker EXCEPT ![p] = "last"]
  /\ UNCHANGED <<queueVars, done, answered, flushVars, closeVars, historyVars, sent,
                 transportVars>>

SeeCancel(p) ==
  /\ worker[p] = "select"
  /\ p \in cancelled
  /\ worker' = [worker EXCEPT ![p] = "final"]
  /\ UNCHANGED <<queueVars, done, answered, flushVars, closeVars, historyVars, sent,
                 transportVars>>

-----------------------------------------------------------------------------
(* Draining and sending                                                    *)

\* The loop that empties the channel, for a flush or at the end of run.
Drain(p) ==
  /\ worker[p] \in {"drain", "final"}
  /\ Take(p)
  /\ UNCHANGED <<armed, workerVars, flushVars, closeVars, historyVars, sent, transportVars>>

Drained(p) ==
  /\ worker[p] \in {"drain", "final"}
  /\ itemCh[p] = <<>>
  /\ worker' = [worker EXCEPT ![p] = IF @ = "drain" THEN "flush" ELSE "last"]
  /\ UNCHANGED <<queueVars, done, answered, flushVars, closeVars, historyVars, sent,
                 transportVars>>

\* A fault: the batch is not forgotten.
KeepItems(p) == UNCHANGED items

ForgetItems(p) == items' = [items EXCEPT ![p] = <<>>]

\* close(done)
Answer(p) == answered' = answered \cup {<<done[p], p>>}

\* sendBatch makes one event of the batch and hands it to the transport; after it run
\* goes on, answers the flush or ends.
SendBatch(p) ==
  /\ worker[p] \in {"send", "flush", "last"}
  /\ sent' = [sent EXCEPT ![p] = @ \o items[p]]
  /\ ForgetItems(p)
  /\ Transport!Accept(Elements(items[p]))
  /\ events' = events \cup ({Elements(items[p])} \ {{}})
  /\ worker' = [worker EXCEPT ![p] = IF @ = "last" THEN "exited" ELSE "select"]
  /\ done' = [done EXCEPT ![p] = NoOne]
  /\ IF worker[p] = "flush" THEN Answer(p) ELSE UNCHANGED answered
  /\ UNCHANGED <<itemCh, armed, flushVars, closeVars, historyVars>>

\* The transport has sent an event or recorded its loss.
TransportSettle(event) ==
  /\ events' = events \ {event}
  /\ Transport!Settle(event)
  /\ UNCHANGED <<queueVars, workerVars, flushVars, closeVars, historyVars, sent>>

-----------------------------------------------------------------------------
(* client.FlushWithContext                                                 *)

Flush(f) ==
  /\ flush[f] = "idle"
  /\ flush' = [flush EXCEPT ![f] = "offer"]
  /\ stage' = [stage EXCEPT ![f] = 1]
  /\ asked' = [asked EXCEPT ![f] = {i \in Accepted : place[i] # "settled"}]
  /\ UNCHANGED <<queueVars, workerVars, gaveUp, closeVars, historyVars, sent,
                 transportVars>>

NextStage(f) ==
  \/ /\ stage[f] < Len(Order)
     /\ flush' = [flush EXCEPT ![f] = "offer"]
     /\ stage' = [stage EXCEPT ![f] = @ + 1]
     /\ UNCHANGED transportVars
  \/ /\ stage[f] = Len(Order)
     /\ flush' = [flush EXCEPT ![f] = "transport"]
     /\ Transport!FlushCall(f)
     /\ UNCHANGED <<stage, events>>

\* The processor's Flush returns; the next processor is flushed, and after the last
\* the transport.
FlushNext(f) ==
  /\ flush[f] = "await" /\ <<f, Order[stage[f]]>> \in answered
  /\ NextStage(f)
  /\ UNCHANGED <<queueVars, workerVars, gaveUp, asked, closeVars, historyVars, sent>>

\* The processor's Flush returns because the context is done: to FlushWithContext
\* that is the same.
GiveUp(f) ==
  /\ flush[f] \in {"offer", "await"}
  /\ gaveUp' = gaveUp \cup {f}
  /\ NextStage(f)
  /\ UNCHANGED <<queueVars, workerVars, asked, closeVars, historyVars, sent>>

FlushTrue(f) ==
  /\ flush[f] = "transport"
  /\ Transport!FlushTrue(f)
  /\ flush' = [flush EXCEPT ![f] = "true"]
  /\ UNCHANGED <<queueVars, workerVars, stage, gaveUp, asked, closeVars, historyVars, sent,
                 events>>

FlushFalse(f) ==
  /\ flush[f] = "transport"
  /\ Transport!FlushFalse(f)
  /\ flush' = [flush EXCEPT ![f] = "false"]
  /\ UNCHANGED <<queueVars, workerVars, stage, gaveUp, asked, closeVars, historyVars, sent,
                 events>>

-----------------------------------------------------------------------------
(* client.Close                                                            *)

Cancel(k) ==
  IF k <= Len(Order)
    THEN /\ cancelled' = cancelled \cup {Order[k]}
         /\ before' = [before EXCEPT ![Order[k]] = Len(accepted[Order[k]])]
    ELSE UNCHANGED <<cancelled, before>>

Close ==
  /\ closeStage = 0
  /\ closeStage' = 1
  /\ Cancel(1)
  /\ UNCHANGED <<queueVars, workerVars, flushVars, historyVars, sent, transportVars>>

\* wg.Wait, the next Shutdown, and at last the transport's Close.
CloseNext ==
  /\ closeStage \in 1 .. Len(Order)
  /\ worker[Order[closeStage]] = "exited"
  /\ closeStage' = closeStage + 1
  /\ Cancel(closeStage + 1)
  /\ UNCHANGED <<queueVars, workerVars, flushVars, historyVars, sent, transportVars>>

-----------------------------------------------------------------------------

\* The run of a processor, with the branches of its select.
Run(p) ==
  \/ Receive(p) \/ Timeout(p) \/ SeeCancel(p)
  \/ \E f \in Flusher : TakeFlush(p, f)
  \/ Drain(p) \/ Drained(p) \/ SendBatch(p)

Next ==
  \/ \E i \in Item : Send(i)
  \/ \E p \in Processor : Run(p)
  \/ \E event \in events : TransportSettle(event)
  \/ \E f \in Flusher : Flush(f) \/ GiveUp(f) \/ FlushNext(f) \/ FlushTrue(f) \/ FlushFalse(f)
  \/ Close \/ CloseNext

Spec == Init /\ [][Next]_vars

(***************************************************************************)
(* Fairness: goroutines run on, timers fire and the transport settles what *)
(* it has.  MaxItems bounds how often a branch of the select is taken, so  *)
(* none is passed over for ever.  No timeout of a flush is assumed.        *)
(***************************************************************************)
Fairness ==
  /\ \A p \in Processor : WF_vars(Run(p))
  /\ WF_vars(\E event \in events : TransportSettle(event))
  /\ \A f \in Flusher : WF_vars(FlushNext(f) \/ FlushTrue(f))
  /\ WF_vars(CloseNext)

FairSpec == Spec /\ Fairness

-----------------------------------------------------------------------------
(* Properties *)

TypeOK ==
  /\ itemCh \in [Processor -> Seq(Item)]
  /\ items \in [Processor -> Seq(Item)]
  /\ \A p \in Processor :
       /\ Len(itemCh[p]) <= batchSize
       /\ worker[p] \in {"select", "exited"} => Len(items[p]) < batchSize
       /\ worker[p] = "send" => Len(items[p]) <= batchSize
  /\ armed \subseteq Processor
  /\ worker \in [Processor ->
       {"select", "send", "drain", "flush", "final", "last", "exited"}]
  /\ done \in [Processor -> Flusher \cup {NoOne}]
  /\ answered \in SUBSET (Flusher \X Processor)
  /\ cancelled \in SUBSET Processor
  /\ flush \in [Flusher -> {"idle", "offer", "await", "transport", "true", "false"}]
  /\ stage \in [Flusher -> 0 .. Len(Order)]
  /\ gaveUp \in SUBSET Flusher
  /\ closeStage \in 0 .. Len(Order) + 1
  /\ dropped \in SUBSET Item
  /\ accepted \in [Processor -> Seq(Item)]
  /\ sent \in [Processor -> Seq(Item)]
  /\ asked \in [Flusher -> SUBSET Item]
  /\ before \in [Processor -> Nat]
  /\ events \in SUBSET SUBSET Item
  /\ place \in [Item -> Transport!Places]
  /\ call \in [Flusher -> {"idle", "waiting", "true", "false"}]
  /\ owed \in [Flusher -> SUBSET Item]

\* Whichever of size, timer, flush and shutdown ends a batch, no accepted item is
\* lost, doubled or overtaken by a later one of its processor.
Conserved ==
  /\ TypeOK
  /\ \A p \in Processor : accepted[p] = sent[p] \o items[p] \o itemCh[p]

\* client.Flush that returns true and did not give a processor up has had everything
\* settled that was accepted before it was called: run had to be between two batches and
\* to empty its channel for it, and only then was the transport asked.  And when Shutdown
\* returns, what was accepted before it was called has gone to the transport, which
\* client.Close has not closed yet.
ReturnsSound ==
  /\ \A f \in Flusher : flush[f] = "true" /\ f \notin gaveUp =>
       \A i \in asked[f] : place[i] = "settled"
  /\ \A k \in 1 .. Len(Order) :
       closeStage > k => /\ Len(sent[Order[k]]) >= before[Order[k]]
                         /\ items[Order[k]] = <<>>

Waiting == {i \in Accepted : place[i] = "outside"}
Flushing == {f \in Flusher : flush[f] \in {"offer", "await", "transport"}}

\* All comes to an end that was begun.  Without Close every accepted item goes to the
\* transport, by the timer if by nothing else, and every client.Flush returns without
\* its timeout; client.Close ends with senders and flushes about.
ComesToRest ==
  <>[](/\ closeStage = 0 => Waiting = {} /\ Flushing = {}
       /\ closeStage # 0 => closed)

===============================================================================
