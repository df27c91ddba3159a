-------------------------------- MODULE Client --------------------------------
(***************************************************************************)
(* Client: what becomes of an event, a log or a metric between the call    *)
(* that captures it and the wire, and what client reports say of those     *)
(* that never get there (client.go, scope.go, integrations.go, hub.go,     *)
(* report/aggregator.go).                                                  *)
(*                                                                         *)
(* A capture runs in the goroutine of its caller: sampling, then a chain   *)
(* of processors (those of the scope, of the integrations, of the client   *)
(* and the global ones), then the Before... hook, then the hand-over.  At  *)
(* any of these the item may be dropped, and a transaction may lose some   *)
(* of its spans.  With the telemetry processor the item is put in a buffer *)
(* of its category, which the scheduler empties into the transport;        *)
(* without it a log or a metric goes to a batch and all else straight to   *)
(* the transport.  Who drops an item records it with the aggregator, in    *)
(* one of four ways that each derive the counts anew: from a telemetry     *)
(* item, from an event, from a queued batchItem or from an envelope.       *)
(*                                                                         *)
(* The buffers, the batches, the scheduler and the transports have modules *)
(* of their own; here each keeps only which items it has, and takes any    *)
(* of its decisions at any time.  Reasons of discard, sizes in bytes and   *)
(* items that cannot be serialized are left out.                           *)
(***************************************************************************)
EXTENDS Naturals, Sequences, SequencesExt

CONSTANTS
  Goroutine,   \* those that capture
  Options,     \* the ClientOptions a client is made of
  Captures,    \* what the program captures: kind, way, number of spans, match
  NumItems,    \* bound: items captured
  MaxSpans,    \* bound: spans of a transaction, itself included
  Room         \* what a buffer or a batch holds, by category

Batched == {"log", "trace_metric"}
Kind == {"error", "transaction", "check_in"} \cup Batched

\* Recover and CaptureCheckIn leave LastEventID as it is.
KeepsEventID(way) == way = "capture"

ASSUME ClientAssumption ==
  /\ IsFiniteSet(Goroutine)
  /\ NumItems \in Nat /\ MaxSpans \in Nat
  /\ Captures \subseteq [kind : Kind, way : STRING, spans : Nat, match : STRING]
  /\ Room \in [Kind -> Nat \ {0}]

\* Only transactions have spans, and neither logs nor metrics nor check-ins are
\* captured by what keeps LastEventID.
ASSUME CapturesAssumption ==
  \A c \in Captures :
    /\ c.kind = "transaction" \/ c.spans = 0
    /\ KeepsEventID(c.way) => c.kind \in {"error", "transaction"}

VARIABLES
  client,      \* the Client that NewClient returned
  captured,    \* the number of items captured, also the id of the newest
  call,        \* what each goroutine is capturing
  buffer,      \* the telemetry buffers, or the batches, by category
  queue,       \* the envelopes that the transport has yet to send
  outcomes,    \* the aggregator's counters, by category
  reported,    \* what reports have carried off
  made,        \* ghost: what was captured, by category, and spans added since
  left,        \* ghost: what has left for the server
  handed,      \* ghost: the ids of items that went through the whole chain
  lastEventID  \* the hub's, 0 for none

clientVars == <<client, captured, call, buffer, queue, outcomes, reported, made, left,
          handed, lastEventID>>

Category == Kind \cup {"span"}
Counts == [Category -> Nat]

Zero == [c \in Category |-> 0]
a ++ b == [c \in Category |-> a[c] + b[c]]
Of(category, n) == [Zero EXCEPT ![category] = n]

GetSpanCount(one) == IF one.kind = "transaction" THEN one.spans ELSE 0

\* The counts of a sequence of them together.
Total(counts) ==
  LET upto[i \in 0 .. Len(counts)] == IF i = 0 THEN Zero ELSE upto[i - 1] ++ counts[i]
  IN upto[Len(counts)]

\* Every item and every span of a sequence, once.
Weight(sequence) ==
  Total([i \in DOMAIN sequence |->
           Of(sequence[i].kind, 1) ++ Of("span", GetSpanCount(sequence[i]))])

-----------------------------------------------------------------------------
(* NewClient and what it sets up.                                           *)

\* The integrations by default, and those installed out of what the program
\* made of them: a name counts only the first time.
Default == <<"environment", "modules", "ignoreErrors", "ignoreTransactions", "globalTags">>
Install(names) ==
  FoldLeft(LAMBDA done, name : IF name \in ToSet(done) THEN done ELSE Append(done, name), <<>>, names)

SetupTransport(options) ==
  CASE options.transport # "nil" -> options.transport
    [] options.dsn -> "http"
    [] OTHER -> "noop"

UsesProcessor(options) == ~options.noBuffer /\ options.transport = "nil"

\* The event processors an event meets, in order.  All integrations keep the
\* event or drop it; the scope, the program's client processors and the global
\* ones may also change it.
Chain(options) == <<"scope">> \o Install(options.integrations) \o <<"client", "global">>

NewClient(options) ==
  [samples |-> options.rate \notin {"zero", "one"},
   hooks |-> options.hooks,
   off |-> options.off,
   reports |-> options.reports,
   dsn |-> options.dsn,
   chain |-> Chain(options),
   processor |-> UsesProcessor(options),
   transport |-> IF UsesProcessor(options)
                 THEN IF options.dsn THEN "async" ELSE "noop"
                 ELSE SetupTransport(options)]

-----------------------------------------------------------------------------
(* The aggregator, and the four ways to tell it of what was dropped.        *)

Counted(counts) == IF client.reports THEN outcomes ++ counts ELSE outcomes
Record(counts) == outcomes' = Counted(counts) /\ UNCHANGED reported

\* Swap the counters for zero.
TakeReport == reported' = reported ++ outcomes /\ outcomes' = Zero
TakeReportThenRecord(counts) ==
  /\ reported' = reported ++ outcomes
  /\ outcomes' = IF client.reports THEN counts ELSE Zero

RecordItem(one) == Of(one.kind, 1) ++ Of("span", GetSpanCount(one))

\* An event of logs or an envelope of logs counts for its logs.
SpansOf(envelope) == GetSpanCount(Head(envelope))
RecordForEvent(event) ==
  LET kind == Head(event).kind IN
  IF kind = "log" THEN Of("log", Len(event)) ELSE Of(kind, 1) ++ Of("span", SpansOf(event))
RecordForBatchItem(batchItem) ==
  LET kind == Head(batchItem).kind
      logItemCount == IF kind = "log" THEN Len(batchItem) ELSE 0
  IN IF logItemCount > 0 THEN Of("log", logItemCount)
     ELSE Of(kind, 1) ++ Of("span", SpansOf(batchItem))
\* A fault: the spans of a transaction in an envelope are forgotten.
RecordForEnvelopeOnly(envelope) ==
  LET kind == Head(envelope).kind IN Of(kind, IF kind = "log" THEN Len(envelope) ELSE 1)

RecordForEnvelope(envelope) ==
  LET kind == Head(envelope).kind IN
  CASE kind = "transaction" -> Of(kind, 1) ++ Of("span", SpansOf(envelope))
    [] kind = "log" -> Of(kind, Len(envelope))
    [] OTHER -> Of(kind, 1)

-----------------------------------------------------------------------------
NoCall == [at |-> "idle"]

ClientInit ==
  /\ \E options \in Options : client = NewClient(options)
  /\ captured = 0
  /\ call = [g \in Goroutine |-> NoCall]
  /\ buffer = [k \in Kind |-> <<>>]
  /\ queue = <<>>
  /\ outcomes = Zero
  /\ reported = Zero
  /\ made = Zero
  /\ left = Zero
  /\ handed = {}
  /\ lastEventID = 0

item(g) == call[g].item
Is(g, stage) == call[g].at = stage
Goto(g, stage) == call' = [call EXCEPT ![g].at = stage]

\* The call returns nil, or false.
Drop(g, counts) ==
  /\ Record(counts)
  /\ call' = [call EXCEPT ![g] = NoCall]
  /\ UNCHANGED <<captured, client, buffer, queue, made, left, handed, lastEventID>>

\* EventFromMessage, EventFromException and EventFromCheckIn, or what the program
\* made itself.
NewItem(c) == [id |-> captured + 1, kind |-> c.kind, spans |-> c.spans, match |-> c.match]

\* CaptureEvent, CaptureMessage, CaptureException, Recover, CaptureCheckIn, the
\* Finish of a transaction, a Logger's or a Meter's call: NewLogger and NewMeter
\* give one that does nothing when logs or metrics are off.
Begin(g, c) ==
  /\ Is(g, "idle")
  /\ captured < NumItems
  /\ c.kind \notin client.off
  /\ captured' = captured + 1
  /\ LET new == NewItem(c)
     IN /\ call' = [call EXCEPT ![g] = [item |-> new, way |-> c.way, next |-> 1,
                                        at |-> IF c.kind \in Batched THEN "hook" ELSE "sample"]]
        /\ made' = made ++ Weight(<<new>>)
  /\ UNCHANGED <<client, buffer, queue, outcomes, reported, left, handed, lastEventID>>

\* Only events are sampled here: a transaction was when it started.
Sample(g) ==
  /\ Is(g, "sample")
  /\ \/ /\ item(g).kind \notin {"transaction", "check_in"}
        /\ client.samples
        /\ Drop(g, Of(item(g).kind, 1))
     \/ /\ Goto(g, "chain")
        /\ UNCHANGED <<client, captured, buffer, queue, outcomes, reported, made, left,
                       handed, lastEventID>>

\* The item goes on to stage, with n spans: what is fewer than before is counted.
KeepWith(g, n, stage, next) ==
  LET before == GetSpanCount(item(g)) IN
  /\ call' = [call EXCEPT ![g].item.spans = n, ![g].at = stage, ![g].next = next]
  /\ Record(Of("span", IF before > n THEN before - n ELSE 0))
  /\ made' = made ++ Of("span", IF n > before THEN n - before ELSE 0)
  /\ UNCHANGED <<client, captured, buffer, queue, left, handed, lastEventID>>

\* What a callback of the program may make of an item: a transaction's spans
\* are any number then.
SpansAfter(g) == IF item(g).kind = "transaction" THEN 1 .. MaxSpans ELSE {item(g).spans}

\* An integration drops what matches a pattern of its option, by message and
\* exceptions or by the name of the transaction; the others add to the event.
IgnoreErrors(match) == match = "message"
IgnoreTransactions(match) == match = "name"
Ignored(processor, match) ==
  \/ processor = "ignoreErrors" /\ IgnoreErrors(match)
  \/ processor = "ignoreTransactions" /\ IgnoreTransactions(match)

Dropped(one) == Of(one.kind, 1) ++ Of("span", GetSpanCount(one))

After(g) == IF call[g].next = Len(client.chain) THEN "hook" ELSE "chain"
Meets(g, processors) == Is(g, "chain") /\ client.chain[call[g].next] \in processors

\* A processor of the program drops the event, or keeps it with some spans.
Callback(g) ==
  \/ Drop(g, Dropped(item(g)))
  \/ \E n \in SpansAfter(g) : KeepWith(g, n, After(g), call[g].next + 1)

ApplyToEvent(g) == Meets(g, {"scope"}) /\ Callback(g)

PrepareEvent(g) == Meets(g, {"client", "global"}) /\ Callback(g)

Integration(g) ==
  /\ Meets(g, ToSet(Default))
  /\ IF Ignored(client.chain[call[g].next], item(g).match)
     THEN Drop(g, Dropped(item(g)))
     ELSE KeepWith(g, item(g).spans, After(g), call[g].next + 1)

\* BeforeSend, BeforeSendTransaction, BeforeSendLog, BeforeSendMetric; none for
\* check-ins.
Hook(g) ==
  /\ Is(g, "hook")
  /\ IF client.hooks /\ item(g).kind # "check_in"
     THEN \/ Drop(g, Dropped(item(g)))
          \/ \E n \in SpansAfter(g) : KeepWith(g, n, "add", call[g].next)
     ELSE KeepWith(g, item(g).spans, "add", call[g].next)

-----------------------------------------------------------------------------
(* Handing over.                                                            *)

\* HTTPTransport, the adapter's AsyncTransport and the one under the telemetry
\* processor: full, limited, unable to build the request, or queued.
Enqueue(envelope, counts) ==
  \/ Record(counts) /\ UNCHANGED <<queue, left>>
  \/ queue' = Append(queue, envelope) /\ UNCHANGED <<outcomes, reported, left>>

\* HTTPSyncTransport: limited before it takes the report along, refused or not
\* reached after, or sent.
SendSync(envelope) ==
  /\ \/ Record(RecordForEvent(envelope)) /\ UNCHANGED left
     \/ TakeReportThenRecord(RecordForEvent(envelope)) /\ UNCHANGED left
     \/ TakeReport /\ left' = left ++ Weight(envelope)
  /\ UNCHANGED queue

\* Nothing is counted of what goes to a client without DSN or to a transport
\* of the program.
SendElsewhere(envelope) ==
  left' = left ++ Weight(envelope) /\ UNCHANGED <<queue, outcomes, reported>>

\* Transport.SendEvent or AsyncTransport.SendEnvelope.
Send(envelope) ==
  IF client.transport \in {"noop", "custom"} \/ ~client.dsn THEN SendElsewhere(envelope)
  ELSE CASE client.transport = "sync" -> SendSync(envelope)
         [] client.transport = "async" -> Enqueue(envelope, RecordForEnvelope(envelope))
         [] client.transport = "adapter" ->
              \/ Enqueue(envelope, RecordForEnvelope(envelope))
              \/ Record(RecordForEvent(envelope)) /\ UNCHANGED <<queue, left>>
         [] OTHER -> Enqueue(envelope, RecordForEvent(envelope))

\* A full ring drops its oldest item and records it.
OfferItem(new) ==
  LET ring == buffer[new.kind] IN
  IF Len(ring) = Room[new.kind]
  THEN /\ buffer' = [buffer EXCEPT ![new.kind] = Append(Tail(ring), new)]
       /\ Record(RecordItem(Head(ring)))
  ELSE /\ buffer' = [buffer EXCEPT ![new.kind] = Append(ring, new)]
       /\ UNCHANGED <<outcomes, reported>>

\* The id is returned, whatever became of the event; nothing more is to do but
\* for CaptureException, CaptureMessage and CaptureEvent.
GiveId(g) ==
  /\ call' = [call EXCEPT ![g] = IF KeepsEventID(call[g].way) THEN [@ EXCEPT !.at = "return"] ELSE NoCall]
  /\ handed' = IF item(g).kind = "error" THEN handed \cup {item(g).id} ELSE handed
  /\ UNCHANGED <<client, captured, made, lastEventID>>

\* A fault: transactions count too.
ReturnAlways(g) ==
  /\ Is(g, "return")
  /\ call' = [call EXCEPT ![g] = NoCall]
  /\ lastEventID' = item(g).id
  /\ UNCHANGED <<client, captured, made, handed, buffer, queue, outcomes, reported, left>>

\* Those three keep the id for LastEventID, but for transactions; Recover and
\* CaptureCheckIn do not.
ReturnId(g) ==
  /\ Is(g, "return")
  /\ call' = [call EXCEPT ![g] = NoCall]
  /\ lastEventID' = IF item(g).kind = "transaction" THEN lastEventID ELSE item(g).id
  /\ UNCHANGED <<client, captured, made, handed, buffer, queue, outcomes, reported, left>>

\* telemetryProcessor.Add
Add(g) ==
  /\ Is(g, "add")
  /\ client.processor
  /\ OfferItem(item(g))
  /\ UNCHANGED <<queue, left>>
  /\ GiveId(g)

\* batchLogger.Send or batchMeter.Send: a full channel turns the item away.
AddToBatch(g) ==
  LET new == item(g) IN
  /\ Is(g, "add")
  /\ ~client.processor /\ new.kind \in Batched
  /\ IF Len(buffer[new.kind]) = Room[new.kind]
     THEN Drop(g, Of(new.kind, 1))
     ELSE /\ buffer' = [buffer EXCEPT ![new.kind] = Append(@, new)]
          /\ UNCHANGED <<queue, outcomes, reported, left>>
          /\ GiveId(g)

SendEvent(g) ==
  /\ Is(g, "add")
  /\ ~client.processor /\ item(g).kind \notin Batched
  /\ Send(<<item(g)>>)
  /\ UNCHANGED buffer
  /\ GiveId(g)

-----------------------------------------------------------------------------
(* The goroutines behind.                                                   *)

Rest == <<client, captured, call, made, handed, lastEventID>>

\* The scheduler finds the category limited or the transport without capacity,
\* and records what it took item by item; or sends it, logs and metrics in one
\* envelope.  A batch processor sends an event of all it has.
Forward(k, n) ==
  LET batch == SubSeq(buffer[k], 1, n) IN
  /\ n <= Len(buffer[k])
  /\ k \notin Batched => n = 1
  /\ buffer' = [buffer EXCEPT ![k] = SubSeq(@, n + 1, Len(@))]
  /\ \/ Send(batch)
     \/ /\ client.processor
        /\ Record(Total([i \in DOMAIN batch |-> RecordItem(batch[i])]))
        /\ UNCHANGED <<queue, left>>
  /\ UNCHANGED Rest

\* How the worker of the transport records what it fails to send.
Failed(envelope) ==
  IF client.transport = "http" THEN RecordForBatchItem(envelope) ELSE RecordForEnvelope(envelope)

\* The worker takes the next envelope: it is limited, or takes the report
\* along and fails, or arrives.
Deliver ==
  /\ queue # <<>>
  /\ queue' = Tail(queue)
  /\ \/ Record(Failed(Head(queue))) /\ UNCHANGED left
     \/ TakeReportThenRecord(Failed(Head(queue))) /\ UNCHANGED left
     \/ TakeReport /\ left' = left ++ Weight(Head(queue))
  /\ UNCHANGED <<buffer, Rest>>

\* The worker's tick sends a report by itself.
SendClientReport ==
  /\ client.dsn /\ client.transport \in {"async", "adapter", "http"}
  /\ outcomes # Zero
  /\ TakeReport
  /\ UNCHANGED <<buffer, queue, left, Rest>>

Step(g) == Sample(g) \/ ApplyToEvent(g) \/ Integration(g) \/ PrepareEvent(g) \/ Hook(g)
           \/ Add(g) \/ AddToBatch(g) \/ SendEvent(g) \/ ReturnId(g)

ClientNext ==
  \/ \E g \in Goroutine : Step(g) \/ \E c \in Captures : Begin(g, c)
  \/ \E k \in Kind : \E n \in 1 .. Room[k] : Forward(k, n)
  \/ Deliver
  \/ SendClientReport

ClientSpec == ClientInit /\ [][ClientNext]_clientVars

-----------------------------------------------------------------------------
Capturing == {g \in Goroutine : call[g] # NoCall}

ClientTypeOK ==
  /\ outcomes \in Counts /\ reported \in Counts /\ made \in Counts /\ left \in Counts
  /\ captured \in 0 .. NumItems /\ lastEventID \in 0 .. NumItems
  /\ \A k \in Kind : Len(buffer[k]) <= Room[k]
  /\ \A g \in Capturing : call[g].at \in {"sample", "chain", "hook", "add", "return"}

\* What is on its way: in the hands of its caller, in a buffer, or queued.
InHand(g) == IF g \in Capturing /\ ~Is(g, "return") THEN Weight(<<item(g)>>) ELSE Zero

Held ==
  LET goroutines == SetToSeq(Goroutine)
      called == Total([i \in DOMAIN goroutines |-> InHand(goroutines[i])])
      inBuffers == Weight(buffer["error"]) ++ Weight(buffer["transaction"]) ++ Weight(buffer["check_in"])
                     ++ Weight(buffer["log"]) ++ Weight(buffer["trace_metric"])
      queued == Total([i \in DOMAIN queue |-> Weight(queue[i])])
  IN inBuffers ++ queued ++ called

\* Whatever drops an item or a span, and however it derives the counts, each is
\* counted exactly once: what was captured is on its way, has left, is counted
\* or has been reported.  Metrics that are dropped as a batch count for one.
ClientAccounted ==
  LET accounted == Held ++ left ++ outcomes ++ reported IN
  /\ ClientTypeOK
  /\ client.reports => \A c \in Category \ {"trace_metric"} : made[c] = accounted[c]
  /\ accounted["trace_metric"] <= made["trace_metric"]

\* LastEventID names an error or a message that was handed over: neither a
\* transaction nor an event that sampling, a processor or a hook dropped.
LastWasHanded == lastEventID \in handed \cup {0}

=============================================================================
