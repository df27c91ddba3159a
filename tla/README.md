# sentry-go in TLA+

TLA+ models of the Sentry SDK for Go, checked with TLC and, for every value of
their constants, proved with TLAPS. `PROJECT.json` lists the components, the
runs, the fault that breaks each property, the lines each definition stands
for, the hazards and the theorems.

## 1. The system

An application calls a *hub*, which has a *scope* (data for the next events) and
a *client*. The client turns a call into an event, log or metric, runs it through
processors and hooks, and hands it on:

    application goroutines
       |  hub.go, scope.go, tracing.go, log.go, metrics.go
       v
    Client (client.go) ----------------------- DisableTelemetryBuffer ----+
       |                                                                  |
       v                                                                  v
    Processor -> Scheduler -> one RingBuffer per category      batchProcessor (logs,
       (internal/telemetry)      goroutine run                  metrics: one goroutine)
       |  SendEnvelope, HasCapacity, FlushWithContext                     |
       v                                                                  v
    AsyncTransport (internal/http): queue, worker        HTTPTransport (transport.go)
       |                                                       batches, worker
       +--------------------> HTTP <--------------------------------------+

Every party that drops an item records it in the client's *aggregator*; the
transports take the counts out of it and send them as client reports. Answers
carry *rate limits* per category, which the transports and the scheduler obey.

| Component | State | Operations | What is hard | What makes it correct |
|---|---|---|---|---|
| RingBuffer | array, head, tail, size, two atomic counters, time of the last flush | Offer, Poll, PollBatch, PollIfReady, Drain, Clear, MarkFlushed | indices that wrap while full; Offer counts before it locks | a bounded FIFO; every item held, delivered, reported or cleared |
| BucketedBuffer | ring of buckets, index from trace to bucket, counters | the same | a trace in several buckets, an index that must follow every removal | index sound, ring sound, order within a trace |
| Scheduler, Processor | a buffer per category, rotation, condition variable, context | Add, Signal, run, Flush, Stop | wake-ups that are lost; run and several flushes take from the same buffers; Stop and the transport's Close | nothing taken twice or lost; what Flush says is true; no starvation; everything ends |
| AsyncTransport | bounded queue, worker, flush requests, closeMu, done | SendEnvelope, Flush, Close, client reports | senders, flushers, worker and Close interleave; the answer to a flush | true means settled; each drop counted once; nothing queued after Close |
| HTTPTransport | a channel that holds the current batch and is its lock | SendEvent, Flush, Close | who may close a channel, batches that succeed each other | no closed channel used; true means settled; flushes end |
| batchProcessor | channel, timer, flush channel, context | Send, Flush, Shutdown | timer, size and flush end a batch; shutdown drains | each item sent once, before Shutdown returns |
| Aggregator | counters by reason and category | Record, TakeReport, RecordForEnvelope | recording against taking; the counts are derived in four places | no count lost or doubled |
| Rate limits | deadline per category | parse, Merge, IsRateLimited | odd headers, boundaries, answers in any order | the later deadline wins |
| Client | options, dsn, hooks, processors, transport | captures, processEvent, Flush, Close | who may drop an item or a span, and who counts it | an item is sent or counted once |
| Hub | stack of layers, last event id | PushScope, PopScope, BindClient, Clone, captures | a hub shared by goroutines; reads and appends in two steps | never empty; WithScope leaves the stack as it was |
| Scope | tags, breadcrumbs, processors, span, attachments | setters, Clone, Clear, ApplyToEvent | clones must share nothing; limits | a clone is independent; the newest breadcrumbs are kept |
| Tracing | span tree, recorder, sampling decision, sampling context | StartSpan, Finish, ToBaggage, ContinueTrace | order of Finish; precedence of decisions; a context once frozen; goroutines that share a tree | children follow the root; a transaction is sent once, with what had finished; one trace in all headers |
| Layers of web frameworks | hub and transaction in the request's context, the wrapped response | handle, recoverWithSentry, deferred functions | panics through several layers; a layer installed twice; what must be put back | a request has a hub of its own; a panic is reported once, before its transaction ends |
| Outgoing calls | the transaction of a connection, the span of a stream, the obfuscator's pending dot | Query, Begin, Commit, RoundTrip, SendMsg, RecvMsg | a pooled connection; three that finish one stream; skipped statements | each span finished once; a query below its transaction; no literal in a query's text |
| Loggers, meters | attributes, hooks and their levels | the levels' Emit, SetAttributes, With..., the hooks | hooks that fail, panic or exit; goroutines that share attributes | every record is captured by each hook that takes its level, with its own attributes |

## 2. The modules

| Module | Models | Uses |
|---|---|---|
| `BoundedFifo` | what a buffer promises: a queue of limited length and what happens when it is full | |
| `RingBuffer` | `internal/telemetry/ring_buffer.go` | implements `BoundedFifo` |
| `BucketedBuffer` | `internal/telemetry/bucketed_buffer.go` | |
| `TelemetryTransport` | what `protocol.TelemetryTransport` promises: items are pending from acceptance until they are settled; a flush owes what was pending at its call | |
| `AsyncTransport` | `internal/http/transport.go` | implements `TelemetryTransport` |
| `AsyncTransportProofs` | theorems | |
| `HTTPTransport` | `transport.go`, type HTTPTransport | implements `TelemetryTransport` |
| `HTTPTransportProofs` | theorems | |
| `BatchProcessor` | `batch_processor.go`, the log and the metric processor, and `client.Flush` and `client.Close` over them | composed with an instance of `TelemetryTransport` |
| `BatchProcessorProofs` | theorems | |
| `Scheduler` | `scheduler.go`, `processor.go` and the part of `client.Close` that closes the transport | composed with an instance of `TelemetryTransport`; its buffers are the queues of `BoundedFifo` |
| `SchedulerProofs` | theorems | |
| `Hub` | `hub.go`, and what a scope of `scope.go` shares with its clones | |
| `HubProofs` | theorems | |
| `Tracing` | `tracing.go`, `span_recorder.go`, `dynamic_sampling_context.go`, `propagation_context.go`, and where hub and scope read them | |
| `TracingProofs` | theorems | |
| `Client` | the way of an item from its capture to the wire: `client.go`, `integrations.go`, `report/aggregator.go`, and the drops and reports of all transports | |
| `RateLimits` | `internal/ratelimit`, and what the transports ask of it | |
| `Middleware` | the layers of `http`, `gin`, `echo`, `fasthttp`, `fiber`, `fiberv3`, `iris`, `negroni`, `grpc/server.go` | |
| `Outgoing` | `sql`, `httpclient`, `grpc/client.go` | |
| `Loggers` | `log.go`, `metrics.go`, `logrus`, `slog`, `zap`, `zerolog` | |
| `PartsProofs` | theorems about `Middleware`, `RingBuffer` and `BucketedBuffer` | |
| `CaptureProofs` | theorems about `RateLimits`, `Outgoing`, `Loggers` and `Client` | |
| `MCParts` | puts `Client`, `RateLimits`, `Middleware`, `Outgoing`, `Loggers`, `RingBuffer` and `BucketedBuffer` into one run, each in its own part of the states | all of these |
| `MCStop` | puts Stop and the rotation of `Scheduler` into one run | `Scheduler` |

`MC` modules give the constants values for TLC. A name after "A fault:" is a
mutated form of the definition below it; no specification uses it.

**RingBuffer.** Items are numbered in the order their Offer began. `items`,
`head`, `tail`, `size`, `offered` and `dropped` are the fields; `elapsed` is the
time since `lastFlushTime` in ticks. Offer is `CountOffer` and then
`OfferLocked`; each other method, which holds the mutex throughout, is one
action. `taken`, `recorded` and `cleared` remember what left the buffer.
`policy` is chosen at first and never changes.

**BucketedBuffer.** The same, over `buckets`, `traceIndex`, `head`, `tail`,
`totalItems`, `bucketCount`. Offer is one action with a disjunct for each
outcome. `Poll`, `PollBatch` and `PollIfReady` all hand over a number of whole
buckets and of further items, which is `TakeFront`. The slots that
`handleOverflow` and `Drain` leave as they are stay as they are in the model.

**AsyncTransport.** `sending`, `flush` and `closer` are the program counters of
goroutines in SendEnvelope, FlushWithContext and Close; `worker` is that of the
worker. The RWMutex is the pair `Readers`, `MayRead`: a writer that waits keeps
new readers out, as Go's does. A request is two steps: `Receive` (with the report that
rides on the envelope) and `SendDone`, which picks the outcome: success, an
error answer or a network error, and any rate limits. `fate` is what became of an
envelope. `unreported`, `riding`, `reported`, `unsent` are where a recorded drop
is on its way into a client report.

**HTTPTransport.** The channel `t.buffer` of capacity one is a variable; a
receive leaves `Taken` in it and every send back is a step of its own. Batches
are numbered; `itemsClosed`, `started` and `finished` are the batches with that
channel closed. `panicked` becomes true when a closed channel is closed or sent
on.

**Scheduler.** `run` is split where another goroutine can come between: the test
of `hasWork` and the context (`Check`), the start of `cond.Wait` (`Park`), the
second test (`Awake`), the choice of a buffer (`TakeTurn`), the poll (`Poll`),
then `Discard` or `Dispatch` and one `SendItem` for each envelope. A flush goes
through the buffers in any order (`FlushBuffer`), sharing `Discard`, `Dispatch`
and `SendItem` with run, and then waits for the transport. Stop is a flush
followed by `StopCancel`, `StopBroadcast`, `StopReturn`; then `TransportClose`.
Signal is a step after Add, and finds a waiter only once run is parked. `Again`
is no step of `Scheduler`: the rotation of `MCStop` adds it to have captures without end.

**BatchProcessor.** One `itemCh`, `items` and run for each processor. The select
of run is `Receive`, `Timeout`, `TakeFlush`, `SeeCancel`; a batch that is
complete is sent in a step of its own, so that senders can fill the channel
before it. `armed` are the timers that run or have ticked: Go 1.23 and later
(go.mod asks for 1.25) deliver a tick when it is received and `Reset` takes it
back, so the tick itself is no step. `client.Flush` offers its done channel to
the processor of its `stage` and waits; where its context is done it goes on to the next
(`GiveUp`), as FlushWithContext does. `client.Close` shuts the processors down in
the same order.

**Hub.** Each step that takes and releases `hub.mu` is an action: `PushScope` is
`PushLook`, `CloneScope`, `AppendLayer`; `Clone` ends in `NewHub`; `BindClient` is
`BindLook` and `SetClient`; `AddBreadcrumb` looks once for the limit (`CrumbLook`)
and once for the scope (`CrumbScope`); what sets something on `hub.Scope()` looks first
(`ScopeLook`). `at` is where a goroutine is and what it saw. A goroutine calls
PopScope for a PushScope of its own (`open` counts them), or a PopScope too many
where nobody is inside of one: whoever pops the layer of another gets what they
ask for. Of a scope's fields `tags` stands for the maps, with the map it refers to
in `maps`, and `processors` for the slices: an array on the `heap`, a length and a
capacity, appended to in place while there is room. `fresh` is what each scope
would have if clones copied everything. A map holds the last value set, since a
second key would behave as the first. No client is bound once each is in use,
and a call that needs a new layer begins only while there is one: both are bounds.

**Tracing.** `span` is the spans with what StartSpan and Finish set on them,
`recorder` the recorded ones of each transaction, `scopeSpan` and `pctx` what
each hub's scope has. StartSpan is `Create` (within `StartTransaction` and
`StartChild`: trace, parent, headers, decision), `Record` and `Attach`; Finish is
`Finish`, `Restore`, `Ignore`, then `CountLoss`, or `ToEvent` and `Capture`. Goroutines start
and finish spans of one tree between these. A rate is one of four that decide
differently; a header is absent, malformed or carries a decision.

**Client.** A capture is `Begin`, `Sample`, then one step for each processor of
the chain (`ApplyToEvent`, `Integration`, `PrepareEvent`), `Hook`, and `Add`,
`AddToBatch` or `SendEvent`, then `Return`, which sets LastEventID. `buffer` and `queue`
stand for buffers, batches and the transport's queue; `Forward`, `Deliver` and
`SendClientReport` are the goroutines behind. Each place that drops counts with the
operator the code uses there: `RecordItem`, `RecordForEvent`,
`RecordForBatchItem` or `RecordForEnvelope`. `made`, `left` and `handed` are ghosts.

**RateLimits.** A header is a sequence of limits, a limit a duration and words.
`Answer` parses and merges; `SendEnvelope` asks for the category that
`CategoryFromEnvelope` finds. The ghost `told` collects what the server said
without parsing order.

**Middleware.** A framework is a record: where its layer looks for the hub, what
it does to the request's context, where the status comes from. A request has a stack of
`frames`, one for each layer that was entered, and the deferred functions of a
frame run one by one: `RecoverWithSentry`, `FinishTransaction`, `Leave`. What the handler does
(`Write`, `Capture`, `SetResponse`, `Fail`, `Panic`) is the environment: among others it may
return an error after it has sent a response.

**Outgoing.** `conn` is a connection with its `sentryTx`, `stream` a gRPC stream,
`trip` an HTTP request; `out` the spans they start. `sync.Once` is `EnterFinish`, `RunFinish`
and `LeaveFinish`, since the others wait for the first. The obfuscator is a fold
over tokens.

**Loggers.** A record is a queue of stages (`todo`), which its library and its
hooks' levels determine (`Stages`). `End` is how a record ends: it returns,
panics or exits the process, and then whatever stages it had left never come. A hook of
logrus that captures nothing proceeds when its fallback is content (`LogEvent`), and otherwise
fails (`EventFails`, `Invalid`), after which logrus skips the hooks that are left. Each hook has
a fallback of its own in the code; here one setting stands for all, and a fallback
may return an error or not each time, so hooks with different ones are among the behaviours. `instance` and
`changes` are the attributes of loggers, handlers and cores and what was made from
what; `room` is what goroutines wrote behind a handler's attributes.

### Abstractions

Payloads are data; an envelope or an item has an identity and a category.
Building a request or an envelope may fail, where the code has such a branch,
by a choice. Rate limits are sets of limited categories, of which any may be
added by an answer and any may expire. Metrics, debug output and read-only
getters are left out. In `Scheduler`, a rate limit or a transport without
capacity may discard any batch; whether `SendEnvelope` then accepts is the
transport's choice, and a refused envelope is settled, since the transport
records it. `Configure` of HTTPTransport is called once.

## 3. The runs

The bounds are at the head of each `.cfg`. "States" are distinct states.

| Run | Bounds | Properties | States |
|---|---|---|---|
| AsyncTransport | a sender, a flusher, Close; two envelopes, a queue of one | `OnePlace`, `ReportedOnce`, `NoSendAfterClose`; implements `TelemetryTransport`; `ComesToRest`: what is queued is dealt with, calls and worker end | 68 thousand |
| HTTPTransport | two senders with an event each and a flusher, or one sender and two flushers; batches of one; Close | `NoPanic`, `ReportedOnce`; implements `TelemetryTransport`; `ComesToRest` | 103 thousand |
| SchedulerFlush | one error, a batch of two logs of which one cannot be converted; a flush against run | `OnePlace`, `FlushSound`, `DropsRecorded` | 3.8 million |
| SchedulerStop | two errors for a buffer of one, Stop and the transport's Close against run; apart from it an error and a log captured again and again, weights 5 and 2 | `RefusedOnlyLate`, `CallsReturn`; `Rotates` | 236 thousand |
| BatchProcessor | three logs, batches of two; a flush and Close over both processors | `Conserved`, `ReturnsSound`, `ComesToRest` | 755 thousand |
| Hub | two goroutines, two hubs, three layers, three writes | `StackBalanced`, `ScopesIndependent`, `CrumbsInOrder`, `FirstLayerStays` | 2.2 million |
| Tracing | two goroutines, two hubs, three spans, two transactions, at most two recorded children | `TreeSound`, `SentSound`, `Accounted`, `DecisionKept`, `OneTrace` | 663 thousand |
| Parts | nine parts: rate limits (three answers), layers (two requests), sql, http, grpc, loggers, client (two captures), the ring buffer, the bucketed buffer | `LimitsTrue`; `OwnRequest`, `Unwound`; `FinishedOnce`, `QueryHome`, `TextKept`; `AsLogged`; `ClientAccounted`, `LastWasHanded`; `Accounting`, implements `BoundedFifo`; `HeldExactly`, `TraceOrder` | 967 thousand |
| SchedulerRunClaim | Stop, one error | `RunEnds` is violated | |
| HubClaim | one goroutine, a client with a smaller limit | `NewestKept` is violated | |
| TracingClaim | as Tracing | `SameBaggage` is violated | |
| LoggersClaim | as Parts | `ExitFlushed` is violated | |

A name of the table may be a conjunction: `NoPanic`, `Conserved`, `OnePlace` of Scheduler, `TreeSound`
and `Accounted` of Client hold the type invariant of their module.

Runs that combine parts choose the part at the start and leave the others'
variables alone, so that the states are the sum and not the product. `HTTPTransport`
has a second sender in one part and a second flusher in the other.

Why the bounds are enough. The array of three wraps within five offers with the
buffer full, part full and empty. Three buckets of two with two traces give a
trace several buckets, a full bucket, and each of the two limits (buckets and
items) reached first. In HTTPTransport two goroutines of a kind are what
it takes for one to overtake the other; a third adds no new pair, and a queue or
batch of one is both full and empty within a step. The safety of AsyncTransport
is proved for any number of goroutines, so its run is small. Three logs are one
more than the channel of a batch processor holds, and a batch and a half; the
second processor is there for the stages of Flush and Close. The scheduler's batch of
two logs is one that a flush, the timeout or the size can make go, and the
rotation has two priorities, each with more than one turn. Three layers are a
hub's first, one that is pushed or cloned from it and one cloned from that; three
writes fill a slice, grow it and write into the room this left. Three spans in
two transactions have a child that outlives its parent, a grandchild, one beyond
the limit of two, and two transactions on one hub. Two layers of a framework are
one that finds what the other left; two requests, records, captures and senders
are those that can disturb each other. The frameworks of `MCFramework` differ in the fields
of their record; fiberv3 and negroni are like fiber and http in all of them.

Deadlock is not checked: each system may stop, when the transport is closed or
the bound on items is reached. That goroutines do end is a liveness property.

### What the violations show

*SchedulerRunClaim.* `Stop` calls `cancel()` and `cond.Broadcast()` without
holding `s.mu`. When run has found `ctx.Err()` nil and not yet called
`cond.Wait()`, the broadcast wakes nobody; the ticking goroutine sees the
cancelled context and returns; run waits for ever. `Stop` itself ends by its
timeout (`CallsReturn` holds), but the goroutine with its buffers and its transport
stays, where `processor.go:52` says that Close "releases resources".

*HubClaim.* `AddBreadcrumb` keeps `breadcrumbs[1:limit+1]` of those it has
when they are more than the limit. They may be more than one too many: a hub
without a client takes 100, and a client with a smaller limit may be bound to it.
Then it is the newest that are cut off, and the oldest that stay, where `scope.go:71` says
that it "throws the old one". `CrumbsInOrder` is what does hold.

*TracingClaim.* `ToBaggage` asks whether the sampling context of its own span is
frozen, which that of a child never is, and then replaces that of the transaction, also one
that came frozen from upstream. `tracing_test.go:1137` says that "Calling ToBaggage() on a
child span should return the same result".

*LoggersClaim.* The hook for logs ends a fatal record with the SDK's own
`Fatal`, which calls `os.Exit(1)` inside the hook: the exit handler that `logrus/README.md:88`
registers for event and log hooks, "Flushes before calling os.Exit(1) when using
logger.Fatal", never runs. (The example's log hook takes Info only; its handler flushes both hooks
all the same, and `NewLogHook` accepts the fatal level.)

### What the properties leave out

Met while modelling, and visible in the properties as what they except:

- `FlushSound` of `Scheduler`: an item that run has polled and not yet sent is in no buffer
  and not in the transport, so `Flush` may return true before it is sent, where `client.go:738`
  says that it waits until "any buffered events" are.
- `ReturnsSound`: `client.Flush` whose context ended while a batch processor was
  flushed may still return true, when the transport answers as fast.
- `OnePlace` of `AsyncTransport`: what was accepted before Close may stay in the queue, neither
  sent nor counted. `Conserved`: `Send` of a batch processor returns true after
  Shutdown, and the item stays in the channel.
- `DropsRecorded`: when no item of a batch can be converted one loss is recorded
  for all, and when some cannot, none. `Accounted` of `Client`: metrics dropped as an envelope
  count for one.
- `HeldExactly`: a known trace is appended to beyond the buffer's capacity, and
  an older bucket that goes takes a newer one's entry out of the index.
- `LastWasHanded`: Recover and CaptureCheckIn do not set LastEventID.
- `LimitsTrue`: an envelope of metrics is held back only by a limit of all categories.
- `StatusTrue` (`Misread`): the response wrapper keeps a status of 1xx that came first; fiber
  records the status before its error handler has run. In echo, a handler that sends a response
  and then returns an error with a code has the code recorded (`echo/sentryecho.go:101`), though the
  client keeps the first status; one that sends nothing and returns an error without a code
  has the untouched response's 200 recorded, though echo answers 500; and of one that puts in a
  response that does not unwrap no status is recorded (`hidden`).
- `AsLogged` (`Cut`): a hook of logrus that fails keeps the record from the hooks after it.
  It fails when it has no fallback, and also when the fallback returns an error
  of its own (`logrus/logrusentry.go:159` and `:384`). `Cut` excepts only records with which a hook
  did fail (the ghost `failed`) or that a hook for logs ended.
- `FinishedOnce`: a query that a driver answers with ErrSkip leaves its span unfinished.
- `TextKept`: dots of SQLite before a quoted name or a string, which go also where no quoted name comes before them.
- `Attributed` of `Loggers`: goroutines that log with one slog handler whose attributes have
  room behind them may overwrite each other's.
- `OneTrace` speaks of transactions that have their hub to themselves: on a shared one, the
  sampling context is that of whichever span the scope has.

Not in a property: `ApplyToEvent` runs a scope's processors under the scope's
read lock, so a processor that calls a setter of that scope never returns; the models take it
as one step. `Configure` of HTTPTransport, called a second time, leaves the
worker with the first channel; the models call it once.

### Fairness

Liveness is checked under the fairness that Go and the network give, and
no more:

- a goroutine inside a call goes on (weak fairness of its steps);
- a request ends, since the HTTP clients have a timeout;
- a `select` picks at random among ready branches, so none that is ready again
  and again is passed over for ever (strong fairness of each branch of the
  workers); the same for a range over a map, by which `processNextBatch`
  chooses among the buffers of a priority;
- a channel serves its receivers in the order they came (strong fairness of the
  receives from `t.buffer` in HTTPTransport);
- tickers tick while their goroutine lives, and timeouts of a buffer pass.

In `BatchProcessor` weak fairness of run is enough, since the bound on items
bounds how often each branch of its select is taken.

The runs `Tracing`, `Hub` and `Parts` check safety only.

Nobody is forced to call Add, Send, SendEnvelope, Flush or Close, rate limits need not
expire, and the timeout of a flush of a transport is never forced to come: flushes end
without it, or because the transport is closed. In `Scheduler`, where the transport is abstract,
a waiting flush ends because the transport answers or its context does.

## 4. The theorems

All theorems hold for every value of the constants that satisfies the named
assumptions of the module: `ArgsAssumption` (RingBuffer), `TransportAssumption`
(AsyncTransport), `HTTPTransportAssumption`, `HubAssumption`, `SchedulerAssumption`,
`BatchAssumption`, `TracingAssumption`, `BucketAssumption`, `MiddlewareAssumption`,
`RateAssumption`, `ResponseAssumption` and `EnvelopeAssumption` (RateLimits),
`QueriesAssumption` (Outgoing), `LoggingAssumption` and `LoggersAssumption`,
`ClientAssumption` and `CapturesAssumption`. TLC evaluates each in the module's run. They say
of the constants what the code's defaults and types give (a capacity is positive, a category
has a weight, there are finitely many callers, a framework is one of those modelled, a
status code is positive, a header is a sequence of limits, a query one of words), that the
values of an attribute can be told apart (`LoggersAssumption`), what the categories of an
envelope's items are (`EnvelopeAssumption`), that only transactions have
spans, and that what sets LastEventID captures errors, messages and transactions (`CapturesAssumption`).

In each module the proof goes the same way. The safety properties are not inductive; an
invariant `IInv` is, which adds what ties the parts of the state together. There is one
lemma for its initial states, one for each part of it (or one for each action), and the
theorems follow by temporal logic. The parts are what a reader should check against the
code.

What a fold or a recursive function computes is shown by induction all the same. The
library's theorems for it take an operator as a parameter, which no prover here can
instantiate; `NatSetInduction` of CaptureProofs takes a set instead, the numbers for which
something holds, and follows from the well-foundedness of `<`. `Recursion` and
`OverExists` say that a function given by its first value and its steps exists,
`OverUnique` that there is one, `FoldFacts` what a fold over an appended sequence is, and
`AppendInduction` that every sequence comes about by appending. The proofs about headers,
queries, hooks and counts use these.

**AsyncTransportProofs.** The inductive invariant `IInv` adds to the properties
`WorkerInv` (the worker has an envelope exactly while it sends one, and drains
for a flusher that has no answer yet), `FlushInv` (what a flush asked for is on
its way or settled, and settled once it is answered) and `CloseInv` (nobody is
inside SendEnvelope once done is closed). `FlushInv` is needed because
`FlushSound` speaks only of the moment of the answer, and `OnePlace` because a
drain ends with an empty queue: an envelope that was asked for could otherwise
still be somewhere else. From it follow `TypeCorrect`, `EnvelopesInOnePlace`,
`FlushCorrect`, `EachDropReportedOnce`; `NothingSentAfterClose` is an action
property and needs `CloseInv`. `TransportImplemented`: AsyncTransport implements
`TelemetryTransport`; `Place` and `Call` are the refinement mapping.

**HTTPTransportProofs.** `NeverPanics` is about the channel of the batch, which senders
send on and flushes close. `LockInv` says that whoever has received from `t.buffer` and not
sent back has the batch that was made last, alone: the buffered channel is a lock.
`BatchInv` says that all batches but the last are closed and handed to the worker, which
takes them in order; `CountInv`, that each flush makes at most one more, so that the
model's batches never run out (its bound hides no step). `EventInv` gives every event
one place. For the refinement, `TransportImplemented`, `FlushInv` says where the events
are that a waiting flush asked for: settled, in the batch it waits for or an earlier
one, or in the worker's hand out of one of these. So when that batch is finished they
are settled. `EachDropReportedOnce` is `ReportInv`.

**HubProofs.** `FirstLayerKept` needs that every hub a goroutine uses has a stack
(`StackInv`) and that what a goroutine saw still exists (`CallInv`).
`ScopesShareNothing` needs `SliceInv`, that a slice with a capacity is part of its
array, and `RoomInv`: of the slices of one array at most one has room
behind its elements, and it is the longest; so an append in place overwrites
nothing another slice can see. `s[:len(s):len(s)]` in Clone is what makes `RoomInv`
hold for a clone. `AppendLemma` says what an append does, for a slice alone.
`StacksBalanced`: the length of a hub's stack is one more than the number of PushScopes
not undone on it, counted as a set of pairs (goroutine, depth) so that it is finite and
changes by one element; `OpenInv` bounds it and says that who clones a hub has none open.
`BreadcrumbsInOrder`: what a goroutine read as the limit, before it took the scope's lock,
is some client's limit (`CrumbInv`), which is all the property can promise.

**SchedulerProofs.** An item's place follows from four variables; `BufferInv`, `HandInv`
and `ItemInv` say that the sequences that the code has (the buffers, and what a goroutine
took out of one) hold exactly the items these variables put there, each once.
`ItemsInOnePlace` is a consequence. `FlushInv`: what a flush found
in a buffer is in a category it has still to look at or has been taken out, and it waits for
what it took out itself. `StopInv`: the transport is closed only by a Stop at its end,
with the loop gone or given up; `RefusalsLate` follows. `DropsAreRecorded` is inductive
as it stands.

**BatchProcessorProofs.** `ItemsInv`: `accepted = sent \o items \o itemCh` for each
processor, which gives `ItemsConserved` (and the order) at once. `FlushInv`: a
flush that has passed a processor without giving up left nothing in it of what it asked for,
because the drain takes the channel to its end (a drain of a flush holds all that the flush asked
for in `sent` or `items`). `CloseInv`: a processor ends only when cancelled, and then with
at least as much sent as it had taken when it was cancelled.

**TracingProofs.** Seven parts. `WorkInv`: two goroutines never have one span. `TreeInv`:
spans have a root, of one hub and one trace, and parents are older. `RecorderInv`: a transaction
is recorded first, and before it can have children. `EventInv`: an event that waits to be
captured has the spans that had ended in time. `DecisionInv`: who follows its parent's
decision has its root's, until the root is ignored. `TraceInv`: the propagation context
of a hub is that of one of the hub's transactions. `Types`. The theorems are `TreesSound`,
`SentIsSound`, `DecisionsKept`, `TraceIsOne`. `Follows` speaks of the chain from a span to
its root as a set closed under parents, because the provers cannot reason by induction
about a recursive walk; for such a set one step is enough. `LossesAccounted`: the counts
are compared with the sizes of two sets, the transactions that finished unsampled and the spans
recorded below them. A step that starts, records or counts a span adds known spans to them, every
other one leaves them as they are. `LossInv` adds that a transaction is ignored only as it
is finished, so that none is added to the sets behind the count.

**PartsProofs.** Three parts, each on its own.

*RingBuffer.* `TypeCorrect` and `WindowCorrect`: the fields keep their
types; tail is head plus size around the array, and a slot is empty exactly
outside the window. The two are inductive together: that `items[tail]` is free
when there is room needs both. The remainder is used only for an
index plus at most the capacity, where `ModLemma` says what it is.
`FifoImplemented`: the window, read from the oldest slot on, is the queue of
`BoundedFifo`; each action is shown to be one of the queue's steps or to leave
it alone. `NothingForgotten`: `Accounting`, that each item that was counted is in
exactly one of the places it can be; the invariant is strengthened by the
distinctness of the items in flight and the finiteness of the set of callers.

*BucketedBuffer.* The live buckets are read as a sequence from `head` on. `Filled`: each has
items, which are held and of its trace. `Rising`: they are in order. `Apart`: two buckets
have no item in common, and those of one trace are in order. `Found`: each held item is in
one of them. `Leads`: the index leads to the newest bucket of a trace.
`FullHas` says that a full buffer has a bucket to drop, so the code's branch for an
invalid slot is never taken. What an append to a bucket, a new bucket and the removal of the
first one do to the sequence is shown apart from the remainder arithmetic of the array.
`BufferHeldExactly` and `BufferKeepsTraceOrder` follow.

*Middleware.* `MidInv`: what a request finds on its way to the handler (context, values)
and what its layers hold are hubs and transactions of its own, and the scopes of its hubs say
so; `EventsOfOwnRequest` follows. It needs of each framework that it leaves the hub
somewhere it looks (`Kind`); Iris looks in the context and leaves it in the values, and so
starts anew with each layer. `LayersUnwind` needs `Unwinding`, which says of a request
at each point on the way out: what is left of the panic (`Struck`), how many layers have
reported it (`Counted`) and whether the innermost report found its transaction open and
was waited for (`Reporting`); that each transaction is finished or is that of a layer
still to be left (`Spans`); what the first layer replaced (`Restored`); that what is finished has the
status that its layer takes from the response as it is (`Recorded`), and what the fields of the
response have to do with each other (`Responds`): outside of `Misread` that status is the one
that was or will be sent.

**CaptureProofs.** Four parts, each on its own.

*RateLimits.* `RateInv`: `limits` has of each category the latest time that any answer
told. Most of the proof is about one answer: the loop over a header's limits and over the
categories of each is a fold, and what it makes of a map is what it makes of the set of
all that the header says (`Reflects`). `LimitsAreTrue` follows, with what
`CategoryFromEnvelope` finds in an envelope of any length.

*Outgoing.* `FinishedOnce` becomes inductive with `Held`: the connection's transaction, its
query, the request and the stream each have a span of their own kind, so no two have the
same; and `Released`: what is over has none, and the connection has its transaction
exactly as long as that is open. `SpansFinishedOnce` is a part of it; `QueriesAtHome` follows
because the transaction of an open connection is one of the unfinished spans.
`TextsKept`: what `ObfuscateQuery` writes for a query, a fold over its tokens with a dot that is
pending. The induction carries what has been written, what is pending, and which dots are due.

*Loggers.* `RecordsAsLogged`, with the invariant `LogInv`. `OnCourse` says of every record in
work that what is still to be done with it is what is left of its library's stages, and that
what is over has done what it is for: the events and logs among what was captured with its
number are those of the hooks it has passed, or a hook cut it off. For logrus this speaks of
the last k hooks, a recursive function of k (`HooksLastIs`), and of the record as the hooks have
left it: one that fails turns it into `WithFailure(record)`, which `Cut` keeps from all later hooks. `Numbered`: no two
records have one number, so what one goroutine captures changes nothing for the others. `Ended`
says the same of the records that are done with. `Owned` and `AllFair`: an attribute has
come from the change that set it, by a line of changes that ends at what it is found on.
`Progress` is the lemma for one record alone, without the others: whatever is done
next keeps it on its course or ends it as it should; there is one proof of it for each library.

*Client.* `ClientInv`. `Balanced` is the account of each category: what is buffered, what
goroutines have in hand, what waits in the queue, what is gone, counted or reported add up to what
was captured. The sums run over the buffer's queues, over the envelopes of the queue
and over the goroutines, so each has a lemma that says what one more, one less or one that
is changed does to it. With it go the types (`TypedClient`: that the buffers hold only what
belongs there; spans only in transactions) and `IdsHanded`, that who is about to return
an id has handed the event over. `CapturesAccounted` and `LastIdsHanded` follow.

**Only model-checked**, and why:

* All liveness (`<>`, `~>`, weak and strong fairness): `ComesToRest`, `CallsReturn`, `Rotates`.
  ENABLED is beyond the prover.
* The four violations: a theorem cannot show that a behaviour exists.

Every invariant and every action property of a passing run is a theorem.

## 5. Not modelled

- Parsing and serialization (DSN, UUID, baggage, JSON), stack traces, the conversion
  of fields, requests and values: text and data without state. The baggage package is vendored.
- OpenTelemetry's linking integration, which translates trace and span.
- Setters of spans and scopes other than those a hazard is about, the names of
  transactions, headers and metadata that layers copy.
- `internal/http.SyncTransport` as a transport of its own: only tests build one. Its
  sends are those of `RateLimits`.
- Debug output, mocks, test support.
- Events captured through a `Hub`: a capture is a look at the client and one at the scope,
  which AddBreadcrumb is in `Hub`; what becomes of it is in `Client`.

## 6. What would come next

1. The captures of a `Hub`, with the scope on top when an event is captured.
2. `Client` composed with `TelemetryTransport`, so that `Deliver` is a transport's.
3. The types of attributes and the groups of slog, which `Loggers` leaves out.
