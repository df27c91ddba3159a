------------------------- MODULE HTTPTransportProofs -------------------------
(***************************************************************************)
(* Theorems about HTTPTransport, for any senders, flushers, events and     *)
(* batch size.                                                             *)
(***************************************************************************)
EXTENDS HTTPTransport, FiniteSetTheorems, TLAPS

\* Whoever holds the batch between a receive from t.buffer and the send back holds
\* the one made last, alone, and the channel is empty.
Holding(f) == flush[f] \in {"look", "renew"}

LockInv ==
  /\ buffer # Taken =>
       /\ buffer = made /\ worker # "begin"
       /\ \A s \in Sender : sendBatch[s] = Taken
       /\ \A f \in Flusher : ~Holding(f)
  /\ \A s \in Sender : sendBatch[s] # Taken =>
       /\ sendBatch[s] = made /\ worker # "begin"
       /\ \A t \in Sender : sendBatch[t] # Taken => t = s
       /\ \A f \in Flusher : ~Holding(f)
  /\ \A f \in Flusher : Holding(f) =>
       /\ flushBatch[f] = made /\ worker # "begin"
       /\ \A g \in Flusher : Holding(g) => g = f
  /\ worker = "begin" => workerBatch = made

\* There is a batch left for each flush that may still make one.
MayRenew == {f \in Flusher : flush[f] \in {"idle", "spin", "look", "renew"}}

CountInv == made + Cardinality(MayRenew) <= Cardinality(Flusher) + 1

\* All batches but the last are started and closed.  The worker takes them in their
\* order: what is started is finished, except for the one it has.
InLoop == worker \in {"loop", "send", "report", "exited"}

BatchInv ==
  /\ \A b \in Batch : b < made => b \in started /\ b \in itemsClosed
  /\ \A b \in started \cup itemsClosed : b <= made
  /\ made \in itemsClosed => \E f \in Flusher : flush[f] = "renew"
  /\ \A f \in Flusher : flush[f] = "renew" => made \in itemsClosed /\ made \in started
  /\ finished \subseteq itemsClosed \cap started
  /\ ~InLoop => started = finished
  /\ InLoop => /\ workerBatch \in started \ finished
               /\ started \ {workerBatch} \subseteq finished
               /\ \A b \in finished : b < workerBatch
  /\ \A f \in Flusher : flush[f] = "wait" => flushBatch[f] \in Batch /\ flushBatch[f] < made

\* An event is in the batch it is queued in, in one place, or with whoever sends it.
InBatch(e, b) == \E i \in 1 .. Len(items[b]) : items[b][i] = e

EventInv ==
  /\ \A b \in Batch : \A i \in 1 .. Len(items[b]) : fate[items[b][i]] = "queued"
  /\ \A b, c \in Batch : \A i \in 1 .. Len(items[b]), j \in 1 .. Len(items[c]) :
       items[b][i] = items[c][j] => b = c /\ i = j
  /\ \A e \in Event : fate[e] = "queued" => \E b \in Batch : InBatch(e, b)
  /\ \A b \in Batch : b > made \/ b \in finished => items[b] = <<>>
  /\ \A s \in Sender : /\ sending[s] # NoEvent => fate[sending[s]] = "offered"
                       /\ sendBatch[s] # Taken => sending[s] # NoEvent
  /\ \A s, t \in Sender : sending[s] = sending[t] => s = t \/ sending[s] = NoEvent
  /\ \A e \in Event : fate[e] = "sending" <=> current = e
  /\ worker = "send" <=> current # NoEvent

\* A flush that waits for a batch finds what it asked for settled, in that batch or an
\* earlier one, or sent by the worker out of one of them.
FlushInv ==
  \A f \in Flusher : \A e \in asked[f] :
    /\ fate[e] \notin {"new", "offered"}
    /\ flush[f] = "wait" =>
         /\ fate[e] = "queued" => \E b \in Batch : b <= flushBatch[f] /\ InBatch(e, b)
         /\ fate[e] = "sending" => workerBatch <= flushBatch[f]

ReportInv == ReportedOnce /\ (riding # {} => worker \in {"send", "report"})

IInv == /\ TypeOK /\ LockInv /\ CountInv /\ BatchInv /\ EventInv /\ FlushInv
        /\ ReportInv /\ ~panicked

-----------------------------------------------------------------------------

LEMMA BatchLemma ==
  /\ Cardinality(Flusher) \in Nat
  /\ Batch \subseteq Nat \ {0} /\ Taken \notin Batch /\ 1 \in Batch
  /\ \A b \in Batch : b + 1 \in Nat \ {0} /\ b + 1 \notin {b, Taken} /\ b < b + 1
  /\ \A b, c \in Batch : b < c + 1 <=> b < c \/ b = c
<1>1. Cardinality(Flusher) \in Nat
  BY HTTPTransportAssumption, FS_CardinalityType
<1> QED
  BY <1>1 DEF Batch, Taken

LEMMA InitInv == Init => IInv
<1> SUFFICES ASSUME Init PROVE IInv
  OBVIOUS
<1> USE HTTPTransportAssumption, BatchLemma DEF Init
<1>1. TypeOK
  <2>1. items \in [Batch -> Seq(Event)] /\ \A b \in Batch : Len(items[b]) <= BufferSize
    OBVIOUS
  <2> QED
    BY <2>1 DEF TypeOK
<1>2. LockInv
  BY DEF LockInv, Holding
<1>3. CountInv
  <2>1. MayRenew = Flusher
    BY DEF MayRenew
  <2> QED
    BY <2>1 DEF CountInv
<1>4. BatchInv
  BY DEF BatchInv, InLoop
<1>5. EventInv
  BY DEF EventInv, InBatch
<1>6. FlushInv /\ ReportInv
  BY DEF FlushInv, ReportInv, ReportedOnce, Recorded
<1> QED
  BY <1>1, <1>2, <1>3, <1>4, <1>5, <1>6 DEF IInv

-----------------------------------------------------------------------------
(* Each part of the invariant holds in the next state *)

LEMMA QueueFacts ==
  ASSUME NEW q \in Seq(Event), NEW e \in Event
  PROVE  /\ Append(q, e) \in Seq(Event) /\ Len(Append(q, e)) = Len(q) + 1
         /\ \A i \in 1 .. Len(q) : Append(q, e)[i] = q[i]
         /\ Append(q, e)[Len(q) + 1] = e
         /\ q # <<>> => /\ Head(q) = q[1] /\ Head(q) \in Event /\ 1 \in 1 .. Len(q)
                        /\ Tail(q) \in Seq(Event) /\ Len(Tail(q)) = Len(q) - 1
                        /\ \A i \in 1 .. Len(q) - 1 : Tail(q)[i] = q[i + 1]
OBVIOUS

\* What a batch holds are events that are queued.
LEMMA QueuedItems ==
  ASSUME TypeOK, EventInv
  PROVE  \A b \in Batch : \A i \in 1 .. Len(items[b]) :
           items[b][i] \in Event /\ fate[items[b][i]] = "queued"
<1> SUFFICES ASSUME NEW b \in Batch, NEW i \in 1 .. Len(items[b])
             PROVE  items[b][i] \in Event /\ fate[items[b][i]] = "queued"
  OBVIOUS
<1>1. items[b] \in Seq(Event)
  BY DEF TypeOK
<1>2. fate[items[b][i]] = "queued"
  BY DEF EventInv
<1> QED
  BY <1>1, <1>2

LEMMA TypeStep ==
  ASSUME IInv, [Next]_vars
  PROVE  TypeOK'
<1> USE DEF IInv, TypeOK, batchVars, sendVars, flushVars, workerVars, reportVars
<1>1. ASSUME NEW s \in Sender, NEW e \in Event, SendCheck(s, e)
      PROVE  TypeOK'
  <2>1. /\ \/ \E r \in {"ratelimit_backoff", "internal_error"} :
                /\ fate' = [fate EXCEPT ![e] = r]
                /\ unreported' = unreported \cup {e} /\ UNCHANGED sending
           \/ /\ fate' = [fate EXCEPT ![e] = "offered"]
              /\ sending' = [sending EXCEPT ![s] = e] /\ UNCHANGED unreported
        /\ UNCHANGED <<buffer, batchVars, done, limited, sendBatch, flushVars, workerVars,
                       panicked, riding, reported, unsent>>
    BY <1>1 DEF SendCheck, Drop
  <2>2. fate' \in [Event -> Recorded \cup {"new", "offered", "queued", "sending", "sent"}]
    BY <2>1 DEF Recorded
  <2>3. unreported' \in SUBSET Event
    <3>1. unreported \in SUBSET Event /\ unreported \cup {e} \in SUBSET Event
      OBVIOUS
    <3> QED
      BY <2>1, <3>1
  <2>4. sending' \in [Sender -> Event \cup {NoEvent}]
    <3>1. sending' = sending \/ sending' = [sending EXCEPT ![s] = e]
      BY <2>1
    <3>2. sending \in [Sender -> Event \cup {NoEvent}]
      OBVIOUS
    <3> HIDE DEF TypeOK, IInv
    <3> QED
      BY <3>1, <3>2
  <2> QED
    BY <2>1, <2>2, <2>3, <2>4
<1>2. ASSUME NEW s \in Sender, SendLock(s)
      PROVE  TypeOK'
  BY <1>2 DEF SendLock, Receive
<1>3. ASSUME NEW s \in Sender, SendQueue(s)
      PROVE  TypeOK'
  <2> DEFINE b == sendBatch[s]
             e == sending[s]
  <2>1. b \in Batch /\ e \in Event
    BY <1>3 DEF SendQueue, EventInv
  <2>2. items' \in [Batch -> Seq(Event)] /\ \A c \in Batch : Len(items'[c]) <= BufferSize
    <3>1. items[b] \in Seq(Event) /\ Len(items[b]) \in Nat
      BY <2>1
    <3>2. Append(items[b], e) \in Seq(Event) /\ Len(Append(items[b], e)) = Len(items[b]) + 1
      BY <2>1, <3>1, QueueFacts
    <3>3. CASE Full(b)
      BY <1>3, <3>3 DEF SendQueue
    <3>4. CASE ~Full(b)
      <4>1. items' = [items EXCEPT ![b] = Append(@, e)]
        BY <1>3, <3>4 DEF SendQueue
      <4>2. Len(Append(items[b], e)) <= BufferSize
        BY <3>1, <3>2, <3>4, HTTPTransportAssumption DEF Full
      <4> QED
        BY <2>1, <3>2, <4>1, <4>2
    <3> QED
      BY <3>3, <3>4
  <2>3. fate' \in [Event -> Recorded \cup {"new", "offered", "queued", "sending", "sent"}]
        /\ unreported' \in SUBSET Event
    BY <1>3, <2>1 DEF SendQueue, Drop, Recorded
  <2> QED
    BY <1>3, <2>1, <2>2, <2>3 DEF SendQueue, PutBack
<1>4. ASSUME NEW f \in Flusher, FlushRenew(f)
      PROVE  TypeOK'
  <2>1. MayRenew' = MayRenew \ {f} /\ f \in MayRenew /\ IsFiniteSet(MayRenew)
    BY <1>4, HTTPTransportAssumption, FS_Subset DEF FlushRenew, MayRenew
  <2>2. Cardinality(MayRenew) \in Nat /\ Cardinality(MayRenew) # 0
    BY <2>1, FS_CardinalityType, FS_EmptySet
  <2>3. made + 1 \in Batch
    BY <2>2, BatchLemma DEF CountInv, Batch
  <2> QED
    BY <1>4, <2>3 DEF FlushRenew, PutBack
<1>5. ASSUME NEW f \in Flusher,
             \/ FlushCall(f) \/ FlushTake(f) \/ FlushPutBack(f) \/ FlushTrue(f)
             \/ FlushFalse(f) \/ FlushClose(f)
      PROVE  TypeOK'
  <2>1. CASE FlushCall(f) \/ FlushTake(f) \/ FlushTrue(f) \/ FlushFalse(f)
    BY <2>1, ZenonT(40) DEF FlushCall, FlushTake, FlushTrue, FlushFalse, Receive
  <2>2. CASE FlushPutBack(f) \/ FlushClose(f)
    <3>1. flushBatch[f] \in Batch
      BY <2>2 DEF FlushPutBack, FlushClose, Holding, LockInv
    <3> QED
      BY <2>2, <3>1 DEF FlushPutBack, FlushClose, PutBack
  <2> QED
    BY <1>5, <2>1, <2>2
<1>6. CASE WorkerTake \/ WorkerStart \/ WorkerFinish \/ WorkerExit
  BY <1>6, ZenonT(40) DEF WorkerTake, WorkerStart, WorkerFinish, WorkerExit, Receive, PutBack,
              Drained, BatchInv, InLoop, LockInv
<1>7. CASE WorkerReceive
  <2> DEFINE b == workerBatch
             e == Head(items[b])
  <2>1. b \in Batch /\ items[b] \in Seq(Event) /\ items[b] # <<>>
    BY <1>7 DEF WorkerReceive, BatchInv, InLoop
  <2>2. /\ e \in Event /\ Tail(items[b]) \in Seq(Event)
        /\ Len(Tail(items[b])) = Len(items[b]) - 1 /\ Len(items[b]) \in Nat
    BY <2>1, QueueFacts
  <2>3. items' \in [Batch -> Seq(Event)] /\ \A c \in Batch : Len(items'[c]) <= BufferSize
    BY <1>7, <2>1, <2>2, HTTPTransportAssumption DEF WorkerReceive
  <2> QED
    BY <1>7, <2>2, <2>3 DEF WorkerReceive, Drop, Recorded
<1>8. CASE SendDone \/ WorkerReport \/ ReportDone
  <2>1. SendDone => current \in Event
    BY DEF SendDone, EventInv
  <2> QED
    BY <1>8, <2>1 DEF SendDone, WorkerReport, ReportDone, Drop, Recorded
<1>9. CASE Close \/ LimitExpires \/ UNCHANGED vars
  BY <1>9 DEF Close, LimitExpires, vars
<1> QED
  BY <1>1, <1>2, <1>3, <1>4, <1>5, <1>6, <1>7, <1>8, <1>9 DEF Next, Flushing, Working

LEMMA LockStep ==
  ASSUME IInv, [Next]_vars
  PROVE  LockInv'
<1> USE BatchLemma DEF IInv, LockInv, Holding, batchVars, sendVars, flushVars, workerVars
<1>1. ASSUME NEW s \in Sender, SendLock(s)
      PROVE  LockInv'
  BY <1>1 DEF TypeOK, SendLock, Receive
<1>2. ASSUME NEW s \in Sender, SendQueue(s)
      PROVE  LockInv'
  BY <1>2 DEF TypeOK, SendQueue, PutBack
<1>3. ASSUME NEW f \in Flusher, FlushTake(f)
      PROVE  LockInv'
  BY <1>3 DEF TypeOK, FlushTake, Receive
<1>4. ASSUME NEW f \in Flusher, FlushPutBack(f)
      PROVE  LockInv'
  BY <1>4 DEF TypeOK, FlushPutBack, PutBack
<1>5. ASSUME NEW f \in Flusher, FlushClose(f)
      PROVE  LockInv'
  BY <1>5 DEF TypeOK, FlushClose
<1>6. ASSUME NEW f \in Flusher, FlushRenew(f)
      PROVE  LockInv'
  BY <1>6 DEF TypeOK, FlushRenew, PutBack
<1>7. ASSUME NEW f \in Flusher, FlushCall(f) \/ FlushTrue(f) \/ FlushFalse(f)
      PROVE  LockInv'
  BY <1>7 DEF TypeOK, FlushCall, FlushTrue, FlushFalse
<1>8. CASE WorkerTake
  BY <1>8 DEF TypeOK, WorkerTake, Receive
<1>9. CASE WorkerStart
  BY <1>9 DEF TypeOK, WorkerStart, PutBack
<1>10. CASE WorkerReceive \/ SendDone \/ WorkerReport \/ ReportDone
  BY <1>10 DEF WorkerReceive, SendDone, WorkerReport, ReportDone
<1>11. CASE WorkerFinish \/ WorkerExit
  BY <1>11 DEF WorkerFinish, WorkerExit
<1>12. ASSUME NEW s \in Sender, NEW e \in Event, SendCheck(s, e)
       PROVE  LockInv'
  BY <1>12 DEF SendCheck
<1>13. CASE Close \/ LimitExpires \/ UNCHANGED vars
  BY <1>13 DEF Close, LimitExpires, vars
<1> QED
  BY <1>1, <1>2, <1>3, <1>4, <1>5, <1>6, <1>7, <1>8, <1>9, <1>10, <1>11, <1>12, <1>13
  DEF Next, Flushing, Working

\* The flushes that may still make a batch are one fewer, or as many.
LEMMA CountStep ==
  ASSUME IInv, [Next]_vars
  PROVE  CountInv'
<1> USE DEF IInv
<1>1. IsFiniteSet(MayRenew) /\ Cardinality(MayRenew) \in Nat /\ made \in Nat
  BY HTTPTransportAssumption, BatchLemma, FS_Subset, FS_CardinalityType DEF MayRenew, TypeOK
<1>2. ASSUME NEW f \in Flusher, FlushRenew(f) \/ FlushFalse(f)
      PROVE  CountInv'
  <2>1. CASE f \in MayRenew /\ MayRenew' = MayRenew \ {f}
    <3>1. Cardinality(MayRenew') = Cardinality(MayRenew) - 1
      BY <1>1, <2>1, FS_RemoveElement
    <3>2. made' \in {made, made + 1}
      BY <1>2 DEF FlushRenew, FlushFalse, batchVars
    <3> QED
      BY <1>1, <3>1, <3>2, BatchLemma DEF CountInv
  <2>2. CASE MayRenew' = MayRenew /\ made' = made
    BY <2>2 DEF CountInv
  <2> QED
    BY <1>2, <2>1, <2>2 DEF TypeOK, FlushRenew, FlushFalse, MayRenew, batchVars
<1>3. CASE MayRenew' = MayRenew /\ made' = made
  BY <1>3 DEF CountInv
<1>4. ASSUME NEW f \in Flusher,
             FlushCall(f) \/ FlushTake(f) \/ FlushPutBack(f) \/ FlushClose(f) \/ FlushTrue(f)
      PROVE  MayRenew' = MayRenew /\ made' = made
  BY <1>4 DEF TypeOK, FlushCall, FlushTake, FlushPutBack, FlushClose, FlushTrue, MayRenew,
              batchVars
<1>5. ASSUME NEW s \in Sender, SendLock(s) \/ SendQueue(s) \/ \E e \in Event : SendCheck(s, e)
      PROVE  MayRenew' = MayRenew /\ made' = made
  BY <1>5 DEF SendLock, SendQueue, SendCheck, MayRenew, batchVars, flushVars
<1>6. CASE Working \/ Close \/ LimitExpires \/ UNCHANGED vars
  BY <1>3, <1>6 DEF Working, WorkerTake, WorkerStart, WorkerReceive, SendDone, WorkerReport,
       ReportDone, WorkerFinish, WorkerExit, Close, LimitExpires, vars, MayRenew,
       batchVars, flushVars
<1> QED
  BY <1>2, <1>3, <1>4, <1>5, <1>6 DEF Next, Flushing

LEMMA BatchStep ==
  ASSUME IInv, [Next]_vars
  PROVE  BatchInv'
<1> USE BatchLemma DEF IInv, BatchInv, InLoop, batchVars, sendVars, flushVars, workerVars
<1>0. made \in Batch /\ made' \in Batch
  BY TypeStep DEF TypeOK
<1>1. ASSUME NEW f \in Flusher, FlushClose(f)
      PROVE  BatchInv'
  BY <1>0, <1>1 DEF TypeOK, FlushClose, Seen, LockInv, Holding
<1>2. ASSUME NEW f \in Flusher, FlushRenew(f)
      PROVE  BatchInv'
  <2>1. /\ made' = made + 1 /\ flushBatch[f] = made /\ flushBatch' = flushBatch
        /\ flush' = [flush EXCEPT ![f] = "wait"]
        /\ UNCHANGED <<started, itemsClosed, finished, worker, workerBatch>>
    BY <1>2 DEF FlushRenew, LockInv, Holding
  <2>2. made \in itemsClosed /\ made \in started
    BY <1>2 DEF FlushRenew
  <2>3. \A g \in Flusher : flush[g] = "renew" => g = f
    BY <1>2 DEF FlushRenew, LockInv, Holding
  <2>4. \A g \in Flusher : flush'[g] = "renew" => FALSE
    BY <2>1, <2>3 DEF TypeOK
  <2>5. \A b \in Batch : b < made' => b \in started /\ b \in itemsClosed
    BY <1>0, <2>1, <2>2
  <2>6. \A b \in started \cup itemsClosed : b <= made' /\ b # made'
    BY <1>0, <2>1 DEF TypeOK
  <2>7. \A g \in Flusher : flush'[g] = "wait" => flushBatch[g] \in Batch /\ flushBatch[g] < made'
    <3> SUFFICES ASSUME NEW g \in Flusher, flush'[g] = "wait"
                 PROVE  flushBatch[g] \in Batch /\ flushBatch[g] < made'
      OBVIOUS
    <3>1. CASE g = f
      BY <1>0, <2>1, <3>1
    <3>2. CASE g # f
      <4>1. flush[g] = "wait"
        BY <2>1, <3>2 DEF TypeOK
      <4> QED
        BY <1>0, <2>1, <4>1
    <3> QED
      BY <3>1, <3>2
  <2> QED
    BY <2>1, <2>4, <2>5, <2>6, <2>7
<1>3. ASSUME NEW f \in Flusher,
             FlushCall(f) \/ FlushTake(f) \/ FlushPutBack(f) \/ FlushTrue(f) \/ FlushFalse(f)
      PROVE  BatchInv'
  <2>1. \A g \in Flusher :
          /\ flush'[g] = "renew" <=> flush[g] = "renew"
          /\ flush'[g] = "wait" => flush[g] = "wait" /\ flushBatch'[g] = flushBatch[g]
    BY <1>3 DEF TypeOK, FlushCall, FlushTake, FlushPutBack, FlushTrue, FlushFalse
  <2>2. UNCHANGED <<made, started, itemsClosed, finished, worker, workerBatch>>
    BY <1>3 DEF FlushCall, FlushTake, FlushPutBack, FlushTrue, FlushFalse
  <2> QED
    BY <2>1, <2>2
<1>4. CASE WorkerTake
  BY <1>0, <1>4 DEF WorkerTake
<1>5. CASE WorkerStart
  <2>1. /\ workerBatch = made /\ started = finished /\ made \notin finished
        /\ started' = started \cup {made} /\ worker' = "loop"
        /\ UNCHANGED <<made, itemsClosed, finished, flush, flushBatch, workerBatch>>
    BY <1>5 DEF WorkerStart, LockInv, Holding
  <2>2. \A b \in finished : b < made
    BY <1>0, <2>1 DEF TypeOK
  <2>3. made <= made /\ ~(made < made)
    BY <1>0
  <2>4. made \in itemsClosed => FALSE
    BY <1>5, <2>1 DEF WorkerStart, LockInv, Holding
  <2> QED
    BY <2>1, <2>2, <2>3, <2>4
<1>6. CASE WorkerFinish
  <2>1. /\ workerBatch \in started /\ workerBatch \in itemsClosed
        /\ started \ {workerBatch} \subseteq finished
        /\ finished' = finished \cup {workerBatch} /\ worker' = "range"
        /\ UNCHANGED <<made, started, itemsClosed, flush, flushBatch>>
    BY <1>6 DEF WorkerFinish, Drained
  <2>2. started = finished' /\ finished' \subseteq itemsClosed \cap started
    BY <2>1
  <2> QED
    BY <1>0, <2>1, <2>2
<1>7. CASE WorkerReceive \/ SendDone \/ WorkerReport \/ ReportDone \/ WorkerExit
  BY <1>0, <1>7 DEF WorkerReceive, SendDone, WorkerReport, ReportDone, WorkerExit
<1>8. ASSUME NEW s \in Sender, SendLock(s) \/ SendQueue(s) \/ \E e \in Event : SendCheck(s, e)
      PROVE  BatchInv'
  BY <1>0, <1>8 DEF SendLock, SendQueue, SendCheck
<1>9. CASE Close \/ LimitExpires \/ UNCHANGED vars
  BY <1>0, <1>9 DEF Close, LimitExpires, vars
<1> QED
  BY <1>1, <1>2, <1>3, <1>4, <1>5, <1>6, <1>7, <1>8, <1>9 DEF Next, Flushing, Working

\* No channel is sent on, or closed, that was closed before.
LEMMA PanicStep ==
  ASSUME IInv, [Next]_vars
  PROVE  ~panicked'
<1> USE BatchLemma DEF IInv, BatchInv, InLoop, batchVars, sendVars, flushVars, workerVars
<1>1. ASSUME NEW s \in Sender, SendQueue(s)
      PROVE  ~panicked'
  BY <1>1 DEF SendQueue, LockInv, Holding
<1>2. ASSUME NEW f \in Flusher, FlushClose(f)
      PROVE  ~panicked'
  <2>1. flushBatch[f] = made /\ \A g \in Flusher : Holding(g) => g = f
    BY <1>2 DEF FlushClose, LockInv, Holding
  <2>2. \A g \in Flusher : flush[g] # "renew"
    BY <1>2, <2>1 DEF FlushClose, Holding
  <2> QED
    BY <1>2, <2>1, <2>2 DEF FlushClose
<1>3. CASE WorkerStart
  BY <1>3 DEF WorkerStart, LockInv, Holding
<1>4. CASE WorkerFinish
  BY <1>4 DEF WorkerFinish
<1>5. CASE panicked' = panicked
  BY <1>5
<1>6. CASE \/ WorkerTake \/ WorkerReceive \/ SendDone \/ WorkerReport \/ ReportDone
           \/ WorkerExit \/ Close \/ LimitExpires \/ UNCHANGED vars
  BY <1>6 DEF WorkerTake, WorkerReceive, SendDone, WorkerReport, ReportDone, WorkerExit,
              Close, LimitExpires, vars
<1>7. ASSUME NEW f \in Flusher,
             \/ FlushCall(f) \/ FlushTake(f) \/ FlushPutBack(f) \/ FlushRenew(f) \/ FlushTrue(f)
             \/ FlushFalse(f)
      PROVE  ~panicked'
  BY <1>7 DEF FlushCall, FlushTake, FlushPutBack, FlushRenew, FlushTrue, FlushFalse
<1>8. ASSUME NEW s \in Sender, SendLock(s) \/ \E e \in Event : SendCheck(s, e)
      PROVE  ~panicked'
  BY <1>8 DEF SendLock, SendCheck
<1> QED
  BY <1>1, <1>2, <1>3, <1>4, <1>6, <1>7, <1>8 DEF Next, Flushing, Working

\* An event is appended to the batch made last, which is not finished.
LEMMA QueueStep ==
  ASSUME IInv, NEW s \in Sender, SendQueue(s), ~Full(sendBatch[s])
  PROVE  EventInv'
<1> DEFINE b == sendBatch[s]
           e == sending[s]
<1> USE BatchLemma DEF IInv
<1>0. /\ b \in Batch /\ b = made /\ b \notin finished
      /\ e \in Event /\ e # NoEvent /\ fate[e] = "offered"
  <2>1. b # Taken /\ b \in Batch /\ b = made /\ ~\E f \in Flusher : Holding(f)
    BY DEF SendQueue, LockInv, TypeOK
  <2>2. b \notin finished
    BY <2>1 DEF BatchInv, Holding
  <2> QED
    BY <2>1, <2>2 DEF SendQueue, EventInv, TypeOK
<1>1. /\ items' = [items EXCEPT ![b] = Append(@, e)]
      /\ fate' = [fate EXCEPT ![e] = "queued"]
      /\ sending' = [sending EXCEPT ![s] = NoEvent]
      /\ sendBatch' = [sendBatch EXCEPT ![s] = Taken]
      /\ UNCHANGED <<made, finished, worker, current>>
  BY DEF SendQueue, workerVars
<1>2. items[b] \in Seq(Event) /\ Len(items[b]) \in Nat
  BY <1>0 DEF TypeOK
<1> HIDE DEF b, e
<1>3. /\ Len(items'[b]) = Len(items[b]) + 1 /\ items'[b][Len(items[b]) + 1] = e
      /\ \A i \in 1 .. Len(items[b]) : items'[b][i] = items[b][i]
      /\ \A c \in Batch : c # b => items'[c] = items[c]
  BY <1>0, <1>1, <1>2, QueueFacts DEF TypeOK
<1>4. \A i \in 1 .. Len(items'[b]) : i \in 1 .. Len(items[b]) \/ i = Len(items[b]) + 1
  BY <1>2, <1>3
<1>5. \A c \in Batch : \A i \in 1 .. Len(items[c]) : items[c][i] # e
  BY <1>0, QueuedItems, SMTT(20)
<1>6. \A c \in Batch : \A i \in 1 .. Len(items'[c]) :
        \/ i \in 1 .. Len(items[c]) /\ items'[c][i] = items[c][i] /\ items'[c][i] # e
        \/ c = b /\ i = Len(items[b]) + 1 /\ items'[c][i] = e
  BY <1>3, <1>4, <1>5, ZenonT(40)
<1>7. \A c \in Batch : \A i \in 1 .. Len(items'[c]) : fate'[items'[c][i]] = "queued"
  BY <1>0, <1>1, <1>6 DEF EventInv, TypeOK
<1>u. \A c, d \in Batch : \A i \in 1 .. Len(items[c]), j \in 1 .. Len(items[d]) :
        items[c][i] = items[d][j] => c = d /\ i = j
  BY DEF EventInv
<1>8. \A c, d \in Batch : \A i \in 1 .. Len(items'[c]), j \in 1 .. Len(items'[d]) :
        items'[c][i] = items'[d][j] => c = d /\ i = j
  <2> SUFFICES ASSUME NEW c \in Batch, NEW d \in Batch, NEW i \in 1 .. Len(items'[c]),
                      NEW j \in 1 .. Len(items'[d]), items'[c][i] = items'[d][j]
               PROVE  c = d /\ i = j
    OBVIOUS
  <2>1. CASE items'[c][i] = e
    BY <1>6, <2>1
  <2>2. CASE items'[c][i] # e
    <3>1. i \in 1 .. Len(items[c]) /\ items'[c][i] = items[c][i]
      BY <1>6, <2>2
    <3>2. j \in 1 .. Len(items[d]) /\ items'[d][j] = items[d][j]
      BY <1>6, <2>2
    <3>3. items[c][i] = items[d][j]
      BY <3>1, <3>2
    <3> QED
      BY <1>u, <3>1, <3>2, <3>3
  <2> QED
    BY <2>1, <2>2
<1>9. \A c \in Batch : \A i \in 1 .. Len(items[c]) :
        i \in 1 .. Len(items'[c]) /\ items'[c][i] = items[c][i]
  <2> SUFFICES ASSUME NEW c \in Batch, NEW i \in 1 .. Len(items[c])
               PROVE  i \in 1 .. Len(items'[c]) /\ items'[c][i] = items[c][i]
    OBVIOUS
  <2>1. CASE c = b
    BY <1>2, <1>3, <2>1
  <2>2. CASE c # b
    BY <1>3, <2>2
  <2> QED
    BY <2>1, <2>2
<1>10. \A x \in Event : fate'[x] = "queued" => \E c \in Batch : InBatch(x, c)'
  <2> SUFFICES ASSUME NEW x \in Event, fate'[x] = "queued"
               PROVE  \E c \in Batch : InBatch(x, c)'
    OBVIOUS
  <2>1. CASE x = e
    <3>1. Len(items[b]) + 1 \in 1 .. Len(items'[b])
      BY <1>2, <1>3
    <3> QED
      BY <1>0, <1>3, <2>1, <3>1 DEF InBatch
  <2>2. CASE x # e
    <3>1. fate[x] = "queued"
      BY <1>0, <1>1, <2>2 DEF TypeOK
    <3>2. PICK c \in Batch : \E i \in 1 .. Len(items[c]) : items[c][i] = x
      BY <3>1 DEF EventInv, InBatch
    <3> QED
      BY <1>9, <3>2 DEF InBatch
  <2> QED
    BY <2>1, <2>2
<1>11. \A c \in Batch : c > made' \/ c \in finished' => items'[c] = <<>>
  BY <1>0, <1>1, <1>3 DEF EventInv
<1>12. /\ \A r \in Sender : /\ sending'[r] # NoEvent => fate'[sending'[r]] = "offered"
                            /\ sendBatch'[r] # Taken => sending'[r] # NoEvent
       /\ \A r, t \in Sender : sending'[r] = sending'[t] => r = t \/ sending'[r] = NoEvent
  <2>1. e = sending[s]
    BY DEF e
  <2>2. \A r \in Sender : r # s => sending'[r] = sending[r] /\ sendBatch'[r] = sendBatch[r]
    BY <1>1 DEF TypeOK
  <2>3. sending'[s] = NoEvent /\ sendBatch'[s] = Taken
    BY <1>1 DEF TypeOK
  <2>4. \A r \in Sender : r # s => sending[r] # e
    BY <1>0, <2>1 DEF EventInv
  <2>5. \A x \in Event : x # e => fate'[x] = fate[x]
    BY <1>1 DEF TypeOK
  <2>6. \A r \in Sender : sending[r] # NoEvent => sending[r] \in Event
    BY DEF TypeOK
  <2> QED
    BY <2>2, <2>3, <2>4, <2>5, <2>6 DEF EventInv
<1>13. /\ \A x \in Event : fate'[x] = "sending" <=> current' = x
       /\ worker' = "send" <=> current' # NoEvent
  BY <1>0, <1>1 DEF EventInv, TypeOK
<1> QED
  BY <1>7, <1>8, <1>10, <1>11, <1>12, <1>13 DEF EventInv

\* The worker takes the first event out of its batch.
LEMMA ReceiveStep ==
  ASSUME IInv, WorkerReceive
  PROVE  EventInv'
<1> DEFINE b == workerBatch
           e == Head(items[b])
<1> USE BatchLemma DEF IInv
<1>0. /\ b \in Batch /\ items[b] \in Seq(Event) /\ items[b] # <<>> /\ Len(items[b]) \in Nat
      /\ worker = "loop" /\ current = NoEvent
  BY DEF WorkerReceive, BatchInv, InLoop, TypeOK, EventInv
<1>1. /\ e = items[b][1] /\ e \in Event /\ 1 \in 1 .. Len(items[b])
      /\ Tail(items[b]) \in Seq(Event) /\ Len(Tail(items[b])) = Len(items[b]) - 1
      /\ \A i \in 1 .. Len(items[b]) - 1 : Tail(items[b])[i] = items[b][i + 1]
  BY <1>0, QueueFacts
<1>2. fate[e] = "queued"
  BY <1>0, <1>1 DEF EventInv
<1>3. /\ items' = [items EXCEPT ![b] = Tail(@)]
      /\ UNCHANGED <<made, finished, sending, sendBatch>>
      /\ \/ /\ fate' = [fate EXCEPT ![e] = "ratelimit_backoff"]
            /\ UNCHANGED <<worker, current>>
         \/ /\ fate' = [fate EXCEPT ![e] = "sending"]
            /\ worker' = "send" /\ current' = e
  BY DEF WorkerReceive, Drop, sendVars
<1> HIDE DEF b, e
<1>4. /\ \A i \in 1 .. Len(items'[b]) :
           i + 1 \in 1 .. Len(items[b]) /\ items'[b][i] = items[b][i + 1] /\ i + 1 # 1
      /\ \A i \in 1 .. Len(items[b]) :
           i # 1 => i - 1 \in 1 .. Len(items'[b]) /\ items'[b][i - 1] = items[b][i]
      /\ \A c \in Batch : c # b => items'[c] = items[c]
  <2>1. items'[b] = Tail(items[b])
    BY <1>0, <1>3 DEF TypeOK
  <2>2. \A c \in Batch : c # b => items'[c] = items[c]
    BY <1>3 DEF TypeOK
  <2> QED
    BY <1>0, <1>1, <2>1, <2>2
<1>u. \A c, d \in Batch : \A i \in 1 .. Len(items[c]), j \in 1 .. Len(items[d]) :
        items[c][i] = items[d][j] => c = d /\ i = j
  BY DEF EventInv
<1>5. \A c \in Batch : \A i \in 1 .. Len(items'[c]) :
        \E j \in 1 .. Len(items[c]) : items'[c][i] = items[c][j] /\ (c = b => j = i + 1)
                                      /\ (c # b => j = i)
  BY <1>4
<1>6. \A c \in Batch : \A i \in 1 .. Len(items'[c]) : items'[c][i] # e
  <2> SUFFICES ASSUME NEW c \in Batch, NEW i \in 1 .. Len(items'[c]), items'[c][i] = e
               PROVE  FALSE
    OBVIOUS
  <2>1. PICK j \in 1 .. Len(items[c]) :
          items'[c][i] = items[c][j] /\ (c = b => j = i + 1) /\ (c # b => j = i)
    BY <1>5
  <2>2. items[c][j] = items[b][1]
    BY <1>1, <2>1
  <2>3. c = b /\ j = 1
    BY <1>0, <1>1, <1>u, <2>2
  <2> QED
    BY <1>4, <2>1, <2>3
<1>7. \A x \in Event : x # e => fate'[x] = fate[x]
  BY <1>3 DEF TypeOK
<1>8. \A c \in Batch : \A i \in 1 .. Len(items'[c]) : fate'[items'[c][i]] = "queued"
  <2> SUFFICES ASSUME NEW c \in Batch, NEW i \in 1 .. Len(items'[c])
               PROVE  fate'[items'[c][i]] = "queued"
    OBVIOUS
  <2>1. PICK j \in 1 .. Len(items[c]) : items'[c][i] = items[c][j]
    BY <1>5
  <2>2. items[c][j] \in Event /\ fate[items[c][j]] = "queued"
    BY QueuedItems, SMTT(20)
  <2>3. items[c][j] # e
    BY <1>6, <2>1
  <2> QED
    BY <1>7, <2>1, <2>2, <2>3
<1>9. \A c, d \in Batch : \A i \in 1 .. Len(items'[c]), j \in 1 .. Len(items'[d]) :
        items'[c][i] = items'[d][j] => c = d /\ i = j
  <2> SUFFICES ASSUME NEW c \in Batch, NEW d \in Batch, NEW i \in 1 .. Len(items'[c]),
                      NEW j \in 1 .. Len(items'[d]), items'[c][i] = items'[d][j]
               PROVE  c = d /\ i = j
    OBVIOUS
  <2>1. PICK k \in 1 .. Len(items[c]) :
          items'[c][i] = items[c][k] /\ (c = b => k = i + 1) /\ (c # b => k = i)
    BY <1>5
  <2>2. PICK l \in 1 .. Len(items[d]) :
          items'[d][j] = items[d][l] /\ (d = b => l = j + 1) /\ (d # b => l = j)
    BY <1>5
  <2>3. items[c][k] = items[d][l]
    BY <2>1, <2>2
  <2>4. c = d /\ k = l
    BY <1>u, <2>3, SMTT(20)
  <2>5. CASE c = b
    BY <2>1, <2>2, <2>4, <2>5
  <2>6. CASE c # b
    BY <2>1, <2>2, <2>4, <2>6
  <2> QED
    BY <2>4, <2>5, <2>6
<1>10. \A x \in Event : fate'[x] = "queued" => \E c \in Batch : InBatch(x, c)'
  <2> SUFFICES ASSUME NEW x \in Event, fate'[x] = "queued"
               PROVE  \E c \in Batch : InBatch(x, c)'
    OBVIOUS
  <2>1. x # e /\ fate[x] = "queued"
    BY <1>1, <1>3, <1>7 DEF TypeOK
  <2>a. PICK c \in Batch : \E i \in 1 .. Len(items[c]) : items[c][i] = x
    BY <2>1 DEF EventInv, InBatch
  <2>2. PICK i \in 1 .. Len(items[c]) : items[c][i] = x
    BY <2>a
  <2>3. CASE c = b
    <3>1. i # 1
      BY <1>1, <2>1, <2>2, <2>3
    <3> QED
      BY <1>4, <2>2, <2>3, <3>1 DEF InBatch
  <2>4. CASE c # b
    BY <1>4, <2>2, <2>4 DEF InBatch
  <2> QED
    BY <2>3, <2>4
<1>11. \A c \in Batch : c > made' \/ c \in finished' => items'[c] = <<>>
  BY <1>0, <1>3, <1>4 DEF EventInv
<1>12. /\ \A r \in Sender : /\ sending'[r] # NoEvent => fate'[sending'[r]] = "offered"
                            /\ sendBatch'[r] # Taken => sending'[r] # NoEvent
       /\ \A r, t \in Sender : sending'[r] = sending'[t] => r = t \/ sending'[r] = NoEvent
  <2>1. \A r \in Sender : sending[r] # NoEvent => sending[r] \in Event /\ sending[r] # e
    BY <1>2 DEF TypeOK, EventInv
  <2> QED
    BY <1>3, <1>7, <2>1 DEF EventInv
<1>13. /\ \A x \in Event : fate'[x] = "sending" <=> current' = x
       /\ worker' = "send" <=> current' # NoEvent
  BY <1>0, <1>1, <1>3, <1>7, HTTPTransportAssumption, SMTT(20) DEF EventInv, TypeOK
<1> QED
  BY <1>8, <1>9, <1>10, <1>11, <1>12, <1>13 DEF EventInv

\* What a step leaves alone.
LEMMA EventFrame ==
  ASSUME EventInv, UNCHANGED <<items, made, fate, sending, sendBatch, current>>,
         worker' = "send" <=> worker = "send",
         \A b \in finished' : b \in finished \/ items[b] = <<>>
  PROVE  EventInv'
<1>1. \A e, b : InBatch(e, b)' <=> InBatch(e, b)
  BY DEF InBatch
<1> QED
  BY <1>1 DEF EventInv

LEMMA FlushFrame ==
  ASSUME FlushInv, UNCHANGED <<asked, fate, items, workerBatch>>,
         \A f \in Flusher : flush'[f] = "wait" =>
                              flush[f] = "wait" /\ flushBatch'[f] = flushBatch[f]
  PROVE  FlushInv'
<1>1. \A e, b : InBatch(e, b)' <=> InBatch(e, b)
  BY DEF InBatch
<1> QED
  BY <1>1 DEF FlushInv

LEMMA EventStep ==
  ASSUME IInv, [Next]_vars
  PROVE  EventInv'
<1> USE BatchLemma DEF IInv, batchVars, sendVars, flushVars, workerVars
<1>1. ASSUME NEW s \in Sender, NEW e \in Event, SendCheck(s, e)
      PROVE  EventInv'
  <2>1. /\ fate[e] = "new" /\ sending[s] = NoEvent
        /\ \/ /\ \E r \in Recorded : fate' = [fate EXCEPT ![e] = r]
              /\ sending' = sending
           \/ /\ fate' = [fate EXCEPT ![e] = "offered"]
              /\ sending' = [sending EXCEPT ![s] = e]
        /\ UNCHANGED <<items, made, finished, sendBatch, worker, current>>
    BY <1>1 DEF SendCheck, Drop, Recorded
  <2>2. /\ fate' \in [Event -> Recorded \cup {"new", "offered", "queued", "sending", "sent"}]
        /\ fate'[e] \notin {"new", "queued", "sending"}
        /\ \A x \in Event : x # e => fate'[x] = fate[x]
    BY <2>1, ZenonT(40) DEF TypeOK, Recorded
  <2>3. \A b \in Batch : \A i \in 1 .. Len(items[b]) :
          items[b][i] \in Event /\ fate'[items[b][i]] = "queued"
    BY <2>1, <2>2, QueuedItems, SMTT(20)
  <2>4. \A x \in Event : fate'[x] = "queued" => \E b \in Batch : InBatch(x, b)'
    BY <2>1, <2>2 DEF EventInv, InBatch
  <2>5. \A r \in Sender : sending[r] # NoEvent => sending[r] \in Event /\ sending[r] # e
    BY <2>1 DEF EventInv, TypeOK
  <2>6. /\ \A r \in Sender : /\ sending'[r] # NoEvent => fate'[sending'[r]] = "offered"
                             /\ sendBatch'[r] # Taken => sending'[r] # NoEvent
        /\ \A r, t \in Sender : sending'[r] = sending'[t] => r = t \/ sending'[r] = NoEvent
    <3>1. CASE sending' = sending
      BY <2>1, <2>2, <2>5, <3>1 DEF EventInv
    <3>2. CASE /\ fate' = [fate EXCEPT ![e] = "offered"]
               /\ sending' = [sending EXCEPT ![s] = e]
      <4>1. fate'[e] = "offered" /\ sending'[s] = e
        BY <3>2 DEF TypeOK
      <4>2. \A r \in Sender : r # s => sending'[r] = sending[r]
        BY <3>2 DEF TypeOK
      <4> QED
        BY <2>1, <2>2, <2>5, <4>1, <4>2 DEF EventInv
    <3> QED
      BY <2>1, <3>1, <3>2
  <2>7. \A x \in Event : fate'[x] = "sending" <=> current' = x
    BY <2>1, <2>2 DEF EventInv
  <2> QED
    BY <2>1, <2>3, <2>4, <2>6, <2>7 DEF EventInv
<1>2. ASSUME NEW s \in Sender, SendLock(s)
      PROVE  EventInv'
  <2>1. /\ UNCHANGED <<items, made, finished, fate, sending, worker, current>>
        /\ sendBatch' = [sendBatch EXCEPT ![s] = buffer] /\ sending[s] # NoEvent
    BY <1>2, SMTT(20) DEF SendLock, Receive, workerVars
  <2> QED
    BY <2>1, SMTT(20) DEF TypeOK, EventInv, InBatch
<1>3. ASSUME NEW s \in Sender, SendQueue(s)
      PROVE  EventInv'
  <2>1. CASE ~Full(sendBatch[s])
    BY <1>3, <2>1, QueueStep
  <2>2. CASE Full(sendBatch[s])
    <3> DEFINE e == sending[s]
    <3>1. /\ fate' = [fate EXCEPT ![e] = "queue_overflow"]
          /\ sending' = [sending EXCEPT ![s] = NoEvent]
          /\ sendBatch' = [sendBatch EXCEPT ![s] = Taken]
          /\ UNCHANGED <<items, made, finished, worker, current>>
      BY <1>3, <2>2 DEF SendQueue, Drop
    <3>2. e \in Event /\ fate[e] = "offered"
      BY <1>3 DEF SendQueue, EventInv, TypeOK
    <3>3. \A x \in Event : x # e => fate'[x] = fate[x]
      BY <3>1 DEF TypeOK
    <3>4. fate'[e] = "queue_overflow"
      BY <3>1, <3>2 DEF TypeOK
    <3>5. \A b \in Batch : \A i \in 1 .. Len(items[b]) :
            items[b][i] \in Event /\ items[b][i] # e /\ fate[items[b][i]] = "queued"
      BY <3>2, QueuedItems, SMTT(20)
    <3>6. \A r \in Sender : r # s =>
            /\ sending'[r] = sending[r] /\ sendBatch'[r] = sendBatch[r]
            /\ sending[r] # e
            /\ sending[r] # NoEvent => sending[r] \in Event
      BY <3>1, <3>2, HTTPTransportAssumption DEF TypeOK, EventInv
    <3>7. sending'[s] = NoEvent /\ sendBatch'[s] = Taken
      BY <3>1 DEF TypeOK
    <3> HIDE DEF e
    <3>8. \A x \in Event : fate'[x] = "queued" => \E b \in Batch : InBatch(x, b)'
      BY <3>1, <3>3, <3>4 DEF EventInv, InBatch
    <3>9. /\ \A r \in Sender : /\ sending'[r] # NoEvent => fate'[sending'[r]] = "offered"
                               /\ sendBatch'[r] # Taken => sending'[r] # NoEvent
          /\ \A r, t \in Sender : sending'[r] = sending'[t] => r = t \/ sending'[r] = NoEvent
      BY <3>3, <3>6, <3>7 DEF EventInv
    <3>10. \A x \in Event : fate'[x] = "sending" <=> current' = x
      BY <3>1, <3>2, <3>3, <3>4 DEF EventInv
    <3> QED
      BY <3>1, <3>3, <3>5, <3>8, <3>9, <3>10 DEF EventInv
  <2> QED
    BY <2>1, <2>2
<1>4. ASSUME NEW f \in Flusher, FlushRenew(f)
      PROVE  EventInv'
  BY <1>4 DEF TypeOK, FlushRenew, EventInv, InBatch
<1>5. ASSUME NEW f \in Flusher,
             \/ FlushCall(f) \/ FlushTake(f) \/ FlushPutBack(f) \/ FlushTrue(f)
             \/ FlushFalse(f) \/ FlushClose(f)
      PROVE  EventInv'
  BY <1>5, EventFrame DEF FlushCall, FlushTake, FlushPutBack, FlushTrue, FlushFalse,
                          FlushClose
<1>6. CASE WorkerReceive
  BY <1>6, ReceiveStep
<1>7. CASE SendDone
  <2>1. /\ current \in Event /\ fate[current] = "sending" /\ current # NoEvent
        /\ \E r \in Recorded \cup {"sent"} : fate' = [fate EXCEPT ![current] = r]
        /\ worker' = "loop" /\ current' = NoEvent
        /\ UNCHANGED <<items, made, finished, sending, sendBatch>>
    BY <1>7 DEF SendDone, Drop, Recorded, EventInv, TypeOK
  <2>2. /\ fate'[current] \notin {"queued", "sending"}
        /\ \A x \in Event : x # current => fate'[x] = fate[x]
    BY <2>1 DEF TypeOK, Recorded
  <2>3. \A b \in Batch : \A i \in 1 .. Len(items[b]) :
          items[b][i] \in Event /\ fate'[items[b][i]] = "queued"
    <3>1. ASSUME NEW b \in Batch, NEW i \in 1 .. Len(items[b])
          PROVE  items[b][i] \in Event /\ fate'[items[b][i]] = "queued"
      <4>1. items[b][i] \in Event /\ fate[items[b][i]] = "queued"
        BY QueuedItems
      <4>2. items[b][i] # current
        BY <2>1, <4>1
      <4> QED
        BY <2>2, <4>1, <4>2
    <3> QED
      BY <3>1
  <2>4. \A x \in Event : fate'[x] = "queued" => \E b \in Batch : InBatch(x, b)'
    BY <2>1, <2>2 DEF EventInv, InBatch
  <2>5. \A r \in Sender : sending[r] # NoEvent =>
          sending[r] \in Event /\ fate'[sending[r]] = "offered"
    BY <2>1, <2>2 DEF EventInv, TypeOK
  <2>6. \A x \in Event : fate'[x] = "sending" <=> current' = x
    BY <2>1, <2>2, HTTPTransportAssumption DEF EventInv
  <2>7. /\ \A b \in Batch : b > made' \/ b \in finished' => items'[b] = <<>>
        /\ \A b, c \in Batch : \A i \in 1 .. Len(items'[b]), j \in 1 .. Len(items'[c]) :
             items'[b][i] = items'[c][j] => b = c /\ i = j
        /\ \A b \in Batch : \A i \in 1 .. Len(items'[b]) : fate'[items'[b][i]] = "queued"
    BY <2>1, <2>3 DEF EventInv
  <2>8. /\ \A r \in Sender : /\ sending'[r] # NoEvent => fate'[sending'[r]] = "offered"
                             /\ sendBatch'[r] # Taken => sending'[r] # NoEvent
        /\ \A r, t \in Sender : sending'[r] = sending'[t] => r = t \/ sending'[r] = NoEvent
    BY <2>1, <2>5 DEF EventInv
  <2> QED
    BY <2>1, <2>4, <2>6, <2>7, <2>8 DEF EventInv
<1>8. CASE WorkerFinish
  BY <1>8, EventFrame DEF WorkerFinish, Drained
<1>9. CASE WorkerTake \/ WorkerStart \/ WorkerReport \/ ReportDone \/ WorkerExit
  BY <1>9, EventFrame DEF WorkerTake, WorkerStart, WorkerReport, ReportDone, WorkerExit
<1>10. CASE Close \/ LimitExpires \/ UNCHANGED vars
  BY <1>10, EventFrame DEF Close, LimitExpires, vars
<1> QED
  BY <1>1, <1>2, <1>3, <1>4, <1>5, <1>6, <1>7, <1>8, <1>9, <1>10 DEF Next, Flushing, Working

LEMMA FlushStep ==
  ASSUME IInv, [Next]_vars
  PROVE  FlushInv'
<1> USE BatchLemma DEF IInv, batchVars, sendVars, flushVars, workerVars
<1>1. ASSUME NEW f \in Flusher, FlushCall(f)
      PROVE  FlushInv'
  BY <1>1 DEF TypeOK, FlushCall, FlushInv, InBatch
<1>2. ASSUME NEW f \in Flusher, FlushRenew(f)
      PROVE  FlushInv'
  <2>1. /\ flush' = [flush EXCEPT ![f] = "wait"] /\ flushBatch[f] = made
        /\ UNCHANGED <<asked, fate, items, flushBatch, workerBatch, worker, current>>
    BY <1>2 DEF FlushRenew, LockInv, Holding
  <2>2. \A g \in Flusher : g # f => flush'[g] = flush[g]
    BY <2>1 DEF TypeOK
  <2>3. \A b \in Batch : items[b] # <<>> => b <= made
    BY DEF EventInv, TypeOK
  <2>4. \A e \in Event : fate[e] = "queued" => \E b \in Batch : b <= made /\ InBatch(e, b)
    BY <2>3 DEF EventInv, InBatch
  <2>5. \A e \in Event : fate[e] = "sending" => workerBatch <= made
    BY HTTPTransportAssumption DEF EventInv, BatchInv, InLoop
  <2>6. \A e \in asked[f] : e \in Event /\ fate[e] \notin {"new", "offered"}
    BY DEF TypeOK, FlushInv
  <2>7. \A e, b : InBatch(e, b)' <=> InBatch(e, b)
    BY <2>1 DEF InBatch
  <2> QED
    BY <2>1, <2>2, <2>4, <2>5, <2>6, <2>7 DEF FlushInv
<1>3. ASSUME NEW f \in Flusher,
             \/ FlushTake(f) \/ FlushPutBack(f) \/ FlushTrue(f) \/ FlushFalse(f)
             \/ FlushClose(f)
      PROVE  FlushInv'
  <2>1. /\ \A g \in Flusher : flush'[g] = "wait" =>
                                flush[g] = "wait" /\ flushBatch'[g] = flushBatch[g]
        /\ UNCHANGED <<asked, fate, items, workerBatch>>
    BY <1>3 DEF TypeOK, FlushTake, FlushPutBack, FlushTrue, FlushFalse, FlushClose
  <2> QED
    BY <2>1, FlushFrame
<1>4. ASSUME NEW s \in Sender, NEW e \in Event, SendCheck(s, e)
      PROVE  FlushInv'
  <2>1. /\ fate[e] = "new" /\ \A x \in Event : x # e => fate'[x] = fate[x]
        /\ UNCHANGED <<asked, flush, flushBatch, items, workerBatch>>
    BY <1>4 DEF TypeOK, SendCheck, Drop
  <2>2. \A f \in Flusher : \A x \in asked[f] : x \in Event /\ x # e
    BY <2>1 DEF TypeOK, FlushInv
  <2>3. \A x, b : InBatch(x, b)' <=> InBatch(x, b)
    BY <2>1 DEF InBatch
  <2> QED
    BY <2>1, <2>2, <2>3 DEF FlushInv
<1>5. ASSUME NEW s \in Sender, SendQueue(s)
      PROVE  FlushInv'
  <2> DEFINE e == sending[s]
             b == sendBatch[s]
  <2>1. /\ e \in Event /\ fate[e] = "offered" /\ b \in Batch
        /\ \A x \in Event : x # e => fate'[x] = fate[x]
        /\ items' = items \/ items' = [items EXCEPT ![b] = Append(@, e)]
        /\ UNCHANGED <<asked, flush, flushBatch, workerBatch>>
    BY <1>5 DEF TypeOK, SendQueue, Drop, EventInv
  <2> HIDE DEF e, b
  <2>2. \A f \in Flusher : \A x \in asked[f] : x \in Event /\ x # e
    BY <2>1 DEF TypeOK, FlushInv
  <2>3. \A x, c : c \in Batch /\ InBatch(x, c) => InBatch(x, c)'
    <3> SUFFICES ASSUME NEW x, NEW c \in Batch, NEW i \in 1 .. Len(items[c]), items[c][i] = x
                 PROVE  InBatch(x, c)'
      BY DEF InBatch
    <3>1. CASE items'[c] = items[c]
      BY <3>1 DEF InBatch
    <3>2. CASE items'[c] = Append(items[c], e)
      <4>1. items[c] \in Seq(Event)
        BY DEF TypeOK
      <4>2. i \in 1 .. Len(items'[c]) /\ items'[c][i] = items[c][i]
        BY <2>1, <3>2, <4>1, QueueFacts
      <4> QED
        BY <4>2 DEF InBatch
    <3>3. items'[c] = items[c] \/ items'[c] = Append(items[c], e)
      <4>1. CASE items' = [items EXCEPT ![b] = Append(@, e)]
        <5>1. items \in [Batch -> Seq(Event)]
          BY DEF TypeOK
        <5> QED
          BY <2>1, <4>1, <5>1
      <4> QED
        BY <2>1, <4>1
    <3> QED
      BY <3>1, <3>2, <3>3
  <2> QED
    BY <2>1, <2>2, <2>3 DEF FlushInv
<1>6. CASE WorkerReceive
  <2> DEFINE b == workerBatch
             e == Head(items[b])
  <2>1. /\ items \in [Batch -> Seq(Event)]
        /\ b \in Batch /\ items[b] \in Seq(Event) /\ items[b] # <<>>
        /\ UNCHANGED <<asked, flush, flushBatch, workerBatch>>
        /\ items' = [items EXCEPT ![b] = Tail(@)]
    BY <1>6 DEF TypeOK, WorkerReceive, BatchInv, InLoop
  <2>2. e = items[b][1] /\ 1 \in 1 .. Len(items[b]) /\ e \in Event
    BY <2>1, QueueFacts
  <2>3. /\ \A x \in Event : x # e => fate'[x] = fate[x]
        /\ fate'[e] \notin {"new", "offered", "queued"}
    <3>1. fate' = [fate EXCEPT ![e] = "ratelimit_backoff"] \/ fate' = [fate EXCEPT ![e] = "sending"]
      BY <1>6 DEF WorkerReceive, Drop
    <3>2. fate \in [Event -> Recorded \cup {"new", "offered", "queued", "sending", "sent"}]
      BY DEF TypeOK
    <3> HIDE DEF e
    <3> QED
      BY <2>2, <3>1, <3>2
  <2>4. \A c \in Batch : \A x : x # e /\ InBatch(x, c) => InBatch(x, c)'
    <3> SUFFICES ASSUME NEW c \in Batch, NEW x, x # e, InBatch(x, c)
                 PROVE  InBatch(x, c)'
      BY Zenon
    <3>0. PICK i \in 1 .. Len(items[c]) : items[c][i] = x
      BY DEF InBatch
    <3>1. CASE c # b
      <4>1. items'[c] = items[c]
        BY <2>1, <3>1
      <4> QED
        BY <3>0, <4>1 DEF InBatch
    <3>2. CASE c = b
      <4>1. items'[c] = Tail(items[c]) /\ i # 1
        BY <2>1, <2>2, <3>0, <3>2
      <4>a. /\ Len(items[c]) \in Nat /\ Len(Tail(items[c])) = Len(items[c]) - 1
            /\ \A k \in 1 .. Len(items[c]) - 1 : Tail(items[c])[k] = items[c][k + 1]
        BY <2>1, <2>2, <3>2, QueueFacts
      <4>b. i - 1 \in 1 .. Len(items[c]) - 1 /\ (i - 1) + 1 = i
        BY <4>1, <4>a
      <4>2. i - 1 \in 1 .. Len(items'[c]) /\ items'[c][i - 1] = items[c][i]
        BY <4>1, <4>a, <4>b
      <4> QED
        BY <3>0, <4>2 DEF InBatch
    <3> QED
      BY <3>1, <3>2
  <2>6. fate[e] = "queued"
    BY <2>1, <2>2, QueuedItems
  <2>7. workerBatch = b
    OBVIOUS
  <2> HIDE DEF e, b
  <2>u. \A c, d \in Batch : \A i \in 1 .. Len(items[c]), j \in 1 .. Len(items[d]) :
          items[c][i] = items[d][j] => c = d
    BY DEF EventInv
  <2>5. \A c \in Batch : InBatch(e, c) => c = b
    BY <2>1, <2>2, <2>u DEF InBatch
  <2>i. \A f \in Flusher : \A x \in asked[f] :
          /\ x \in Event /\ fate[x] \notin {"new", "offered"}
          /\ flush[f] = "wait" =>
               /\ fate[x] = "queued" => \E c \in Batch : c <= flushBatch[f] /\ InBatch(x, c)
               /\ fate[x] = "sending" => b <= flushBatch[f]
    BY <2>7 DEF FlushInv, TypeOK
  <2>8. ASSUME NEW f \in Flusher, NEW x \in asked[f]
        PROVE  /\ fate'[x] \notin {"new", "offered"}
               /\ flush[f] = "wait" =>
                    /\ fate'[x] = "queued" => \E c \in Batch : c <= flushBatch[f] /\ InBatch(x, c)'
                    /\ fate'[x] = "sending" => b <= flushBatch[f]
    <3>1. CASE x = e
      <4>1. flush[f] = "wait" => b <= flushBatch[f]
        BY <2>5, <2>6, <2>i, <3>1
      <4> QED
        BY <2>3, <3>1, <4>1
    <3>2. CASE x # e
      BY <2>3, <2>4, <2>i, <3>2
    <3> QED
      BY <3>1, <3>2
  <2> QED
    BY <2>1, <2>7, <2>8 DEF FlushInv
<1>7. CASE SendDone
  <2>1. /\ current \in Event /\ fate[current] = "sending"
        /\ \E r \in Recorded \cup {"sent"} : fate' = [fate EXCEPT ![current] = r]
        /\ UNCHANGED <<asked, flush, flushBatch, items, workerBatch>>
    BY <1>7 DEF SendDone, Drop, Recorded, EventInv, TypeOK
  <2>2. /\ fate'[current] \notin {"new", "offered", "queued", "sending"}
        /\ \A x \in Event : x # current => fate'[x] = fate[x]
    BY <2>1 DEF TypeOK, Recorded
  <2>3. \A x, b : InBatch(x, b)' <=> InBatch(x, b)
    BY <2>1 DEF InBatch
  <2> QED
    BY <2>1, <2>2, <2>3 DEF FlushInv, TypeOK
<1>8. CASE WorkerTake
  <2>1. \A e \in Event : fate[e] # "sending"
    BY <1>8, HTTPTransportAssumption DEF WorkerTake, EventInv
  <2>2. UNCHANGED <<asked, fate, flush, flushBatch, items>>
    BY <1>8 DEF WorkerTake
  <2>3. \A x, b : InBatch(x, b)' <=> InBatch(x, b)
    BY <2>2 DEF InBatch
  <2> QED
    BY <2>1, <2>2, <2>3 DEF FlushInv, TypeOK
<1>9. CASE WorkerFinish
  <2>1. \A e \in Event : fate[e] # "sending"
    BY <1>9, HTTPTransportAssumption DEF WorkerFinish, EventInv
  <2>2. UNCHANGED <<asked, fate, flush, flushBatch, items>>
    BY <1>9 DEF WorkerFinish
  <2>3. \A x, b : InBatch(x, b)' <=> InBatch(x, b)
    BY <2>2 DEF InBatch
  <2> QED
    BY <2>1, <2>2, <2>3 DEF FlushInv, TypeOK
<1>10. CASE \/ WorkerStart \/ WorkerReport \/ ReportDone \/ WorkerExit \/ Close \/ LimitExpires
            \/ UNCHANGED vars \/ \E s \in Sender : SendLock(s)
  BY <1>10, FlushFrame DEF WorkerStart, WorkerReport, ReportDone, WorkerExit, Close,
                           LimitExpires, vars, SendLock
<1> QED
  BY <1>1, <1>2, <1>3, <1>4, <1>5, <1>6, <1>7, <1>8, <1>9, <1>10 DEF Next, Flushing, Working

\* The events whose loss is to be reported, after one of them is dropped or goes on.
Lost == {e \in Event : fate[e] \in Recorded}

LEMMA LostLemma ==
  ASSUME TypeOK, NEW e \in Event, fate[e] \notin Recorded, NEW r,
         fate' = [fate EXCEPT ![e] = r]
  PROVE  e \notin Lost /\ Lost' = (IF r \in Recorded THEN Lost \cup {e} ELSE Lost)
<1>1. fate'[e] = r /\ \A x \in Event : x # e => fate'[x] = fate[x]
  BY DEF TypeOK
<1> QED
  BY <1>1 DEF Lost

LEMMA NotLost ==
  ASSUME TypeOK, NEW e \in Event, fate[e] \notin Recorded,
         NEW r \in {"offered", "queued", "sending", "sent"}, fate' = [fate EXCEPT ![e] = r]
  PROVE  Lost' = Lost
<1>1. r \notin Recorded
  BY DEF Recorded
<1> QED
  BY <1>1, LostLemma

LEMMA ReportStep ==
  ASSUME IInv, [Next]_vars
  PROVE  ReportInv'
<1> USE DEF IInv, ReportInv, ReportedOnce, batchVars, sendVars, flushVars,
            workerVars, reportVars
<1>0. Lost = unreported \cup riding \cup reported \cup unsent
  BY DEF Lost
<1>a. ASSUME Lost' = (unreported \cup riding \cup reported \cup unsent)'
      PROVE  {e \in Event : fate[e] \in Recorded}' = (unreported \cup riding \cup reported \cup unsent)'
  BY <1>a DEF Lost
<1>1. ASSUME NEW s \in Sender, NEW e \in Event, SendCheck(s, e)
      PROVE  ReportInv'
  <2>1. fate[e] \notin Recorded /\ UNCHANGED <<worker, riding, reported, unsent>>
    BY <1>1 DEF SendCheck, Recorded
  <2>2. CASE \E r \in Recorded : Drop(e, r)
    <3>1. Lost' = Lost \cup {e} /\ unreported' = unreported \cup {e} /\ e \notin Lost
      BY <2>1, <2>2, LostLemma DEF Drop
    <3> QED
      BY <1>0, <1>a, <2>1, <3>1
  <2>3. CASE fate' = [fate EXCEPT ![e] = "offered"] /\ UNCHANGED unreported
    <3>1. Lost' = Lost
      BY <2>1, <2>3, NotLost
    <3> QED
      BY <1>0, <1>a, <2>1, <2>3, <3>1
  <2> QED
    BY <1>1, <2>2, <2>3 DEF SendCheck, Recorded
<1>2. ASSUME NEW s \in Sender, SendQueue(s)
      PROVE  ReportInv'
  <2> DEFINE e == sending[s]
  <2>1. /\ e \in Event /\ fate[e] \notin Recorded
        /\ UNCHANGED <<worker, riding, reported, unsent>>
    BY <1>2 DEF TypeOK, SendQueue, EventInv, Recorded
  <2>2. CASE Drop(e, "queue_overflow")
    <3>1. Lost' = Lost \cup {e} /\ unreported' = unreported \cup {e} /\ e \notin Lost
      BY <2>1, <2>2, LostLemma DEF Drop, Recorded
    <3> QED
      BY <1>0, <1>a, <2>1, <3>1
  <2>3. CASE fate' = [fate EXCEPT ![e] = "queued"] /\ UNCHANGED unreported
    <3>1. Lost' = Lost
      BY <2>1, <2>3, NotLost
    <3> QED
      BY <1>0, <1>a, <2>1, <2>3, <3>1
  <2> QED
    BY <1>2, <2>2, <2>3 DEF SendQueue
<1>3. CASE WorkerReceive
  <2> DEFINE e == Head(items[workerBatch])
  <2>1. e \in Event /\ fate[e] \notin Recorded
    <3>1. workerBatch \in Batch /\ items[workerBatch] # <<>>
      BY <1>3 DEF WorkerReceive, BatchInv, InLoop, TypeOK
    <3>2. e = items[workerBatch][1] /\ e \in Event /\ 1 \in 1 .. Len(items[workerBatch])
      BY <3>1, QueueFacts DEF TypeOK
    <3> QED
      BY <3>1, <3>2 DEF EventInv, Recorded
  <2>2. riding = {} /\ UNCHANGED <<reported, unsent>>
    BY <1>3 DEF WorkerReceive
  <2>3. CASE Drop(e, "ratelimit_backoff") /\ UNCHANGED riding
    <3>1. Lost' = Lost \cup {e} /\ unreported' = unreported \cup {e} /\ e \notin Lost
      BY <2>1, <2>3, LostLemma DEF Drop, Recorded
    <3> QED
      BY <1>0, <1>a, <2>2, <2>3, <3>1
  <2>4. CASE /\ fate' = [fate EXCEPT ![e] = "sending"] /\ worker' = "send"
             /\ riding' = unreported /\ unreported' = {}
    <3>1. Lost' = Lost
      BY <2>1, <2>4, NotLost
    <3> QED
      BY <1>0, <1>a, <2>2, <2>4, <3>1
  <2> QED
    BY <1>3, <2>3, <2>4 DEF WorkerReceive
<1>4. CASE SendDone
  <2>1. current \in Event /\ fate[current] \notin Recorded
    BY <1>4 DEF SendDone, EventInv, TypeOK, Recorded
  <2>2. /\ riding' = {}
        /\ \/ unsent' = unsent \cup riding /\ UNCHANGED reported
           \/ reported' = reported \cup riding /\ UNCHANGED unsent
    BY <1>4 DEF SendDone
  <2>3. CASE \E r \in Recorded : Drop(current, r)
    <3>1. /\ Lost' = Lost \cup {current} /\ unreported' = unreported \cup {current}
          /\ current \notin Lost
      BY <2>1, <2>3, LostLemma DEF Drop
    <3> QED
      BY <1>0, <1>a, <2>2, <3>1
  <2>4. CASE fate' = [fate EXCEPT ![current] = "sent"] /\ UNCHANGED unreported
    <3>1. Lost' = Lost
      BY <2>1, <2>4, NotLost
    <3> QED
      BY <1>0, <1>a, <2>2, <2>4, <3>1
  <2> QED
    BY <1>4, <2>3, <2>4 DEF SendDone, Recorded
<1>5. CASE WorkerReport \/ ReportDone
  BY <1>5 DEF TypeOK, WorkerReport, ReportDone
<1>6. CASE WorkerTake \/ WorkerStart \/ WorkerFinish \/ WorkerExit
  BY <1>6 DEF WorkerTake, WorkerStart, WorkerFinish, WorkerExit
<1>7. ASSUME NEW f \in Flusher,
             \/ FlushCall(f) \/ FlushTake(f) \/ FlushPutBack(f) \/ FlushClose(f)
             \/ FlushRenew(f) \/ FlushTrue(f) \/ FlushFalse(f)
      PROVE  ReportInv'
  BY <1>7 DEF FlushCall, FlushTake, FlushPutBack, FlushClose, FlushRenew, FlushTrue, FlushFalse
<1>8. CASE Close \/ LimitExpires \/ UNCHANGED vars \/ \E s \in Sender : SendLock(s)
  BY <1>8 DEF Close, LimitExpires, vars, SendLock
<1> QED
  BY <1>1, <1>2, <1>3, <1>4, <1>5, <1>6, <1>7, <1>8 DEF Next, Flushing, Working

-----------------------------------------------------------------------------
(* The theorems *)

\* The inductive invariant holds in every reachable state.
THEOREM Invariance == Spec => []IInv
<1>1. IInv /\ [Next]_vars => IInv'
  BY TypeStep, LockStep, CountStep, BatchStep, EventStep, FlushStep, ReportStep, PanicStep
  DEF IInv
<1> QED
  BY <1>1, InitInv, PTL DEF Spec

\* No sender, flush or worker ever sends on a channel that is closed or closes one
\* twice, and the fields keep their types.
THEOREM NeverPanics == Spec => []NoPanic
<1>1. IInv => NoPanic
  BY DEF IInv, NoPanic
<1> QED
  BY <1>1, Invariance, PTL

\* Every dropped event is in one place on its way into a client report.
THEOREM EachDropReportedOnce == Spec => []ReportedOnce
<1>1. IInv => ReportedOnce
  BY DEF IInv, ReportInv
<1> QED
  BY <1>1, Invariance, PTL

-----------------------------------------------------------------------------
(* HTTPTransport implements TelemetryTransport *)

LEMMA AbstractInit == Init => Abstract!Init
  BY DEF Init, Abstract!Init, Place, Call

\* The move of one event.
LEMMA MoveOne ==
  ASSUME TypeOK, NEW e \in Event, \A x \in Event : x # e => fate'[x] = fate[x]
  PROVE  Abstract!Move({e}, Place(e)')
  BY DEF Abstract!Move, Place

\* An event that is taken in becomes pending; one that is dealt with is settled.
LEMMA PlaceStep ==
  ASSUME TypeOK, NEW e \in Event, NEW r \in Recorded \cup {"offered", "queued", "sending", "sent"},
         fate' = [fate EXCEPT ![e] = r], UNCHANGED <<flush, asked>>,
         r = "offered" => Place(e) = "outside",
         r = "sending" => Place(e) = "pending",
         r = "queued" => Place(e) = "outside",
         Place(e) # "settled"
  PROVE  [Abstract!Next]_(Abstract!vars)
<1>1. fate'[e] = r /\ \A x \in Event : x # e => fate'[x] = fate[x]
  BY DEF TypeOK
<1>2. Abstract!Move({e}, Place(e)')
  BY <1>1, MoveOne
<1>3. UNCHANGED <<[f \in Flusher |-> Call(f)], asked>>
  BY DEF Call
<1>4. CASE r = "queued"
  <2>1. Place(e)' = "pending" /\ Place(e) = "outside"
    BY <1>1, <1>4 DEF Place
  <2>2. Abstract!Accept({e})
    BY <1>2, <1>3, <2>1 DEF Abstract!Accept
  <2> QED
    BY <2>2 DEF Abstract!Next
<1>5. CASE r \in Recorded \cup {"sent"}
  <2>1. Place(e)' = "settled" /\ Place(e) \in {"outside", "pending"}
    BY <1>1, <1>5 DEF Place, Recorded
  <2>2. Abstract!Settle({e})
    BY <1>2, <1>3, <2>1 DEF Abstract!Settle
  <2> QED
    BY <2>2 DEF Abstract!Next
<1>6. CASE r \in {"offered", "sending"}
  <2>1. Place(e)' = Place(e)
    BY <1>1, <1>6 DEF Place
  <2>2. UNCHANGED [x \in Event |-> Place(x)]
    BY <1>1, <2>1 DEF Place
  <2> QED
    BY <1>3, <2>2 DEF Abstract!vars
<1> QED
  BY <1>4, <1>5, <1>6

LEMMA OrderLemma ==
  \A b, c, d \in Batch : /\ b <= c /\ c < d => b < d /\ b # d
                        /\ ~(d <= c /\ c < d)
<1>1. Batch \subseteq Nat
  BY BatchLemma
<1>2. \A b, c, d \in Nat : /\ b <= c /\ c < d => b < d /\ b # d
                          /\ ~(d <= c /\ c < d)
  OBVIOUS
<1> QED
  BY <1>1, <1>2

\* What a flush that is answered true was asked for is settled: its batch is finished,
\* and so are the batches before it.
LEMMA AnswerLemma ==
  ASSUME IInv, NEW f \in Flusher, flush[f] = "wait", flushBatch[f] \in finished
  PROVE  \A e \in asked[f] : e \in Event /\ Place(e) = "settled"
<1> SUFFICES ASSUME NEW e \in asked[f]
             PROVE  e \in Event /\ Place(e) = "settled"
  OBVIOUS
<1> USE BatchLemma DEF IInv
<1>0. e \in Event /\ fate[e] \notin {"new", "offered"}
  BY DEF TypeOK, FlushInv
<1>a. /\ flushBatch[f] \in Batch /\ flushBatch[f] < made /\ made \in Batch
      /\ InLoop => workerBatch \in Batch
  BY DEF BatchInv, TypeOK
<1>1. \A b \in Batch : b <= flushBatch[f] => b \in finished \/ (InLoop /\ b = workerBatch)
  <2> SUFFICES ASSUME NEW b \in Batch, b <= flushBatch[f]
               PROVE  b \in finished \/ (InLoop /\ b = workerBatch)
    OBVIOUS
  <2>1. b < made
    BY <1>a, OrderLemma
  <2>2. b \in started
    BY <2>1 DEF BatchInv
  <2> QED
    BY <2>2 DEF BatchInv
<1>2. InLoop => flushBatch[f] < workerBatch
  BY DEF BatchInv
<1>3. \A b \in Batch : b <= flushBatch[f] => b \in finished
  <2>1. \A b \in Batch : b <= flushBatch[f] /\ InLoop => b # workerBatch
    BY <1>a, <1>2, OrderLemma
  <2> QED
    BY <1>1, <2>1
<1>4. fate[e] # "queued"
  <2> SUFFICES ASSUME fate[e] = "queued" PROVE FALSE
    OBVIOUS
  <2>1. PICK b \in Batch : b <= flushBatch[f] /\ InBatch(e, b)
    BY DEF FlushInv
  <2>2. items[b] = <<>>
    BY <1>3, <2>1 DEF EventInv
  <2> QED
    BY <2>1, <2>2 DEF InBatch
<1>5. fate[e] # "sending"
  <2> SUFFICES ASSUME fate[e] = "sending" PROVE FALSE
    OBVIOUS
  <2>1. workerBatch <= flushBatch[f]
    BY DEF FlushInv
  <2>2. InLoop /\ workerBatch \in Batch
    BY <1>0, HTTPTransportAssumption DEF EventInv, InLoop, BatchInv, TypeOK
  <2> QED
    BY <1>a, <1>2, <2>1, <2>2, OrderLemma
<1> QED
  BY <1>0, <1>4, <1>5 DEF TypeOK, Place, Recorded

\* The transport keeps the promise of the interface, whatever the number of events,
\* senders and flushers and the size of a batch.
THEOREM TransportImplemented == Spec => ImplementsTransport
<1>1. IInv /\ [Next]_vars => [Abstract!Next]_(Abstract!vars)
  <2> SUFFICES ASSUME IInv, [Next]_vars
               PROVE  [Abstract!Next]_(Abstract!vars)
    OBVIOUS
  <2> USE DEF IInv, batchVars, sendVars, flushVars, workerVars
  <2>1. ASSUME NEW s \in Sender, NEW e \in Event, SendCheck(s, e)
        PROVE  [Abstract!Next]_(Abstract!vars)
    <3>1. PICK r \in Recorded \cup {"offered"} : fate' = [fate EXCEPT ![e] = r]
      BY <2>1 DEF SendCheck, Drop, Recorded
    <3>2. Place(e) = "outside" /\ UNCHANGED <<flush, asked>>
      BY <2>1 DEF SendCheck, Place
    <3> QED
      BY <3>1, <3>2, PlaceStep DEF Recorded
  <2>2. ASSUME NEW s \in Sender, SendQueue(s)
        PROVE  [Abstract!Next]_(Abstract!vars)
    <3>1. PICK r \in Recorded \cup {"queued"} : fate' = [fate EXCEPT ![sending[s]] = r]
      BY <2>2 DEF SendQueue, Drop, Recorded
    <3>2. /\ sending[s] \in Event /\ Place(sending[s]) = "outside"
          /\ UNCHANGED <<flush, asked>>
      BY <2>2 DEF TypeOK, SendQueue, EventInv, Place
    <3> QED
      BY <3>1, <3>2, PlaceStep DEF Recorded
  <2>3. CASE WorkerReceive
    <3> DEFINE e == Head(items[workerBatch])
    <3>1. PICK r \in Recorded \cup {"sending"} : fate' = [fate EXCEPT ![e] = r]
      BY <2>3 DEF WorkerReceive, Drop, Recorded
    <3>2. e \in Event /\ fate[e] = "queued"
      <4>1. workerBatch \in Batch /\ items[workerBatch] # <<>>
        BY <2>3 DEF WorkerReceive, BatchInv, InLoop, TypeOK
      <4>2. e = items[workerBatch][1] /\ e \in Event /\ 1 \in 1 .. Len(items[workerBatch])
        BY <4>1, QueueFacts DEF TypeOK
      <4> QED
        BY <4>1, <4>2 DEF EventInv
    <3> HIDE DEF e
    <3>3. Place(e) = "pending" /\ UNCHANGED <<flush, asked>>
      BY <2>3, <3>2 DEF WorkerReceive, Place
    <3> QED
      BY <3>1, <3>2, <3>3, PlaceStep DEF Recorded
  <2>4. CASE SendDone
    <3>1. PICK r \in Recorded \cup {"sent"} : fate' = [fate EXCEPT ![current] = r]
      BY <2>4 DEF SendDone, Drop, Recorded
    <3>2. /\ current \in Event /\ Place(current) = "pending"
          /\ UNCHANGED <<flush, asked>>
      BY <2>4 DEF TypeOK, SendDone, EventInv, Place
    <3> QED
      BY <3>1, <3>2, PlaceStep DEF Recorded
  <2>5. ASSUME NEW f \in Flusher, FlushCall(f)
        PROVE  [Abstract!Next]_(Abstract!vars)
    <3>1. UNCHANGED [e \in Event |-> Place(e)]
      BY <2>5 DEF FlushCall, Place
    <3>2. asked' = [asked EXCEPT ![f] = Abstract!Pending]
      BY <2>5 DEF FlushCall, Abstract!Pending, Place
    <3>3. Abstract!FlushCall(f)
      BY <2>5, <3>1, <3>2 DEF TypeOK, FlushCall, Abstract!FlushCall, Call
    <3> QED
      BY <3>3 DEF Abstract!Next
  <2>6. ASSUME NEW f \in Flusher, FlushTrue(f)
        PROVE  [Abstract!Next]_(Abstract!vars)
    <3>1. UNCHANGED [e \in Event |-> Place(e)]
      BY <2>6 DEF FlushTrue, Place
    <3>2. asked[f] \cap Abstract!Pending = {}
      BY <2>6, AnswerLemma DEF FlushTrue, Abstract!Pending
    <3>3. Abstract!FlushTrue(f)
      BY <2>6, <3>1, <3>2 DEF TypeOK, FlushTrue, Abstract!FlushTrue, Call
    <3> QED
      BY <3>3 DEF Abstract!Next
  <2>7. ASSUME NEW f \in Flusher, FlushFalse(f)
        PROVE  [Abstract!Next]_(Abstract!vars)
    <3>1. UNCHANGED [e \in Event |-> Place(e)]
      BY <2>7 DEF FlushFalse, Place
    <3>2. Abstract!FlushFalse(f)
      BY <2>7, <3>1 DEF TypeOK, FlushFalse, Abstract!FlushFalse, Call
    <3> QED
      BY <3>2 DEF Abstract!Next
  <2>8. ASSUME NEW f \in Flusher,
               FlushTake(f) \/ FlushPutBack(f) \/ FlushClose(f) \/ FlushRenew(f)
        PROVE  [Abstract!Next]_(Abstract!vars)
    <3>1. /\ UNCHANGED <<fate, asked>>
          /\ \A g \in Flusher : Call(g)' = Call(g)
      BY <2>8 DEF TypeOK, FlushTake, FlushPutBack, FlushClose, FlushRenew, Call
    <3> QED
      BY <3>1 DEF Abstract!vars, Place
  <2>9. CASE \/ WorkerTake \/ WorkerStart \/ WorkerReport \/ ReportDone \/ WorkerFinish
             \/ WorkerExit \/ Close \/ LimitExpires \/ UNCHANGED vars
             \/ \E s \in Sender : SendLock(s)
    <3>1. UNCHANGED <<fate, asked, flush>>
      BY <2>9 DEF WorkerTake, WorkerStart, WorkerReport, ReportDone, WorkerFinish,
                  WorkerExit, Close, LimitExpires, vars, SendLock
    <3> QED
      BY <3>1 DEF Abstract!vars, Place, Call
  <2> QED
    BY <2>1, <2>2, <2>3, <2>4, <2>5, <2>6, <2>7, <2>8, <2>9 DEF Next, Flushing, Working
<1> QED
  BY <1>1, AbstractInit, Invariance, PTL DEF Spec, ImplementsTransport, Abstract!Spec

================================================================================
