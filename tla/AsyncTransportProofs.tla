------------------------- MODULE AsyncTransportProofs -------------------------
(***************************************************************************)
(* Theorems about AsyncTransport, for any senders, flushers, envelopes and *)
(* queue size.                                                             *)
(***************************************************************************)
EXTENDS AsyncTransport, TLAPS

Settled == Recorded \cup {"sent"}
OnWay == {"queued", "sending"}

\* The worker has an envelope while it sends one, and only then, and it drains
\* for a flusher that has not been answered.
WorkerInv ==
  /\ worker \in {"send", "drain-send"} <=> current # NoOne
  /\ worker \in {"drain", "drain-send"} =>
       response \in Flusher /\ flush[response] \in {"awaiting", "false"}
  /\ riding # {} => worker \in {"send", "drain-send", "report"}

\* What a flusher asked for was on its way, and is settled once it is answered.
FlushInv ==
  \A f \in Flusher : \A e \in asked[f] :
    /\ fate[e] \in OnWay \cup Settled
    /\ flush[f] \in {"drained", "true"} => fate[e] \in Settled

\* No sender is inside SendEnvelope once done is closed.
CloseInv ==
  /\ done <=> closer \in {"joining", "closed"}
  /\ done => \A s \in Sender : sending[s] = NoOne

IInv == TypeOK /\ OnePlace /\ WorkerInv /\ FlushInv /\ ReportedOnce /\ CloseInv

USE TransportAssumption

-----------------------------------------------------------------------------
(* The queue *)

LEMMA AppendFacts ==
  ASSUME NEW S, NEW q \in Seq(S), NEW x \in S
  PROVE  /\ Append(q, x) \in Seq(S)
         /\ Len(Append(q, x)) = Len(q) + 1
         /\ \A i \in 1 .. Len(q) : Append(q, x)[i] = q[i]
         /\ Append(q, x)[Len(q) + 1] = x
OBVIOUS

LEMMA TailFacts ==
  ASSUME NEW S, NEW q \in Seq(S), q # <<>>
  PROVE  /\ Len(q) \in Nat \ {0} /\ Head(q) = q[1] /\ Head(q) \in S
         /\ Tail(q) \in Seq(S)
         /\ Len(Tail(q)) = Len(q) - 1
         /\ \A i \in 1 .. Len(q) - 1 : Tail(q)[i] = q[i + 1]
OBVIOUS

-----------------------------------------------------------------------------
(* The initial states and the steps *)

LEMMA InitInv == Init => IInv
<1> SUFFICES ASSUME Init PROVE IInv
  OBVIOUS
<1>1. TypeOK
  <2>1. queue \in Seq(Envelope) /\ Len(queue) <= QueueSize
    BY DEF TransportAssumption, Init
  <2> QED
    BY <2>1 DEF Init, TypeOK
<1>2. OnePlace
  BY DEF TransportAssumption, Init, OnePlace
<1>3. WorkerInv /\ FlushInv /\ ReportedOnce /\ CloseInv
  BY DEF Init, WorkerInv, FlushInv, ReportedOnce, CloseInv, Recorded
<1> QED
  BY <1>1, <1>2, <1>3 DEF IInv

LEMMA SendCheckInv ==
  ASSUME IInv, NEW s \in Sender, NEW e \in Envelope, SendCheck(s, e)
  PROVE  IInv'
<1> USE DEF IInv
<1>0. e # NoOne /\ fate[e] = "new" /\ sending[s] = NoOne
  BY DEF TransportAssumption, SendCheck
<1>1. TypeOK'
  BY DEF TypeOK, SendCheck, Drop, Recorded, lockVars, flushVars, workerVars
<1>2. OnePlace'
  BY <1>0 DEF TypeOK, OnePlace, SendCheck, Drop, Recorded, lockVars, flushVars, workerVars
<1>3. WorkerInv'
  BY DEF WorkerInv, SendCheck, Drop, flushVars, workerVars
<1>4. FlushInv'
  BY <1>0 DEF TypeOK, FlushInv, SendCheck, Drop, OnWay, Settled, Recorded, flushVars
<1>5. ReportedOnce'
  BY <1>0 DEF TypeOK, ReportedOnce, SendCheck, Drop, Recorded
<1>6. CloseInv'
  BY DEF TypeOK, CloseInv, SendCheck, lockVars
<1> QED
  BY <1>1, <1>2, <1>3, <1>4, <1>5, <1>6

LEMMA SendSelectInv ==
  ASSUME IInv, NEW s \in Sender, SendSelect(s)
  PROVE  IInv'
<1> USE DEF IInv
<1> DEFINE e == sending[s]
<1>0. e \in Envelope /\ e # NoOne /\ fate[e] = "offered"
  BY DEF TypeOK, OnePlace, SendSelect
<1>a. queue \in Seq(Envelope) /\ Len(queue) \in Nat
  BY DEF TypeOK
<1>b. /\ Append(queue, e) \in Seq(Envelope)
      /\ Len(Append(queue, e)) = Len(queue) + 1
      /\ \A i \in 1 .. Len(queue) : Append(queue, e)[i] = queue[i]
      /\ Append(queue, e)[Len(queue) + 1] = e
  BY <1>0, <1>a, AppendFacts
<1>c. /\ queue' = Append(queue, e) /\ Len(queue) < QueueSize
         /\ fate' = [fate EXCEPT ![e] = "queued"] /\ unreported' = unreported
      \/ /\ queue' = queue
         /\ fate' = [fate EXCEPT ![e] = "queue_overflow"]
         /\ unreported' = unreported \cup {e}
  BY <1>a DEF TransportAssumption, SendSelect, Drop, QueueFull
<1>1. TypeOK'
  <2> HIDE DEF e
  <2>a. QueueSize \in Nat /\ Len(queue) <= QueueSize
    BY DEF TransportAssumption, TypeOK
  <2>1. queue' \in Seq(Envelope) /\ Len(queue') <= QueueSize
    <3>1. CASE queue' = Append(queue, e) /\ Len(queue) < QueueSize
      BY <1>a, <1>b, <2>a, <3>1
    <3>2. CASE queue' = queue
      BY <1>a, <2>a, <3>2
    <3> QED
      BY <1>c, <3>1, <3>2
  <2> QED
    BY <1>0, <1>c, <2>1 DEF TypeOK, SendSelect, Recorded, lockVars, flushVars, workerVars
<1>2. OnePlace'
  <2>1. sending' = [sending EXCEPT ![s] = NoOne] /\ current' = current
    BY DEF SendSelect, workerVars
  <2> HIDE DEF e
  <2>0. e = sending[s]
    BY DEF e
  <2>2. \A i \in 1 .. Len(queue) : queue[i] # e
    BY <1>0 DEF OnePlace
  <2>3. CASE queue' = queue /\ fate' = [fate EXCEPT ![e] = "queue_overflow"]
    BY <1>0, <2>0, <2>1, <2>2, <2>3 DEF TypeOK, OnePlace
  <2>4. CASE queue' = Append(queue, e) /\ fate' = [fate EXCEPT ![e] = "queued"]
    <3>1. 1 .. Len(queue') = 1 .. Len(queue) \cup {Len(queue) + 1}
      BY <1>a, <1>b, <2>4
    <3>2. Len(queue) + 1 \notin 1 .. Len(queue)
      BY <1>a
    <3>3. \A i \in 1 .. Len(queue) : queue'[i] = queue[i]
      BY <1>b, <2>4
    <3>4. queue'[Len(queue) + 1] = e
      BY <1>b, <2>4
    <3>5. \A i \in 1 .. Len(queue') : fate'[queue'[i]] = "queued"
      BY <1>0, <2>2, <2>4, <3>1, <3>3, <3>4, <1>a DEF TypeOK, OnePlace
    <3>6. \A i, j \in 1 .. Len(queue') : queue'[i] = queue'[j] => i = j
      BY <2>2, <3>1, <3>2, <3>3, <3>4 DEF OnePlace
    <3>7. \A x \in Envelope : fate'[x] = "queued" => \E i \in 1 .. Len(queue') : queue'[i] = x
      BY <1>0, <2>4, <3>1, <3>3, <3>4 DEF TypeOK, OnePlace
    <3>8. \A r \in Sender : sending'[r] # NoOne => fate'[sending'[r]] = "offered"
      BY <1>0, <2>0, <2>1, <2>4 DEF TypeOK, OnePlace
    <3>9. \A r, t \in Sender : sending'[r] = sending'[t] => r = t \/ sending'[r] = NoOne
      BY <2>1 DEF TypeOK, OnePlace
    <3>10. \A x \in Envelope : fate'[x] = "sending" <=> current' = x
      BY <1>0, <2>1, <2>4 DEF TypeOK, OnePlace
    <3> QED
      BY <3>5, <3>6, <3>7, <3>8, <3>9, <3>10 DEF OnePlace
  <2> QED
    BY <1>c, <2>3, <2>4
<1>3. WorkerInv'
  BY DEF WorkerInv, SendSelect, Drop, flushVars, workerVars
<1>4. FlushInv'
  BY <1>0 DEF TypeOK, FlushInv, SendSelect, Drop, OnWay, Settled, Recorded, flushVars
<1>5. ReportedOnce'
  BY <1>0 DEF TypeOK, ReportedOnce, SendSelect, Drop, Recorded
<1>6. CloseInv'
  BY DEF TypeOK, CloseInv, SendSelect, lockVars
<1> QED
  BY <1>1, <1>2, <1>3, <1>4, <1>5, <1>6

LEMMA ReceiveInv ==
  ASSUME IInv,
         \/ Receive("select", "send")
         \/ Receive("drain", "drain-send")
  PROVE  IInv'
<1> USE DEF IInv
<1> DEFINE e == Head(queue)
<1>0. /\ queue # <<>> /\ e \in Envelope /\ fate[e] = "queued" /\ e = queue[1]
      /\ current = NoOne /\ e # NoOne /\ riding = {}
  BY DEF TransportAssumption, TypeOK, OnePlace, Receive, WorkerInv
<1>a. /\ queue \in Seq(Envelope) /\ Len(queue) \in Nat \ {0}
      /\ Tail(queue) \in Seq(Envelope)
      /\ Len(Tail(queue)) = Len(queue) - 1
      /\ \A i \in 1 .. Len(queue) - 1 : Tail(queue)[i] = queue[i + 1]
  BY <1>0, TailFacts DEF TypeOK
<1>b. /\ queue' = Tail(queue) /\ sending' = sending
      /\ \/ fate' = [fate EXCEPT ![e] = "ratelimit_backoff"] /\ current' = current
         \/ fate' = [fate EXCEPT ![e] = "sending"] /\ current' = e
  BY DEF Receive, Drop
<1>1. TypeOK'
  <2>1. queue' \in Seq(Envelope) /\ Len(queue') <= QueueSize
    BY <1>a, <1>b DEF TransportAssumption, TypeOK
  <2>2. fate' \in [Envelope -> Recorded \cup
                 {"new", "refused", "offered", "queued", "sending", "sent"}]
    BY <1>0, <1>b DEF TypeOK, Recorded
  <2> QED
    BY <1>0, <2>1, <2>2 DEF TypeOK, Receive, Drop, lockVars, flushVars
<1>2. OnePlace'
  <2> HIDE DEF e
  <2>1. \A i \in 1 .. Len(queue') : i + 1 \in 1 .. Len(queue) /\ i + 1 # 1
                                  /\ queue'[i] = queue[i + 1]
    BY <1>a, <1>b
  <2>2. \A i \in 1 .. Len(queue) : i # 1 => i - 1 \in 1 .. Len(queue')
                                         /\ queue'[i - 1] = queue[i]
    BY <1>a, <1>b
  <2>3. 1 \in 1 .. Len(queue)
    BY <1>a
  <2>0. \A i, j \in 1 .. Len(queue) : queue[i] = queue[j] => i = j
    BY DEF OnePlace
  <2>4. \A i \in 1 .. Len(queue') : queue'[i] # e
    <3> SUFFICES ASSUME NEW i \in 1 .. Len(queue'), queue'[i] = e
                 PROVE  FALSE
      OBVIOUS
    <3>1. i + 1 \in 1 .. Len(queue) /\ i + 1 # 1 /\ queue[i + 1] = queue[1]
      BY <1>0, <2>1
    <3> QED
      BY <2>0, <2>3, <3>1
  <2>5. \A i \in 1 .. Len(queue') : fate'[queue'[i]] = "queued"
    BY <1>a, <1>b, <2>1, <2>4 DEF TypeOK, OnePlace
  <2>6. \A i, j \in 1 .. Len(queue') : queue'[i] = queue'[j] => i = j
    <3> SUFFICES ASSUME NEW i \in 1 .. Len(queue'), NEW j \in 1 .. Len(queue'),
                        queue'[i] = queue'[j]
                 PROVE  i = j
      OBVIOUS
    <3>1. i + 1 = j + 1
      BY <2>0, <2>1
    <3> QED
      BY <3>1
  <2>7. \A x \in Envelope : fate'[x] = "queued" => \E i \in 1 .. Len(queue') : queue'[i] = x
    <3> SUFFICES ASSUME NEW x \in Envelope, fate'[x] = "queued"
                 PROVE  \E i \in 1 .. Len(queue') : queue'[i] = x
      OBVIOUS
    <3>1. fate[x] = "queued" /\ x # e
      BY <1>0, <1>b DEF TypeOK
    <3>2. PICK i \in 1 .. Len(queue) : queue[i] = x
      BY <3>1 DEF OnePlace
    <3> QED
      BY <1>0, <2>2, <3>1, <3>2
  <2>8. \A s \in Sender : sending'[s] # NoOne => fate'[sending'[s]] = "offered"
    BY <1>0, <1>b DEF TypeOK, OnePlace
  <2>9. \A x \in Envelope : fate'[x] = "sending" <=> current' = x
    BY <1>0, <1>b DEF TypeOK, OnePlace
  <2> QED
    BY <1>b, <2>5, <2>6, <2>7, <2>8, <2>9 DEF OnePlace
<1>3. WorkerInv'
  BY <1>0 DEF TypeOK, WorkerInv, Receive, Drop, flushVars
<1>4. FlushInv'
  BY <1>0 DEF TypeOK, FlushInv, Receive, Drop, OnWay, Settled, Recorded, flushVars
<1>5. ReportedOnce'
  BY <1>0 DEF TypeOK, ReportedOnce, Receive, Drop, Recorded
<1>6. CloseInv'
  BY DEF TypeOK, CloseInv, Receive, lockVars
<1> QED
  BY <1>1, <1>2, <1>3, <1>4, <1>5, <1>6


\* The steps of a flush, of the ticker, of Close and of time, which move no
\* envelope.
LEMMA FlushingInv ==
  ASSUME IInv, NEW f \in Flusher,
         FlushCall(f) \/ FlushLock(f) \/ ContextDone(f) \/ FlushFails(f) \/ FlushReturns(f)
  PROVE  IInv'
<1> USE DEF IInv, queueVars, lockVars, workerVars, reportVars
<1> USE DEF FlushCall, FlushLock, ContextDone, FlushFails, FlushReturns
<1>1. TypeOK'
  BY DEF TypeOK
<1>2. OnePlace'
  BY DEF OnePlace
<1>3. WorkerInv'
  BY DEF TypeOK, WorkerInv
<1>4. FlushInv'
  BY DEF TypeOK, FlushInv, OnWay
<1>5. ReportedOnce'
  BY DEF ReportedOnce
<1>6. CloseInv'
  BY DEF CloseInv
<1> QED
  BY <1>1, <1>2, <1>3, <1>4, <1>5, <1>6

LEMMA WorkerFlushInv ==
  ASSUME IInv, NEW f \in Flusher, WorkerFlush(f)
  PROVE  IInv'
<1> USE DEF IInv, WorkerFlush, BeginDrain, queueVars, lockVars, reportVars
<1>1. TypeOK'
  BY DEF TypeOK
<1>2. OnePlace'
  BY DEF OnePlace
<1>3. WorkerInv'
  BY DEF TypeOK, WorkerInv
<1>4. FlushInv'
  BY DEF TypeOK, FlushInv
<1>5. ReportedOnce'
  BY DEF ReportedOnce
<1>6. CloseInv'
  BY DEF CloseInv
<1> QED
  BY <1>1, <1>2, <1>3, <1>4, <1>5, <1>6

\* The drain ends with the queue empty and no envelope in the worker's hands:
\* nothing is on its way, so whatever was asked for is settled.
LEMMA WorkerDrainedInv ==
  ASSUME IInv, WorkerDrained
  PROVE  IInv'
<1> USE DEF IInv, WorkerDrained, queueVars, lockVars, reportVars
<1>0. \A e \in Envelope : fate[e] \notin OnWay
  <2>1. 1 .. Len(queue) = {}
    OBVIOUS
  <2>2. \A e \in Envelope : fate[e] # "queued"
    BY <2>1 DEF OnePlace
  <2>3. current = NoOne
    BY DEF WorkerInv
  <2>4. \A e \in Envelope : fate[e] # "sending"
    BY <2>3 DEF TransportAssumption, OnePlace
  <2> QED
    BY <2>2, <2>4 DEF OnWay
<1>1. TypeOK'
  BY DEF TypeOK
<1>2. OnePlace'
  BY DEF OnePlace
<1>3. WorkerInv'
  BY DEF TypeOK, WorkerInv
<1>4. FlushInv'
  BY <1>0 DEF TypeOK, FlushInv
<1>5. ReportedOnce'
  BY DEF ReportedOnce
<1>6. CloseInv'
  BY DEF CloseInv
<1> QED
  BY <1>1, <1>2, <1>3, <1>4, <1>5, <1>6

LEMMA SendDoneInv ==
  ASSUME IInv, SendDone
  PROVE  IInv'
<1> USE DEF IInv
<1>0. current \in Envelope /\ current # NoOne /\ fate[current] = "sending"
  BY DEF TypeOK, OnePlace, WorkerInv, SendDone
<1>a. /\ queue' = queue /\ sending' = sending /\ current' = NoOne
      /\ done' = done /\ closer' = closer
      /\ flush' = flush /\ expired' = expired /\ asked' = asked
      /\ response' = response /\ riding' = {}
      /\ worker' = IF worker = "send" THEN "select" ELSE "drain"
  BY DEF SendDone, lockVars, flushVars
<1>b. \E r \in Settled : fate' = [fate EXCEPT ![current] = r]
  BY DEF SendDone, Drop, Settled, Recorded
<1>1. TypeOK'
  BY <1>0, <1>a DEF TypeOK, SendDone, Drop, Recorded
<1>2. OnePlace'
  <2>1. PICK r \in Settled : fate' = [fate EXCEPT ![current] = r]
    BY <1>b
  <2>2. r \notin {"offered", "queued", "sending"}
    BY DEF Settled, Recorded
  <2>3. \A e \in Envelope : fate'[e] = "sending" <=> current' = e
    BY <1>0, <1>a, <2>1, <2>2 DEF TransportAssumption, TypeOK, OnePlace
  <2> QED
    BY <1>0, <1>a, <2>1, <2>2, <2>3 DEF TypeOK, OnePlace
<1>3. WorkerInv'
  BY <1>a DEF WorkerInv, SendDone
<1>4. FlushInv'
  BY <1>0, <1>a, <1>b DEF TypeOK, FlushInv
<1>5. ReportedOnce'
  BY <1>0 DEF TypeOK, ReportedOnce, SendDone, Drop, Recorded
<1>6. CloseInv'
  BY <1>a DEF CloseInv
<1> QED
  BY <1>1, <1>2, <1>3, <1>4, <1>5, <1>6

LEMMA ReportingInv ==
  ASSUME IInv, WorkerReport \/ ReportDone
  PROVE  IInv'
<1> USE DEF IInv, WorkerReport, ReportDone, queueVars, lockVars, flushVars
<1>1. TypeOK'
  BY DEF TypeOK
<1>2. OnePlace'
  BY DEF OnePlace
<1>3. WorkerInv'
  BY DEF TypeOK, WorkerInv
<1>4. FlushInv'
  BY DEF FlushInv
<1>5. ReportedOnce'
  BY DEF WorkerInv, ReportedOnce
<1>6. CloseInv'
  BY DEF CloseInv
<1> QED
  BY <1>1, <1>2, <1>3, <1>4, <1>5, <1>6

\* CloseDone takes closeMu for writing: no sender is inside.
LEMMA ClosingInv ==
  ASSUME IInv, WorkerExit \/ CloseCall \/ CloseDone \/ CloseReturn \/ LimitExpires
  PROVE  IInv'
<1> USE DEF IInv, queueVars, lockVars, flushVars, workerVars, reportVars
<1> USE DEF WorkerExit, CloseCall, CloseDone, CloseReturn, LimitExpires
<1>1. TypeOK'
  BY DEF TypeOK
<1>2. OnePlace'
  BY DEF OnePlace
<1>3. WorkerInv'
  BY DEF TypeOK, WorkerInv
<1>4. FlushInv'
  BY DEF FlushInv
<1>5. ReportedOnce'
  BY DEF ReportedOnce
<1>6. CloseInv'
  BY DEF CloseInv, Readers
<1> QED
  BY <1>1, <1>2, <1>3, <1>4, <1>5, <1>6

LEMMA StutterInv ==
  ASSUME IInv, UNCHANGED vars
  PROVE  IInv'
BY DEF IInv, vars, TypeOK, OnePlace, WorkerInv, FlushInv, ReportedOnce, CloseInv

LEMMA StepInv ==
  ASSUME IInv, [Next]_vars
  PROVE  IInv'
<1>1. CASE \E s \in Sender : Sending(s)
  BY <1>1, SendCheckInv, SendSelectInv DEF Sending
<1>2. CASE \E f \in Flusher : FlushCall(f) \/ ContextDone(f) \/ Flushing(f)
  BY <1>2, FlushingInv DEF Flushing
<1>3. CASE Working
  <2>1. CASE \E f \in Flusher : WorkerFlush(f)
    BY <2>1, WorkerFlushInv
  <2>2. CASE WorkerReceive \/ WorkerDrain
    BY <2>2, ReceiveInv DEF WorkerReceive, WorkerDrain
  <2>3. CASE WorkerDrained
    BY <2>3, WorkerDrainedInv
  <2>4. CASE SendDone
    BY <2>4, SendDoneInv
  <2>5. CASE WorkerReport \/ ReportDone
    BY <2>5, ReportingInv
  <2>6. CASE WorkerExit
    BY <2>6, ClosingInv
  <2> QED
    BY <1>3, <2>1, <2>2, <2>3, <2>4, <2>5, <2>6 DEF Working
<1>4. CASE CloseCall \/ Closing
  BY <1>4, ClosingInv DEF Closing
<1>5. CASE LimitExpires
  BY <1>5, ClosingInv
<1>6. CASE UNCHANGED vars
  BY <1>6, StutterInv
<1> QED
  BY <1>1, <1>2, <1>3, <1>4, <1>5, <1>6 DEF Next

LEMMA Invariance == Spec => []IInv
<1>1. Init => IInv
  BY InitInv
<1>2. IInv /\ [Next]_vars => IInv'
  BY StepInv
<1> QED
  BY <1>1, <1>2, PTL DEF Spec

-----------------------------------------------------------------------------
(* Theorems *)

\* The variables have their types; the queue never exceeds its capacity.
THEOREM TypeCorrect == Spec => []TypeOK
<1>1. IInv => TypeOK
  BY DEF IInv
<1> QED
  BY <1>1, Invariance, PTL

\* Every envelope is in one place: none is in the queue twice, none is sent by
\* two goroutines, none is settled while it is still on its way.
THEOREM EnvelopesInOnePlace == Spec => []OnePlace
<1>1. IInv => OnePlace
  BY DEF IInv
<1> QED
  BY <1>1, Invariance, PTL

\* Flush returns true only when everything that was queued or being sent at its
\* call has been sent or recorded as dropped, for any number of flushers, of
\* senders and of envelopes.
THEOREM FlushCorrect == Spec => []FlushSound
<1>1. IInv => FlushSound
  BY DEF IInv, FlushInv, FlushSound, Settled, Recorded
<1> QED
  BY <1>1, Invariance, PTL

\* No dropped envelope is told of twice, and none is forgotten by the recorder.
THEOREM EachDropReportedOnce == Spec => []ReportedOnce
<1>1. IInv => ReportedOnce
  BY DEF IInv
<1> QED
  BY <1>1, Invariance, PTL

\* Nothing is queued once done is closed.
THEOREM NothingSentAfterClose == Spec => NoSendAfterClose
<1>1. IInv /\ [Next]_vars => [done => Len(queue') <= Len(queue)]_vars
  <2>1. SUFFICES ASSUME IInv, [Next]_vars, done
                 PROVE  Len(queue') <= Len(queue)
    OBVIOUS
  <2>0. Len(queue) \in Nat
    BY <2>1 DEF IInv, TypeOK
  <2>2. \A s \in Sender : ~SendSelect(s)
    BY <2>1 DEF IInv, CloseInv, SendSelect
  <2>3. CASE queue' = queue
    BY <2>0, <2>3
  <2>4. CASE queue # <<>> /\ queue' = Tail(queue)
    BY <2>1, <2>0, <2>4, TailFacts DEF IInv, TypeOK
  <2>5. queue' = queue \/ (queue # <<>> /\ queue' = Tail(queue))
    BY <2>1, <2>2
    DEF Next, vars, Sending, Flushing, Working, Closing, SendCheck, FlushCall,
        FlushLock, ContextDone, FlushFails, FlushReturns, WorkerFlush, Receive,
        WorkerReceive, WorkerDrain, WorkerDrained, SendDone, WorkerReport,
        ReportDone, WorkerExit, CloseCall, CloseDone, CloseReturn, LimitExpires,
        queueVars
  <2> QED
    BY <2>3, <2>4, <2>5
<1> QED
  BY <1>1, Invariance, PTL DEF Spec, NoSendAfterClose

-----------------------------------------------------------------------------
(* AsyncTransport implements TelemetryTransport *)

LEMMA AbstractInit == Init => Abstract!Init
BY DEF Init, Abstract!Init, Place, Call

\* A step that moves one envelope is a step that moves the set of it alone.
LEMMA MoveOne ==
  ASSUME TypeOK, NEW e \in Envelope, NEW r \in Recorded \cup
           {"new", "refused", "offered", "queued", "sending", "sent"},
         fate' = [fate EXCEPT ![e] = r],
         NEW to,
         Place(e)' = to
  PROVE  Abstract!Move({e}, to)
BY DEF TypeOK, Abstract!Move, Place

LEMMA SendCheckStep ==
  ASSUME IInv, NEW s \in Sender, NEW e \in Envelope, SendCheck(s, e)
  PROVE  [Abstract!Next]_(Abstract!vars)
<1>1. TypeOK /\ fate[e] = "new" /\ Place(e) = "outside"
  BY DEF IInv, SendCheck, Place
<1>2. flush' = flush /\ asked' = asked
  BY DEF SendCheck, flushVars
<1>3. CASE fate' = [fate EXCEPT ![e] = "refused"]
  <2>1. Abstract!Move({e}, "refused")
    BY <1>1, <1>3, MoveOne DEF TypeOK, Place
  <2>2. Abstract!Refuse({e})
    BY <1>1, <1>2, <2>1 DEF Abstract!Refuse, Call
  <2> QED
    BY <2>2 DEF Abstract!Next
<1>4. CASE fate' = [fate EXCEPT ![e] = "ratelimit_backoff"]
  <2>1. Abstract!Move({e}, "settled")
    BY <1>1, <1>4, MoveOne DEF TypeOK, Place, Recorded
  <2>2. Abstract!Settle({e})
    BY <1>1, <1>2, <2>1 DEF Abstract!Settle, Call
  <2> QED
    BY <2>2 DEF Abstract!Next
<1>5. CASE fate' = [fate EXCEPT ![e] = "offered"]
  BY <1>1, <1>2, <1>5 DEF TypeOK, Abstract!vars, Place, Call
<1> QED
  BY <1>3, <1>4, <1>5 DEF SendCheck, Drop

LEMMA SendSelectStep ==
  ASSUME IInv, NEW s \in Sender, SendSelect(s)
  PROVE  [Abstract!Next]_(Abstract!vars)
<1> DEFINE e == sending[s]
<1>1. TypeOK /\ e \in Envelope /\ fate[e] = "offered" /\ Place(e) = "outside"
  BY DEF IInv, TypeOK, OnePlace, SendSelect, Place
<1>2. flush' = flush /\ asked' = asked
  BY DEF SendSelect, flushVars
<1>3. CASE fate' = [fate EXCEPT ![e] = "queued"]
  <2>1. Abstract!Move({e}, "pending")
    BY <1>1, <1>3, MoveOne DEF TypeOK, Place
  <2>2. Abstract!Accept({e})
    BY <1>1, <1>2, <2>1 DEF Abstract!Accept, Call
  <2> QED
    BY <1>1, <2>2 DEF Abstract!Next
<1>4. CASE fate' = [fate EXCEPT ![e] = "queue_overflow"]
  <2>1. Abstract!Move({e}, "settled")
    BY <1>1, <1>4, MoveOne DEF TypeOK, Place, Recorded
  <2>2. Abstract!Settle({e})
    BY <1>1, <1>2, <2>1 DEF Abstract!Settle, Call
  <2> QED
    BY <1>1, <2>2 DEF Abstract!Next
<1> QED
  BY <1>3, <1>4 DEF SendSelect, Drop

LEMMA ReceiveStep ==
  ASSUME IInv,
         \/ Receive("select", "send")
         \/ Receive("drain", "drain-send")
  PROVE  [Abstract!Next]_(Abstract!vars)
<1> DEFINE e == Head(queue)
<1>1. TypeOK /\ e \in Envelope /\ fate[e] = "queued" /\ Place(e) = "pending"
  <2>1. queue # <<>> /\ TypeOK
    BY DEF IInv, Receive
  <2>2. 1 \in 1 .. Len(queue) /\ Head(queue) = queue[1] /\ Head(queue) \in Envelope
    BY <2>1, TailFacts DEF TypeOK
  <2> QED
    BY <2>1, <2>2 DEF IInv, OnePlace, Place
<1>2. flush' = flush /\ asked' = asked
  BY DEF Receive, flushVars
<1>3. CASE fate' = [fate EXCEPT ![e] = "sending"]
  BY <1>1, <1>2, <1>3 DEF TypeOK, Abstract!vars, Place, Call
<1>4. CASE fate' = [fate EXCEPT ![e] = "ratelimit_backoff"]
  <2>1. Abstract!Move({e}, "settled")
    BY <1>1, <1>4, MoveOne DEF TypeOK, Place, Recorded
  <2>2. Abstract!Settle({e})
    BY <1>1, <1>2, <2>1 DEF Abstract!Settle, Call
  <2> QED
    BY <1>1, <2>2 DEF Abstract!Next
<1> QED
  BY <1>3, <1>4 DEF Receive, Drop

LEMMA SendDoneStep ==
  ASSUME IInv, SendDone
  PROVE  [Abstract!Next]_(Abstract!vars)
<1>1. /\ TypeOK /\ current \in Envelope
      /\ fate[current] = "sending" /\ Place(current) = "pending"
  BY DEF IInv, TypeOK, OnePlace, WorkerInv, SendDone, Place
<1>2. flush' = flush /\ asked' = asked
  BY DEF SendDone, flushVars
<1>3. PICK r \in {"internal_error", "network_error", "send_error", "sent"} :
        fate' = [fate EXCEPT ![current] = r]
  BY DEF SendDone, Drop
<1>4. fate'[current] = r
  BY <1>1, <1>3 DEF TypeOK
<1>5. Abstract!Move({current}, "settled")
  BY <1>1, <1>3, <1>4 DEF TypeOK, Abstract!Move, Place
<1>6. Abstract!Settle({current})
  BY <1>1, <1>2, <1>5 DEF Abstract!Settle, Call
<1> QED
  BY <1>1, <1>6 DEF Abstract!Next

LEMMA FlushingStep ==
  ASSUME IInv, NEW f \in Flusher,
         FlushCall(f) \/ FlushLock(f) \/ ContextDone(f) \/ FlushFails(f) \/ FlushReturns(f)
  PROVE  [Abstract!Next]_(Abstract!vars)
<1>0. TypeOK /\ fate' = fate
  BY DEF IInv, FlushCall, FlushLock, ContextDone, FlushFails, FlushReturns, queueVars
<1>a. UNCHANGED [e \in Envelope |-> Place(e)]
  BY <1>0 DEF Place
<1>1. CASE FlushCall(f)
  <2>1. asked' = [asked EXCEPT ![f] = Abstract!Pending]
    BY <1>1 DEF FlushCall, Abstract!Pending, Place
  <2>2. Abstract!FlushCall(f)
    BY <1>0, <1>a, <1>1, <2>1 DEF TypeOK, FlushCall, Abstract!FlushCall, Call
  <2> QED
    BY <2>2 DEF Abstract!Next
<1>2. CASE FlushLock(f)
  BY <1>0, <1>a, <1>2 DEF TypeOK, FlushLock, Abstract!vars, Call
<1>3. CASE ContextDone(f)
  BY <1>0, <1>a, <1>3 DEF TypeOK, ContextDone, Abstract!vars, Call
<1>4. CASE FlushFails(f)
  <2>1. Abstract!FlushFalse(f)
    BY <1>0, <1>a, <1>4 DEF TypeOK, FlushFails, Abstract!FlushFalse, Call
  <2> QED
    BY <2>1 DEF Abstract!Next
<1>5. CASE FlushReturns(f)
  <2>1. asked[f] \cap Abstract!Pending = {}
    BY <1>5 DEF IInv, TypeOK, FlushInv, FlushReturns, Abstract!Pending, Place,
                Settled, Recorded
  <2>2. Abstract!FlushTrue(f)
    BY <1>0, <1>a, <1>5, <2>1 DEF TypeOK, FlushReturns, Abstract!FlushTrue, Call
  <2> QED
    BY <2>2 DEF Abstract!Next
<1> QED
  BY <1>1, <1>2, <1>3, <1>4, <1>5

\* The remaining steps change nothing the interface speaks of.
LEMMA HiddenStep ==
  ASSUME IInv,
         \/ \E f \in Flusher : WorkerFlush(f)
         \/ WorkerDrained \/ WorkerReport \/ ReportDone \/ WorkerExit
         \/ CloseCall \/ CloseDone \/ CloseReturn \/ LimitExpires \/ UNCHANGED vars
  PROVE  [Abstract!Next]_(Abstract!vars)
<1>1. TypeOK /\ fate' = fate /\ asked' = asked
  BY DEF IInv, WorkerFlush, WorkerDrained, WorkerReport, ReportDone, WorkerExit,
         CloseCall, CloseDone, CloseReturn, LimitExpires, vars, queueVars, flushVars
<1>2. \A f \in Flusher : Call(f)' = Call(f)
  BY DEF IInv, TypeOK, WorkerInv, WorkerFlush, BeginDrain, WorkerDrained,
         WorkerReport, ReportDone, WorkerExit, CloseCall, CloseDone, CloseReturn,
         LimitExpires, vars, flushVars, Call
<1> QED
  BY <1>1, <1>2 DEF Abstract!vars, Place

\* The transport keeps the promise of the interface, whatever the number of
\* envelopes, senders and flushers and the size of the queue.
THEOREM TransportImplemented == Spec => ImplementsTransport
<1>1. Init => Abstract!Init
  BY AbstractInit
<1>2. IInv /\ [Next]_vars => [Abstract!Next]_(Abstract!vars)
  <2> SUFFICES ASSUME IInv, [Next]_vars
               PROVE  [Abstract!Next]_(Abstract!vars)
    OBVIOUS
  <2>1. CASE \E s \in Sender : Sending(s)
    BY <2>1, SendCheckStep, SendSelectStep DEF Sending
  <2>2. CASE \E f \in Flusher : FlushCall(f) \/ ContextDone(f) \/ Flushing(f)
    BY <2>2, FlushingStep DEF Flushing
  <2>3. CASE WorkerReceive \/ WorkerDrain
    BY <2>3, ReceiveStep DEF WorkerReceive, WorkerDrain
  <2>4. CASE SendDone
    BY <2>4, SendDoneStep
  <2>5. CASE \/ \E f \in Flusher : WorkerFlush(f)
             \/ WorkerDrained \/ WorkerReport \/ ReportDone \/ WorkerExit
             \/ CloseCall \/ CloseDone \/ CloseReturn \/ LimitExpires \/ UNCHANGED vars
    BY <2>5, HiddenStep
  <2> QED
    BY <2>1, <2>2, <2>3, <2>4, <2>5 DEF Next, Working, Closing
<1> QED
  BY <1>1, <1>2, Invariance, PTL DEF Spec, ImplementsTransport, Abstract!Spec

===============================================================================
