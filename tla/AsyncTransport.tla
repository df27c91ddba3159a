---------------------------- MODULE AsyncTransport ----------------------------
(***************************************************************************)
(* internal/http/transport.go, AsyncTransport: senders put envelopes on a  *)
(* bounded channel, one worker takes them off and sends them, Flush asks   *)
(* the worker to empty the channel, Close stops the worker.                *)
(*                                                                         *)
(* Senders and flushers hold closeMu for reading, Close holds it for       *)
(* writing; a sync.RWMutex lets no new reader in once a writer waits.  The *)
(* recorder and provider of client reports (report/aggregator.go) are the  *)
(* sets unreported, riding and so on: which dropped envelopes a report has *)
(* still to tell of, or is on its way to tell of.                          *)
(***************************************************************************)
EXTENDS Integers, Sequences, FiniteSets

CONSTANTS
  Sender, Flusher,   \* goroutines that call SendEnvelope, FlushWithContext
  Envelope,          \* the envelopes, none of them empty
  Category,          \* rate-limit categories
  CategoryOf,        \* categoryFromEnvelope, for each envelope
  QueueSize,         \* capacity of the channel queue
  NoOne              \* no envelope and no flusher

ASSUME TransportAssumption ==
  /\ QueueSize \in Nat \ {0}
  /\ CategoryOf \in [Envelope -> Category]
  /\ NoOne \notin Envelope \cup Flusher

VARIABLES
  queue,         \* the channel queue
  done,          \* whether the channel done is closed
  limited,       \* the categories whose limit has not expired
  sending,       \* the envelope each sender has inside SendEnvelope
  fate,          \* what has become of each envelope
  flush,         \* where each flusher is in FlushWithContext
  expired,       \* the flushers whose context is done
  asked,         \* history: what was queued when each flusher called
  worker,        \* where the worker is
  current,       \* the envelope the worker is sending
  response,      \* the flusher the worker is draining the queue for
  closer,        \* where the call of Close is
  unreported,    \* dropped envelopes the recorder holds an outcome of
  riding,        \* those in the report that is being sent
  reported,      \* those in a report that was sent
  unsent         \* those in a report whose request failed

queueVars == <<queue, fate>>
lockVars == <<done, closer>>
flushVars == <<flush, expired, asked>>
workerVars == <<worker, current, response>>
reportVars == <<unreported, riding, reported, unsent>>
vars == <<queue, done, limited, sending, fate, flush, expired, asked, worker,
          current, response, closer, unreported, riding, reported, unsent>>

Recorded == {"ratelimit_backoff", "queue_overflow", "network_error",
             "send_error", "internal_error"}      \* reasons that are recorded

Init ==
  /\ queue = <<>>
  /\ done = FALSE
  /\ limited = {}
  /\ sending = [s \in Sender |-> NoOne]
  /\ fate = [e \in Envelope |-> "new"]
  /\ flush = [f \in Flusher |-> "idle"]
  /\ expired = {}
  /\ asked = [f \in Flusher |-> {}]
  /\ worker = "select"
  /\ current = NoOne
  /\ response = NoOne
  /\ closer = "idle"
  /\ unreported = {}
  /\ riding = {}
  /\ reported = {}
  /\ unsent = {}

RateLimited(e) == CategoryOf[e] \in limited

\* closeMu: RLock is granted while no writer waits or holds.
MayRead == closer \in {"idle", "closed"}

\* A fault: Close does not wait for the readers.
NoReaders == {}

Readers == {s \in Sender : sending[s] # NoOne}
             \cup {f \in Flusher : flush[f] \in {"select", "awaiting", "drained"}}

\* Faults: the drop is not recorded; nothing is done at all.
DropUncounted(e, reason) ==
  /\ fate' = [fate EXCEPT ![e] = reason]
  /\ UNCHANGED unreported

DropIgnored(e, reason) == UNCHANGED <<fate, unreported>>

\* RecordForEnvelope(reason, e), e being dropped for that reason.
Drop(e, reason) ==
  /\ fate' = [fate EXCEPT ![e] = reason]
  /\ unreported' = unreported \cup {e}

-----------------------------------------------------------------------------
(* SendEnvelope                                                            *)

\* Take closeMu, look at done and at the rate limits.
SendCheck(s, e) ==
  /\ sending[s] = NoOne
  /\ fate[e] = "new"
  /\ MayRead
  /\ \/ /\ done
        /\ fate' = [fate EXCEPT ![e] = "refused"]
        /\ UNCHANGED <<sending, unreported>>
     \/ /\ ~done
        /\ RateLimited(e)
        /\ Drop(e, "ratelimit_backoff")
        /\ UNCHANGED sending
     \/ /\ ~done
        /\ ~RateLimited(e)
        /\ sending' = [sending EXCEPT ![s] = e]
        /\ fate' = [fate EXCEPT ![e] = "offered"]
        /\ UNCHANGED unreported
  /\ UNCHANGED <<queue, limited, lockVars, flushVars, workerVars, riding,
                 reported, unsent>>

QueueFull == Len(queue) >= QueueSize

\* The select that queues the envelope or drops it.
SendSelect(s) ==
  LET e == sending[s]
  IN
  /\ e # NoOne
  /\ \/ /\ ~QueueFull
        /\ queue' = Append(queue, e)
        /\ fate' = [fate EXCEPT ![e] = "queued"]
        /\ UNCHANGED unreported
     \/ /\ QueueFull
        /\ Drop(e, "queue_overflow")
        /\ UNCHANGED queue
  /\ sending' = [sending EXCEPT ![s] = NoOne]
  /\ UNCHANGED <<limited, lockVars, flushVars, workerVars, riding, reported,
                 unsent>>

-----------------------------------------------------------------------------
(* FlushWithContext                                                        *)

FlushCall(f) ==
  /\ flush[f] = "idle"
  /\ flush' = [flush EXCEPT ![f] = "called"]
  /\ asked' = [asked EXCEPT ![f] = {e \in Envelope : fate[e] \in {"queued", "sending"}}]
  /\ UNCHANGED <<queueVars, lockVars, limited, sending, expired, workerVars,
                 reportVars>>

FlushLock(f) ==
  /\ flush[f] = "called"
  /\ MayRead
  /\ flush' = [flush EXCEPT ![f] = "select"]
  /\ UNCHANGED <<queueVars, lockVars, limited, sending, expired, asked,
                 workerVars, reportVars>>

ContextDone(f) ==
  /\ flush[f] \in {"called", "select", "awaiting", "drained"}
  /\ expired' = expired \cup {f}
  /\ UNCHANGED <<queueVars, lockVars, limited, sending, flush, asked,
                 workerVars, reportVars>>

\* The select's branches that give up: done, or the context.
FlushFails(f) ==
  /\ \/ flush[f] = "select" /\ (done \/ f \in expired)
     \/ flush[f] \in {"awaiting", "drained"} /\ f \in expired
  /\ flush' = [flush EXCEPT ![f] = "false"]
  /\ UNCHANGED <<queueVars, lockVars, limited, sending, expired, asked,
                 workerVars, reportVars>>

\* The response channel is closed: Flush returns true.
FlushReturns(f) ==
  /\ flush[f] = "drained"
  /\ flush' = [flush EXCEPT ![f] = "true"]
  /\ UNCHANGED <<queueVars, lockVars, limited, sending, expired, asked,
                 workerVars, reportVars>>

-----------------------------------------------------------------------------
(* The worker                                                              *)

\* A fault: the request is answered with the queue as it is.
AnswerAtOnce(f) ==
  /\ worker' = "select"
  /\ response' = NoOne
  /\ flush' = [flush EXCEPT ![f] = "drained"]

\* Begin drainQueue for f.
BeginDrain(f) ==
  /\ worker' = "drain"
  /\ response' = f
  /\ flush' = [flush EXCEPT ![f] = "awaiting"]

\* The rendezvous on flushRequest.
WorkerFlush(f) ==
  /\ worker = "select"
  /\ flush[f] = "select"
  /\ BeginDrain(f)
  /\ UNCHANGED <<queueVars, lockVars, limited, sending, expired, asked,
                 current, reportVars>>

\* Take an envelope, at the select or in drainQueue, and check its limit.
Receive(from, to) ==
  LET e == Head(queue)
  IN
  /\ worker = from
  /\ queue # <<>>
  /\ queue' = Tail(queue)
  /\ IF RateLimited(e)
       THEN /\ Drop(e, "ratelimit_backoff")
            /\ UNCHANGED <<worker, current, riding>>
       ELSE /\ worker' = to
            /\ current' = e
            /\ fate' = [fate EXCEPT ![e] = "sending"]
            /\ riding' = unreported        \* AttachToEnvelope
            /\ unreported' = {}
  /\ UNCHANGED <<lockVars, limited, sending, flushVars, response, reported, unsent>>

WorkerReceive == Receive("select", "send")
WorkerDrain == Receive("drain", "drain-send")

\* A fault: the response channel is never closed.
DrainedUnanswered ==
  /\ worker = "drain"
  /\ queue = <<>>
  /\ worker' = "select"
  /\ response' = NoOne
  /\ UNCHANGED <<queueVars, lockVars, limited, sending, flushVars, current,
                 reportVars>>

\* drainQueue found the queue empty: close the response channel.
WorkerDrained ==
  /\ worker = "drain"
  /\ queue = <<>>
  /\ worker' = "select"
  /\ response' = NoOne
  /\ flush' = [flush EXCEPT ![response] = IF @ = "awaiting" THEN "drained" ELSE @]
  /\ UNCHANGED <<queueVars, lockVars, limited, sending, expired, asked,
                 current, reportVars>>

\* sendEnvelopeHTTP ends.  Only an answer from the server settles the report
\* that rode along; the limits of the answer are merged in.
SendDone ==
  LET from == worker
      Finish == /\ worker' = IF from = "send" THEN "select" ELSE "drain"
                /\ current' = NoOne
                /\ riding' = {}
  IN
  /\ worker \in {"send", "drain-send"}
  /\ \/ /\ \E reason \in {"internal_error", "network_error"} : Drop(current, reason)
        /\ unsent' = unsent \cup riding
        /\ UNCHANGED <<limited, reported>>
     \/ /\ \/ Drop(current, "send_error")
           \/ /\ fate' = [fate EXCEPT ![current] = "sent"]
              /\ UNCHANGED unreported
        /\ reported' = reported \cup riding
        /\ \E L \in SUBSET Category : limited' = limited \cup L
        /\ UNCHANGED unsent
  /\ Finish
  /\ UNCHANGED <<queue, lockVars, sending, flushVars, response>>

\* The ticker: sendClientReport takes what there is to report, if anything.
WorkerReport ==
  /\ worker = "select"
  /\ unreported # {}
  /\ worker' = "report"
  /\ riding' = unreported
  /\ unreported' = {}
  /\ UNCHANGED <<queueVars, lockVars, limited, sending, flushVars, current,
                 response, reported, unsent>>

ReportDone ==
  /\ worker = "report"
  /\ worker' = "select"
  /\ riding' = {}
  /\ \/ /\ unsent' = unsent \cup riding
        /\ UNCHANGED <<limited, reported>>
     \/ /\ reported' = reported \cup riding
        /\ \E L \in SUBSET Category : limited' = limited \cup L
        /\ UNCHANGED unsent
  /\ UNCHANGED <<queueVars, lockVars, sending, flushVars, current, response,
                 unreported>>

\* The worker returns: what is queued stays there.
WorkerExit ==
  /\ worker = "select"
  /\ done
  /\ worker' = "exited"
  /\ UNCHANGED <<queueVars, lockVars, limited, sending, flushVars, current,
                 response, reportVars>>

-----------------------------------------------------------------------------
(* Close, and the passing of a rate limit                                  *)

CloseCall ==
  /\ closer = "idle"
  /\ closer' = "waiting"
  /\ UNCHANGED <<queueVars, done, limited, sending, flushVars, workerVars,
                 reportVars>>

\* A fault: done is not closed.
CloseForgetsDone ==
  /\ closer = "waiting"
  /\ Readers = {}
  /\ closer' = "joining"
  /\ UNCHANGED <<queueVars, done, limited, sending, flushVars, workerVars,
                 reportVars>>

\* closeMu.Lock() is granted once every reader has left; close(done).
CloseDone ==
  /\ closer = "waiting"
  /\ Readers = {}
  /\ closer' = "joining"
  /\ done' = TRUE
  /\ UNCHANGED <<queueVars, limited, sending, flushVars, workerVars, reportVars>>

CloseReturn ==
  /\ closer = "joining"
  /\ worker = "exited"
  /\ closer' = "closed"
  /\ UNCHANGED <<queueVars, done, limited, sending, flushVars, workerVars,
                 reportVars>>

LimitExpires ==
  /\ \E c \in limited : limited' = limited \ {c}
  /\ UNCHANGED <<queueVars, lockVars, sending, flushVars, workerVars, reportVars>>

-----------------------------------------------------------------------------

Sending(s) == SendSelect(s) \/ \E e \in Envelope : SendCheck(s, e)

Flushing(f) == FlushLock(f) \/ FlushFails(f) \/ FlushReturns(f)

Working ==
  \/ \E f \in Flusher : WorkerFlush(f)
  \/ WorkerReceive \/ WorkerDrain \/ WorkerDrained \/ SendDone
  \/ WorkerReport \/ ReportDone \/ WorkerExit

Closing == CloseDone \/ CloseReturn

Next ==
  \/ \E s \in Sender : Sending(s)
  \/ \E f \in Flusher : FlushCall(f) \/ ContextDone(f) \/ Flushing(f)
  \/ Working
  \/ CloseCall \/ Closing
  \/ LimitExpires

Spec == Init /\ [][Next]_vars

(***************************************************************************)
(* Fairness: goroutines inside a call run on; a request ends (the client   *)
(* has a timeout); the worker's select, which chooses at random among the  *)
(* ready branches, does not pass over one of them for ever.                *)
(***************************************************************************)
Fairness ==
  /\ \A s \in Sender : WF_vars(SendSelect(s))
  /\ \A f \in Flusher : WF_vars(Flushing(f)) /\ SF_vars(WorkerFlush(f))
  /\ SF_vars(WorkerReceive)
  /\ SF_vars(WorkerExit)
  /\ WF_vars(WorkerDrain) /\ WF_vars(WorkerDrained)
  /\ WF_vars(SendDone) /\ WF_vars(ReportDone)
  /\ WF_vars(Closing)

FairSpec == Spec /\ Fairness

-----------------------------------------------------------------------------
(* Properties *)

TypeOK ==
  /\ queue \in Seq(Envelope) /\ Len(queue) <= QueueSize
  /\ done \in BOOLEAN
  /\ limited \in SUBSET Category
  /\ sending \in [Sender -> Envelope \cup {NoOne}]
  /\ fate \in [Envelope -> Recorded \cup
                 {"new", "refused", "offered", "queued", "sending", "sent"}]
  /\ flush \in [Flusher -> {"idle", "called", "select", "awaiting", "drained",
                            "true", "false"}]
  /\ expired \in SUBSET Flusher
  /\ asked \in [Flusher -> SUBSET Envelope]
  /\ worker \in {"select", "send", "drain", "drain-send", "report", "exited"}
  /\ current \in Envelope \cup {NoOne}
  /\ response \in Flusher \cup {NoOne}
  /\ closer \in {"idle", "waiting", "joining", "closed"}
  /\ unreported \in SUBSET Envelope
  /\ riding \in SUBSET Envelope
  /\ reported \in SUBSET Envelope
  /\ unsent \in SUBSET Envelope

\* An envelope is in one place at a time: with one sender, once in the queue, or
\* with the worker; so none is sent twice and none is settled while it is still
\* on its way.
OnePlace ==
  /\ \A s \in Sender : sending[s] # NoOne => fate[sending[s]] = "offered"
  /\ \A s, r \in Sender : sending[s] = sending[r] => s = r \/ sending[s] = NoOne
  /\ \A i \in 1 .. Len(queue) : fate[queue[i]] = "queued"
  /\ \A i, j \in 1 .. Len(queue) : queue[i] = queue[j] => i = j
  /\ \A e \in Envelope : fate[e] = "queued" => \E i \in 1 .. Len(queue) : queue[i] = e
  /\ \A e \in Envelope : fate[e] = "sending" <=> current = e

\* Flush keeps its promise: when it returns true, every envelope that was queued
\* or being sent when it was called has been sent or recorded as dropped,
\* whatever other flushes, sends and timeouts happened meanwhile.
FlushSound ==
  \A f \in Flusher : flush[f] = "true" =>
    \A e \in asked[f] : fate[e] \notin {"queued", "sending"}

\* An envelope is pending once it is queued, until the worker is done with it.
Place(e) ==
  CASE fate[e] \in {"new", "offered"} -> "outside"
    [] fate[e] \in {"queued", "sending"} -> "pending"
    [] fate[e] = "refused" -> "refused"
    [] OTHER -> "settled"

Call(f) ==
  IF flush[f] \in {"called", "select", "awaiting", "drained"} THEN "waiting"
                                                            ELSE flush[f]

Abstract == INSTANCE TelemetryTransport
              WITH Item <- Envelope,
                   place <- [e \in Envelope |-> Place(e)],
                   call <- [f \in Flusher |-> Call(f)],
                   owed <- asked

\* The queue, the worker, the locks and the requests together keep the promise
\* of the interface: Flush is true only when what was pending is settled, and
\* what is settled or refused stays so.
ImplementsTransport == Abstract!Spec

\* Each dropped envelope is told of at most once: its outcome waits in the
\* recorder, rides with a request, or rode with one that was sent or failed.
ReportedOnce ==
  /\ {e \in Envelope : fate[e] \in Recorded}
       = unreported \cup riding \cup reported \cup unsent
  /\ unreported \cap (riding \cup reported \cup unsent) = {}
  /\ riding \cap (reported \cup unsent) = {}
  /\ reported \cap unsent = {}

\* Once done is closed nothing more gets into the queue, even from a sender that
\* found it open: closeMu keeps Close from overtaking a send.
NoSendAfterClose == [][done => Len(queue') <= Len(queue)]_vars

\* All comes to rest.  Every call of Flush ends, also when its context never does, and
\* whether or not the transport is closed meanwhile; so does Close, since no flush or
\* send keeps the write lock from it for good and the worker comes to see that done is
\* closed; and unless Close has stopped the worker, every queued envelope is sent or
\* recorded.
ComesToRest ==
  <>[](/\ \A f \in Flusher : flush[f] \in {"idle", "true", "false"}
       /\ closer \in {"idle", "closed"}
       /\ worker # "exited" => \A e \in Envelope : fate[e] \notin {"queued", "sending"})

=============================================================================
