------------------------------ MODULE Scheduler ------------------------------
(***************************************************************************)
(* internal/telemetry/scheduler.go and processor.go: goroutines add items  *)
(* to a buffer per category; the goroutine run takes batches out of them   *)
(* in weighted rotation and hands them to the transport; Flush empties the *)
(* buffers from the caller's goroutine; Stop flushes and ends run; then    *)
(* client.Close closes the transport.                                      *)
(*                                                                         *)
(* Transport is what TelemetryTransport promises.  A buffer is the queue   *)
(* that RingBuffer implements.  The goroutine that ticks broadcasts while  *)
(* it lives.  run is the only goroutine that takes s.mu, so the mutex      *)
(* protects nothing and is left out; a wake-up that comes before run waits *)
(* is lost.                                                                *)
(***************************************************************************)
EXTENDS Integers, Sequences, FiniteSets, Functions

CONSTANTS
  Item, Category, CategoryOf,
  Flusher, Stopper,   \* goroutines that call Flush; the one, if any, that calls Stop
  Runner,             \* the goroutine run
  Capacity, BatchSize,\* of the buffer of each category
  Timed,              \* the categories whose buffer has a timeout
  Batched,            \* those whose items go out in one envelope
  Priority, PriorityOf, Weight,
  Unserializable,     \* the items that cannot be converted to JSON
  None                \* no category, no worker

\* The slots of a cycle: each priority has as many as its weight.
Slots == UNION {{p} \X (1 .. Weight[p]) : p \in Priority}

ASSUME SchedulerAssumption ==
  /\ CategoryOf \in [Item -> Category]
  /\ Capacity \in [Category -> Nat \ {0}]
  /\ BatchSize \in [Category -> Nat \ {0}]
  /\ Timed \subseteq Category /\ Batched \subseteq Category
  /\ PriorityOf \in [Category -> Priority]
  /\ Weight \in [Priority -> Nat \ {0}]
  /\ Priority # {} /\ IsFiniteSet(Slots)
  /\ Unserializable \subseteq Item
  /\ Stopper \cap Flusher = {} /\ Runner \notin Flusher \cup Stopper
  /\ \A s, t \in Stopper : s = t               \* finishOnce
  /\ None \notin Category \cup Flusher \cup Stopper \cup {Runner}

Caller == Flusher \cup Stopper
Worker == Caller \cup {Runner}

VARIABLES
  buffer,       \* the items in the buffer of each category
  due,          \* the categories whose timeout has passed since the last poll
  added,        \* the items given to Add
  signalling,   \* those whose Add has still to call Signal
  pc,           \* where run, Flush and Stop are
  hand, handOf, \* items each of them took out of a buffer, and whose
  todo,         \* the buffers each flush has still to look at
  cycle,        \* currentCycle
  cyclePos,
  cancelled,    \* whether the scheduler's context is done
  ticker,       \* whether the ticking goroutine lives
  closed,       \* whether the transport is closed
  dropped,      \* items dropped before they reached the transport
  recorded,     \* those whose loss was recorded
  taker,        \* history: who took each item out of its buffer
  asked,        \* history: what was held when each flush began
  timedOut,     \* history: whether a wait of Stop ended by its timeout
  place, call, owed

transportVars == <<place, call, owed>>
bufferVars == <<buffer, due>>
handVars == <<hand, handOf>>
cycleVars == <<cycle, cyclePos>>
stopVars == <<cancelled, ticker, closed, timedOut>>
dropVars == <<dropped, recorded>>
addVars == <<added, signalling>>
flushVars == <<todo, asked>>
vars == <<buffer, due, added, signalling, pc, hand, handOf, todo, cycle, cyclePos,
          cancelled, ticker, closed, dropped, recorded, taker, asked, timedOut,
          place, call, owed>>

Transport == INSTANCE TelemetryTransport WITH Flusher <- Caller

CycleLength == Cardinality(Slots)

\* The weighted cycles: the slots of a priority are next to each other, and the
\* priorities come in any order, that of a range over a map.
Cycles ==
  {s \in [0 .. CycleLength - 1 -> Priority] :
     \A p \in Priority : \E first \in 0 .. CycleLength - 1 :
       {i \in DOMAIN s : s[i] = p} = first .. first + Weight[p] - 1}

Init ==
  /\ buffer = [c \in Category |-> <<>>]
  /\ due = {}
  /\ added = {}
  /\ signalling = {}
  /\ pc = [w \in Worker |-> IF w = Runner THEN "check" ELSE "idle"]
  /\ hand = [w \in Worker |-> <<>>]
  /\ handOf = [w \in Worker |-> None]
  /\ todo = [f \in Caller |-> {}]
  /\ cycle \in Cycles
  /\ cyclePos = 0
  /\ cancelled = FALSE
  /\ ticker = TRUE
  /\ closed = FALSE
  /\ dropped = {}
  /\ recorded = {}
  /\ taker = [i \in Item |-> None]
  /\ asked = [f \in Caller |-> {}]
  /\ timedOut = FALSE
  /\ Transport!Init

Ready(c) ==
  /\ buffer[c] # <<>>
  /\ Len(buffer[c]) >= BatchSize[c] \/ c \in due

Buffered == UNION {Range(buffer[c]) : c \in Category}
Held == UNION {Range(hand[w]) : w \in Worker}

\* run, if it waits for the condition, goes back to test it.
Woken(state) == [state EXCEPT ![Runner] = IF @ = "waiting" THEN "check" ELSE @]

Go(w, to) == pc' = [pc EXCEPT ![w] = to]

-----------------------------------------------------------------------------
(* Add, and the passing of time                                            *)

\* A fault: the drop is not recorded.
DropSilently(S) ==
  /\ dropped' = dropped \cup S
  /\ UNCHANGED recorded

\* Items are dropped, and recorded.
DropRecorded(S) ==
  /\ dropped' = dropped \cup S
  /\ recorded' = recorded \cup S

Full(c) == Len(buffer[c]) >= Capacity[c]

\* Offer puts the item in the buffer; a full one drops its oldest.
Add(i) ==
  LET c == CategoryOf[i]
      kept == IF Full(c) THEN Tail(buffer[c]) ELSE buffer[c]
  IN
  /\ i \notin added
  /\ added' = added \cup {i}
  /\ buffer' = [buffer EXCEPT ![c] = Append(kept, i)]
  /\ IF Full(c) THEN DropRecorded({Head(buffer[c])}) ELSE UNCHANGED dropVars
  /\ signalling' = signalling \cup {i}
  /\ UNCHANGED <<due, pc, handVars, cycleVars, stopVars, flushVars, taker,
                 transportVars>>

Signal(i) ==
  /\ i \in signalling
  /\ signalling' = signalling \ {i}
  /\ pc' = Woken(pc)
  /\ UNCHANGED <<bufferVars, added, handVars, cycleVars, stopVars, dropVars,
                 flushVars, taker, transportVars>>

Elapse(c) ==
  /\ c \in Timed \ due
  /\ due' = due \cup {c}
  /\ UNCHANGED <<buffer, addVars, pc, handVars, cycleVars, stopVars, dropVars,
                 flushVars, taker, transportVars>>

\* A fault: nobody ticks.
NoTick == FALSE /\ UNCHANGED vars

Tick ==
  /\ pc[Runner] = "waiting"
  /\ pc' = Woken(pc)
  /\ UNCHANGED <<bufferVars, addVars, handVars, cycleVars, stopVars, dropVars,
                 flushVars, taker, transportVars>>

TickerExit ==
  /\ cancelled
  /\ ticker' = FALSE
  /\ UNCHANGED <<bufferVars, addVars, pc, handVars, cycleVars, cancelled, closed,
                 timedOut, dropVars, flushVars, taker, transportVars>>

\* Its select, until it has seen the end of the context.
Ticker == ticker /\ (Tick \/ TickerExit)

-----------------------------------------------------------------------------
(* run                                                                     *)

RunTo(to) ==
  /\ Go(Runner, to)
  /\ UNCHANGED <<bufferVars, addVars, handVars, stopVars, dropVars, flushVars,
                 taker, transportVars>>

\* for !s.hasWork() && s.ctx.Err() == nil
Check ==
  /\ pc[Runner] = "check"
  /\ RunTo(IF cancelled \/ (\E c \in Category : Ready(c)) THEN "awake" ELSE "park")
  /\ UNCHANGED cycleVars

\* s.cond.Wait(): only from here on is there a waiter to wake.
Park ==
  /\ pc[Runner] = "park"
  /\ RunTo("waiting")
  /\ UNCHANGED cycleVars

Awake ==
  /\ pc[Runner] = "awake"
  /\ RunTo(IF cancelled THEN "exited" ELSE "turn")
  /\ UNCHANGED cycleVars

\* A fault: the rotation never moves on.
StayAtTurn == UNCHANGED cycleVars

NextTurn ==
  /\ cyclePos' = (cyclePos + 1) % CycleLength
  /\ UNCHANGED cycle

\* processNextBatch: the priority whose turn it is, and a ready buffer of it.
TakeTurn ==
  LET ready == {c \in Category : PriorityOf[c] = cycle[cyclePos] /\ Ready(c)}
  IN
  /\ pc[Runner] = "turn"
  /\ NextTurn
  /\ \/ /\ ready = {}
        /\ Go(Runner, "check")
        /\ UNCHANGED handOf
     \/ \E c \in ready :
        /\ handOf' = [handOf EXCEPT ![Runner] = c]
        /\ Go(Runner, "poll")
  /\ UNCHANGED <<bufferVars, addVars, hand, stopVars, dropVars, flushVars, taker,
                 transportVars>>

\* A fault: the polled items stay in the buffer.
LeaveInBuffer(w, c, n) ==
  /\ hand' = [hand EXCEPT ![w] = SubSeq(buffer[c], 1, n)]
  /\ taker' = [i \in Item |-> IF \E k \in 1 .. n : buffer[c][k] = i THEN w ELSE taker[i]]
  /\ UNCHANGED buffer

\* The first n items of c move into the hand of w.
TakeOut(w, c, n) ==
  /\ hand' = [hand EXCEPT ![w] = SubSeq(buffer[c], 1, n)]
  /\ taker' = [i \in Item |-> IF \E k \in 1 .. n : buffer[c][k] = i THEN w ELSE taker[i]]
  /\ buffer' = [buffer EXCEPT ![c] = SubSeq(@, n + 1, Len(@))]

\* PollIfReady, which may find that a flush has emptied the buffer meanwhile.
Poll ==
  LET c == handOf[Runner]
      n == IF BatchSize[c] <= Len(buffer[c]) THEN BatchSize[c] ELSE Len(buffer[c])
  IN
  /\ pc[Runner] = "poll"
  /\ \/ /\ Ready(c)
        /\ TakeOut(Runner, c, n)
        /\ due' = due \ {c}
        /\ Go(Runner, "dispatch")
        /\ UNCHANGED handOf
     \/ /\ ~Ready(c)
        /\ Go(Runner, "check")
        /\ handOf' = [handOf EXCEPT ![Runner] = None]
        /\ UNCHANGED <<bufferVars, hand, taker>>
  /\ UNCHANGED <<addVars, cycleVars, stopVars, dropVars, flushVars,
                 transportVars>>

-----------------------------------------------------------------------------
(* processItems, by run or by a flush                                      *)

Home(w) == IF w = Runner THEN "check" ELSE "buffers"

\* Rate limited, or no capacity: all the items are dropped and recorded.
Discard(w) ==
  /\ pc[w] = "dispatch"
  /\ DropRecorded(Range(hand[w]))
  /\ hand' = [hand EXCEPT ![w] = <<>>]
  /\ handOf' = [handOf EXCEPT ![w] = None]
  /\ Go(w, Home(w))
  /\ UNCHANGED <<bufferVars, addVars, cycleVars, stopVars, flushVars,
                 taker, transportVars>>

\* HasCapacity is false once the transport is closed.
Dispatch(w) ==
  /\ pc[w] = "dispatch"
  /\ ~closed
  /\ Go(w, "send")
  /\ UNCHANGED <<bufferVars, addVars, handVars, cycleVars, stopVars, dropVars,
                 flushVars, taker, transportVars>>

\* What goes into the next envelope: all of a batch, or the first item.
NextEnvelope(w) ==
  IF handOf[w] \in Batched THEN Range(hand[w]) ELSE {Head(hand[w])}

\* sendItem.  An item of a batch that cannot be converted is skipped; when none
\* can, one loss is recorded for the whole container.
SendItem(w) ==
  LET E == NextEnvelope(w)
      good == E \ Unserializable
      rest == IF handOf[w] \in Batched THEN <<>> ELSE Tail(hand[w])
  IN
  /\ pc[w] = "send"
  /\ dropped' = dropped \cup (E \cap Unserializable)
  /\ \/ /\ good = {}
        /\ \E i \in E : recorded' = recorded \cup {i}
        /\ UNCHANGED transportVars
     \/ /\ good # {}
        /\ IF closed THEN Transport!Refuse(good)
                     ELSE Transport!Accept(good) \/ Transport!Settle(good)
        /\ UNCHANGED recorded
  /\ hand' = [hand EXCEPT ![w] = rest]
  /\ handOf' = [handOf EXCEPT ![w] = IF rest = <<>> THEN None ELSE @]
  /\ Go(w, IF rest = <<>> THEN Home(w) ELSE "send")
  /\ UNCHANGED <<bufferVars, addVars, cycleVars, stopVars, flushVars, taker>>

-----------------------------------------------------------------------------
(* FlushWithContext, also as the first part of Stop                        *)

Flush(f) ==
  /\ pc[f] = "idle"
  /\ Go(f, "buffers")
  /\ todo' = [todo EXCEPT ![f] = Category]
  /\ asked' = [asked EXCEPT ![f] = Buffered \cup Held \cup Transport!Pending]
  /\ UNCHANGED <<bufferVars, addVars, handVars, cycleVars, stopVars, dropVars,
                 taker, transportVars>>

\* A fault: a flush takes a batch and no more.
DrainBatch(f, c) == TakeOut(f, c, 1)

\* Drain: everything, ready or not.
DrainAll(f, c) == TakeOut(f, c, Len(buffer[c]))

FlushBuffer(f, c) ==
  /\ pc[f] = "buffers"
  /\ c \in todo[f]
  /\ todo' = [todo EXCEPT ![f] = @ \ {c}]
  /\ \/ /\ buffer[c] = <<>>
        /\ UNCHANGED <<buffer, handVars, taker, pc>>
     \/ /\ buffer[c] # <<>>
        /\ DrainAll(f, c)
        /\ handOf' = [handOf EXCEPT ![f] = c]
        /\ Go(f, "dispatch")
  /\ UNCHANGED <<due, addVars, cycleVars, stopVars, dropVars, asked, transportVars>>

\* A fault: the transport is not flushed.
SkipTransport(f) ==
  /\ pc[f] = "buffers"
  /\ todo[f] = {}
  /\ call' = [call EXCEPT ![f] = "waiting"]
  /\ Go(f, "transport")
  /\ UNCHANGED <<bufferVars, addVars, handVars, cycleVars, stopVars, dropVars,
                 flushVars, taker, place, owed>>

FlushTransport(f) ==
  /\ pc[f] = "buffers"
  /\ todo[f] = {}
  /\ Transport!FlushCall(f)
  /\ Go(f, "transport")
  /\ UNCHANGED <<bufferVars, addVars, handVars, cycleVars, stopVars, dropVars,
                 flushVars, taker>>

\* The transport's answer; a closed transport answers false.
FlushReturn(f) ==
  /\ pc[f] = "transport"
  /\ \/ ~closed /\ Transport!FlushTrue(f) /\ UNCHANGED timedOut
     \/ /\ Transport!FlushFalse(f)
        /\ timedOut' = (timedOut \/ f \in Stopper)
  /\ Go(f, IF f \in Stopper THEN "cancel" ELSE "returned")
  /\ UNCHANGED <<bufferVars, addVars, handVars, cycleVars, cancelled, ticker,
                 closed, dropVars, flushVars, taker>>

-----------------------------------------------------------------------------
(* The rest of Stop, the transport                                         *)

StopCancel(s) ==
  /\ pc[s] = "cancel"
  /\ cancelled' = TRUE
  /\ Go(s, "broadcast")
  /\ UNCHANGED <<bufferVars, addVars, handVars, cycleVars, ticker, closed, timedOut,
                 dropVars, flushVars, taker, transportVars>>

StopBroadcast(s) ==
  /\ pc[s] = "broadcast"
  /\ pc' = [Woken(pc) EXCEPT ![s] = "join"]
  /\ UNCHANGED <<bufferVars, addVars, handVars, cycleVars, stopVars, dropVars,
                 flushVars, taker, transportVars>>

\* Faults: Stop does not wait for run; it waits with no timeout.
StopReturnsAtOnce(s) ==
  /\ pc[s] = "join"
  /\ Go(s, "stopped")
  /\ UNCHANGED <<bufferVars, addVars, handVars, cycleVars, stopVars, dropVars,
                 flushVars, taker, transportVars>>

StopJoinsOnly(s) ==
  /\ pc[s] = "join"
  /\ pc[Runner] = "exited"
  /\ Go(s, "stopped")
  /\ UNCHANGED <<bufferVars, addVars, handVars, cycleVars, stopVars, dropVars,
                 flushVars, taker, transportVars>>

\* run has returned, or the timeout is over.
StopReturn(s) ==
  /\ pc[s] = "join"
  /\ \/ pc[Runner] = "exited" /\ UNCHANGED timedOut
     \/ timedOut' = TRUE
  /\ Go(s, "stopped")
  /\ UNCHANGED <<bufferVars, addVars, handVars, cycleVars, cancelled, ticker, closed,
                 dropVars, flushVars, taker, transportVars>>

\* client.Close goes on to close the transport, which lets a flush end first.
TransportClose(s) ==
  /\ pc[s] = "stopped"
  /\ ~closed
  /\ \A f \in Caller : call[f] # "waiting"
  /\ closed' = TRUE
  /\ UNCHANGED <<bufferVars, addVars, pc, handVars, cycleVars, cancelled, ticker,
                 timedOut, dropVars, flushVars, taker, transportVars>>

TransportSettle(i) ==
  /\ ~closed
  /\ place[i] = "pending"
  /\ Transport!Settle({i})
  /\ UNCHANGED <<bufferVars, addVars, pc, handVars, cycleVars, stopVars, dropVars,
                 flushVars, taker>>

\* No step of Next: what makes captures endless is that an item done with stands for
\* one not yet captured.
Again(i) ==
  /\ i \notin signalling
  /\ place[i] = "settled" \/ i \in dropped
  /\ added' = added \ {i}
  /\ dropped' = dropped \ {i}
  /\ recorded' = recorded \ {i}
  /\ place' = [place EXCEPT ![i] = "outside"]
  /\ taker' = [taker EXCEPT ![i] = None]
  /\ asked' = [f \in Caller |-> asked[f] \ {i}]
  /\ owed' = [f \in Caller |-> owed[f] \ {i}]
  /\ UNCHANGED <<bufferVars, signalling, pc, handVars, todo, cycleVars, stopVars, call>>

-----------------------------------------------------------------------------

Running == Check \/ Park \/ Awake \/ TakeTurn \/ Poll

Processing(w) == Discard(w) \/ Dispatch(w) \/ SendItem(w)

Flushing(f) == (\E c \in Category : FlushBuffer(f, c)) \/ FlushTransport(f)

Stopping(s) == StopCancel(s) \/ StopBroadcast(s) \/ StopReturn(s) \/ TransportClose(s)

Next ==
  \/ \E i \in Item : Add(i) \/ Signal(i) \/ TransportSettle(i)
  \/ \E c \in Category : Elapse(c)
  \/ Ticker
  \/ Running
  \/ \E w \in Worker : Processing(w)
  \/ \E f \in Caller : Flush(f) \/ Flushing(f) \/ FlushReturn(f)
  \/ \E s \in Stopper : Stopping(s)

Spec == Init /\ [][Next]_vars

(***************************************************************************)
(* Fairness: goroutines run on, clocks and tickers tick, the transport     *)
(* settles what it has or a flush's context ends; among the ready buffers  *)
(* of one priority the range over the map picks each again and again.      *)
(***************************************************************************)
Picks(c) == TakeTurn /\ handOf'[Runner] = c /\ pc'[Runner] = "poll"

Fairness ==
  /\ WF_vars(Running)
  /\ WF_vars(ticker /\ Tick) /\ WF_vars(ticker /\ TickerExit)
  /\ \A c \in Category : WF_vars(Elapse(c)) /\ SF_vars(Picks(c))
  /\ \A i \in Item : WF_vars(Signal(i))
  /\ \A w \in Worker : WF_vars(Processing(w))
  /\ \A f \in Caller : WF_vars(Flushing(f) \/ FlushReturn(f))
  /\ \A s \in Stopper : WF_vars(Stopping(s))

FairSpec == Spec /\ Fairness

-----------------------------------------------------------------------------
(* Properties *)

TypeOK ==
  /\ buffer \in [Category -> Seq(Item)]
  /\ \A c \in Category : Len(buffer[c]) <= Capacity[c]
  /\ due \in SUBSET Timed
  /\ added \in SUBSET Item
  /\ signalling \in SUBSET Item
  /\ pc \in [Worker -> {"check", "park", "waiting", "awake", "turn", "poll", "exited",
                        "idle", "buffers", "dispatch", "send", "transport", "returned",
                        "cancel", "broadcast", "join", "stopped"}]
  /\ hand \in [Worker -> Seq(Item)]
  /\ handOf \in [Worker -> Category \cup {None}]
  /\ todo \in [Caller -> SUBSET Category]
  /\ cycle \in Cycles
  /\ cyclePos \in 0 .. CycleLength - 1
  /\ {cancelled, ticker, closed, timedOut} \subseteq BOOLEAN
  /\ dropped \in SUBSET Item
  /\ recorded \in SUBSET Item
  /\ taker \in [Item -> Worker \cup {None}]
  /\ asked \in [Caller -> SUBSET Item]
  /\ place \in [Item -> Transport!Places]
  /\ call \in [Caller -> {"idle", "waiting", "true", "false"}]
  /\ owed \in [Caller -> SUBSET Item]

\* Where an item is in a sequence.
Where(s, i) == {k \in DOMAIN s : s[k] = i}

Places(i) ==
  (UNION {{<<"buffer", c, k>> : k \in Where(buffer[c], i)} : c \in Category})
  \cup (UNION {{<<"hand", w, k>> : k \in Where(hand[w], i)} : w \in Worker})
  \cup (IF i \in dropped THEN {<<"dropped", None, 0>>} ELSE {})
  \cup (IF place[i] # "outside" THEN {<<"transport", None, 0>>} ELSE {})

\* run and any number of flushes take items out of the same buffers, yet no item
\* is taken twice and none goes missing: one that was added is in one place, in a
\* buffer, in one goroutine's hands, with the transport, or dropped.
OnePlace ==
  /\ TypeOK
  /\ \A i \in Item : Cardinality(Places(i)) = IF i \in added THEN 1 ELSE 0

\* When Flush returns true, what it found in the buffers or with the transport
\* is settled or dropped.  Only an item that another goroutine took out of its
\* buffer may still be on its way.
FlushSound ==
  \A f \in Caller : call[f] = "true" =>
    \A i \in asked[f] :
      i \in dropped \/ place[i] = "settled" \/ taker[i] \notin {f, None}

\* A dropped item is recorded, but for one of a batch that cannot be converted.
DropsRecorded ==
  /\ recorded \subseteq dropped
  /\ \A i \in dropped \ recorded : i \in Unserializable /\ CategoryOf[i] \in Batched

\* Stop waits for run before client.Close closes the transport: unless a wait of
\* Stop timed out, only an item in the hands of another flush is ever refused.
RefusedOnlyLate ==
  \A i \in Item : place[i] = "refused" => timedOut \/ taker[i] \in Flusher

\* "Close stops the buffer, flushes remaining data, and releases resources": run
\* ends once its context is cancelled.
RunEnds == cancelled ~> pc[Runner] = "exited"

===============================================================================
