------------------------------ MODULE RingBuffer ------------------------------
(***************************************************************************)
(* internal/telemetry/ring_buffer.go: the per-category buffer between the  *)
(* goroutines that capture telemetry and the scheduler that sends it.      *)
(*                                                                         *)
(* Every method runs under b.mu, except that Offer counts the item before  *)
(* it takes the lock; so Offer is two steps and any other method may run   *)
(* between them.  Items are numbered in the order their Offer began.       *)
(***************************************************************************)
EXTENDS Integers, Sequences, FiniteSets

CONSTANTS
  CapacityArg,      \* NewRingBuffer's capacity, batchSize and timeout (in
  BatchSizeArg,     \* ticks of the clock), as the caller gave them
  TimeoutArg,
  DefaultCapacity,  \* the constant defaultCapacity, 100 in the code
  Callers,          \* goroutines that call Offer
  MaxOffers         \* bound: how many items are offered in all

capacity == IF CapacityArg <= 0 THEN DefaultCapacity ELSE CapacityArg
batchSize == IF BatchSizeArg <= 0 THEN 1 ELSE BatchSizeArg
timeout == IF TimeoutArg < 0 THEN 0 ELSE TimeoutArg

Policies == {"drop_oldest", "drop_newest", "unknown"}

ASSUME ArgsAssumption ==
  /\ CapacityArg \in Int
  /\ BatchSizeArg \in Int
  /\ TimeoutArg \in Int
  /\ DefaultCapacity \in Nat \ {0}
  /\ IsFiniteSet(Callers)
  /\ MaxOffers \in Nat

NoItem == 0                    \* the zero value of T
Item == 1 .. MaxOffers
Slot == 0 .. capacity - 1

VARIABLES
  items, head, tail, size,     \* the fields of the same names
  offered, dropped,            \* the two atomic counters
  policy,                      \* overflowPolicy, which nothing assigns
  elapsed,                     \* time since lastFlushTime, up to timeout
  offering,                    \* the item each caller has counted, not stored
  taken,                       \* history: items returned to a consumer
  recorded,                    \* history: items given to the recorder
  cleared                      \* history: items thrown away by Clear

indexVars == <<items, head, tail, size>>
history == <<taken, recorded, cleared>>
vars == <<items, head, tail, size, offered, dropped, policy, elapsed, offering,
          taken, recorded, cleared>>

Init ==
  /\ items = [p \in Slot |-> NoItem]
  /\ head = 0
  /\ tail = 0
  /\ size = 0
  /\ offered = 0
  /\ dropped = 0
  /\ policy \in Policies
  /\ elapsed = 0
  /\ offering = [c \in Callers |-> NoItem]
  /\ taken = <<>>
  /\ recorded = <<>>
  /\ cleared = <<>>

-----------------------------------------------------------------------------
(* Offer *)

\* atomic.AddInt64(&b.offered, 1), before the lock is taken.
CountOffer(c) ==
  /\ offering[c] = NoItem
  /\ offered < MaxOffers
  /\ offered' = offered + 1
  /\ offering' = [offering EXCEPT ![c] = offered + 1]
  /\ UNCHANGED <<indexVars, dropped, elapsed, history>>

\* A fault: the loss is counted but not reported.
CountDroppedOnly(x) ==
  /\ dropped' = dropped + 1
  /\ recorded' = recorded

\* atomic.AddInt64(&b.dropped, 1) and recordDroppedItem.
RecordDropped(x) ==
  /\ dropped' = dropped + 1
  /\ recorded' = Append(recorded, x)

\* A fault: the capacity test is off by one.
FullTooEarly == size >= capacity - 1

Full == size >= capacity

\* The branch for a buffer with room.
StoreItem(x) ==
  /\ ~Full
  /\ items' = [items EXCEPT ![tail] = x]
  /\ tail' = (tail + 1) % capacity
  /\ size' = size + 1
  /\ UNCHANGED <<head, dropped, recorded>>

\* The overflow branch of OverflowPolicyDropOldest.
DropOldest(x) ==
  /\ Full
  /\ policy = "drop_oldest"
  /\ items' = [items EXCEPT ![head] = x]
  /\ head' = (head + 1) % capacity
  /\ tail' = (tail + 1) % capacity
  /\ RecordDropped(items[head])
  /\ UNCHANGED size

\* The overflow branches of OverflowPolicyDropNewest and of any other value.
DropNewest(x) ==
  /\ Full
  /\ policy # "drop_oldest"
  /\ RecordDropped(x)
  /\ UNCHANGED indexVars

OfferLocked(c) ==
  /\ offering[c] # NoItem
  /\ \/ StoreItem(offering[c])
     \/ DropOldest(offering[c])
     \/ DropNewest(offering[c])
  /\ offering' = [offering EXCEPT ![c] = NoItem]
  /\ UNCHANGED <<offered, elapsed, taken, cleared>>

-----------------------------------------------------------------------------
(* The consumers' methods.  A call that finds nothing returns nil and      *)
(* changes nothing, so it is no step of the model.                         *)

\* The n oldest items, oldest first.
Oldest(n) == [i \in 1 .. n |-> items[(head + (i - 1)) % capacity]]

\* The slots those items are in.
Freed(n) == {(head + k) % capacity : k \in 0 .. n - 1}

\* The loop Poll, PollBatch and PollIfReady share.
TakeFront(n) ==
  /\ taken' = taken \o Oldest(n)
  /\ items' = [p \in Slot |-> IF p \in Freed(n) THEN NoItem ELSE items[p]]
  /\ head' = (head + n) % capacity
  /\ size' = size - n
  /\ UNCHANGED <<tail, offered, dropped, offering, recorded, cleared>>

Poll ==
  /\ size > 0
  /\ TakeFront(1)
  /\ UNCHANGED elapsed

PollBatch ==
  /\ size > 0
  /\ \E n \in 1 .. size : TakeFront(n)
  /\ UNCHANGED elapsed

Ready ==
  /\ size > 0
  /\ \/ size >= batchSize
     \/ timeout > 0 /\ elapsed >= timeout

PollIfReady ==
  /\ Ready
  /\ TakeFront(IF batchSize > size THEN size ELSE batchSize)
  /\ elapsed' = 0

Drain ==
  /\ size > 0
  /\ taken' = taken \o Oldest(size)
  /\ items' = [p \in Slot |-> IF p \in Freed(size) THEN NoItem ELSE items[p]]
  /\ head' = 0
  /\ tail' = 0
  /\ size' = 0
  /\ UNCHANGED <<offered, dropped, elapsed, offering, recorded, cleared>>

\* Clear throws the items away: it neither counts nor records them.
Clear ==
  /\ cleared' = cleared \o Oldest(size)
  /\ items' = [p \in Slot |-> NoItem]
  /\ head' = 0
  /\ tail' = 0
  /\ size' = 0
  /\ UNCHANGED <<offered, dropped, elapsed, offering, taken, recorded>>

MarkFlushed ==
  /\ elapsed' = 0
  /\ UNCHANGED <<indexVars, offered, dropped, offering, history>>

\* The clock: only the comparison with timeout is ever made.
Tick ==
  /\ elapsed < timeout
  /\ elapsed' = elapsed + 1
  /\ UNCHANGED <<indexVars, offered, dropped, offering, history>>

Next ==
  /\ \/ \E c \in Callers : CountOffer(c) \/ OfferLocked(c)
     \/ Poll \/ PollBatch \/ PollIfReady \/ Drain \/ Clear
     \/ MarkFlushed \/ Tick
  /\ UNCHANGED policy

Spec == Init /\ [][Next]_vars

-----------------------------------------------------------------------------
(* Properties *)

\* How many slots p lies behind head, going round the array.
Offset(p) == IF p >= head THEN p - head ELSE p - head + capacity

TypeOK ==
  /\ items \in [Slot -> Item \cup {NoItem}]
  /\ head \in Slot
  /\ tail \in Slot
  /\ size \in 0 .. capacity
  /\ offered \in 0 .. MaxOffers
  /\ dropped \in Nat
  /\ policy \in Policies
  /\ elapsed \in 0 .. timeout
  /\ offering \in [Callers -> Item \cup {NoItem}]
  /\ taken \in Seq(Item)
  /\ recorded \in Seq(Item)
  /\ cleared \in Seq(Item)

\* The three indices agree and describe the array exactly: tail is where the
\* window of size slots behind head ends, every slot of the window holds an
\* item, and no slot outside it still holds one (an item kept there would
\* never be garbage-collected).  Poll, PollBatch, PollIfReady, Drain, Clear and
\* the overwriting Offer each move the indices their own way.
WindowOK ==
  /\ tail = (head + size) % capacity
  /\ \A p \in Slot : items[p] # NoItem <=> Offset(p) < size

\* No item is forgotten and none is counted twice, wherever the two halves of
\* an Offer fall among the other calls: an item some Offer counted is still
\* being offered, in the buffer, delivered, recorded as lost or cleared, and
\* in one of these places only (there are as many places taken as offers).
\* The dropped counter counts exactly the recorded losses.
InFlight == {c \in Callers : offering[c] # NoItem}

Elements(s) == {s[i] : i \in 1 .. Len(s)}

Accounting ==
  /\ offered = Cardinality(InFlight)
               + size + Len(taken) + Len(recorded) + Len(cleared)
  /\ 1 .. offered = {offering[c] : c \in InFlight} \cup Elements(Oldest(size))
       \cup Elements(taken) \cup Elements(recorded) \cup Elements(cleared)
  /\ dropped = Len(recorded)

\* The array is a bounded first-in first-out queue: each operation does to the
\* window, read from head onwards, what the abstract queue's operation does.
Fifo == INSTANCE BoundedFifo WITH
  Bound <- capacity, keepsNew <- (policy = "drop_oldest"), Item <- Item,
  queue <- Oldest(size), delivered <- taken, lost <- recorded, wiped <- cleared

ImplementsFifo == Fifo!Spec

=============================================================================
