---------------------------- MODULE BucketedBuffer ----------------------------
(***************************************************************************)
(* internal/telemetry/bucketed_buffer.go: the buffer that keeps items of   *)
(* one trace together.  It is a ring of buckets, each a list of items of   *)
(* one trace (or a single item of none), and an index from a trace to the  *)
(* bucket its next item goes to.                                           *)
(*                                                                         *)
(* Every method holds b.mu throughout.  (Offer's counter, incremented      *)
(* before the lock, is RingBuffer's CountOffer; here it goes with the      *)
(* rest.)  Items are numbered in the order they are offered.               *)
(*                                                                         *)
(* What RingBuffer has under the same name has "bucket" in its name here,  *)
(* since MCParts checks both.                                              *)
(***************************************************************************)
EXTENDS Integers, Sequences, FiniteSets

CONSTANTS
  itemCapacity,        \* NewBucketedBuffer's capacity and batchSize, after
  bucketBatchSize,     \*   the defaults; timeout in ticks
  bucketTimeout,
  MinBuckets,          \* 10 in the code: the least number of buckets, and
  ItemsPerBucket,      \*   10: the items of capacity per bucket
  perBucketItemLimit,  \* 100 in the code
  Trace,               \* trace ids
  NoTrace,             \* the empty trace id
  MaxBucketed          \* bound: how many items are offered in all

BucketAssumption ==
  /\ itemCapacity \in Nat \ {0}
  /\ bucketBatchSize \in Nat \ {0}
  /\ bucketTimeout \in Nat
  /\ MinBuckets \in Nat \ {0}
  /\ ItemsPerBucket \in Nat \ {0}
  /\ perBucketItemLimit \in Nat \ {0}
  /\ NoTrace \notin Trace
  /\ MaxBucketed \in Nat

bucketCapacity ==
  IF itemCapacity \div ItemsPerBucket < MinBuckets
    THEN MinBuckets ELSE itemCapacity \div ItemsPerBucket

BucketSlot == 0 .. bucketCapacity - 1
NoSlot == -1                     \* a trace that is not in the index
BucketItem == 1 .. MaxBucketed
Nil == [trace |-> NoTrace, items |-> <<>>]   \* a nil *Bucket
BucketPolicies == {"drop_oldest", "drop_newest", "unknown"}
Bucket == [trace : Trace \cup {NoTrace}, items : Seq(BucketItem)]

VARIABLES
  buckets, traceIndex, bucketHead, bucketTail,  \* the fields
  totalItems, bucketCount,
  bucketPolicy,       \* overflowPolicy, which nothing assigns
  bucketElapsed,      \* time since lastFlushTime, up to timeout
  fate,               \* history: what became of each item offered
  traceOf             \* history: the trace each was offered with

ringVars == <<buckets, traceIndex, bucketHead, bucketTail, totalItems, bucketCount>>
bucketVars == <<buckets, traceIndex, bucketHead, bucketTail, totalItems, bucketCount,
                bucketPolicy, bucketElapsed, fate, traceOf>>

BucketInit ==
  /\ buckets = [s \in BucketSlot |-> Nil]
  /\ traceIndex = [t \in Trace |-> NoSlot]
  /\ bucketHead = 0
  /\ bucketTail = 0
  /\ totalItems = 0
  /\ bucketCount = 0
  /\ bucketPolicy \in BucketPolicies
  /\ bucketElapsed = 0
  /\ fate = <<>>
  /\ traceOf = <<>>

At(k) == (bucketHead + k) % bucketCapacity      \* the slot of the k-th oldest bucket
BucketElements(s) == {s[i] : i \in 1 .. Len(s)}

-----------------------------------------------------------------------------
(* Offer and offerToBucket                                                 *)

RoomIn(b) == Len(b.items) < perBucketItemLimit

HasOpenBucket(t) ==
  /\ t # NoTrace
  /\ traceIndex[t] # NoSlot
  /\ RoomIn(buckets[traceIndex[t]])

\* The index once t's full bucket, if it has one, is taken out of it.
IndexWithout(t) == [u \in Trace |-> IF u = t THEN NoSlot ELSE traceIndex[u]]

\* A fault: an entry is only made where there is none.
IndexKeepsFirst(index, t, s) ==
  [u \in Trace |-> IF u = t /\ traceIndex[u] = NoSlot THEN s ELSE traceIndex[u]]

IndexWith(index, t, s) == [u \in Trace |-> IF u = t THEN s ELSE index[u]]

AppendToBucket(t, x) ==
  /\ HasOpenBucket(t)
  /\ buckets' = [buckets EXCEPT ![traceIndex[t]].items = Append(@, x)]
  /\ totalItems' = totalItems + 1
  /\ fate' = Append(fate, "held")
  /\ UNCHANGED <<traceIndex, bucketHead, bucketTail, bucketCount>>

\* The bucket the end of offerToBucket and of handleOverflow both add.
PutBucket(t, x, index) ==
  /\ buckets' = [buckets EXCEPT ![bucketTail] = [trace |-> t, items |-> <<x>>]]
  /\ traceIndex' = IndexWith(index, t, bucketTail)
  /\ bucketTail' = (bucketTail + 1) % bucketCapacity

\* A fault: only the items are counted.
ItemsFull == totalItems >= itemCapacity

BucketsFull == totalItems >= itemCapacity \/ bucketCount >= bucketCapacity

AddBucket(t, x) ==
  /\ ~HasOpenBucket(t)
  /\ ~BucketsFull
  /\ PutBucket(t, x, IndexWithout(t))
  /\ totalItems' = totalItems + 1
  /\ bucketCount' = bucketCount + 1
  /\ fate' = Append(fate, "held")
  /\ UNCHANGED bucketHead

\* handleOverflow drops the oldest bucket whole.  The slot it was in is not
\* cleared: unless the ring of buckets is full it goes on holding the bucket.
DropOldestBucket(t, x) ==
  LET oldest == buckets[bucketHead]
      lost == BucketElements(oldest.items)
  IN
  /\ ~HasOpenBucket(t)
  /\ BucketsFull
  /\ bucketPolicy = "drop_oldest"
  /\ oldest # Nil
  /\ PutBucket(t, x, IndexWith(IndexWithout(t), oldest.trace, NoSlot))
  /\ bucketHead' = (bucketHead + 1) % bucketCapacity
  /\ totalItems' = totalItems - Len(oldest.items) + 1
  /\ fate' = Append([y \in DOMAIN fate |-> IF y \in lost THEN "recorded" ELSE fate[y]],
                    "held")
  /\ UNCHANGED bucketCount

\* The "invalid state" of handleOverflow: no oldest bucket.  Otherwise the new
\* item is dropped by the other policies.  A full bucket has left the index.
DropItem(t) ==
  /\ ~HasOpenBucket(t)
  /\ BucketsFull
  /\ bucketPolicy = "drop_oldest" => buckets[bucketHead] = Nil
  /\ fate' = Append(fate, IF bucketPolicy = "drop_oldest" THEN "invalid" ELSE "recorded")
  /\ traceIndex' = IndexWithout(t)
  /\ UNCHANGED <<buckets, bucketHead, bucketTail, totalItems, bucketCount>>

Offer(t) ==
  LET x == Len(fate) + 1
  IN
  /\ x <= MaxBucketed
  /\ \/ AppendToBucket(t, x)
     \/ AddBucket(t, x)
     \/ DropOldestBucket(t, x)
     \/ DropItem(t)
  /\ traceOf' = Append(traceOf, t)
  /\ UNCHANGED bucketElapsed

-----------------------------------------------------------------------------
(* The consumers' methods                                                  *)

\* The items in the k oldest buckets and the first r of the next one.
ItemsIn(k, r) ==
  (UNION {BucketElements(buckets[At(i)].items) : i \in 0 .. k - 1})
    \cup {buckets[At(k)].items[i] : i \in 1 .. r}

\* A fault: a bucket that leaves stays in the index.
LeaveIndex(k) == traceIndex

IndexAfter(k) ==
  [t \in Trace |-> IF \E i \in 0 .. k - 1 : buckets[At(i)].trace = t
                   THEN NoSlot ELSE traceIndex[t]]

\* Hand over the k oldest buckets whole and r items of the next one.
TakeBuckets(k, r) ==
  LET out == ItemsIn(k, r)
      emptied == {At(i) : i \in 0 .. k - 1}
  IN
  /\ fate' = [x \in DOMAIN fate |-> IF x \in out THEN "taken" ELSE fate[x]]
  /\ buckets' = [s \in BucketSlot |->
       IF s \in emptied THEN Nil
       ELSE IF r > 0 /\ s = At(k)
         THEN [buckets[s] EXCEPT !.items = SubSeq(@, r + 1, Len(@))]
         ELSE buckets[s]]
  /\ traceIndex' = IndexAfter(k)
  /\ bucketHead' = (bucketHead + k) % bucketCapacity
  /\ totalItems' = totalItems - Cardinality(out)
  /\ bucketCount' = bucketCount - k
  /\ UNCHANGED <<bucketTail, traceOf>>

\* Poll takes one item, and the bucket with it when it was the last.
PollBucket ==
  /\ bucketCount > 0
  /\ buckets[bucketHead].items # <<>>
  /\ IF Len(buckets[bucketHead].items) = 1 THEN TakeBuckets(1, 0) ELSE TakeBuckets(0, 1)
  /\ UNCHANGED bucketElapsed

\* PollBatch(maxItems): whatever maxItems, some whole buckets and then some,
\* never all, of the items of the next one.
PollBuckets ==
  /\ \E k \in 0 .. bucketCount :
       \E r \in 0 .. (IF k < bucketCount THEN Len(buckets[At(k)].items) - 1 ELSE 0) :
         /\ k + r > 0
         /\ TakeBuckets(k, r)
  /\ UNCHANGED bucketElapsed

BucketsReady ==
  /\ bucketCount > 0
  /\ \/ totalItems >= bucketBatchSize
     \/ bucketTimeout > 0 /\ bucketElapsed >= bucketTimeout

\* PollIfReady hands over the oldest bucket, whatever the batch size.
PollBucketsIfReady ==
  /\ BucketsReady
  /\ buckets[bucketHead] # Nil
  /\ TakeBuckets(1, 0)
  /\ bucketElapsed' = 0

\* Drain and Clear start again at slot 0 with an empty index.
Restart ==
  /\ traceIndex' = [t \in Trace |-> NoSlot]
  /\ bucketHead' = 0
  /\ bucketTail' = 0
  /\ totalItems' = 0
  /\ bucketCount' = 0
  /\ UNCHANGED <<bucketElapsed, traceOf>>

DrainBuckets ==
  /\ bucketCount > 0
  /\ fate' = [x \in DOMAIN fate |->
       IF x \in ItemsIn(bucketCount, 0) THEN "taken" ELSE fate[x]]
  /\ buckets' = [s \in BucketSlot |->
       IF \E i \in 0 .. bucketCount - 1 : s = At(i) THEN Nil ELSE buckets[s]]
  /\ Restart

ClearBuckets ==
  /\ fate' = [x \in DOMAIN fate |-> IF fate[x] = "held" THEN "cleared" ELSE fate[x]]
  /\ buckets' = [s \in BucketSlot |-> Nil]
  /\ Restart

MarkBucketsFlushed ==
  /\ bucketElapsed' = 0
  /\ UNCHANGED <<ringVars, fate, traceOf>>

BucketTick ==
  /\ bucketElapsed < bucketTimeout
  /\ bucketElapsed' = bucketElapsed + 1
  /\ UNCHANGED <<ringVars, fate, traceOf>>

BucketNext ==
  /\ \/ \E t \in Trace \cup {NoTrace} : Offer(t)
     \/ PollBucket \/ PollBuckets \/ PollBucketsIfReady \/ DrainBuckets \/ ClearBuckets
     \/ MarkBucketsFlushed \/ BucketTick
  /\ UNCHANGED bucketPolicy

BucketSpec == BucketInit /\ [][BucketNext]_bucketVars

-----------------------------------------------------------------------------
(* Properties *)

Fates == {"held", "taken", "recorded", "invalid", "cleared"}

BucketTypeOK ==
  /\ buckets \in [BucketSlot -> Bucket]
  /\ traceIndex \in [Trace -> BucketSlot \cup {NoSlot}]
  /\ bucketHead \in BucketSlot
  /\ bucketTail \in BucketSlot
  /\ totalItems \in Int
  /\ bucketCount \in 0 .. bucketCapacity
  /\ bucketPolicy \in BucketPolicies
  /\ bucketElapsed \in 0 .. bucketTimeout
  /\ fate \in Seq(Fates)
  /\ traceOf \in Seq(Trace \cup {NoTrace})

\* The index never leads astray: a trace it knows leads to a bucket of the
\* ring's live part that holds that trace.  offerToBucket dereferences that
\* slot without a test for nil, so a stale entry would be a panic or put an
\* item into a bucket that is already gone.
IndexSound ==
  \A t \in Trace : traceIndex[t] # NoSlot =>
    /\ \E k \in 0 .. bucketCount - 1 : traceIndex[t] = At(k)
    /\ buckets[traceIndex[t]].trace = t

\* The live part of the ring is bucketCount buckets from head to tail, each
\* with at least one item; so the "buffer_full_invalid_state" branch and the
\* nil tests of the polls are never taken.
RingOK ==
  /\ bucketTail = (bucketHead + bucketCount) % bucketCapacity
  /\ \A k \in 0 .. bucketCount - 1 : buckets[At(k)].items # <<>>

\* The live buckets hold exactly the items neither delivered nor reported, each
\* once, and totalItems is their number, while the index and the ring are sound.
HeldExactly ==
  LET held == {x \in DOMAIN fate : fate[x] = "held"}
  IN
  /\ BucketTypeOK /\ IndexSound /\ RingOK
  /\ ItemsIn(bucketCount, 0) = held
  /\ totalItems = Cardinality(held)
  /\ \A x \in DOMAIN fate : fate[x] # "invalid"

\* The items of one trace leave the buffer in the order they came: an item goes
\* to a consumer only when every older one of its trace has gone.
TraceOrder ==
  [][\A y \in DOMAIN fate : \A x \in 1 .. y - 1 :
       (traceOf[x] = traceOf[y] /\ traceOf[x] # NoTrace
          /\ fate[x] = "held" /\ fate[y] = "held" /\ fate'[y] = "taken")
       => fate'[x] = "taken"]_bucketVars

=============================================================================
