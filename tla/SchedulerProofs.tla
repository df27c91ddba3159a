--------------------------- MODULE SchedulerProofs ---------------------------
(***************************************************************************)
(* Theorems about Scheduler, for any items, categories, flushes, buffers   *)
(* and weights.                                                            *)
(***************************************************************************)
EXTENDS Scheduler, FiniteSetTheorems, TLAPS

InBuffer(i) ==
  i \in added /\ i \notin dropped /\ place[i] = "outside" /\ taker[i] = None

InHand(i, w) ==
  i \in added /\ i \notin dropped /\ place[i] = "outside" /\ taker[i] = w

Distinct(s) == \A j, k \in DOMAIN s : s[j] = s[k] => j = k

\* A buffer holds what was added to it, and is neither dropped nor taken out; what was
\* taken out is in the hand of whoever took it until it goes to the transport.
BufferInv ==
  \A c \in Category :
    /\ Distinct(buffer[c])
    /\ Range(buffer[c]) = {i \in Item : InBuffer(i) /\ CategoryOf[i] = c}

HandInv ==
  \A w \in Worker :
    /\ Distinct(hand[w])
    /\ Range(hand[w]) = {i \in Item : InHand(i, w)}
    /\ \A i \in Range(hand[w]) : CategoryOf[i] = handOf[w]

ItemInv ==
  \A i \in Item :
    /\ i \notin added => i \notin dropped /\ place[i] = "outside" /\ taker[i] = None
    /\ place[i] # "outside" => i \notin dropped /\ taker[i] # None

Emptying == {"buffers", "dispatch", "send"}
Stops == {"cancel", "broadcast", "join", "stopped"}

ControlInv ==
  /\ pc[Runner] \in {"check", "park", "waiting", "awake", "turn", "poll", "dispatch",
                     "send", "exited"}
  /\ \A w \in Worker : /\ hand[w] # <<>> <=> pc[w] \in {"dispatch", "send"}
                       /\ pc[w] \in {"poll", "dispatch", "send"} => handOf[w] \in Category
  /\ \A f \in Caller : /\ pc[f] \in {"idle", "transport", "returned"} \cup Emptying \cup Stops
                       /\ pc[f] = "returned" => f \in Flusher
                       /\ pc[f] \in Stops => f \in Stopper
                       /\ pc[f] = "transport" <=> call[f] = "waiting"
                       /\ pc[f] \in {"idle"} \cup Emptying => call[f] = "idle"

\* What a flush found in a buffer is still to be looked at, or is taken out; what it
\* took out itself it waits for.
FlushInv ==
  \A f \in Caller :
    /\ \A i \in asked[f] :
         /\ i \in added
         /\ InBuffer(i) => pc[f] \in Emptying /\ CategoryOf[i] \in todo[f]
    /\ \A i \in Item : taker[i] = f =>
         /\ call[f] = "waiting" /\ place[i] = "pending" => i \in owed[f]
         /\ call[f] = "true" => i \in dropped \/ place[i] = "settled"

\* The transport is closed by Stop, at its end; run has ended then, or was given up.
StopInv ==
  /\ \A s \in Stopper : pc[s] = "stopped" => timedOut \/ pc[Runner] = "exited"
  /\ closed => \E s \in Stopper : pc[s] = "stopped"
  /\ \A i \in Item : place[i] = "refused" => closed /\ (timedOut \/ taker[i] \in Flusher)

IInv == /\ TypeOK /\ BufferInv /\ HandInv /\ ItemInv /\ ControlInv /\ FlushInv
        /\ StopInv /\ DropsRecorded

-----------------------------------------------------------------------------
(* Sequences of distinct items *)

LEMMA RangeFacts ==
  ASSUME NEW s \in Seq(Item)
  PROVE  /\ Len(s) \in Nat /\ DOMAIN s = 1 .. Len(s) /\ Range(s) \subseteq Item
         /\ \A i : i \in Range(s) <=> \E k \in 1 .. Len(s) : s[k] = i
         /\ s = <<>> <=> Range(s) = {}
         /\ s = <<>> <=> Len(s) = 0
<1>1. Len(s) \in Nat /\ DOMAIN s = 1 .. Len(s) /\ \A k \in 1 .. Len(s) : s[k] \in Item
  OBVIOUS
<1>2. s = <<>> <=> Len(s) = 0
  OBVIOUS
<1>3. \A i : i \in Range(s) <=> \E k \in 1 .. Len(s) : s[k] = i
  BY <1>1 DEF Range
<1>4. Range(s) \subseteq Item
  BY <1>1, <1>3
<1>5. Len(s) # 0 => s[1] \in Range(s)
  BY <1>1, <1>3
<1>6. Len(s) = 0 => Range(s) = {}
  BY <1>3
<1> QED
  BY <1>1, <1>2, <1>3, <1>4, <1>5, <1>6

LEMMA AppendDistinct ==
  ASSUME NEW s \in Seq(Item), Distinct(s), NEW i \in Item, i \notin Range(s)
  PROVE  /\ Append(s, i) \in Seq(Item) /\ Distinct(Append(s, i))
         /\ Range(Append(s, i)) = Range(s) \cup {i}
         /\ Len(Append(s, i)) = Len(s) + 1
<1> DEFINE t == Append(s, i)
           n == Len(s)
<1>1. /\ t \in Seq(Item) /\ Len(t) = n + 1 /\ n \in Nat
      /\ \A k \in 1 .. n : t[k] = s[k]
      /\ t[n + 1] = i
  OBVIOUS
<1>2. /\ DOMAIN t = 1 .. n + 1 /\ DOMAIN s = 1 .. n
      /\ \A x : x \in Range(s) <=> \E k \in 1 .. n : s[k] = x
      /\ \A x : x \in Range(t) <=> \E k \in 1 .. n + 1 : t[k] = x
  BY <1>1, RangeFacts
<1> HIDE DEF t, n
<1>3. 1 .. n + 1 = 1 .. n \cup {n + 1} /\ n + 1 \notin 1 .. n
  BY <1>1
<1>4. Range(t) = Range(s) \cup {i}
  BY <1>1, <1>2, <1>3
<1>5. Distinct(t)
  BY <1>1, <1>2, <1>3 DEF Distinct
<1> QED
  BY <1>1, <1>4, <1>5 DEF t, n

LEMMA SplitDistinct ==
  ASSUME NEW s \in Seq(Item), Distinct(s), NEW n \in Nat, n <= Len(s)
  PROVE  /\ SubSeq(s, 1, n) \in Seq(Item) /\ Distinct(SubSeq(s, 1, n))
         /\ Len(SubSeq(s, 1, n)) = n
         /\ SubSeq(s, n + 1, Len(s)) \in Seq(Item) /\ Distinct(SubSeq(s, n + 1, Len(s)))
         /\ Len(SubSeq(s, n + 1, Len(s))) = Len(s) - n
         /\ \A i : i \in Range(SubSeq(s, 1, n)) <=> \E k \in 1 .. n : s[k] = i
         /\ Range(SubSeq(s, 1, n)) \subseteq Range(s)
         /\ Range(SubSeq(s, n + 1, Len(s))) = Range(s) \ Range(SubSeq(s, 1, n))
<1> DEFINE a == SubSeq(s, 1, n)
           b == SubSeq(s, n + 1, Len(s))
           m == Len(s)
<1>1. /\ m \in Nat /\ a \in Seq(Item) /\ b \in Seq(Item)
      /\ Len(a) = n /\ Len(b) = m - n
      /\ \A k \in 1 .. n : a[k] = s[k]
      /\ \A k \in 1 .. m - n : b[k] = s[n + k]
  OBVIOUS
<1>2. /\ DOMAIN a = 1 .. n /\ DOMAIN b = 1 .. m - n /\ DOMAIN s = 1 .. m
      /\ \A x : x \in Range(s) <=> \E k \in 1 .. m : s[k] = x
      /\ \A x : x \in Range(a) <=> \E k \in 1 .. n : a[k] = x
      /\ \A x : x \in Range(b) <=> \E k \in 1 .. m - n : b[k] = x
  <2>1. DOMAIN s = 1 .. m /\ \A x : x \in Range(s) <=> \E k \in 1 .. m : s[k] = x
    BY RangeFacts
  <2> HIDE DEF a, b, m
  <2>2. DOMAIN a = 1 .. n /\ \A x : x \in Range(a) <=> \E k \in 1 .. n : a[k] = x
    BY <1>1, RangeFacts
  <2>3. DOMAIN b = 1 .. m - n /\ \A x : x \in Range(b) <=> \E k \in 1 .. m - n : b[k] = x
    BY <1>1, RangeFacts
  <2> QED
    BY <2>1, <2>2, <2>3
<1>3. \A j, k \in 1 .. m : s[j] = s[k] => j = k
  BY <1>2 DEF Distinct
<1>0. n <= m
  OBVIOUS
<1> HIDE DEF a, b, m
<1>4. /\ \A k \in 1 .. n : k \in 1 .. m
      /\ \A k \in 1 .. m - n : n + k \in 1 .. m /\ n + k \notin 1 .. n
      /\ \A k \in 1 .. m : k \notin 1 .. n => k - n \in 1 .. m - n /\ n + (k - n) = k
      /\ \A j, k \in 1 .. m - n : n + j = n + k => j = k
  BY <1>0, <1>1
<1>5. Distinct(a)
  BY <1>1, <1>2, <1>3, <1>4 DEF Distinct
<1>6. Distinct(b)
  BY <1>1, <1>2, <1>3, <1>4 DEF Distinct
<1>7. \A i : i \in Range(a) <=> \E k \in 1 .. n : s[k] = i
  BY <1>1, <1>2
<1>8. \A i : i \in Range(b) <=> \E k \in 1 .. m : k \notin 1 .. n /\ s[k] = i
  <2>1. ASSUME NEW i, i \in Range(b) PROVE \E k \in 1 .. m : k \notin 1 .. n /\ s[k] = i
    BY <1>1, <1>2, <1>4, <2>1
  <2>2. ASSUME NEW i, NEW k \in 1 .. m, k \notin 1 .. n, s[k] = i PROVE i \in Range(b)
    <3>1. k - n \in 1 .. m - n /\ b[k - n] = s[k]
      BY <1>1, <1>4, <2>2
    <3> QED
      BY <1>2, <2>2, <3>1
  <2> QED
    BY <2>1, <2>2
<1>9. Range(a) \subseteq Range(s)
  BY <1>2, <1>4, <1>7
<1>10. Range(b) = Range(s) \ Range(a)
  <2>1. ASSUME NEW i PROVE i \in Range(b) <=> i \in Range(s) /\ i \notin Range(a)
    BY <1>2, <1>3, <1>4, <1>7, <1>8
  <2> QED
    BY <2>1
<1> QED
  BY <1>1, <1>5, <1>6, <1>7, <1>9, <1>10 DEF a, b, m

LEMMA TailDistinct ==
  ASSUME NEW s \in Seq(Item), Distinct(s), s # <<>>
  PROVE  /\ Tail(s) \in Seq(Item) /\ Distinct(Tail(s)) /\ Len(Tail(s)) = Len(s) - 1
         /\ Head(s) \in Range(s) /\ Head(s) \in Item
         /\ Range(Tail(s)) = Range(s) \ {Head(s)}
<1>1. Len(s) \in Nat /\ Len(s) >= 1 /\ 1 \in 1 .. Len(s) /\ Head(s) = s[1] /\ Head(s) \in Item
  OBVIOUS
<1>2. Tail(s) = SubSeq(s, 1 + 1, Len(s))
  BY <1>1
<1>3. \A i : i \in Range(SubSeq(s, 1, 1)) <=> i = s[1]
  <2>1. \A i : i \in Range(SubSeq(s, 1, 1)) <=> \E k \in 1 .. 1 : s[k] = i
    BY <1>1, SplitDistinct
  <2> QED
    BY <2>1
<1>4. /\ SubSeq(s, 1 + 1, Len(s)) \in Seq(Item) /\ Distinct(SubSeq(s, 1 + 1, Len(s)))
      /\ Len(SubSeq(s, 1 + 1, Len(s))) = Len(s) - 1
      /\ Range(SubSeq(s, 1 + 1, Len(s))) = Range(s) \ Range(SubSeq(s, 1, 1))
      /\ Range(SubSeq(s, 1, 1)) \subseteq Range(s)
  BY <1>1, SplitDistinct
<1> QED
  BY <1>1, <1>2, <1>3, <1>4

-----------------------------------------------------------------------------
(* What the steps do with the items *)

LEMMA CycleFacts == CycleLength \in Nat /\ CycleLength # 0
<1>1. PICK p \in Priority : TRUE
  BY SchedulerAssumption
<1>2. <<p, 1>> \in Slots
  BY SchedulerAssumption DEF Slots
<1> QED
  BY <1>2, SchedulerAssumption, FS_CardinalityType, FS_EmptySet DEF CycleLength

LEMMA WorkerFacts ==
  /\ Caller \subseteq Worker /\ Runner \in Worker /\ Runner \notin Caller
  /\ \A w \in Worker : w # None /\ (w = Runner \/ w \in Caller)
  /\ \A f \in Caller : f \in Flusher \/ f \in Stopper
  /\ \A c \in Category : c # None
  BY SchedulerAssumption DEF Caller, Worker

\* i goes into its buffer, which becomes b; D is dropped from it.
AddedWith(i, D, b) ==
  LET c == CategoryOf[i]
  IN /\ c \in Category /\ i \notin added /\ i \notin Range(buffer[c])
     /\ D \subseteq Range(buffer[c])
     /\ buffer' = [buffer EXCEPT ![c] = b]
     /\ Distinct(b) /\ Range(b) = (Range(buffer[c]) \ D) \cup {i}
     /\ Len(b) <= Capacity[c]
     /\ added' = added \cup {i}
     /\ dropped' = dropped \cup D /\ recorded' = recorded \cup D
     /\ UNCHANGED <<hand, handOf, taker, place>>

\* Add puts the item into its buffer; D is what the buffer drops for it.
LEMMA AddLemma ==
  ASSUME TypeOK, BufferInv, NEW i \in Item, Add(i)
  PROVE  \E D \in SUBSET Item, b \in Seq(Item) :
           AddedWith(i, D, b)
<1> DEFINE c == CategoryOf[i]
<1>1. c \in Category /\ i \notin added /\ Capacity[c] \in Nat \ {0}
  BY SchedulerAssumption DEF Add
<1>2. /\ buffer[c] \in Seq(Item) /\ Len(buffer[c]) \in Nat /\ Len(buffer[c]) <= Capacity[c]
      /\ Distinct(buffer[c])
  BY <1>1, RangeFacts DEF TypeOK, BufferInv
<1>3. i \notin Range(buffer[c])
  BY <1>1 DEF BufferInv, InBuffer
<1>4. /\ added' = added \cup {i} /\ UNCHANGED <<hand, handOf, taker, place>>
      /\ buffer' = [buffer EXCEPT ![c] = Append(IF Full(c) THEN Tail(buffer[c]) ELSE buffer[c], i)]
      /\ Full(c) => DropRecorded({Head(buffer[c])})
      /\ ~Full(c) => UNCHANGED <<dropped, recorded>>
  BY DEF Add, handVars, transportVars, dropVars
<1> HIDE DEF c
<1>5. CASE Full(c)
  <2>1. buffer[c] # <<>> /\ Len(buffer[c]) = Capacity[c]
    BY <1>1, <1>2, <1>5, RangeFacts DEF Full
  <2> DEFINE h == Head(buffer[c])
             t == Tail(buffer[c])
  <2>2. /\ h \in Range(buffer[c]) /\ h \in Item /\ t \in Seq(Item) /\ Distinct(t)
        /\ Range(t) = Range(buffer[c]) \ {h} /\ Len(t) = Len(buffer[c]) - 1
    BY <1>2, <2>1, TailDistinct
  <2>3. /\ buffer' = [buffer EXCEPT ![c] = Append(t, i)]
        /\ dropped' = dropped \cup {h} /\ recorded' = recorded \cup {h}
    BY <1>4, <1>5 DEF DropRecorded
  <2> HIDE DEF h, t
  <2>4. /\ Append(t, i) \in Seq(Item) /\ Distinct(Append(t, i))
        /\ Range(Append(t, i)) = Range(t) \cup {i} /\ Len(Append(t, i)) = Len(t) + 1
    BY <1>3, <2>2, AppendDistinct
  <2>5. Len(Append(t, i)) <= Capacity[c]
    BY <1>1, <1>2, <2>1, <2>2, <2>4
  <2>6. {h} \in SUBSET Item /\ Append(t, i) \in Seq(Item)
    BY <2>2, <2>4
  <2> USE <2>6
  <2> WITNESS {h} \in SUBSET Item, Append(t, i) \in Seq(Item)
  <2> QED
    BY <1>1, <1>3, <1>4, <2>2, <2>3, <2>4, <2>5 DEF c, AddedWith
<1>6. CASE ~Full(c)
  <2>1. buffer' = [buffer EXCEPT ![c] = Append(buffer[c], i)] /\ dropped' = dropped /\ recorded' = recorded
    BY <1>4, <1>6
  <2>2. /\ Append(buffer[c], i) \in Seq(Item) /\ Distinct(Append(buffer[c], i))
        /\ Range(Append(buffer[c], i)) = Range(buffer[c]) \cup {i}
        /\ Len(Append(buffer[c], i)) = Len(buffer[c]) + 1
    BY <1>2, <1>3, AppendDistinct
  <2>3. Len(Append(buffer[c], i)) <= Capacity[c]
    BY <1>1, <1>2, <1>6, <2>2 DEF Full
  <2>4. Append(buffer[c], i) \in Seq(Item)
    BY <2>2
  <2> USE <2>4
  <2> WITNESS {} \in SUBSET Item, Append(buffer[c], i) \in Seq(Item)
  <2> QED
    BY <1>1, <1>3, <1>4, <2>1, <2>2, <2>3 DEF c, AddedWith
<1> QED
  BY <1>5, <1>6

\* The items T, the first n of the buffer c, go into the hand of w as h; b stays.
Took(w, c, n, T, h, b) ==
  /\ T \subseteq Range(buffer[c]) /\ T # {}
  /\ hand' = [hand EXCEPT ![w] = h]
  /\ Distinct(h) /\ Range(h) = T /\ h # <<>>
  /\ buffer' = [buffer EXCEPT ![c] = b]
  /\ Distinct(b) /\ Range(b) = Range(buffer[c]) \ T
  /\ Len(b) <= Capacity[c]
  /\ n = Len(buffer[c]) => Range(b) = {}
  /\ taker' = [i \in Item |-> IF i \in T THEN w ELSE taker[i]]

\* The first n items of a buffer, T, move into an empty hand.
LEMMA TakeLemma ==
  ASSUME TypeOK, BufferInv, NEW w \in Worker, NEW c \in Category,
         NEW n \in Nat, n # 0, n <= Len(buffer[c]), TakeOut(w, c, n)
  PROVE  \E T \in SUBSET Item, h \in Seq(Item), b \in Seq(Item) :
           Took(w, c, n, T, h, b)
<1> DEFINE s == buffer[c]
           h == SubSeq(s, 1, n)
           b == SubSeq(s, n + 1, Len(s))
<1>1. s \in Seq(Item) /\ Distinct(s) /\ Len(s) \in Nat /\ Len(s) <= Capacity[c] /\ Capacity[c] \in Nat
  BY RangeFacts, SchedulerAssumption DEF TypeOK, BufferInv
<1>2. /\ hand' = [hand EXCEPT ![w] = h] /\ buffer' = [buffer EXCEPT ![c] = b]
      /\ taker' = [i \in Item |-> IF \E k \in 1 .. n : s[k] = i THEN w ELSE taker[i]]
  BY DEF TakeOut
<1>3. /\ h \in Seq(Item) /\ Distinct(h) /\ Len(h) = n
      /\ b \in Seq(Item) /\ Distinct(b) /\ Len(b) = Len(s) - n
      /\ \A i : i \in Range(h) <=> \E k \in 1 .. n : s[k] = i
      /\ Range(h) \subseteq Range(s) /\ Range(b) = Range(s) \ Range(h)
  BY <1>1, SplitDistinct
<1>n. n <= Len(s)
  OBVIOUS
<1> HIDE DEF s, h, b
<1>4. h # <<>> /\ Range(h) # {} /\ Range(h) \in SUBSET Item
  BY <1>3, RangeFacts
<1>5. Len(b) <= Capacity[c] /\ (n = Len(s) => Range(b) = {})
  <2>1. n = Len(s) => Len(b) = 0
    BY <1>1, <1>3
  <2>2. Len(b) <= Capacity[c]
    BY <1>1, <1>3, <1>n
  <2> QED
    BY <1>3, <2>1, <2>2, RangeFacts
<1>6. taker' = [i \in Item |-> IF i \in Range(h) THEN w ELSE taker[i]]
  BY <1>2, <1>3
<1>7. Range(h) \in SUBSET Item /\ h \in Seq(Item) /\ b \in Seq(Item)
  BY <1>3, <1>4
<1> USE <1>7
<1> WITNESS Range(h) \in SUBSET Item, h \in Seq(Item), b \in Seq(Item)
<1> QED
  BY <1>2, <1>3, <1>4, <1>5, <1>6 DEF s, Took

\* E leaves the hand of w for the transport, where it is to, and rest remains.
Sent(w, E, rest, to) ==
  /\ E \subseteq Range(hand[w]) /\ E # {}
  /\ hand' = [hand EXCEPT ![w] = rest]
  /\ Distinct(rest) /\ Range(rest) = Range(hand[w]) \ E
  /\ handOf' = [handOf EXCEPT ![w] = IF rest = <<>> THEN None ELSE @]
  /\ pc' = [pc EXCEPT ![w] = IF rest = <<>> THEN Home(w) ELSE "send"]
  /\ place' = [i \in Item |-> IF i \in E \ Unserializable THEN to ELSE place[i]]
  /\ dropped' = dropped \cup (E \cap Unserializable)
  /\ \/ E \subseteq Unserializable /\ \E i \in E : recorded' = recorded \cup {i}
     \/ ~(E \subseteq Unserializable) /\ recorded' = recorded
  /\ handOf[w] \in Batched \/ \E i \in Item : E = {i}
  /\ to = "refused" <=> closed
  /\ UNCHANGED <<buffer, added, taker, call, owed>>

\* sendItem: E leaves the hand, what of it can be converted goes to the transport.
LEMMA SendLemma ==
  ASSUME TypeOK, HandInv, ControlInv, NEW w \in Worker, SendItem(w)
  PROVE  \E E \in SUBSET Item, rest \in Seq(Item), to \in {"pending", "settled", "refused"} :
           Sent(w, E, rest, to)
<1> DEFINE E == NextEnvelope(w)
           rest == IF handOf[w] \in Batched THEN <<>> ELSE Tail(hand[w])
<1>1. hand[w] \in Seq(Item) /\ Distinct(hand[w]) /\ hand[w] # <<>>
  BY DEF TypeOK, HandInv, ControlInv, SendItem
<1>2. /\ E \in SUBSET Item /\ rest \in Seq(Item) /\ E \subseteq Range(hand[w]) /\ E # {}
      /\ Distinct(rest) /\ Range(rest) = Range(hand[w]) \ E
      /\ handOf[w] \in Batched \/ \E i \in Item : E = {i}
  <2>1. CASE handOf[w] \in Batched
    <3>1. E = Range(hand[w]) /\ rest = <<>>
      BY <2>1 DEF NextEnvelope
    <3>2. Distinct(<<>>) /\ <<>> \in Seq(Item) /\ Range(<<>>) = {}
      BY DEF Distinct, Range
    <3>3. Range(hand[w]) # {} /\ Range(hand[w]) \subseteq Item
      BY <1>1, RangeFacts
    <3> QED
      BY <2>1, <3>1, <3>2, <3>3
  <2>2. CASE handOf[w] \notin Batched
    <3>1. E = {Head(hand[w])} /\ rest = Tail(hand[w])
      BY <2>2 DEF NextEnvelope
    <3> QED
      BY <1>1, <3>1, TailDistinct
  <2> QED
    BY <2>1, <2>2
<1>3. /\ hand' = [hand EXCEPT ![w] = rest]
      /\ handOf' = [handOf EXCEPT ![w] = IF rest = <<>> THEN None ELSE @]
      /\ pc' = [pc EXCEPT ![w] = IF rest = <<>> THEN Home(w) ELSE "send"]
      /\ dropped' = dropped \cup (E \cap Unserializable)
      /\ UNCHANGED <<buffer, added, taker>>
  BY DEF SendItem, Go, bufferVars, addVars
<1>4. \/ /\ E \ Unserializable = {}
         /\ \E i \in E : recorded' = recorded \cup {i}
         /\ UNCHANGED <<place, call, owed>>
      \/ /\ E \ Unserializable # {}
         /\ IF closed THEN Transport!Refuse(E \ Unserializable)
            ELSE Transport!Accept(E \ Unserializable) \/ Transport!Settle(E \ Unserializable)
         /\ UNCHANGED recorded
  BY DEF SendItem, transportVars
<1> HIDE DEF E, rest
<1>5. \E to \in {"pending", "settled", "refused"} :
         /\ place' = [i \in Item |-> IF i \in E \ Unserializable THEN to ELSE place[i]]
         /\ to = "refused" <=> closed
         /\ UNCHANGED <<call, owed>>
  <2>1. CASE E \ Unserializable = {}
    <3>1. place' = place /\ place = [i \in Item |-> place[i]] /\ UNCHANGED <<call, owed>>
      BY <1>4, <2>1 DEF TypeOK
    <3>2. PICK to \in {"pending", "settled", "refused"} : to = "refused" <=> closed
      OBVIOUS
    <3>3. place' = [i \in Item |-> IF i \in E \ Unserializable THEN to ELSE place[i]]
      BY <2>1, <3>1
    <3> QED
      BY <3>1, <3>2, <3>3
  <2>2. CASE E \ Unserializable # {}
    <3>1. closed \/ ~closed
      OBVIOUS
    <3>2. CASE closed
      BY <1>4, <2>2, <3>2 DEF Transport!Refuse, Transport!Move
    <3>3. CASE ~closed
      BY <1>4, <2>2, <3>3 DEF Transport!Accept, Transport!Settle, Transport!Move
    <3> QED
      BY <3>2, <3>3
  <2> QED
    BY <2>1, <2>2
<1>6. PICK to \in {"pending", "settled", "refused"} :
         /\ place' = [i \in Item |-> IF i \in E \ Unserializable THEN to ELSE place[i]]
         /\ to = "refused" <=> closed
         /\ UNCHANGED <<call, owed>>
  BY <1>5
<1>7. \/ E \subseteq Unserializable /\ \E i \in E : recorded' = recorded \cup {i}
      \/ ~(E \subseteq Unserializable) /\ recorded' = recorded
  BY <1>4
<1>8. E \in SUBSET Item /\ rest \in Seq(Item) /\ to \in {"pending", "settled", "refused"}
  BY <1>2
<1> USE <1>8
<1> WITNESS E \in SUBSET Item, rest \in Seq(Item), to \in {"pending", "settled", "refused"}
<1> QED
  BY <1>2, <1>3, <1>6, <1>7 DEF Sent

Still == UNCHANGED <<buffer, hand, added, dropped, recorded, place, taker>>

\* A batch goes from the buffer c into the hand of w, which was empty.
Taking(w, c, n) ==
  /\ n # 0 /\ n <= Len(buffer[c])
  /\ TakeOut(w, c, n)
  /\ hand[w] = <<>>
  /\ handOf' = [handOf EXCEPT ![w] = c]
  /\ pc' = [pc EXCEPT ![w] = "dispatch"]
  /\ UNCHANGED <<added, dropped, recorded, place>>

LEMMA PollTakes ==
  ASSUME TypeOK, ControlInv, Poll
  PROVE  \/ \E c \in Category, n \in Nat : Taking(Runner, c, n)
         \/ /\ Still /\ hand[Runner] = <<>>
            /\ pc' = [pc EXCEPT ![Runner] = "check"]
            /\ handOf' = [handOf EXCEPT ![Runner] = None]
<1> DEFINE c == handOf[Runner]
           n == IF BatchSize[c] <= Len(buffer[c]) THEN BatchSize[c] ELSE Len(buffer[c])
<1>1. c \in Category /\ hand[Runner] = <<>>
  BY WorkerFacts DEF ControlInv, Poll
<1>2. BatchSize[c] \in Nat /\ BatchSize[c] # 0 /\ Len(buffer[c]) \in Nat
  BY <1>1, SchedulerAssumption, RangeFacts DEF TypeOK
<1>3. CASE Ready(c)
  <2>1. Len(buffer[c]) # 0
    BY <1>1, <1>3, RangeFacts DEF Ready, TypeOK
  <2>2. n \in Nat /\ n # 0 /\ n <= Len(buffer[c])
    BY <1>2, <2>1
  <2>3. handOf' = [handOf EXCEPT ![Runner] = c]
    BY <1>3 DEF Poll, TypeOK
  <2>4. TakeOut(Runner, c, n) /\ pc' = [pc EXCEPT ![Runner] = "dispatch"]
    BY <1>3 DEF Poll, Go
  <2>5. UNCHANGED <<added, dropped, recorded, place>>
    BY DEF Poll, addVars, dropVars, transportVars
  <2> HIDE DEF c, n
  <2> QED
    BY <1>1, <2>2, <2>3, <2>4, <2>5 DEF Taking
<1>4. CASE ~Ready(c)
  BY <1>1, <1>4 DEF Poll, Still, Go, bufferVars, addVars, dropVars, transportVars
<1> QED
  BY <1>3, <1>4

LEMMA FlushTakes ==
  ASSUME TypeOK, ControlInv, NEW f \in Caller, NEW c \in Category, FlushBuffer(f, c)
  PROVE  \/ Taking(f, c, Len(buffer[c])) /\ Len(buffer[c]) \in Nat
         \/ Still /\ buffer[c] = <<>> /\ UNCHANGED <<pc, handOf>>
<1>1. buffer[c] \in Seq(Item) /\ hand[f] = <<>>
  BY WorkerFacts DEF TypeOK, ControlInv, FlushBuffer
<1>2. UNCHANGED <<added, dropped, recorded, place>>
  BY DEF FlushBuffer, addVars, dropVars, transportVars
<1>3. CASE buffer[c] = <<>>
  BY <1>1, <1>2, <1>3 DEF FlushBuffer, Still, handVars
<1>4. CASE buffer[c] # <<>>
  BY <1>1, <1>2, <1>4, RangeFacts DEF FlushBuffer, DrainAll, Taking, Go
<1> QED
  BY <1>3, <1>4

\* A step adds an item, takes a batch, drops what is in a hand, sends, or settles; the
\* other steps leave the items where they are.
LEMMA StepKinds ==
  ASSUME TypeOK, ControlInv, [Next]_vars
  PROVE  \/ \E i \in Item : Add(i) \/ TransportSettle(i)
         \/ \E w \in Worker, c \in Category, n \in Nat : Taking(w, c, n)
         \/ \E w \in Worker : Discard(w) \/ SendItem(w)
         \/ Still /\ \A w \in Worker : handOf'[w] = handOf[w] \/ hand[w] = <<>>
<1>1. ASSUME UNCHANGED <<buffer, handVars, addVars, dropVars, taker, place>>
             \/ UNCHANGED <<buffer, handVars, added, dropVars, taker, place>>
      PROVE  Still /\ \A w \in Worker : handOf'[w] = handOf[w] \/ hand[w] = <<>>
  BY <1>1 DEF Still, handVars, addVars, dropVars
<1>2. CASE UNCHANGED vars
  BY <1>1, <1>2 DEF vars, handVars, addVars, dropVars
<1>3. ASSUME NEW i \in Item, Signal(i)
      PROVE  UNCHANGED <<buffer, handVars, added, dropVars, taker, place>>
  BY <1>3 DEF Signal, bufferVars, transportVars
<1>4. ASSUME (\E c \in Category : Elapse(c)) \/ Ticker \/ Check \/ Park \/ Awake
      PROVE  UNCHANGED <<buffer, handVars, addVars, dropVars, taker, place>>
  BY <1>4 DEF Elapse, Ticker, Tick, TickerExit, Check, Park, Awake, RunTo, bufferVars, transportVars
<1>5. CASE TakeTurn
  <2>1. Still
    BY <1>5 DEF TakeTurn, Still, bufferVars, addVars, dropVars, transportVars
  <2>2. hand[Runner] = <<>>
    BY <1>5, WorkerFacts DEF TakeTurn, ControlInv
  <2>3. \A w \in Worker : w # Runner => handOf'[w] = handOf[w]
    BY <1>5 DEF TakeTurn, TypeOK
  <2> QED
    BY <2>1, <2>2, <2>3
<1>6. CASE Poll
  <2>1. CASE /\ Still /\ hand[Runner] = <<>>
             /\ handOf' = [handOf EXCEPT ![Runner] = None]
    BY <2>1 DEF TypeOK
  <2> QED
    BY <1>6, <2>1, PollTakes, WorkerFacts
<1>7. ASSUME NEW f \in Caller, NEW c \in Category, FlushBuffer(f, c)
      PROVE  \/ \E w \in Worker, d \in Category, n \in Nat : Taking(w, d, n)
             \/ Still /\ \A w \in Worker : handOf'[w] = handOf[w] \/ hand[w] = <<>>
  BY <1>7, FlushTakes, WorkerFacts
<1>8. ASSUME NEW f \in Caller, Flush(f) \/ FlushTransport(f) \/ FlushReturn(f)
      PROVE  UNCHANGED <<buffer, handVars, addVars, dropVars, taker, place>>
  BY <1>8 DEF Flush, FlushTransport, FlushReturn, bufferVars, transportVars,
     Transport!FlushCall, Transport!FlushTrue, Transport!FlushFalse
<1>9. ASSUME NEW s \in Stopper, Stopping(s)
      PROVE  UNCHANGED <<buffer, handVars, addVars, dropVars, taker, place>>
  BY <1>9 DEF Stopping, StopCancel, StopBroadcast, StopReturn, TransportClose, bufferVars, transportVars
<1>10. ASSUME NEW w \in Worker, Dispatch(w)
       PROVE  UNCHANGED <<buffer, handVars, addVars, dropVars, taker, place>>
  BY <1>10 DEF Dispatch, bufferVars, transportVars
<1> QED
  BY <1>1, <1>2, <1>3, <1>4, <1>5, <1>6, <1>7, <1>8, <1>9, <1>10
     DEF Next, Running, Processing, Flushing

-----------------------------------------------------------------------------
(* Each part of the invariant holds in the next state: the items *)

ItemParts == BufferInv /\ HandInv /\ ItemInv /\ DropsRecorded

LEMMA AddStep ==
  ASSUME IInv, NEW i \in Item, Add(i)
  PROVE  ItemParts'
<1> USE DEF IInv
<1>1. PICK D \in SUBSET Item, b \in Seq(Item) :
           AddedWith(i, D, b)
  BY AddLemma
<1> DEFINE d == CategoryOf[i]
<1>2. /\ d \in Category /\ i \notin added
      /\ D \subseteq Range(buffer[d])
      /\ buffer' = [buffer EXCEPT ![d] = b]
      /\ Distinct(b) /\ Range(b) = (Range(buffer[d]) \ D) \cup {i}
      /\ added' = added \cup {i}
      /\ dropped' = dropped \cup D /\ recorded' = recorded \cup D
      /\ UNCHANGED <<hand, handOf, taker, place>>
  BY <1>1 DEF AddedWith
<1>3. i \notin dropped /\ place[i] = "outside" /\ taker[i] = None
  BY <1>2 DEF ItemInv
<1>4. \A x \in D : x \in Item /\ InBuffer(x) /\ CategoryOf[x] = d
  BY <1>2 DEF BufferInv
<1>5. \A x \in Item : InBuffer(x)' <=> (InBuffer(x) /\ x \notin D) \/ x = i
  BY <1>2, <1>3, <1>4 DEF InBuffer
<1>6. \A x \in Item, w \in Worker : InHand(x, w)' <=> InHand(x, w)
  BY <1>2, <1>3, <1>4, WorkerFacts DEF InHand, InBuffer
<1>7. BufferInv'
  <2> SUFFICES ASSUME NEW c \in Category
               PROVE  /\ Distinct(buffer'[c])
                      /\ Range(buffer'[c]) = {x \in Item : InBuffer(x)' /\ CategoryOf[x] = c}
    BY DEF BufferInv
  <2>1. buffer \in [Category -> Seq(Item)]
    BY DEF TypeOK
  <2>2. Distinct(buffer[c]) /\ Range(buffer[c]) = {x \in Item : InBuffer(x) /\ CategoryOf[x] = c}
    BY DEF BufferInv
  <2>3. CASE c = d
    <3>1. buffer'[c] = b
      BY <1>2, <2>1, <2>3
    <3>2. Range(b) = {x \in Item : InBuffer(x)' /\ CategoryOf[x] = c}
      BY <1>2, <1>4, <1>5, <2>2, <2>3
    <3> QED
      BY <1>2, <3>1, <3>2
  <2>4. CASE c # d
    <3>1. buffer'[c] = buffer[c]
      BY <1>2, <2>1, <2>4
    <3>2. \A x \in Item : CategoryOf[x] = c => (InBuffer(x)' <=> InBuffer(x))
      BY <1>4, <1>5, <2>4
    <3> QED
      BY <2>2, <3>1, <3>2
  <2> QED
    BY <2>3, <2>4
<1>8. HandInv'
  BY <1>2, <1>6 DEF HandInv
<1>9. ItemInv'
  BY <1>2, <1>3, <1>4 DEF ItemInv, InBuffer
<1>10. DropsRecorded'
  BY <1>2 DEF DropsRecorded
<1> QED
  BY <1>7, <1>8, <1>9, <1>10 DEF ItemParts

LEMMA TakeStep ==
  ASSUME IInv, NEW w \in Worker, NEW c \in Category, NEW n \in Nat, Taking(w, c, n)
  PROVE  ItemParts'
<1> USE DEF IInv
<1>1. PICK T \in SUBSET Item, h \in Seq(Item), b \in Seq(Item) :
           Took(w, c, n, T, h, b)
  <2>1. n # 0 /\ n <= Len(buffer[c]) /\ TakeOut(w, c, n)
    BY DEF Taking
  <2>2. TypeOK /\ BufferInv
    OBVIOUS
  <2> HIDE DEF IInv
  <2> QED
    BY <2>1, <2>2, TakeLemma
<1> USE DEF Took
<1>2. /\ UNCHANGED <<added, dropped, recorded, place>>
      /\ hand[w] = <<>> /\ handOf' = [handOf EXCEPT ![w] = c]
  BY DEF Taking
<1>3. \A x \in T : x \in Item /\ InBuffer(x) /\ CategoryOf[x] = c
  BY <1>1 DEF BufferInv
<1>4. \A x \in Item : taker'[x] = IF x \in T THEN w ELSE taker[x]
  BY <1>1
<1>5. \A x \in Item : InBuffer(x)' <=> InBuffer(x) /\ x \notin T
  BY <1>2, <1>4, WorkerFacts DEF InBuffer
<1>6. \A x \in Item, v \in Worker : InHand(x, v)' <=> (x \in T /\ v = w) \/ (x \notin T /\ InHand(x, v))
  BY <1>2, <1>3, <1>4, WorkerFacts DEF InHand, InBuffer
<1>7. BufferInv'
  <2> SUFFICES ASSUME NEW d \in Category
               PROVE  /\ Distinct(buffer'[d])
                      /\ Range(buffer'[d]) = {x \in Item : InBuffer(x)' /\ CategoryOf[x] = d}
    BY DEF BufferInv
  <2>1. buffer \in [Category -> Seq(Item)]
    BY DEF TypeOK
  <2>2. Distinct(buffer[d]) /\ Range(buffer[d]) = {x \in Item : InBuffer(x) /\ CategoryOf[x] = d}
    BY DEF BufferInv
  <2>3. CASE d = c
    <3>1. buffer'[d] = b
      BY <1>1, <2>1, <2>3
    <3>2. Range(b) = {x \in Item : InBuffer(x)' /\ CategoryOf[x] = d}
      BY <1>1, <1>5, <2>2, <2>3
    <3> QED
      BY <1>1, <3>1, <3>2
  <2>4. CASE d # c
    <3>1. buffer'[d] = buffer[d]
      BY <1>1, <2>1, <2>4
    <3>2. \A x \in Item : CategoryOf[x] = d => (InBuffer(x)' <=> InBuffer(x))
      BY <1>3, <1>5, <2>4
    <3> QED
      BY <2>2, <3>1, <3>2
  <2> QED
    BY <2>3, <2>4
<1>8. HandInv'
  <2> SUFFICES ASSUME NEW v \in Worker
               PROVE  /\ Distinct(hand'[v])
                      /\ Range(hand'[v]) = {x \in Item : InHand(x, v)'}
                      /\ \A x \in Range(hand'[v]) : CategoryOf[x] = handOf'[v]
    BY DEF HandInv
  <2>1. hand \in [Worker -> Seq(Item)] /\ handOf \in [Worker -> Category \cup {None}]
    BY DEF TypeOK
  <2>2. /\ Distinct(hand[v]) /\ Range(hand[v]) = {x \in Item : InHand(x, v)}
        /\ \A x \in Range(hand[v]) : CategoryOf[x] = handOf[v]
    BY DEF HandInv
  <2>3. CASE v = w
    <3>1. hand'[v] = h /\ handOf'[v] = c
      BY <1>1, <1>2, <2>1, <2>3
    <3>2. \A x \in Item : ~InHand(x, w)
      BY <1>2, <2>1, <2>2, <2>3, RangeFacts
    <3>3. Range(h) = {x \in Item : InHand(x, v)'}
      BY <1>1, <1>6, <2>3, <3>2
    <3> QED
      BY <1>1, <1>3, <3>1, <3>3
  <2>4. CASE v # w
    <3>1. hand'[v] = hand[v] /\ handOf'[v] = handOf[v]
      BY <1>1, <1>2, <2>1, <2>4
    <3>2. \A x \in Item : InHand(x, v)' <=> InHand(x, v)
      BY <1>3, <1>6, <2>4, WorkerFacts DEF InHand, InBuffer
    <3> QED
      BY <2>2, <3>1, <3>2
  <2> QED
    BY <2>3, <2>4
<1>9. ItemInv'
  BY <1>2, <1>3, <1>4, WorkerFacts DEF ItemInv, InBuffer
<1>10. DropsRecorded'
  BY <1>2 DEF DropsRecorded
<1> QED
  BY <1>7, <1>8, <1>9, <1>10 DEF ItemParts

\* What leaves a hand is dropped or goes to the transport.
LEMMA LeaveHand ==
  ASSUME IInv, NEW w \in Worker, NEW E \in SUBSET Item, NEW rest \in Seq(Item),
         E \subseteq Range(hand[w]),
         hand' = [hand EXCEPT ![w] = rest], Distinct(rest), Range(rest) = Range(hand[w]) \ E,
         rest # <<>> => handOf'[w] = handOf[w],
         \A v \in Worker : v # w => handOf'[v] = handOf[v],
         \A x \in Item : x \notin E => (x \in dropped' <=> x \in dropped) /\ place'[x] = place[x],
         \A x \in E : \/ x \in dropped' /\ place'[x] = place[x]
                      \/ x \notin dropped' /\ place'[x] # "outside",
         UNCHANGED <<buffer, added, taker>>
  PROVE  BufferInv' /\ HandInv' /\ ItemInv'
<1> USE DEF IInv
<1>1. \A x \in E : x \in Item /\ InHand(x, w)
  BY DEF HandInv
<1>2. \A x \in Item : InBuffer(x)' <=> InBuffer(x)
  BY <1>1, WorkerFacts DEF InBuffer, InHand
<1>3. \A x \in Item, v \in Worker : InHand(x, v)' <=> InHand(x, v) /\ x \notin E
  BY <1>1 DEF InHand
<1>4. BufferInv'
  BY <1>2 DEF BufferInv
<1>5. HandInv'
  <2> SUFFICES ASSUME NEW v \in Worker
               PROVE  /\ Distinct(hand'[v])
                      /\ Range(hand'[v]) = {x \in Item : InHand(x, v)'}
                      /\ \A x \in Range(hand'[v]) : CategoryOf[x] = handOf'[v]
    BY DEF HandInv
  <2>1. hand \in [Worker -> Seq(Item)]
    BY DEF TypeOK
  <2>2. /\ Distinct(hand[v]) /\ Range(hand[v]) = {x \in Item : InHand(x, v)}
        /\ \A x \in Range(hand[v]) : CategoryOf[x] = handOf[v]
    BY DEF HandInv
  <2>3. CASE v = w
    <3>1. hand'[v] = rest
      BY <2>1, <2>3
    <3>2. Range(rest) = {x \in Item : InHand(x, v)'}
      BY <1>3, <2>2, <2>3
    <3>3. \A x \in Range(rest) : CategoryOf[x] = handOf'[v]
      BY <2>2, <2>3, RangeFacts
    <3> QED
      BY <3>1, <3>2, <3>3
  <2>4. CASE v # w
    <3>1. hand'[v] = hand[v] /\ handOf'[v] = handOf[v]
      BY <2>1, <2>4
    <3>2. \A x \in Item : InHand(x, v)' <=> InHand(x, v)
      BY <1>1, <1>3, <2>4 DEF InHand
    <3> QED
      BY <2>2, <3>1, <3>2
  <2> QED
    BY <2>3, <2>4
<1>6. ItemInv'
  <2> SUFFICES ASSUME NEW x \in Item
               PROVE  /\ x \notin added' => x \notin dropped' /\ place'[x] = "outside" /\ taker'[x] = None
                      /\ place'[x] # "outside" => x \notin dropped' /\ taker'[x] # None
    BY DEF ItemInv
  <2>1. CASE x \in E
    BY <1>1, <2>1, WorkerFacts DEF InHand, ItemInv
  <2>2. CASE x \notin E
    BY <2>2 DEF ItemInv
  <2> QED
    BY <2>1, <2>2
<1> QED
  BY <1>4, <1>5, <1>6

LEMMA DiscardStep ==
  ASSUME IInv, NEW w \in Worker, Discard(w)
  PROVE  ItemParts'
<1> USE DEF IInv
<1>1. /\ hand' = [hand EXCEPT ![w] = <<>>] /\ handOf' = [handOf EXCEPT ![w] = None]
      /\ dropped' = dropped \cup Range(hand[w]) /\ recorded' = recorded \cup Range(hand[w])
      /\ UNCHANGED <<buffer, added, taker, place>>
  BY DEF Discard, DropRecorded, bufferVars, addVars, transportVars
<1>2. Distinct(<<>>) /\ <<>> \in Seq(Item) /\ Range(<<>>) = {}
  BY DEF Distinct, Range
<1>3. Range(hand[w]) \in SUBSET Item
  BY RangeFacts DEF TypeOK
<1>4. \A v \in Worker : v # w => handOf'[v] = handOf[v]
  BY <1>1 DEF TypeOK
<1>5. BufferInv' /\ HandInv' /\ ItemInv'
  BY <1>1, <1>2, <1>3, <1>4, LeaveHand
<1>6. DropsRecorded'
  BY <1>1 DEF DropsRecorded
<1> QED
  BY <1>5, <1>6 DEF ItemParts

LEMMA SendStep ==
  ASSUME IInv, NEW w \in Worker, SendItem(w)
  PROVE  ItemParts'
<1> USE DEF IInv
<1>1. PICK E \in SUBSET Item, rest \in Seq(Item), to \in {"pending", "settled", "refused"} :
           Sent(w, E, rest, to)
  BY SendLemma
<1> USE DEF Sent
<1>2. /\ rest # <<>> => handOf'[w] = handOf[w]
      /\ \A v \in Worker : v # w => handOf'[v] = handOf[v]
  BY <1>1 DEF TypeOK
<1>3. \A x \in E : x \in Item /\ InHand(x, w) /\ CategoryOf[x] = handOf[w]
  BY <1>1 DEF HandInv
<1>4. /\ \A x \in Item : x \notin E => (x \in dropped' <=> x \in dropped) /\ place'[x] = place[x]
      /\ \A x \in E : \/ x \in dropped' /\ place'[x] = place[x]
                      \/ x \notin dropped' /\ place'[x] # "outside"
  BY <1>1, <1>3 DEF InHand
<1>5. BufferInv' /\ HandInv' /\ ItemInv'
  BY <1>1, <1>2, <1>4, LeaveHand
<1>6. DropsRecorded'
  <2>1. CASE E \subseteq Unserializable /\ \E i \in E : recorded' = recorded \cup {i}
    <3>1. PICK i \in E : recorded' = recorded \cup {i}
      BY <2>1
    <3>2. dropped' = dropped \cup E
      BY <1>1, <2>1
    <3>3. CASE handOf[w] \in Batched
      BY <1>3, <2>1, <3>1, <3>2, <3>3 DEF DropsRecorded
    <3>4. CASE E = {i}
      BY <3>1, <3>2, <3>4 DEF DropsRecorded
    <3> QED
      BY <1>1, <3>3, <3>4
  <2>2. CASE ~(E \subseteq Unserializable) /\ recorded' = recorded
    <3>1. CASE handOf[w] \in Batched
      BY <1>1, <1>3, <2>2, <3>1 DEF DropsRecorded
    <3>2. CASE \E i \in Item : E = {i}
      <4>1. E \cap Unserializable = {}
        BY <2>2, <3>2
      <4> QED
        BY <1>1, <2>2, <4>1 DEF DropsRecorded
    <3> QED
      BY <1>1, <3>1, <3>2
  <2> QED
    BY <1>1, <2>1, <2>2
<1> QED
  BY <1>5, <1>6 DEF ItemParts

LEMMA SettleLemma ==
  ASSUME TypeOK, NEW i \in Item, TransportSettle(i)
  PROVE  /\ place[i] = "pending" /\ place' = [place EXCEPT ![i] = "settled"]
         /\ UNCHANGED <<buffer, hand, handOf, added, dropped, recorded, taker, pc, call, owed,
                        asked, todo, closed, timedOut>>
<1>1. place' = [x \in Item |-> IF x \in {i} THEN "settled" ELSE place[x]]
  BY DEF TransportSettle, Transport!Settle, Transport!Move
<1>2. place' = [place EXCEPT ![i] = "settled"]
  BY <1>1 DEF TypeOK
<1> QED
  BY <1>2 DEF TransportSettle, Transport!Settle, bufferVars, handVars, addVars, dropVars,
              flushVars, stopVars

LEMMA ItemStep ==
  ASSUME IInv, [Next]_vars
  PROVE  ItemParts'
<1> USE DEF IInv
<1>1. ASSUME NEW i \in Item, TransportSettle(i) PROVE ItemParts'
  <2>1. /\ place[i] = "pending" /\ \A x \in Item : place'[x] = IF x = i THEN "settled" ELSE place[x]
        /\ UNCHANGED <<buffer, hand, handOf, added, dropped, recorded, taker>>
    BY <1>1, SettleLemma DEF TypeOK
  <2>2. \A x \in Item : InBuffer(x)' <=> InBuffer(x)
    BY <2>1 DEF InBuffer
  <2>3. \A x \in Item, w \in Worker : InHand(x, w)' <=> InHand(x, w)
    BY <2>1 DEF InHand
  <2>4. BufferInv' /\ HandInv'
    BY <2>1, <2>2, <2>3 DEF BufferInv, HandInv
  <2>5. ItemInv'
    BY <2>1 DEF ItemInv
  <2>6. DropsRecorded'
    BY <2>1 DEF DropsRecorded
  <2> QED
    BY <2>4, <2>5, <2>6 DEF ItemParts
<1>2. CASE Still /\ \A w \in Worker : handOf'[w] = handOf[w] \/ hand[w] = <<>>
  <2>1. BufferInv' /\ ItemInv' /\ DropsRecorded'
    BY <1>2 DEF Still, BufferInv, ItemInv, DropsRecorded, InBuffer
  <2>2. HandInv'
    <3>1. \A w \in Worker : hand[w] = <<>> => Range(hand[w]) = {}
      BY DEF Range
    <3>2. \A x \in Item, w \in Worker : InHand(x, w)' <=> InHand(x, w)
      BY <1>2 DEF Still, InHand
    <3> QED
      BY <1>2, <3>1, <3>2 DEF Still, HandInv
  <2> QED
    BY <2>1, <2>2 DEF ItemParts
<1> QED
  BY <1>1, <1>2, StepKinds, AddStep, TakeStep, DiscardStep, SendStep

-----------------------------------------------------------------------------
(* Each part of the invariant holds in the next state: the types *)

ItemTypes ==
  /\ buffer \in [Category -> Seq(Item)]
  /\ \A c \in Category : Len(buffer[c]) <= Capacity[c]
  /\ added \in SUBSET Item
  /\ hand \in [Worker -> Seq(Item)]
  /\ dropped \in SUBSET Item
  /\ recorded \in SUBSET Item
  /\ taker \in [Item -> Worker \cup {None}]
  /\ place \in [Item -> Transport!Places]

LEMMA ItemTypesStep ==
  ASSUME IInv, [Next]_vars
  PROVE  ItemTypes'
<1>0. ItemTypes /\ TypeOK /\ BufferInv /\ HandInv /\ ControlInv
  BY DEF IInv, TypeOK, ItemTypes
<1> USE DEF ItemTypes
<1>1. ASSUME NEW i \in Item, Add(i) PROVE ItemTypes'
  <2>1. PICK D \in SUBSET Item, b \in Seq(Item) :
           AddedWith(i, D, b)
    BY <1>0, <1>1, AddLemma
  <2> QED
    BY <1>0, <2>1 DEF AddedWith
<1>2. ASSUME NEW i \in Item, TransportSettle(i) PROVE ItemTypes'
  BY <1>0, <1>2, SettleLemma DEF Transport!Places
<1>3. ASSUME NEW w \in Worker, NEW c \in Category, NEW n \in Nat, Taking(w, c, n) PROVE ItemTypes'
  <2>1. n # 0 /\ n <= Len(buffer[c]) /\ TakeOut(w, c, n)
    BY <1>3 DEF Taking
  <2>2. PICK T \in SUBSET Item, h \in Seq(Item), b \in Seq(Item) :
           Took(w, c, n, T, h, b)
    BY <1>0, <2>1, TakeLemma
  <2> QED
    BY <1>0, <1>3, <2>2 DEF Taking, Took
<1>4. ASSUME NEW w \in Worker, Discard(w) PROVE ItemTypes'
  <2>1. Range(hand[w]) \subseteq Item
    BY <1>0, RangeFacts
  <2> QED
    BY <1>0, <1>4, <2>1 DEF Discard, DropRecorded, bufferVars, addVars, transportVars
<1>5. ASSUME NEW w \in Worker, SendItem(w) PROVE ItemTypes'
  <2>1. PICK E \in SUBSET Item, rest \in Seq(Item), to \in {"pending", "settled", "refused"} :
           Sent(w, E, rest, to)
    BY <1>0, <1>5, SendLemma
  <2> QED
    BY <1>0, <2>1 DEF Sent, Transport!Places
<1>6. CASE Still
  BY <1>0, <1>6 DEF Still
<1> QED
  BY <1>0, <1>1, <1>2, <1>3, <1>4, <1>5, <1>6, StepKinds

PcSet == {"check", "park", "waiting", "awake", "turn", "poll", "exited",
          "idle", "buffers", "dispatch", "send", "transport", "returned",
          "cancel", "broadcast", "join", "stopped"}

OtherTypes ==
  /\ due \in SUBSET Timed
  /\ signalling \in SUBSET Item
  /\ pc \in [Worker -> PcSet]
  /\ handOf \in [Worker -> Category \cup {None}]
  /\ todo \in [Caller -> SUBSET Category]
  /\ cycle \in Cycles
  /\ cyclePos \in 0 .. CycleLength - 1
  /\ {cancelled, ticker, closed, timedOut} \subseteq BOOLEAN
  /\ asked \in [Caller -> SUBSET Item]
  /\ call \in [Caller -> {"idle", "waiting", "true", "false"}]
  /\ owed \in [Caller -> SUBSET Item]

LEMMA TypeParts == TypeOK <=> ItemTypes /\ OtherTypes
  BY DEF TypeOK, ItemTypes, OtherTypes, PcSet

LEMMA OtherTypesStep ==
  ASSUME IInv, [Next]_vars
  PROVE  OtherTypes'
<1>0. OtherTypes /\ ItemTypes /\ TypeOK /\ ControlInv /\ BufferInv /\ HandInv
  BY TypeParts DEF IInv
<1> USE WorkerFacts DEF OtherTypes, PcSet, bufferVars, addVars, handVars, cycleVars, stopVars, dropVars,
     flushVars, transportVars
<1>1. ASSUME NEW i \in Item, Add(i) \/ Signal(i) PROVE OtherTypes'
  BY <1>0, <1>1 DEF Add, Signal, Woken
<1>2. ASSUME NEW i \in Item, TransportSettle(i) PROVE OtherTypes'
  BY <1>0, <1>2 DEF TransportSettle, Transport!Settle
<1>3. ASSUME (\E c \in Category : Elapse(c)) \/ Ticker PROVE OtherTypes'
  BY <1>0, <1>3 DEF Elapse, Ticker, Tick, TickerExit, Woken
<1>4. CASE Check \/ Park \/ Awake
  BY <1>0, <1>4 DEF Check, Park, Awake, RunTo, Go
<1>5. CASE TakeTurn
  <2>1. cyclePos' \in 0 .. CycleLength - 1
    <3>1. cyclePos' = (cyclePos + 1) % CycleLength /\ cyclePos \in Nat
      BY <1>0, <1>5 DEF TakeTurn, NextTurn
    <3> QED
      BY <3>1, CycleFacts
  <2> QED
    BY <1>0, <1>5, <2>1 DEF TakeTurn, NextTurn, Go
<1>6. CASE Poll
  <2>1. UNCHANGED <<signalling, todo, cycle, cyclePos, cancelled, ticker, closed, timedOut, asked, call, owed>>
    BY <1>6 DEF Poll
  <2>2. due' \in SUBSET Timed /\ pc' \in [Worker -> PcSet] /\ handOf' \in [Worker -> Category \cup {None}]
    BY <1>0, <1>6 DEF Poll, Go
  <2> QED
    BY <1>0, <2>1, <2>2
<1>7. ASSUME NEW w \in Worker, Discard(w) \/ Dispatch(w) PROVE OtherTypes'
  BY <1>0, <1>7 DEF Discard, Dispatch, Go, Home
<1>8. ASSUME NEW w \in Worker, SendItem(w) PROVE OtherTypes'
  <2>1. UNCHANGED <<due, signalling, cycle, cyclePos, cancelled, ticker, closed, timedOut, asked, todo>>
    BY <1>8 DEF SendItem
  <2>2. UNCHANGED <<call, owed>>
    BY <1>0, <1>8, SendLemma DEF Sent
  <2>3. /\ \E x : pc' = [pc EXCEPT ![w] = x] /\ x \in {"check", "buffers", "send"}
        /\ \E x : handOf' = [handOf EXCEPT ![w] = x] /\ x \in {None, handOf[w]}
    BY <1>8 DEF SendItem, Go, Home
  <2> QED
    BY <1>0, <2>1, <2>2, <2>3
<1>9. ASSUME NEW f \in Caller, Flush(f) PROVE OtherTypes'
  <2>1. Buffered \subseteq Item
    BY <1>0, RangeFacts DEF Buffered, ItemTypes
  <2>2. Held \subseteq Item
    BY <1>0, RangeFacts DEF Held, ItemTypes
  <2>3. Transport!Pending \subseteq Item
    BY DEF Transport!Pending
  <2> QED
    BY <1>0, <1>9, <2>1, <2>2, <2>3 DEF Flush, Go
<1>10. ASSUME NEW f \in Caller, NEW c \in Category, FlushBuffer(f, c) PROVE OtherTypes'
  BY <1>0, <1>10 DEF FlushBuffer, Go
<1>11. ASSUME NEW f \in Caller, FlushTransport(f) PROVE OtherTypes'
  <2>1. Transport!Pending \subseteq Item
    BY DEF Transport!Pending
  <2> QED
    BY <1>0, <1>11, <2>1 DEF FlushTransport, Transport!FlushCall, Go
<1>12. ASSUME NEW f \in Caller, FlushReturn(f) PROVE OtherTypes'
  BY <1>0, <1>12 DEF FlushReturn, Transport!FlushTrue, Transport!FlushFalse, Go
<1>13. ASSUME NEW s \in Stopper, Stopping(s) PROVE OtherTypes'
  <2>1. s \in Worker
    BY DEF Worker, Caller
  <2> QED
    BY <1>0, <1>13, <2>1 DEF Stopping, StopCancel, StopBroadcast, StopReturn, TransportClose, Woken, Go
<1>14. CASE UNCHANGED vars
  BY <1>0, <1>14 DEF vars
<1> QED
  BY <1>1, <1>2, <1>3, <1>4, <1>5, <1>6, <1>7, <1>8, <1>9, <1>10, <1>11, <1>12, <1>13, <1>14
     DEF Next, Running, Processing, Flushing


LEMMA TypeStep ==
  ASSUME IInv, [Next]_vars
  PROVE  TypeOK'
<1>1. ItemTypes' /\ OtherTypes'
  BY ItemTypesStep, OtherTypesStep
<1> QED
  BY <1>1, TypeParts DEF TypeOK, ItemTypes, OtherTypes, PcSet

-----------------------------------------------------------------------------
(* Where run, the flushes and Stop are *)

LEMMA ControlStep ==
  ASSUME IInv, [Next]_vars
  PROVE  ControlInv'
<1>0. ControlInv /\ OtherTypes /\ hand \in [Worker -> Seq(Item)] /\ TypeOK /\ HandInv
  BY TypeParts DEF IInv, ItemTypes
<1> USE WorkerFacts DEF OtherTypes, PcSet, ControlInv, Emptying, Stops, Caller
<1>1. CASE UNCHANGED <<pc, hand, handOf, call>>
  BY <1>0, <1>1
<1>2. ASSUME UNCHANGED <<hand, handOf, call>>, pc' = Woken(pc)
      PROVE  ControlInv'
  BY <1>0, <1>2 DEF Woken
<1>3. CASE Check \/ Park \/ Awake
  <2>1. /\ UNCHANGED <<hand, handOf, call>> /\ pc[Runner] \in {"check", "park", "awake"}
        /\ \E x \in {"awake", "park", "waiting", "exited", "turn"} : pc' = [pc EXCEPT ![Runner] = x]
    BY <1>3 DEF Check, Park, Awake, RunTo, Go, handVars, transportVars
  <2> QED
    BY <1>0, <2>1
<1>4. CASE TakeTurn
  <2>1. UNCHANGED <<hand, call>> /\ pc[Runner] = "turn"
    BY <1>4 DEF TakeTurn, transportVars
  <2>2. \/ pc' = [pc EXCEPT ![Runner] = "check"] /\ handOf' = handOf
        \/ \E c \in Category : /\ handOf' = [handOf EXCEPT ![Runner] = c]
                               /\ pc' = [pc EXCEPT ![Runner] = "poll"]
    BY <1>4 DEF TakeTurn, Go
  <2> QED
    BY <1>0, <2>1, <2>2
<1>5. ASSUME NEW w \in Worker, NEW c \in Category, NEW n \in Nat, Taking(w, c, n),
             pc[w] \in {"poll", "buffers"}, call' = call,
             BufferInv
      PROVE  ControlInv'
  <2>1. n # 0 /\ n <= Len(buffer[c]) /\ TakeOut(w, c, n)
    BY <1>5 DEF Taking
  <2>2. PICK T \in SUBSET Item, h \in Seq(Item), b \in Seq(Item) :
           Took(w, c, n, T, h, b)
    BY <1>0, <1>5, <2>1, TakeLemma
  <2>3. pc' = [pc EXCEPT ![w] = "dispatch"] /\ handOf' = [handOf EXCEPT ![w] = c]
    BY <1>5 DEF Taking
  <2>4. hand' = [hand EXCEPT ![w] = h] /\ h # <<>>
    BY <2>2 DEF Took
  <2> QED
    BY <1>0, <1>5, <2>3, <2>4
<1>6. CASE Poll
  <2>1. pc[Runner] = "poll" /\ call' = call /\ BufferInv
    BY <1>6 DEF Poll, transportVars, IInv
  <2>2. CASE /\ Still /\ hand[Runner] = <<>>
             /\ pc' = [pc EXCEPT ![Runner] = "check"]
             /\ handOf' = [handOf EXCEPT ![Runner] = None]
    BY <1>0, <2>1, <2>2 DEF Still
  <2> QED
    BY <1>0, <1>5, <1>6, <2>1, <2>2, PollTakes
<1>7. ASSUME NEW w \in Worker, Discard(w) PROVE ControlInv'
  <2>1. /\ pc[w] = "dispatch" /\ pc' = [pc EXCEPT ![w] = Home(w)] /\ call' = call
        /\ hand' = [hand EXCEPT ![w] = <<>>] /\ handOf' = [handOf EXCEPT ![w] = None]
    BY <1>7 DEF Discard, Go, transportVars
  <2> QED
    BY <1>0, <2>1 DEF Home
<1>8. ASSUME NEW w \in Worker, Dispatch(w) PROVE ControlInv'
  BY <1>0, <1>8 DEF Dispatch, Go, handVars, transportVars
<1>9. ASSUME NEW w \in Worker, SendItem(w) PROVE ControlInv'
  <2>1. PICK rest \in Seq(Item) :
          /\ hand' = [hand EXCEPT ![w] = rest]
          /\ handOf' = [handOf EXCEPT ![w] = IF rest = <<>> THEN None ELSE @]
          /\ pc' = [pc EXCEPT ![w] = IF rest = <<>> THEN Home(w) ELSE "send"]
          /\ call' = call
    BY <1>0, <1>9, SendLemma DEF Sent
  <2>2. pc[w] = "send"
    BY <1>9 DEF SendItem
  <2> QED
    BY <1>0, <2>1, <2>2 DEF Home
<1>10. ASSUME NEW f \in Caller, Flush(f) PROVE ControlInv'
  BY <1>0, <1>10 DEF Flush, Go, handVars, transportVars
<1>11. ASSUME NEW f \in Caller, NEW c \in Category, FlushBuffer(f, c) PROVE ControlInv'
  <2>1. pc[f] = "buffers" /\ call' = call /\ BufferInv /\ f \in Worker
    BY <1>11 DEF FlushBuffer, transportVars, IInv
  <2>2. CASE Still /\ UNCHANGED <<pc, handOf>>
    BY <1>1, <2>1, <2>2 DEF Still
  <2> QED
    BY <1>0, <1>5, <1>11, <2>1, <2>2, FlushTakes
<1>12. ASSUME NEW f \in Caller, FlushTransport(f) PROVE ControlInv'
  BY <1>0, <1>12 DEF FlushTransport, Transport!FlushCall, Go, handVars
<1>13. ASSUME NEW f \in Caller, FlushReturn(f) PROVE ControlInv'
  <2>1. /\ UNCHANGED <<hand, handOf>> /\ pc[f] = "transport"
        /\ pc' = [pc EXCEPT ![f] = IF f \in Stopper THEN "cancel" ELSE "returned"]
        /\ \E x \in {"true", "false"} : call' = [call EXCEPT ![f] = x]
    BY <1>13 DEF FlushReturn, Transport!FlushTrue, Transport!FlushFalse, Go, handVars
  <2> QED
    BY <1>0, <2>1, ZenonT(40)
<1>14. ASSUME NEW s \in Stopper, Stopping(s) PROVE ControlInv'
  <2>1. UNCHANGED <<hand, handOf, call>> /\ s \in Caller /\ s # Runner /\ s \in Worker
    BY <1>14 DEF Stopping, StopCancel, StopBroadcast, StopReturn, TransportClose, handVars, transportVars
  <2>2. CASE StopCancel(s)
    BY <1>0, <2>1, <2>2 DEF StopCancel, Go
  <2>3. CASE StopBroadcast(s)
    <3>1. pc[s] = "broadcast" /\ pc' = [Woken(pc) EXCEPT ![s] = "join"]
      BY <2>3 DEF StopBroadcast
    <3> QED
      BY <1>0, <2>1, <3>1 DEF Woken
  <2>4. CASE StopReturn(s)
    BY <1>0, <2>1, <2>4 DEF StopReturn, Go
  <2>5. CASE TransportClose(s)
    BY <1>1, <2>1, <2>5 DEF TransportClose
  <2> QED
    BY <1>14, <2>2, <2>3, <2>4, <2>5 DEF Stopping
<1>15. ASSUME NEW i \in Item, Add(i) \/ TransportSettle(i) PROVE ControlInv'
  BY <1>1, <1>15 DEF Add, TransportSettle, Transport!Settle, handVars, transportVars
<1>16. ASSUME (\E i \in Item : Signal(i)) \/ Tick PROVE ControlInv'
  BY <1>2, <1>16 DEF Signal, Tick, handVars, transportVars
<1>17. ASSUME (\E c \in Category : Elapse(c)) \/ TickerExit \/ UNCHANGED vars PROVE ControlInv'
  BY <1>1, <1>17 DEF Elapse, TickerExit, vars, handVars, transportVars
<1> HIDE DEF OtherTypes, PcSet, ControlInv, Emptying, Stops, Caller
<1> QED
  BY <1>3, <1>4, <1>6, <1>7, <1>8, <1>9, <1>10, <1>11, <1>12, <1>13, <1>14, <1>15, <1>16, <1>17
     DEF Next, Running, Processing, Flushing, Ticker

-----------------------------------------------------------------------------
(* What a flush found *)

\* A step keeps FlushInv when no item returns to a buffer, a buffer that is looked at
\* is empty then, and no flush that has finished with the buffers gets another item.
LEMMA FlushKept ==
  ASSUME IInv,
         UNCHANGED <<asked, call, owed>>,
         \A f \in Caller : pc[f] \in Emptying => pc'[f] \in Emptying,
         added \subseteq added', dropped \subseteq dropped',
         \A i \in Item : i \in added /\ InBuffer(i)' => InBuffer(i),
         \A f \in Caller : \A i \in asked[f] :
            InBuffer(i)' /\ CategoryOf[i] \in todo[f] => CategoryOf[i] \in todo'[f],
         \A i \in Item, f \in Caller : taker'[i] = f /\ call[f] # "idle" =>
            taker[i] = f /\ place'[i] \in {place[i], "settled"}
  PROVE  FlushInv'
<1> SUFFICES ASSUME NEW f \in Caller
             PROVE  /\ \A i \in asked[f] : /\ i \in added'
                                           /\ InBuffer(i)' => pc'[f] \in Emptying /\ CategoryOf[i] \in todo'[f]
                    /\ \A i \in Item : taker'[i] = f =>
                         /\ call[f] = "waiting" /\ place'[i] = "pending" => i \in owed[f]
                         /\ call[f] = "true" => i \in dropped' \/ place'[i] = "settled"
  BY DEF FlushInv
<1>1. /\ \A i \in asked[f] : /\ i \in added
                             /\ InBuffer(i) => pc[f] \in Emptying /\ CategoryOf[i] \in todo[f]
      /\ \A i \in Item : taker[i] = f =>
           /\ call[f] = "waiting" /\ place[i] = "pending" => i \in owed[f]
           /\ call[f] = "true" => i \in dropped \/ place[i] = "settled"
  BY DEF IInv, FlushInv
<1>2. \A i \in asked[f] : i \in Item
  BY DEF IInv, TypeOK
<1> QED
  BY <1>1, <1>2

LEMMA FlushStep ==
  ASSUME IInv, [Next]_vars
  PROVE  FlushInv'
<1>0. TypeOK /\ BufferInv /\ HandInv /\ ItemInv /\ ControlInv /\ FlushInv
  BY DEF IInv
<1>i. \A f \in Caller : pc[f] \in {"idle"} \cup Emptying => call[f] = "idle"
  BY <1>0 DEF ControlInv
<1> USE WorkerFacts
<1>1. ASSUME Still, UNCHANGED <<asked, call, owed, todo>>,
             \A f \in Caller : pc[f] \in Emptying => pc'[f] \in Emptying
      PROVE  FlushInv'
  <2>1. \A i \in Item : InBuffer(i)' <=> InBuffer(i)
    BY <1>1 DEF Still, InBuffer
  <2> QED
    BY <1>1, <2>1, FlushKept DEF Still
<1>2. ASSUME NEW w \in Worker, NEW c \in Category, NEW n \in Nat, Taking(w, c, n),
             UNCHANGED <<asked, call, owed>>, pc[w] \in {"poll", "buffers"},
             \A f \in Caller : \A i \in asked[f] :
               InBuffer(i)' /\ CategoryOf[i] \in todo[f] => CategoryOf[i] \in todo'[f]
      PROVE  FlushInv'
  <2>1. n # 0 /\ n <= Len(buffer[c]) /\ TakeOut(w, c, n)
    BY <1>2 DEF Taking
  <2>2. PICK T \in SUBSET Item, h \in Seq(Item), b \in Seq(Item) : Took(w, c, n, T, h, b)
    BY <1>0, <2>1, TakeLemma
  <2>3. \A i \in Item : taker'[i] = IF i \in T THEN w ELSE taker[i]
    BY <2>2 DEF Took
  <2>4. UNCHANGED <<added, dropped, place>> /\ pc' = [pc EXCEPT ![w] = "dispatch"]
    BY <1>2 DEF Taking
  <2>5. \A i \in Item : InBuffer(i)' => InBuffer(i)
    BY <2>3, <2>4 DEF InBuffer
  <2>6. \A f \in Caller : pc[f] \in Emptying => pc'[f] \in Emptying
    BY <1>0, <2>4 DEF Emptying, TypeOK
  <2>7. w \in Caller => call[w] = "idle"
    BY <1>2, <1>i, <1>0 DEF ControlInv, Emptying, Stops
  <2> QED
    BY <1>2, <2>3, <2>4, <2>5, <2>6, <2>7, FlushKept
<1>3. ASSUME NEW i \in Item, Add(i) PROVE FlushInv'
  <2>1. PICK D \in SUBSET Item, b \in Seq(Item) : AddedWith(i, D, b)
    BY <1>0, <1>3, AddLemma
  <2>2. /\ added' = added \cup {i} /\ i \notin added /\ dropped' = dropped \cup D
        /\ UNCHANGED <<taker, place>>
    BY <2>1 DEF AddedWith
  <2>3. \A x \in Item : x \in added /\ InBuffer(x)' => InBuffer(x)
    BY <2>2 DEF InBuffer
  <2>4. UNCHANGED <<asked, call, owed, todo, pc>>
    BY <1>3 DEF Add, flushVars, transportVars
  <2> QED
    BY <2>2, <2>3, <2>4, FlushKept
<1>4. ASSUME NEW i \in Item, TransportSettle(i) PROVE FlushInv'
  <2>1. /\ place' = [place EXCEPT ![i] = "settled"] /\ place[i] = "pending"
        /\ UNCHANGED <<added, dropped, taker, pc, call, owed, asked, todo>>
    BY <1>0, <1>4, SettleLemma
  <2>2. \A x \in Item : place'[x] \in {place[x], "settled"} /\ (place'[x] = "outside" <=> place[x] = "outside")
    BY <1>0, <2>1 DEF TypeOK
  <2>3. \A x \in Item : InBuffer(x)' => InBuffer(x)
    BY <2>1, <2>2 DEF InBuffer
  <2> QED
    BY <2>1, <2>2, <2>3, FlushKept
<1>5. ASSUME NEW w \in Worker, Discard(w) PROVE FlushInv'
  <2>1. /\ dropped' = dropped \cup Range(hand[w]) /\ pc' = [pc EXCEPT ![w] = Home(w)]
        /\ UNCHANGED <<added, taker, place, asked, call, owed, todo>>
    BY <1>5 DEF Discard, DropRecorded, Go, addVars, transportVars, flushVars
  <2>2. \A f \in Caller : pc[f] \in Emptying => pc'[f] \in Emptying
    BY <1>0, <2>1 DEF Emptying, TypeOK, Home
  <2>3. \A x \in Item : InBuffer(x)' => InBuffer(x)
    BY <2>1 DEF InBuffer
  <2> QED
    BY <2>1, <2>2, <2>3, FlushKept
<1>6. ASSUME NEW w \in Worker, SendItem(w) PROVE FlushInv'
  <2>1. PICK E \in SUBSET Item, rest \in Seq(Item), to \in {"pending", "settled", "refused"} :
          Sent(w, E, rest, to)
    BY <1>0, <1>6, SendLemma
  <2>2. /\ pc' = [pc EXCEPT ![w] = IF rest = <<>> THEN Home(w) ELSE "send"]
        /\ place' = [i \in Item |-> IF i \in E \ Unserializable THEN to ELSE place[i]]
        /\ dropped' = dropped \cup (E \cap Unserializable)
        /\ UNCHANGED <<added, taker, call, owed>>
        /\ E \subseteq Range(hand[w])
    BY <2>1 DEF Sent
  <2>3. UNCHANGED <<asked, todo>> /\ pc[w] = "send"
    BY <1>6 DEF SendItem, flushVars
  <2>4. \A x \in E : InHand(x, w)
    BY <1>0, <2>2 DEF HandInv
  <2>5. \A f \in Caller : pc[f] \in Emptying => pc'[f] \in Emptying
    BY <1>0, <2>2 DEF Emptying, TypeOK, Home
  <2>6. \A x \in Item : InBuffer(x)' => InBuffer(x)
    <3>1. \A x \in Item : x \in E => ~InBuffer(x)'
      BY <2>2, <2>4 DEF InBuffer, InHand
    <3>2. \A x \in Item : x \notin E => (InBuffer(x)' => InBuffer(x))
      BY <2>2 DEF InBuffer
    <3> QED
      BY <3>1, <3>2
  <2>7. w \in Caller => call[w] = "idle"
    BY <2>3, <1>i DEF Emptying
  <2>8. \A x \in Item, f \in Caller : taker'[x] = f /\ call[f] # "idle" =>
          taker[x] = f /\ place'[x] \in {place[x], "settled"}
    BY <2>2, <2>4, <2>7 DEF InHand
  <2> QED
    BY <2>2, <2>3, <2>5, <2>6, <2>8, FlushKept
<1>7. CASE Poll
  <2>1. UNCHANGED <<asked, call, owed, todo>> /\ pc[Runner] = "poll"
    BY <1>7 DEF Poll, flushVars, transportVars
  <2>2. CASE Still /\ pc' = [pc EXCEPT ![Runner] = "check"]
    <3>1. \A f \in Caller : pc'[f] = pc[f]
      BY <1>0, <2>2 DEF TypeOK
    <3> QED
      BY <1>1, <2>1, <2>2, <3>1
  <2> QED
    BY <1>0, <1>2, <1>7, <2>1, <2>2, PollTakes
<1>8. ASSUME NEW f \in Caller, NEW c \in Category, FlushBuffer(f, c) PROVE FlushInv'
  <2>1. /\ pc[f] = "buffers" /\ todo' = [todo EXCEPT ![f] = @ \ {c}]
        /\ UNCHANGED <<asked, call, owed>>
    BY <1>8 DEF FlushBuffer, transportVars
  <2>2. Range(buffer'[c]) = {}
    <3>1. CASE Taking(f, c, Len(buffer[c])) /\ Len(buffer[c]) \in Nat
      <4>1. Len(buffer[c]) # 0 /\ Len(buffer[c]) <= Len(buffer[c]) /\ TakeOut(f, c, Len(buffer[c]))
        BY <3>1 DEF Taking
      <4>2. PICK T \in SUBSET Item, h \in Seq(Item), b \in Seq(Item) :
              Took(f, c, Len(buffer[c]), T, h, b)
        BY <1>0, <3>1, <4>1, TakeLemma
      <4>3. buffer' = [buffer EXCEPT ![c] = b] /\ Range(b) = {}
        BY <4>2 DEF Took
      <4> QED
        BY <1>0, <4>3 DEF TypeOK
    <3>2. CASE Still /\ buffer[c] = <<>>
      BY <3>2 DEF Still, Range
    <3> QED
      BY <1>0, <1>8, <3>1, <3>2, FlushTakes
  <2>3. BufferInv'
    BY ItemStep DEF ItemParts
  <2>4. \A i \in Item : InBuffer(i)' => CategoryOf[i] # c
    BY <2>2, <2>3 DEF BufferInv
  <2>5. \A g \in Caller : \A i \in asked[g] :
          InBuffer(i)' /\ CategoryOf[i] \in todo[g] => CategoryOf[i] \in todo'[g]
    <3>1. \A g \in Caller : asked[g] \subseteq Item
      BY <1>0 DEF TypeOK
    <3>2. \A g \in Caller : todo'[g] = IF g = f THEN todo[g] \ {c} ELSE todo[g]
      BY <1>0, <2>1 DEF TypeOK
    <3> QED
      BY <2>4, <3>1, <3>2
  <2>6. CASE Still /\ UNCHANGED <<pc, handOf>>
    <3>1. \A i \in Item : InBuffer(i)' => InBuffer(i)
      BY <2>6 DEF Still, InBuffer
    <3>2. UNCHANGED <<added, dropped, place, taker, pc>>
      BY <2>6 DEF Still
    <3> QED
      BY <2>1, <2>5, <3>1, <3>2, FlushKept
  <2> QED
    BY <1>0, <1>2, <1>8, <2>1, <2>5, <2>6, FlushTakes
<1>9. ASSUME NEW f \in Caller, Flush(f) PROVE FlushInv'
  <2>1. /\ pc[f] = "idle" /\ pc' = [pc EXCEPT ![f] = "buffers"]
        /\ todo' = [todo EXCEPT ![f] = Category]
        /\ asked' = [asked EXCEPT ![f] = Buffered \cup Held \cup Transport!Pending]
        /\ UNCHANGED <<added, dropped, place, taker, call, owed>>
    BY <1>9 DEF Flush, Go, addVars, dropVars, transportVars
  <2>2. \A i \in Buffered \cup Held \cup Transport!Pending : i \in added /\ CategoryOf[i] \in Category
    <3>1. \A i \in Buffered : i \in Item /\ i \in added
      BY <1>0 DEF Buffered, BufferInv, InBuffer
    <3>2. \A i \in Held : i \in Item /\ i \in added
      BY <1>0 DEF Held, HandInv, InHand
    <3>3. \A i \in Transport!Pending : i \in Item /\ i \in added
      BY <1>0 DEF Transport!Pending, ItemInv
    <3> QED
      BY <3>1, <3>2, <3>3, SchedulerAssumption
  <2>3. \A i \in Item : InBuffer(i)' <=> InBuffer(i)
    BY <2>1 DEF InBuffer
  <2>4. call[f] = "idle"
    BY <1>i, <2>1
  <2> SUFFICES ASSUME NEW g \in Caller
               PROVE  /\ \A i \in asked'[g] :
                           /\ i \in added
                           /\ InBuffer(i)' => pc'[g] \in Emptying /\ CategoryOf[i] \in todo'[g]
                      /\ \A i \in Item : taker[i] = g =>
                           /\ call[g] = "waiting" /\ place[i] = "pending" => i \in owed[g]
                           /\ call[g] = "true" => i \in dropped \/ place[i] = "settled"
    BY <2>1 DEF FlushInv
  <2>5. CASE g = f
    <3>1. asked'[g] = Buffered \cup Held \cup Transport!Pending /\ todo'[g] = Category /\ pc'[g] \in Emptying
      BY <1>0, <2>1, <2>5 DEF TypeOK, Emptying
    <3> QED
      BY <2>2, <2>4, <2>5, <3>1
  <2>6. CASE g # f
    <3>1. asked'[g] = asked[g] /\ todo'[g] = todo[g] /\ pc'[g] = pc[g]
      BY <1>0, <2>1, <2>6 DEF TypeOK
    <3>2. asked[g] \subseteq Item
      BY <1>0 DEF TypeOK
    <3> QED
      BY <1>0, <2>3, <3>1, <3>2 DEF FlushInv
  <2> QED
    BY <2>5, <2>6
<1>10. ASSUME NEW f \in Caller, FlushTransport(f) PROVE FlushInv'
  <2>1. /\ todo[f] = {} /\ pc' = [pc EXCEPT ![f] = "transport"]
        /\ call' = [call EXCEPT ![f] = "waiting"] /\ owed' = [owed EXCEPT ![f] = Transport!Pending]
        /\ UNCHANGED <<added, dropped, place, taker, todo, asked>>
    BY <1>10 DEF FlushTransport, Transport!FlushCall, Go, addVars, dropVars, flushVars
  <2>2. \A i \in Item : InBuffer(i)' <=> InBuffer(i)
    BY <2>1 DEF InBuffer
  <2> SUFFICES ASSUME NEW g \in Caller
               PROVE  /\ \A i \in asked[g] :
                           /\ i \in added
                           /\ InBuffer(i)' => pc'[g] \in Emptying /\ CategoryOf[i] \in todo[g]
                      /\ \A i \in Item : taker[i] = g =>
                           /\ call'[g] = "waiting" /\ place[i] = "pending" => i \in owed'[g]
                           /\ call'[g] = "true" => i \in dropped \/ place[i] = "settled"
    BY <2>1 DEF FlushInv
  <2>3. asked[g] \subseteq Item
    BY <1>0 DEF TypeOK
  <2>4. CASE g = f
    <3>1. call'[g] = "waiting" /\ owed'[g] = Transport!Pending /\ todo[g] = {}
      BY <1>0, <2>1, <2>4 DEF TypeOK
    <3> QED
      BY <1>0, <2>2, <2>3, <3>1 DEF FlushInv, Transport!Pending
  <2>5. CASE g # f
    <3>1. call'[g] = call[g] /\ owed'[g] = owed[g] /\ pc'[g] = pc[g]
      BY <1>0, <2>1, <2>5 DEF TypeOK
    <3> QED
      BY <1>0, <2>2, <2>3, <3>1 DEF FlushInv
  <2> QED
    BY <2>4, <2>5
<1>11. ASSUME NEW f \in Caller, FlushReturn(f) PROVE FlushInv'
  <2>1. /\ pc[f] = "transport" /\ call[f] = "waiting"
        /\ \E x : pc' = [pc EXCEPT ![f] = x]
        /\ \/ ~closed /\ owed[f] \cap Transport!Pending = {} /\ call' = [call EXCEPT ![f] = "true"]
           \/ call' = [call EXCEPT ![f] = "false"]
        /\ UNCHANGED <<added, dropped, place, taker, todo, asked, owed>>
    BY <1>11 DEF FlushReturn, Transport!FlushTrue, Transport!FlushFalse, Go, addVars, dropVars, flushVars
  <2>2. \A i \in Item : InBuffer(i)' <=> InBuffer(i)
    BY <2>1 DEF InBuffer
  <2> SUFFICES ASSUME NEW g \in Caller
               PROVE  /\ \A i \in asked[g] :
                           /\ i \in added
                           /\ InBuffer(i)' => pc'[g] \in Emptying /\ CategoryOf[i] \in todo[g]
                      /\ \A i \in Item : taker[i] = g =>
                           /\ call'[g] = "waiting" /\ place[i] = "pending" => i \in owed[g]
                           /\ call'[g] = "true" => i \in dropped \/ place[i] = "settled"
    BY <2>1 DEF FlushInv
  <2>3. asked[g] \subseteq Item
    BY <1>0 DEF TypeOK
  <2>4. CASE g = f
    <3>1. \A i \in asked[g] : i \in added /\ ~InBuffer(i)
      BY <1>0, <2>1, <2>3, <2>4 DEF FlushInv, Emptying
    <3>2. ASSUME NEW i \in Item, taker[i] = g, call'[g] = "true", i \notin dropped
          PROVE  place[i] = "settled"
      <4>1. ~closed /\ owed[f] \cap Transport!Pending = {}
        BY <1>0, <2>1, <2>4, <3>2 DEF TypeOK
      <4>2. place[i] # "pending"
        BY <1>0, <2>1, <2>4, <3>2, <4>1 DEF FlushInv, Transport!Pending
      <4>3. place[i] # "refused"
        BY <4>1 DEF IInv, StopInv
      <4>4. place[i] # "outside"
        <5>1. hand[f] = <<>>
          BY <1>0, <2>1 DEF ControlInv
        <5>2. Range(hand[f]) = {}
          BY <5>1 DEF Range
        <5>3. ~InHand(i, f)
          BY <1>0, <5>2 DEF HandInv
        <5>4. i \in added
          BY <1>0, <2>4, <3>2 DEF ItemInv
        <5> QED
          BY <2>4, <3>2, <5>3, <5>4 DEF InHand
      <4> QED
        BY <1>0, <4>2, <4>3, <4>4 DEF TypeOK, Transport!Places
    <3>3. call'[g] # "waiting"
      BY <1>0, <2>1, <2>4 DEF TypeOK
    <3> QED
      BY <2>2, <2>3, <3>1, <3>2, <3>3
  <2>5. CASE g # f
    <3>1. call'[g] = call[g] /\ pc'[g] = pc[g]
      BY <1>0, <2>1, <2>5 DEF TypeOK
    <3> QED
      BY <1>0, <2>2, <2>3, <3>1 DEF FlushInv
  <2> QED
    BY <2>4, <2>5
<1>12. ASSUME NEW w \in Worker, Dispatch(w) PROVE FlushInv'
  <2>1. /\ pc' = [pc EXCEPT ![w] = "send"] /\ Still /\ UNCHANGED <<asked, call, owed, todo>>
    BY <1>12 DEF Dispatch, Go, Still, bufferVars, handVars, addVars, transportVars, flushVars, dropVars
  <2>2. \A f \in Caller : pc[f] \in Emptying => pc'[f] \in Emptying
    BY <1>0, <2>1 DEF Emptying, TypeOK
  <2> QED
    BY <1>1, <2>1, <2>2
<1>13. ASSUME (\E i \in Item : Signal(i)) \/ (\E c \in Category : Elapse(c)) \/ Ticker
              \/ Check \/ Park \/ Awake \/ TakeTurn \/ UNCHANGED vars
       PROVE  FlushInv'
  <2>1. Still /\ UNCHANGED <<asked, call, owed, todo>>
    BY <1>13 DEF Signal, Elapse, Ticker, Tick, TickerExit, Check, Park, Awake, RunTo, TakeTurn, vars,
                 Still, bufferVars, handVars, addVars, transportVars, flushVars, dropVars
  <2>2. pc' = pc \/ \E x : pc' = [pc EXCEPT ![Runner] = x]
    BY <1>13 DEF Signal, Elapse, Ticker, Tick, TickerExit, Check, Park, Awake, RunTo, TakeTurn, vars,
                 Woken, Go
  <2>3. \A f \in Caller : pc'[f] = pc[f]
    BY <1>0, <2>2 DEF TypeOK
  <2> QED
    BY <1>1, <2>1, <2>3
<1>14. ASSUME NEW s \in Stopper, Stopping(s) PROVE FlushInv'
  <2>1. Still /\ UNCHANGED <<asked, call, owed, todo>>
    BY <1>14 DEF Stopping, StopCancel, StopBroadcast, StopReturn, TransportClose,
                 Still, bufferVars, handVars, addVars, transportVars, flushVars, dropVars
  <2>2. /\ pc[s] \in Stops
        /\ \E x : pc' = [pc EXCEPT ![s] = x] \/ pc' = [Woken(pc) EXCEPT ![s] = x] \/ pc' = pc
    BY <1>14 DEF Stopping, StopCancel, StopBroadcast, StopReturn, TransportClose, Go, Stops
  <2>3. \A f \in Caller : f # s => pc'[f] = pc[f]
    BY <1>0, <2>2 DEF TypeOK, Woken
  <2>4. pc[s] \notin Emptying
    BY <2>2 DEF Stops, Emptying
  <2> QED
    BY <1>1, <2>1, <2>3, <2>4
<1> QED
  BY <1>3, <1>4, <1>5, <1>6, <1>7, <1>8, <1>9, <1>10, <1>11, <1>12, <1>13, <1>14
     DEF Next, Running, Processing, Flushing

-----------------------------------------------------------------------------
(* The end of the scheduler *)

LEMMA StopKept ==
  ASSUME IInv, closed' = closed, timedOut => timedOut',
         pc[Runner] = "exited" => pc'[Runner] = "exited",
         \A s \in Stopper : pc'[s] = "stopped" <=> pc[s] = "stopped",
         \A i \in Item : place'[i] = "refused" =>
            \/ place[i] = "refused" /\ taker'[i] = taker[i]
            \/ closed /\ (timedOut \/ taker'[i] \in Flusher)
  PROVE  StopInv'
  BY DEF IInv, StopInv

LEMMA StopStep ==
  ASSUME IInv, [Next]_vars
  PROVE  StopInv'
<1>0. TypeOK /\ BufferInv /\ HandInv /\ ItemInv /\ ControlInv /\ StopInv
  BY DEF IInv
<1> USE WorkerFacts
<1>s. \A s \in Stopper : s \in Caller /\ s \in Worker
  BY DEF Caller, Worker
\* Most steps neither end run nor Stop, nor move an item to the transport.
<1>1. ASSUME UNCHANGED <<closed, place, taker>>, timedOut => timedOut',
             NEW w \in Worker, NEW to, pc' = [pc EXCEPT ![w] = to],
             pc[w] \notin {"exited", "stopped"}, to # "stopped"
      PROVE  StopInv'
  <2>1. \A v \in Worker : pc'[v] = IF v = w THEN to ELSE pc[v]
    BY <1>0, <1>1 DEF TypeOK
  <2> QED
    BY <1>s, <1>1, <2>1, StopKept
<1>2. ASSUME UNCHANGED <<closed, timedOut, pc, place, taker>> PROVE StopInv'
  BY <1>2, StopKept
<1>3. ASSUME UNCHANGED <<closed, timedOut, place, taker>>, pc' = Woken(pc) PROVE StopInv'
  <2>1. \A v \in Worker : pc'[v] = IF v = Runner /\ pc[v] = "waiting" THEN "check" ELSE pc[v]
    BY <1>0, <1>3 DEF TypeOK, Woken
  <2> QED
    BY <1>s, <1>3, <2>1, StopKept
<1>4. ASSUME NEW w \in Worker, NEW c \in Category, NEW n \in Nat, Taking(w, c, n),
             UNCHANGED <<closed, timedOut>>, pc[w] \in {"poll", "buffers"}
      PROVE  StopInv'
  <2>1. n # 0 /\ n <= Len(buffer[c]) /\ TakeOut(w, c, n)
    BY <1>4 DEF Taking
  <2>2. PICK T \in SUBSET Item, h \in Seq(Item), b \in Seq(Item) : Took(w, c, n, T, h, b)
    BY <1>0, <2>1, TakeLemma
  <2>3. (\A i \in Item : taker'[i] = IF i \in T THEN w ELSE taker[i]) /\ T \subseteq Range(buffer[c])
    BY <2>2 DEF Took
  <2>4. UNCHANGED place /\ pc' = [pc EXCEPT ![w] = "dispatch"]
    BY <1>4 DEF Taking
  <2>5. \A i \in T : place[i] = "outside"
    BY <1>0, <2>3 DEF BufferInv, InBuffer
  <2>6. \A v \in Worker : pc'[v] = IF v = w THEN "dispatch" ELSE pc[v]
    BY <1>0, <2>4 DEF TypeOK
  <2> QED
    BY <1>s, <1>4, <2>3, <2>4, <2>5, <2>6, StopKept
<1>5. ASSUME NEW i \in Item, Add(i) \/ TransportSettle(i) PROVE StopInv'
  <2>1. UNCHANGED <<closed, timedOut, pc, taker>>
    BY <1>5 DEF Add, TransportSettle, stopVars
  <2>2. \A x \in Item : place'[x] = "refused" => place[x] = "refused"
    <3>1. CASE Add(i)
      BY <3>1 DEF Add, transportVars
    <3>2. CASE TransportSettle(i)
      BY <1>0, <3>2, SettleLemma DEF TypeOK
    <3> QED
      BY <1>5, <3>1, <3>2
  <2> QED
    BY <2>1, <2>2, StopKept
<1>6. ASSUME NEW w \in Worker, Discard(w) \/ Dispatch(w) PROVE StopInv'
  <2>1. /\ UNCHANGED <<closed, timedOut, place, taker>> /\ pc[w] = "dispatch"
        /\ \E to \in {"check", "buffers", "send"} : pc' = [pc EXCEPT ![w] = to]
    BY <1>6 DEF Discard, Dispatch, Go, Home, stopVars, transportVars
  <2> QED
    BY <1>1, <2>1
<1>7. ASSUME NEW w \in Worker, SendItem(w) PROVE StopInv'
  <2>1. PICK E \in SUBSET Item, rest \in Seq(Item), to \in {"pending", "settled", "refused"} :
          Sent(w, E, rest, to)
    BY <1>0, <1>7, SendLemma
  <2>2. /\ pc' = [pc EXCEPT ![w] = IF rest = <<>> THEN Home(w) ELSE "send"]
        /\ place' = [i \in Item |-> IF i \in E \ Unserializable THEN to ELSE place[i]]
        /\ taker' = taker /\ (to = "refused" <=> closed)
        /\ E \subseteq Range(hand[w])
    BY <2>1 DEF Sent
  <2>3. UNCHANGED <<closed, timedOut>> /\ pc[w] = "send"
    BY <1>7 DEF SendItem, stopVars
  <2>4. \A x \in E : taker[x] = w
    BY <1>0, <2>2 DEF HandInv, InHand
  <2>5. closed => timedOut \/ w \in Flusher
    <3>1. SUFFICES ASSUME closed, ~timedOut PROVE w \in Flusher
      OBVIOUS
    <3>2. PICK s \in Stopper : pc[s] = "stopped"
      BY <1>0, <3>1 DEF StopInv
    <3>3. pc[Runner] = "exited"
      BY <1>0, <3>1, <3>2 DEF StopInv
    <3>4. w # Runner /\ w # s
      BY <2>3, <3>2, <3>3
    <3>5. w \notin Stopper
      BY <3>2, <3>4, SchedulerAssumption
    <3> QED
      BY <3>4, <3>5
  <2>6. \A v \in Worker : v # w => pc'[v] = pc[v]
    BY <1>0, <2>2 DEF TypeOK
  <2>7. pc'[w] # "stopped"
    BY <1>0, <2>2 DEF TypeOK, Home
  <2> QED
    BY <1>s, <2>2, <2>3, <2>4, <2>5, <2>6, <2>7, StopKept
<1>8. CASE Poll
  <2>1. UNCHANGED <<closed, timedOut>> /\ pc[Runner] = "poll"
    BY <1>8 DEF Poll, stopVars
  <2>2. CASE Still /\ pc' = [pc EXCEPT ![Runner] = "check"]
    BY <1>1, <2>1, <2>2 DEF Still
  <2> QED
    BY <1>0, <1>4, <1>8, <2>1, <2>2, PollTakes
<1>9. ASSUME NEW f \in Caller, NEW c \in Category, FlushBuffer(f, c) PROVE StopInv'
  <2>1. UNCHANGED <<closed, timedOut>> /\ pc[f] = "buffers"
    BY <1>9 DEF FlushBuffer, stopVars
  <2>2. CASE Still /\ UNCHANGED pc
    BY <1>2, <2>1, <2>2 DEF Still
  <2> QED
    BY <1>0, <1>4, <1>9, <2>1, <2>2, FlushTakes
<1>10. ASSUME NEW f \in Caller, Flush(f) \/ FlushTransport(f) \/ FlushReturn(f) PROVE StopInv'
  <2>1. /\ UNCHANGED <<closed, place, taker>> /\ pc[f] \in {"idle", "buffers", "transport"}
        /\ \E to \in {"buffers", "transport", "cancel", "returned"} : pc' = [pc EXCEPT ![f] = to]
    BY <1>10 DEF Flush, FlushTransport, FlushReturn, Transport!FlushCall, Transport!FlushTrue,
                 Transport!FlushFalse, Go, stopVars, transportVars
  <2>2. timedOut => timedOut'
    BY <1>10 DEF Flush, FlushTransport, FlushReturn, stopVars
  <2> QED
    BY <1>1, <2>1, <2>2
<1>11. CASE TakeTurn \/ Check \/ Park \/ Awake
  <2>1. /\ UNCHANGED <<closed, timedOut, place, taker>>
        /\ pc[Runner] \in {"turn", "check", "park", "awake"}
        /\ \E to \in {"check", "poll", "awake", "park", "waiting", "exited", "turn"} :
             pc' = [pc EXCEPT ![Runner] = to]
    BY <1>11 DEF TakeTurn, Check, Park, Awake, RunTo, Go, stopVars, transportVars
  <2> QED
    BY <1>1, <2>1
<1>12. ASSUME (\E i \in Item : Signal(i)) \/ Tick PROVE StopInv'
  BY <1>3, <1>12 DEF Signal, Tick, stopVars, transportVars
<1>13. ASSUME (\E c \in Category : Elapse(c)) \/ TickerExit \/ UNCHANGED vars PROVE StopInv'
  BY <1>2, <1>13 DEF Elapse, TickerExit, vars, stopVars, transportVars
<1>14. ASSUME NEW s \in Stopper, StopCancel(s) PROVE StopInv'
  BY <1>s, <1>1, <1>14 DEF StopCancel, Go, transportVars
<1>15. ASSUME NEW s \in Stopper, StopBroadcast(s) PROVE StopInv'
  <2>1. /\ UNCHANGED <<closed, timedOut, place, taker>> /\ pc[s] = "broadcast"
        /\ pc' = [Woken(pc) EXCEPT ![s] = "join"]
    BY <1>15 DEF StopBroadcast, stopVars, transportVars
  <2>2. \A v \in Worker : pc'[v] = IF v = s THEN "join"
                                   ELSE IF v = Runner /\ pc[v] = "waiting" THEN "check" ELSE pc[v]
    BY <1>0, <1>s, <2>1 DEF TypeOK, Woken
  <2> QED
    BY <1>s, <2>1, <2>2, StopKept
<1>16. ASSUME NEW s \in Stopper, StopReturn(s) PROVE StopInv'
  <2>1. /\ UNCHANGED <<closed, place, taker>> /\ pc[s] = "join"
        /\ pc' = [pc EXCEPT ![s] = "stopped"]
        /\ timedOut => timedOut'
        /\ timedOut' \/ pc[Runner] = "exited"
    BY <1>16 DEF StopReturn, Go, transportVars
  <2>2. \A v \in Worker : pc'[v] = IF v = s THEN "stopped" ELSE pc[v]
    BY <1>0, <1>s, <2>1 DEF TypeOK
  <2> QED
    BY <1>0, <1>s, <2>1, <2>2 DEF StopInv
<1>17. ASSUME NEW s \in Stopper, TransportClose(s) PROVE StopInv'
  <2>1. UNCHANGED <<pc, timedOut, place, taker>> /\ pc[s] = "stopped" /\ closed' = TRUE
    BY <1>17 DEF TransportClose, transportVars
  <2> QED
    BY <1>0, <2>1 DEF StopInv
<1> QED
  BY <1>5, <1>6, <1>7, <1>8, <1>9, <1>10, <1>11, <1>12, <1>13, <1>14, <1>15, <1>16, <1>17
     DEF Next, Running, Processing, Flushing, Stopping, Ticker

-----------------------------------------------------------------------------
(* The invariant, and what follows from it *)

LEMMA InitInv ==
  ASSUME Init
  PROVE  IInv
<1> USE WorkerFacts DEF Init
<1>1. <<>> \in Seq(Item) /\ Len(<<>>) = 0 /\ Range(<<>>) = {} /\ Distinct(<<>>)
  BY DEF Range, Distinct
<1>2. 0 \in 0 .. CycleLength - 1
  BY CycleFacts
<1>3. \A c \in Category : 0 <= Capacity[c]
  BY SchedulerAssumption
<1>4. Transport!Init
  OBVIOUS
<1>5. TypeOK
  <2>1. /\ place \in [Item -> Transport!Places]
        /\ call \in [Caller -> {"idle", "waiting", "true", "false"}]
        /\ owed \in [Caller -> SUBSET Item]
    BY <1>4 DEF Transport!Init, Transport!Places
  <2> QED
    BY <1>1, <1>2, <1>3, <2>1 DEF TypeOK
<1>6. BufferInv /\ HandInv
  BY <1>1 DEF BufferInv, HandInv, InBuffer, InHand
<1>7. ItemInv /\ DropsRecorded
  BY <1>4 DEF ItemInv, DropsRecorded, Transport!Init
<1>8. ControlInv
  BY <1>4 DEF ControlInv, Emptying, Stops, Transport!Init
<1>9. FlushInv
  BY <1>4 DEF FlushInv, Transport!Init
<1>10. StopInv
  BY <1>4 DEF StopInv, Transport!Init, Caller, Worker
<1> QED
  BY <1>5, <1>6, <1>7, <1>8, <1>9, <1>10 DEF IInv

THEOREM Invariance == Spec => []IInv
<1>1. IInv /\ [Next]_vars => IInv'
  BY TypeStep, ItemStep, ControlStep, FlushStep, StopStep DEF IInv, ItemParts
<1> QED
  BY <1>1, InitInv, PTL DEF Spec

\* The variables keep their types: no buffer gets more than its capacity.
THEOREM TypeCorrect == Spec => []TypeOK
  BY Invariance, PTL DEF IInv

LEMMA Placed ==
  ASSUME IInv
  PROVE  OnePlace
<1> USE DEF IInv
<1>0. TypeOK
  OBVIOUS
<1> SUFFICES ASSUME NEW i \in Item
             PROVE  Cardinality(Places(i)) = IF i \in added THEN 1 ELSE 0
  BY <1>0 DEF OnePlace
<1>1. \A x : x \in Places(i) <=>
        \/ \E c \in Category : \E k \in Where(buffer[c], i) : x = <<"buffer", c, k>>
        \/ \E w \in Worker : \E k \in Where(hand[w], i) : x = <<"hand", w, k>>
        \/ i \in dropped /\ x = <<"dropped", None, 0>>
        \/ place[i] # "outside" /\ x = <<"transport", None, 0>>
  <2> DEFINE A == UNION {{<<"buffer", c, k>> : k \in Where(buffer[c], i)} : c \in Category}
             B == UNION {{<<"hand", w, k>> : k \in Where(hand[w], i)} : w \in Worker}
             C == IF i \in dropped THEN {<<"dropped", None, 0>>} ELSE {}
             D == IF place[i] # "outside" THEN {<<"transport", None, 0>>} ELSE {}
  <2>1. \A x : x \in A <=> \E c \in Category : \E k \in Where(buffer[c], i) : x = <<"buffer", c, k>>
    OBVIOUS
  <2>2. \A x : x \in B <=> \E w \in Worker : \E k \in Where(hand[w], i) : x = <<"hand", w, k>>
    OBVIOUS
  <2>3. \A x : x \in C <=> i \in dropped /\ x = <<"dropped", None, 0>>
    OBVIOUS
  <2>4. \A x : x \in D <=> place[i] # "outside" /\ x = <<"transport", None, 0>>
    OBVIOUS
  <2>5. Places(i) = A \cup B \cup C \cup D
    BY DEF Places
  <2> HIDE DEF A, B, C, D
  <2> QED
    BY <2>1, <2>2, <2>3, <2>4, <2>5
<1>2. \A c \in Category : /\ \A k, l \in Where(buffer[c], i) : k = l
                          /\ Where(buffer[c], i) # {} <=> InBuffer(i) /\ CategoryOf[i] = c
  <2> SUFFICES ASSUME NEW c \in Category
               PROVE  /\ \A k, l \in Where(buffer[c], i) : k = l
                      /\ Where(buffer[c], i) # {} <=> InBuffer(i) /\ CategoryOf[i] = c
    OBVIOUS
  <2>1. Where(buffer[c], i) # {} <=> i \in Range(buffer[c])
    BY DEF Where, Range
  <2>2. Distinct(buffer[c]) /\ (i \in Range(buffer[c]) <=> InBuffer(i) /\ CategoryOf[i] = c)
    BY DEF BufferInv
  <2> QED
    BY <2>1, <2>2 DEF Where, Distinct
<1>3. \A w \in Worker : /\ \A k, l \in Where(hand[w], i) : k = l
                        /\ Where(hand[w], i) # {} <=> InHand(i, w)
  <2> SUFFICES ASSUME NEW w \in Worker
               PROVE  /\ \A k, l \in Where(hand[w], i) : k = l
                      /\ Where(hand[w], i) # {} <=> InHand(i, w)
    OBVIOUS
  <2>1. Where(hand[w], i) # {} <=> i \in Range(hand[w])
    BY DEF Where, Range
  <2>2. Distinct(hand[w]) /\ (i \in Range(hand[w]) <=> InHand(i, w))
    BY DEF HandInv
  <2> QED
    BY <2>1, <2>2 DEF Where, Distinct
<1>4. CASE i \notin added
  <2>1. i \notin dropped /\ place[i] = "outside" /\ ~InBuffer(i) /\ \A w \in Worker : ~InHand(i, w)
    BY <1>4 DEF ItemInv, InBuffer, InHand
  <2>2. Places(i) = {}
    BY <1>1, <1>2, <1>3, <2>1
  <2> QED
    BY <1>4, <2>2, FS_EmptySet
<1>5. CASE i \in added
  <2>1. \E x : Places(i) = {x}
    <3>1. CASE i \in dropped
      <4>1. place[i] = "outside" /\ ~InBuffer(i) /\ \A w \in Worker : ~InHand(i, w)
        BY <3>1 DEF ItemInv, InBuffer, InHand
      <4>2. Places(i) = {<<"dropped", None, 0>>}
        BY <1>1, <1>2, <1>3, <3>1, <4>1
      <4> QED
        BY <4>2
    <3>2. CASE i \notin dropped /\ place[i] # "outside"
      <4>1. ~InBuffer(i) /\ \A w \in Worker : ~InHand(i, w)
        BY <3>2 DEF InBuffer, InHand
      <4>2. Places(i) = {<<"transport", None, 0>>}
        BY <1>1, <1>2, <1>3, <3>2, <4>1
      <4> QED
        BY <4>2
    <3>3. CASE i \notin dropped /\ place[i] = "outside" /\ taker[i] = None
      <4>1. InBuffer(i) /\ \A w \in Worker : ~InHand(i, w)
        BY <1>5, <3>3, WorkerFacts DEF InBuffer, InHand
      <4>2. CategoryOf[i] \in Category
        BY SchedulerAssumption
      <4>3. PICK k : k \in Where(buffer[CategoryOf[i]], i)
        BY <1>2, <4>1, <4>2
      <4>4. Places(i) = {<<"buffer", CategoryOf[i], k>>}
        BY <1>1, <1>2, <1>3, <3>3, <4>1, <4>2, <4>3
      <4> QED
        BY <4>4
    <3>4. CASE i \notin dropped /\ place[i] = "outside" /\ taker[i] # None
      <4> DEFINE w == taker[i]
      <4>1. w \in Worker /\ InHand(i, w) /\ ~InBuffer(i) /\ \A v \in Worker : InHand(i, v) => v = w
        BY <1>5, <3>4 DEF InBuffer, InHand, TypeOK
      <4> HIDE DEF w
      <4>2. PICK k : k \in Where(hand[w], i)
        BY <1>3, <4>1
      <4>3. Places(i) = {<<"hand", w, k>>}
        BY <1>1, <1>2, <1>3, <3>4, <4>1, <4>2
      <4> QED
        BY <4>3
    <3> QED
      BY <3>1, <3>2, <3>3, <3>4
  <2> QED
    BY <1>5, <2>1, FS_Singleton
<1> QED
  BY <1>4, <1>5

\* However run and the flushes interleave (scheduler.go, processor.go), an item that was
\* added is in exactly one place: in a buffer, in one goroutine's hands, with the
\* transport, or dropped; it is not taken out twice and does not get lost.
THEOREM ItemsInOnePlace == Spec => []OnePlace
<1>1. IInv => OnePlace
  BY Placed
<1> QED
  BY <1>1, Invariance, PTL

\* When FlushWithContext returns true, what it found in the buffers or with the
\* transport is settled or dropped, unless another goroutine took it out of its buffer.
THEOREM FlushesSound == Spec => []FlushSound
<1>1. IInv => FlushSound
  <2> SUFFICES ASSUME IInv, NEW f \in Caller, call[f] = "true", NEW i \in asked[f],
                      taker[i] \in {f, None}
               PROVE  i \in dropped \/ place[i] = "settled"
    BY DEF FlushSound
  <2> USE DEF IInv
  <2>1. i \in Item /\ i \in added
    BY DEF TypeOK, FlushInv
  <2>2. CASE taker[i] = f
    BY <2>1, <2>2 DEF FlushInv
  <2>3. CASE taker[i] = None
    <3>1. pc[f] \notin Emptying
      BY DEF ControlInv
    <3>2. ~InBuffer(i)
      BY <3>1 DEF FlushInv
    <3> QED
      BY <2>1, <2>3, <3>2 DEF InBuffer, ItemInv
  <2> QED
    BY <2>2, <2>3
<1> QED
  BY <1>1, Invariance, PTL

\* Every item dropped before it reaches the transport is recorded in the client reports,
\* except one of a batch that cannot be converted (scheduler.go processItems, sendItem).
THEOREM DropsAreRecorded == Spec => []DropsRecorded
  BY Invariance, PTL DEF IInv

\* client.Close closes the transport after Stop: unless a wait of Stop timed out, only an
\* item that another flush holds is refused.
THEOREM RefusalsLate == Spec => []RefusedOnlyLate
<1>1. IInv => RefusedOnlyLate
  BY DEF IInv, StopInv, RefusedOnlyLate
<1> QED
  BY <1>1, Invariance, PTL

==============================================================================
