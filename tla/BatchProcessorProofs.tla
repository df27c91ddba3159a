------------------------- MODULE BatchProcessorProofs -------------------------
(***************************************************************************)
(* Theorems about BatchProcessor, for any number of processors, items and  *)
(* flushes, and any batch size.                                            *)
(***************************************************************************)
EXTENDS BatchProcessor, SequenceTheorems, TLAPS

\* What a processor took is sent, collected or in its channel, in this order; what is
\* sent has gone to the transport, which refuses nothing before it is closed.
ItemsInv ==
  /\ \A p \in Processor :
       /\ accepted[p] = sent[p] \o items[p] \o itemCh[p]
       /\ \A i \in Elements(accepted[p]) : ProcessorOf[i] = p
       /\ \A i \in Elements(sent[p]) : place[i] # "outside"
  /\ \A i \in Item : place[i] # "refused"

\* The items of p that the flush f found have gone to the transport.
Gone(f, p) == \A i \in asked[f] : ProcessorOf[i] = p => place[i] # "outside"

\* A flush that is answered, or has gone on to a later processor without giving up, has
\* left nothing behind; at the transport, what is not settled is owed to it.
FlushInv ==
  /\ \A f \in Flusher :
       /\ asked[f] \subseteq Accepted
       /\ flush[f] = "idle" \/ stage[f] \in 1 .. Len(Order)
       /\ flush[f] # "idle" /\ f \notin gaveUp =>
            \A k \in 1 .. Len(Order) :
              k < stage[f] \/ flush[f] \in {"transport", "true", "false"} => Gone(f, Order[k])
       /\ flush[f] = "transport" /\ f \notin gaveUp =>
            \A i \in asked[f] : place[i] = "settled" \/ i \in owed[f]
       /\ flush[f] = "true" /\ f \notin gaveUp => \A i \in asked[f] : place[i] = "settled"
  /\ \A f \in Flusher, p \in Processor :
       <<f, p>> \in answered => flush[f] # "idle" /\ Gone(f, p)
  /\ \A p \in Processor :
       /\ worker[p] \in {"drain", "flush"} => done[p] \in Flusher /\ flush[done[p]] # "idle"
       /\ worker[p] = "flush" =>
            \A i \in asked[done[p]] :
              ProcessorOf[i] = p => i \in Elements(sent[p]) \cup Elements(items[p])

\* Close has reached a processor before that ends, and what it had taken then is sent
\* when it has ended.
CloseInv ==
  /\ \A k \in 1 .. Len(Order) :
       /\ Order[k] \in cancelled => k <= closeStage
       /\ closeStage > k => worker[Order[k]] = "exited"
  /\ \A p \in Processor :
       /\ before[p] <= Len(accepted[p])
       /\ worker[p] \in {"final", "last", "exited"} => p \in cancelled
       /\ worker[p] = "last" => Len(sent[p]) + Len(items[p]) >= before[p]
       /\ worker[p] = "exited" => Len(sent[p]) >= before[p] /\ items[p] = <<>>

IInv == TypeOK /\ ItemsInv /\ FlushInv /\ CloseInv

-----------------------------------------------------------------------------
(* Sequences *)

LEMMA ElementsFacts ==
  ASSUME NEW s \in Seq(Item)
  PROVE  /\ Len(s) \in Nat /\ Elements(s) \subseteq Item
         /\ \A x : x \in Elements(s) <=> \E i \in 1 .. Len(s) : s[i] = x
         /\ s = <<>> <=> Len(s) = 0
         /\ s = <<>> => Elements(s) = {}
<1>1. Len(s) \in Nat /\ (\A i \in 1 .. Len(s) : s[i] \in Item) /\ (s = <<>> <=> Len(s) = 0)
  OBVIOUS
<1>2. \A x : x \in Elements(s) <=> \E i \in 1 .. Len(s) : s[i] = x
  BY DEF Elements
<1>3. Len(s) = 0 => Elements(s) = {}
  BY <1>2
<1> QED
  BY <1>1, <1>2, <1>3

LEMMA ConcatElements ==
  ASSUME NEW s \in Seq(Item), NEW t \in Seq(Item)
  PROVE  /\ s \o t \in Seq(Item) /\ Len(s \o t) = Len(s) + Len(t)
         /\ Elements(s \o t) = Elements(s) \cup Elements(t)
<1> DEFINE u == s \o t
           m == Len(s)
           n == Len(t)
<1>1. /\ u \in Seq(Item) /\ Len(u) = m + n /\ m \in Nat /\ n \in Nat
      /\ \A i \in 1 .. m + n : u[i] = IF i <= m THEN s[i] ELSE t[i - m]
  BY ConcatProperties
<1>2. /\ \A x : x \in Elements(s) <=> \E i \in 1 .. m : s[i] = x
      /\ \A x : x \in Elements(t) <=> \E i \in 1 .. n : t[i] = x
      /\ \A x : x \in Elements(u) <=> \E i \in 1 .. m + n : u[i] = x
  BY <1>1, ElementsFacts
<1> HIDE DEF u, m, n
<1>3. /\ \A i \in 1 .. m : i \in 1 .. m + n /\ i <= m
      /\ \A i \in 1 .. n : m + i \in 1 .. m + n /\ ~(m + i <= m) /\ (m + i) - m = i
      /\ \A i \in 1 .. m + n : ~(i <= m) => i - m \in 1 .. n
      /\ \A i \in 1 .. m + n : i <= m => i \in 1 .. m
  BY <1>1
<1>4. \A i \in 1 .. m : u[i] = s[i]
  BY <1>1, <1>3
<1>5. \A i \in 1 .. n : u[m + i] = t[i]
  BY <1>1, <1>3
<1>6. \A x : x \in Elements(u) => x \in Elements(s) \/ x \in Elements(t)
  BY <1>1, <1>2, <1>3
<1>7. \A x : x \in Elements(s) \/ x \in Elements(t) => x \in Elements(u)
  BY <1>2, <1>3, <1>4, <1>5
<1>8. Elements(u) = Elements(s) \cup Elements(t)
  BY <1>6, <1>7
<1> QED
  BY <1>1, <1>8 DEF u, m, n

LEMMA AppendElements ==
  ASSUME NEW s \in Seq(Item), NEW x \in Item
  PROVE  /\ Append(s, x) \in Seq(Item) /\ Len(Append(s, x)) = Len(s) + 1
         /\ Elements(Append(s, x)) = Elements(s) \cup {x}
<1>1. Append(s, x) = s \o <<x>> /\ <<x>> \in Seq(Item) /\ Len(<<x>>) = 1
  BY AppendIsConcat
<1>2. Elements(<<x>>) = {x}
  <2>1. \A y : y \in Elements(<<x>>) <=> \E i \in 1 .. 1 : <<x>>[i] = y
    BY <1>1, ElementsFacts
  <2>2. \A i \in 1 .. 1 : <<x>>[i] = x
    OBVIOUS
  <2>3. 1 \in 1 .. 1
    OBVIOUS
  <2> QED
    BY <2>1, <2>2, <2>3
<1> QED
  BY <1>1, <1>2, ConcatElements

LEMMA HeadMoves ==
  ASSUME NEW s \in Seq(Item), NEW t \in Seq(Item), NEW u \in Seq(Item), u # <<>>
  PROVE  /\ Head(u) \in Item /\ Tail(u) \in Seq(Item) /\ Len(Tail(u)) = Len(u) - 1
         /\ s \o Append(t, Head(u)) \o Tail(u) = s \o t \o u
<1> DEFINE h == Head(u)
           v == Tail(u)
<1>1. h \in Item /\ v \in Seq(Item) /\ Len(v) = Len(u) - 1
  BY HeadTailProperties
<1>2. u = <<h>> \o v
  <2>1. Len(u) \in Nat /\ Len(u) >= 1 /\ u = SubSeq(u, 1, Len(u))
    OBVIOUS
  <2>2. SubSeq(u, 1, Len(u)) = <<u[1]>> \o SubSeq(u, 1 + 1, Len(u))
    BY <2>1, SubSeqRecursiveFirst
  <2>3. v = SubSeq(u, 1 + 1, Len(u)) /\ h = u[1]
    BY <2>1
  <2> QED
    BY <2>1, <2>2, <2>3
<1> HIDE DEF h, v
<1>3. Append(t, h) = t \o <<h>> /\ <<h>> \in Seq(Item)
  BY <1>1, AppendIsConcat
<1>4. s \o t \in Seq(Item)
  BY ConcatElements
<1>5. s \o (t \o <<h>>) = (s \o t) \o <<h>>
  BY <1>3, ConcatAssociative
<1>6. ((s \o t) \o <<h>>) \o v = (s \o t) \o (<<h>> \o v)
  BY <1>1, <1>3, <1>4, ConcatAssociative, SMTT(20)
<1>7. s \o Append(t, h) \o v = s \o t \o u
  BY <1>2, <1>3, <1>5, <1>6
<1> QED
  BY <1>1, <1>7 DEF h, v

LEMMA LastAppends ==
  ASSUME NEW s \in Seq(Item), NEW t \in Seq(Item), NEW u \in Seq(Item), NEW x \in Item
  PROVE  s \o t \o Append(u, x) = Append(s \o t \o u, x)
<1>1. s \o t \in Seq(Item) /\ (s \o t) \o u \in Seq(Item)
  BY ConcatElements
<1>2. Append(u, x) = u \o <<x>> /\ <<x>> \in Seq(Item)
  BY AppendIsConcat
<1>3. Append((s \o t) \o u, x) = ((s \o t) \o u) \o <<x>>
  BY <1>1, AppendIsConcat
<1>4. ((s \o t) \o u) \o <<x>> = (s \o t) \o (u \o <<x>>)
  BY <1>1, <1>2, ConcatAssociative
<1> QED
  BY <1>2, <1>3, <1>4

-----------------------------------------------------------------------------
(* What the steps do *)

LEMMA OrderFacts ==
  /\ Len(Order) \in Nat /\ Len(Order) >= 1
  /\ \A k \in 1 .. Len(Order) : Order[k] \in Processor
  /\ \A p \in Processor : \E k \in 1 .. Len(Order) : Order[k] = p
  /\ \A j, k \in 1 .. Len(Order) : Order[j] = Order[k] => j = k
<1>1. Len(Order) \in Nat /\ Len(Order) >= 1
  BY BatchAssumption
<1> QED
  BY <1>1, BatchAssumption DEF Processor

LEMMA AcceptedFacts ==
  ASSUME TypeOK
  PROVE  /\ \A i : i \in Accepted <=> \E p \in Processor : i \in Elements(accepted[p])
         /\ Accepted \subseteq Item
<1>1. \A i : i \in Accepted <=> \E p \in Processor : i \in Elements(accepted[p])
  BY DEF Accepted
<1>2. \A p \in Processor : Elements(accepted[p]) \subseteq Item
  BY ElementsFacts DEF TypeOK
<1> QED
  BY <1>1, <1>2

\* Send puts the item into the channel, as the last that is accepted, or drops it.
LEMMA SendLemma ==
  ASSUME TypeOK, NEW i \in Item, Send(i)
  PROVE  /\ ProcessorOf[i] \in Processor /\ i \notin Accepted
         /\ \/ /\ Len(itemCh[ProcessorOf[i]]) < batchSize
               /\ itemCh' = [itemCh EXCEPT ![ProcessorOf[i]] = Append(@, i)]
               /\ accepted' = [accepted EXCEPT ![ProcessorOf[i]] = Append(@, i)]
               /\ dropped' = dropped
            \/ dropped' = dropped \cup {i} /\ UNCHANGED <<itemCh, accepted>>
         /\ UNCHANGED <<items, armed, worker, done, answered, flush, stage, gaveUp, asked,
                        cancelled, closeStage, before, sent, events, place, call, owed>>
<1>1. i \notin 1 .. i - 1
  BY BatchAssumption DEF Item
<1>2. i \notin Accepted
  BY <1>1 DEF Send
<1>3. ProcessorOf[i] \in Processor
  BY BatchAssumption
<1> QED
  BY <1>2, <1>3 DEF Send, workerVars, flushVars, closeVars, transportVars

\* The oldest item of the channel is collected.
LEMMA TakeLemma ==
  ASSUME TypeOK, NEW p \in Processor, Receive(p) \/ Drain(p)
  PROVE  /\ itemCh[p] # <<>> /\ Head(itemCh[p]) \in Item
         /\ itemCh' = [itemCh EXCEPT ![p] = Tail(@)]
         /\ Tail(itemCh[p]) \in Seq(Item) /\ Len(Tail(itemCh[p])) = Len(itemCh[p]) - 1
         /\ items' = [items EXCEPT ![p] = Append(@, Head(itemCh[p]))]
         /\ Append(items[p], Head(itemCh[p])) \in Seq(Item)
         /\ Len(Append(items[p], Head(itemCh[p]))) = Len(items[p]) + 1
         /\ sent[p] \o Append(items[p], Head(itemCh[p])) \o Tail(itemCh[p])
              = sent[p] \o items[p] \o itemCh[p]
         /\ UNCHANGED <<done, answered, flush, stage, gaveUp, asked, cancelled, closeStage,
                        before, dropped, accepted, sent, events, place, call, owed>>
<1>1. itemCh[p] \in Seq(Item) /\ items[p] \in Seq(Item) /\ sent[p] \in Seq(Item)
  BY DEF TypeOK
<1>2. /\ itemCh[p] # <<>>
      /\ itemCh' = [itemCh EXCEPT ![p] = Tail(@)]
      /\ items' = [items EXCEPT ![p] = Append(@, Head(itemCh[p]))]
      /\ UNCHANGED <<done, answered, flush, stage, gaveUp, asked, cancelled, closeStage,
                     before, dropped, accepted, sent, events, place, call, owed>>
  BY DEF Receive, Drain, Take, workerVars, flushVars, closeVars, historyVars, transportVars
<1>3. /\ Head(itemCh[p]) \in Item /\ Tail(itemCh[p]) \in Seq(Item)
      /\ Len(Tail(itemCh[p])) = Len(itemCh[p]) - 1
      /\ sent[p] \o Append(items[p], Head(itemCh[p])) \o Tail(itemCh[p])
              = sent[p] \o items[p] \o itemCh[p]
  BY <1>1, <1>2, HeadMoves, ZenonT(40)
<1> QED
  BY <1>1, <1>2, <1>3, AppendElements

\* The batch goes to the transport.
LEMMA SendBatchLemma ==
  ASSUME TypeOK, NEW p \in Processor, SendBatch(p)
  PROVE  /\ worker[p] \in {"send", "flush", "last"}
         /\ sent' = [sent EXCEPT ![p] = sent[p] \o items[p]]
         /\ sent[p] \o items[p] \in Seq(Item)
         /\ Elements(sent[p] \o items[p]) = Elements(sent[p]) \cup Elements(items[p])
         /\ Len(sent[p] \o items[p]) = Len(sent[p]) + Len(items[p])
         /\ items' = [items EXCEPT ![p] = <<>>]
         /\ (sent[p] \o items[p]) \o <<>> \o itemCh[p] = sent[p] \o items[p] \o itemCh[p]
         /\ place' = [i \in Item |-> IF i \in Elements(items[p]) THEN "pending" ELSE place[i]]
         /\ \A i \in Elements(items[p]) : place[i] = "outside"
         /\ worker' = [worker EXCEPT ![p] = IF @ = "last" THEN "exited" ELSE "select"]
         /\ done' = [done EXCEPT ![p] = NoOne]
         /\ events' = events \cup ({Elements(items[p])} \ {{}})
         /\ answered' = IF worker[p] = "flush" THEN answered \cup {<<done[p], p>>} ELSE answered
         /\ UNCHANGED <<itemCh, armed, flush, stage, gaveUp, asked, cancelled, closeStage,
                        before, dropped, accepted, call, owed>>
<1>1. itemCh[p] \in Seq(Item) /\ items[p] \in Seq(Item) /\ sent[p] \in Seq(Item)
  BY DEF TypeOK
<1>2. /\ sent[p] \o items[p] \in Seq(Item)
      /\ Elements(sent[p] \o items[p]) = Elements(sent[p]) \cup Elements(items[p])
      /\ Len(sent[p] \o items[p]) = Len(sent[p]) + Len(items[p])
  BY <1>1, ConcatElements
<1>3. (sent[p] \o items[p]) \o <<>> = sent[p] \o items[p]
  BY <1>2, ConcatEmptySeq
<1>4. (sent[p] \o items[p]) \o <<>> \o itemCh[p] = sent[p] \o items[p] \o itemCh[p]
  BY <1>3
<1>5. /\ worker[p] \in {"send", "flush", "last"}
      /\ sent' = [sent EXCEPT ![p] = sent[p] \o items[p]]
      /\ items' = [items EXCEPT ![p] = <<>>]
      /\ worker' = [worker EXCEPT ![p] = IF @ = "last" THEN "exited" ELSE "select"]
      /\ done' = [done EXCEPT ![p] = NoOne]
      /\ events' = events \cup ({Elements(items[p])} \ {{}})
      /\ answered' = IF worker[p] = "flush" THEN answered \cup {<<done[p], p>>} ELSE answered
      /\ UNCHANGED <<itemCh, armed, flush, stage, gaveUp, asked, cancelled, closeStage,
                     before, dropped, accepted>>
  BY DEF SendBatch, ForgetItems, Answer, flushVars, closeVars, historyVars
<1>6. Transport!Accept(Elements(items[p]))
  BY DEF SendBatch
<1>7. /\ place' = [i \in Item |-> IF i \in Elements(items[p]) THEN "pending" ELSE place[i]]
      /\ \A i \in Elements(items[p]) : place[i] = "outside"
      /\ UNCHANGED <<call, owed>>
  BY <1>6 DEF Transport!Accept, Transport!Move
<1> QED
  BY <1>2, <1>4, <1>5, <1>7

LEMMA SettleLemma ==
  ASSUME TypeOK, NEW event \in events, TransportSettle(event)
  PROVE  /\ place' = [i \in Item |-> IF i \in event THEN "settled" ELSE place[i]]
         /\ events' = events \ {event}
         /\ UNCHANGED <<itemCh, items, armed, worker, done, answered, cancelled, flush, stage,
                        gaveUp, asked, closeStage, dropped, accepted, sent, before, call, owed>>
  BY DEF TransportSettle, Transport!Settle, Transport!Move, queueVars, workerVars, flushVars,
         closeVars, historyVars

LEMMA StageLemma ==
  ASSUME TypeOK, NEW f \in Flusher, NextStage(f)
  PROVE  \/ /\ stage[f] < Len(Order)
            /\ flush' = [flush EXCEPT ![f] = "offer"]
            /\ stage' = [stage EXCEPT ![f] = stage[f] + 1]
            /\ UNCHANGED <<events, place, call, owed>>
         \/ /\ stage[f] = Len(Order)
            /\ flush' = [flush EXCEPT ![f] = "transport"]
            /\ call' = [call EXCEPT ![f] = "waiting"]
            /\ owed' = [owed EXCEPT ![f] = Transport!Pending]
            /\ UNCHANGED <<stage, events, place>>
  BY DEF NextStage, Transport!FlushCall, transportVars

-----------------------------------------------------------------------------
(* Each part of the invariant holds in the next state: the types *)

QueueTypes ==
  /\ itemCh \in [Processor -> Seq(Item)]
  /\ items \in [Processor -> Seq(Item)]
  /\ \A p \in Processor :
       /\ Len(itemCh[p]) <= batchSize
       /\ worker[p] \in {"select", "exited"} => Len(items[p]) < batchSize
       /\ worker[p] = "send" => Len(items[p]) <= batchSize
  /\ worker \in [Processor ->
       {"select", "send", "drain", "flush", "final", "last", "exited"}]
  /\ accepted \in [Processor -> Seq(Item)]
  /\ sent \in [Processor -> Seq(Item)]

OtherTypes ==
  /\ armed \subseteq Processor
  /\ done \in [Processor -> Flusher \cup {NoOne}]
  /\ answered \in SUBSET (Flusher \X Processor)
  /\ cancelled \in SUBSET Processor
  /\ flush \in [Flusher -> {"idle", "offer", "await", "transport", "true", "false"}]
  /\ stage \in [Flusher -> 0 .. Len(Order)]
  /\ gaveUp \in SUBSET Flusher
  /\ closeStage \in 0 .. Len(Order) + 1
  /\ dropped \in SUBSET Item
  /\ asked \in [Flusher -> SUBSET Item]
  /\ before \in [Processor -> Nat]
  /\ events \in SUBSET SUBSET Item
  /\ place \in [Item -> Transport!Places]
  /\ call \in [Flusher -> {"idle", "waiting", "true", "false"}]
  /\ owed \in [Flusher -> SUBSET Item]

LEMMA TypeParts == TypeOK <=> QueueTypes /\ OtherTypes
  BY DEF TypeOK, QueueTypes, OtherTypes

LEMMA QueueTypesStep ==
  ASSUME IInv, [Next]_vars
  PROVE  QueueTypes'
<1>0. TypeOK /\ QueueTypes /\ batchSize \in Nat /\ batchSize # 0
  BY TypeParts, BatchAssumption DEF IInv
<1>l. /\ \A p \in Processor : Len(itemCh[p]) \in Nat /\ Len(items[p]) \in Nat
      /\ Len(<<>>) = 0 /\ <<>> \in Seq(Item)
  BY <1>0, ElementsFacts DEF QueueTypes
<1>1. ASSUME NEW i \in Item, Send(i) PROVE QueueTypes'
  <2> DEFINE p == ProcessorOf[i]
  <2>1. p \in Processor /\ UNCHANGED <<items, worker, sent>>
    BY <1>0, <1>1, SendLemma
  <2>2. CASE UNCHANGED <<itemCh, accepted>>
    BY <1>0, <2>1, <2>2 DEF QueueTypes
  <2>3. CASE /\ Len(itemCh[p]) < batchSize
             /\ itemCh' = [itemCh EXCEPT ![p] = Append(@, i)]
             /\ accepted' = [accepted EXCEPT ![p] = Append(@, i)]
    <3>1. /\ Append(itemCh[p], i) \in Seq(Item) /\ Len(Append(itemCh[p], i)) = Len(itemCh[p]) + 1
          /\ Append(accepted[p], i) \in Seq(Item)
      BY <1>0, <2>1, AppendElements DEF QueueTypes
    <3>2. Len(itemCh[p]) + 1 <= batchSize
      BY <1>0, <1>l, <2>1, <2>3
    <3> HIDE DEF p
    <3> QED
      BY <1>0, <2>1, <2>3, <3>1, <3>2 DEF QueueTypes
  <2> QED
    BY <1>0, <1>1, <2>2, <2>3, SendLemma
<1>2. ASSUME NEW p \in Processor, Receive(p) PROVE QueueTypes'
  <2> DEFINE t == Tail(itemCh[p])
             s == Append(items[p], Head(itemCh[p]))
  <2>1. /\ itemCh' = [itemCh EXCEPT ![p] = t] /\ t \in Seq(Item) /\ Len(t) = Len(itemCh[p]) - 1
        /\ items' = [items EXCEPT ![p] = s] /\ s \in Seq(Item) /\ Len(s) = Len(items[p]) + 1
        /\ UNCHANGED <<accepted, sent>>
    BY <1>0, <1>2, TakeLemma
  <2>2. worker[p] = "select"
        /\ worker' = [worker EXCEPT ![p] = IF Len(items[p]) + 1 >= batchSize THEN "send" ELSE @]
    BY <1>2 DEF Receive, Full
  <2> HIDE DEF t, s
  <2>3. Len(t) <= batchSize /\ Len(s) <= batchSize /\ (~(Len(items[p]) + 1 >= batchSize) => Len(s) < batchSize)
    BY <1>0, <1>l, <2>1, <2>2 DEF QueueTypes
  <2> QED
    BY <1>0, <2>1, <2>2, <2>3 DEF QueueTypes
<1>3. ASSUME NEW p \in Processor, Drain(p) PROVE QueueTypes'
  <2> DEFINE t == Tail(itemCh[p])
             s == Append(items[p], Head(itemCh[p]))
  <2>1. /\ itemCh' = [itemCh EXCEPT ![p] = t] /\ t \in Seq(Item) /\ Len(t) = Len(itemCh[p]) - 1
        /\ items' = [items EXCEPT ![p] = s] /\ s \in Seq(Item)
        /\ UNCHANGED <<accepted, sent>>
    BY <1>0, <1>3, TakeLemma
  <2>2. worker[p] \in {"drain", "final"} /\ worker' = worker
    BY <1>3 DEF Drain, workerVars
  <2> HIDE DEF t, s
  <2>3. Len(t) <= batchSize
    BY <1>0, <1>l, <2>1 DEF QueueTypes
  <2> QED
    BY <1>0, <2>1, <2>2, <2>3 DEF QueueTypes
<1>4. ASSUME NEW p \in Processor, SendBatch(p) PROVE QueueTypes'
  <2> DEFINE s == sent[p] \o items[p]
  <2>1. /\ sent' = [sent EXCEPT ![p] = s] /\ s \in Seq(Item)
        /\ items' = [items EXCEPT ![p] = <<>>]
        /\ worker' = [worker EXCEPT ![p] = IF @ = "last" THEN "exited" ELSE "select"]
        /\ UNCHANGED <<itemCh, accepted>>
    BY <1>0, <1>4, SendBatchLemma
  <2> HIDE DEF s
  <2>2. 0 < batchSize
    BY <1>0
  <2> QED
    BY <1>0, <1>l, <2>1, <2>2 DEF QueueTypes
<1>5. ASSUME UNCHANGED <<itemCh, items, accepted, sent>>, NEW p \in Processor, NEW to,
             worker' = [worker EXCEPT ![p] = to],
             to \in {"drain", "flush", "final", "last"}
               \/ (worker[p] = "select" /\ to \in {"select", "send"})
      PROVE  QueueTypes'
  BY <1>0, <1>5, <1>l DEF QueueTypes
<1>6. CASE UNCHANGED <<itemCh, items, accepted, sent, worker>>
  BY <1>0, <1>6 DEF QueueTypes
<1>7. ASSUME NEW p \in Processor,
             Timeout(p) \/ SeeCancel(p) \/ Drained(p) \/ \E f \in Flusher : TakeFlush(p, f)
      PROVE  QueueTypes'
  <2>1. UNCHANGED <<itemCh, items, accepted, sent>>
    BY <1>7 DEF Timeout, SeeCancel, Drained, TakeFlush, queueVars, historyVars
  <2>2. \E to : /\ worker' = [worker EXCEPT ![p] = to]
                /\ to \in {"drain", "flush", "final", "last"}
                     \/ (worker[p] = "select" /\ to \in {"select", "send"})
    BY <1>7 DEF Timeout, SeeCancel, Drained, TakeFlush
  <2> QED
    BY <1>5, <2>1, <2>2
<1>8. ASSUME \/ \E event \in events : TransportSettle(event)
             \/ \E f \in Flusher : Flush(f) \/ GiveUp(f) \/ FlushNext(f) \/ FlushTrue(f) \/ FlushFalse(f)
             \/ Close \/ CloseNext \/ UNCHANGED vars
      PROVE  QueueTypes'
  BY <1>6, <1>8 DEF TransportSettle, Flush, GiveUp, FlushNext, FlushTrue, FlushFalse, Close, CloseNext,
                    vars, queueVars, workerVars, historyVars
<1> QED
  BY <1>1, <1>2, <1>3, <1>4, <1>7, <1>8 DEF Next, Run

LEMMA OtherTypesStep ==
  ASSUME IInv, [Next]_vars
  PROVE  OtherTypes'
<1>0. TypeOK /\ OtherTypes /\ QueueTypes /\ FlushInv
  BY TypeParts DEF IInv
<1>1. ASSUME NEW i \in Item, Send(i) PROVE OtherTypes'
  <2>1. /\ dropped' = dropped \/ dropped' = dropped \cup {i}
        /\ UNCHANGED <<armed, done, answered, flush, stage, gaveUp, asked,
                       cancelled, closeStage, before, events, place, call, owed>>
    BY <1>0, <1>1, SendLemma
  <2>2. dropped' \in SUBSET Item
    BY <1>0, <2>1 DEF OtherTypes
  <2> QED
    BY <1>0, <2>1, <2>2 DEF OtherTypes
<1>2. ASSUME NEW p \in Processor, Receive(p) \/ Drain(p) PROVE OtherTypes'
  <2>1. armed' \subseteq Processor
    BY <1>0, <1>2 DEF Receive, Drain, Started, OtherTypes
  <2> QED
    BY <1>0, <1>2, <2>1, TakeLemma DEF OtherTypes
<1>3. ASSUME NEW p \in Processor, Timeout(p) \/ SeeCancel(p) \/ Drained(p) PROVE OtherTypes'
  BY <1>0, <1>3 DEF Timeout, SeeCancel, Drained, OtherTypes, queueVars, flushVars, closeVars,
                    historyVars, transportVars
<1>4. ASSUME NEW p \in Processor, NEW f \in Flusher, TakeFlush(p, f) PROVE OtherTypes'
  BY <1>0, <1>4 DEF TakeFlush, OtherTypes, queueVars, closeVars, historyVars, transportVars
<1>5. ASSUME NEW p \in Processor, SendBatch(p) PROVE OtherTypes'
  <2>1. Elements(items[p]) \in SUBSET Item
    BY <1>0, ElementsFacts DEF QueueTypes
  <2>2. worker[p] = "flush" => done[p] \in Flusher
    BY <1>0 DEF FlushInv
  <2>3. /\ answered' = answered \/ (worker[p] = "flush" /\ answered' = answered \cup {<<done[p], p>>})
        /\ events' = events \cup ({Elements(items[p])} \ {{}})
        /\ place' = [i \in Item |-> IF i \in Elements(items[p]) THEN "pending" ELSE place[i]]
        /\ done' = [done EXCEPT ![p] = NoOne]
        /\ UNCHANGED <<armed, flush, stage, gaveUp, asked, cancelled, closeStage,
                       before, dropped, call, owed>>
    BY <1>0, <1>5, SendBatchLemma
  <2>4. answered' \in SUBSET (Flusher \X Processor)
    BY <1>0, <2>2, <2>3 DEF OtherTypes
  <2>5. events' \in SUBSET SUBSET Item
    BY <1>0, <2>1, <2>3 DEF OtherTypes
  <2>6. place' \in [Item -> Transport!Places] /\ done' \in [Processor -> Flusher \cup {NoOne}]
    BY <1>0, <2>3 DEF OtherTypes, Transport!Places
  <2> QED
    BY <1>0, <2>3, <2>4, <2>5, <2>6 DEF OtherTypes
<1>6. ASSUME NEW event \in events, TransportSettle(event) PROVE OtherTypes'
  BY <1>0, <1>6, SettleLemma DEF OtherTypes, Transport!Places
<1>7. ASSUME NEW f \in Flusher, Flush(f) PROVE OtherTypes'
  <2>1. {i \in Accepted : place[i] # "settled"} \subseteq Item
    BY <1>0, AcceptedFacts
  <2> QED
    BY <1>0, <1>7, <2>1, OrderFacts DEF Flush, OtherTypes, queueVars, workerVars, closeVars,
       historyVars, transportVars
<1>8. ASSUME NEW f \in Flusher, GiveUp(f) \/ FlushNext(f) PROVE OtherTypes'
  <2>1. UNCHANGED <<armed, done, answered, cancelled, closeStage, dropped, asked, before>>
    BY <1>8 DEF GiveUp, FlushNext, queueVars, workerVars, closeVars, historyVars
  <2>2. gaveUp' \in SUBSET Flusher
    BY <1>0, <1>8 DEF GiveUp, FlushNext, OtherTypes
  <2>3. NextStage(f)
    BY <1>8 DEF GiveUp, FlushNext
  <2>4. CASE /\ stage[f] < Len(Order)
             /\ flush' = [flush EXCEPT ![f] = "offer"]
             /\ stage' = [stage EXCEPT ![f] = stage[f] + 1]
             /\ UNCHANGED <<events, place, call, owed>>
    <3>1. stage[f] + 1 \in 0 .. Len(Order)
      BY <1>0, <2>4, OrderFacts DEF OtherTypes
    <3> QED
      BY <1>0, <2>1, <2>2, <2>4, <3>1 DEF OtherTypes
  <2>5. CASE /\ stage[f] = Len(Order)
             /\ flush' = [flush EXCEPT ![f] = "transport"]
             /\ call' = [call EXCEPT ![f] = "waiting"]
             /\ owed' = [owed EXCEPT ![f] = Transport!Pending]
             /\ UNCHANGED <<stage, events, place>>
    <3>1. Transport!Pending \subseteq Item
      BY DEF Transport!Pending
    <3> QED
      BY <1>0, <2>1, <2>2, <2>5, <3>1 DEF OtherTypes
  <2> QED
    BY <1>0, <2>3, <2>4, <2>5, StageLemma
<1>9. ASSUME NEW f \in Flusher, FlushTrue(f) \/ FlushFalse(f) PROVE OtherTypes'
  BY <1>0, <1>9 DEF FlushTrue, FlushFalse, Transport!FlushTrue, Transport!FlushFalse, OtherTypes,
     queueVars, workerVars, closeVars, historyVars
<1>10. ASSUME NEW k \in 1 .. Len(Order) + 1, Cancel(k)
       PROVE  cancelled' \in SUBSET Processor /\ before' \in [Processor -> Nat]
  <2>1. CASE k <= Len(Order)
    <3>1. Order[k] \in Processor
      BY <1>10, <2>1, OrderFacts
    <3>2. Len(accepted[Order[k]]) \in Nat
      BY <1>0, <3>1, ElementsFacts DEF QueueTypes
    <3> QED
      BY <1>0, <1>10, <2>1, <3>1, <3>2 DEF Cancel, OtherTypes
  <2>2. CASE ~(k <= Len(Order))
    BY <1>0, <1>10, <2>2 DEF Cancel, OtherTypes
  <2> QED
    BY <2>1, <2>2
<1>11. ASSUME Close \/ CloseNext PROVE OtherTypes'
  <2>1. UNCHANGED <<armed, done, answered, flush, stage, gaveUp, asked, dropped, events, place, call, owed>>
    BY <1>11 DEF Close, CloseNext, queueVars, workerVars, flushVars, historyVars, transportVars
  <2>2. closeStage' = closeStage + 1 /\ closeStage \in 0 .. Len(Order) /\ Cancel(closeStage + 1)
    <3>1. CASE Close
      <4>1. 0 + 1 = 1
        OBVIOUS
      <4> QED
        BY <3>1, <4>1, OrderFacts DEF Close
    <3>2. CASE CloseNext
      BY <3>2, OrderFacts DEF CloseNext
    <3> QED
      BY <1>11, <3>1, <3>2
  <2>3. closeStage + 1 \in 1 .. Len(Order) + 1
    BY <2>2, OrderFacts
  <2>4. cancelled' \in SUBSET Processor /\ before' \in [Processor -> Nat]
    BY <1>10, <2>2, <2>3
  <2>5. closeStage' \in 0 .. Len(Order) + 1
    BY <2>2, OrderFacts
  <2> QED
    BY <1>0, <2>1, <2>4, <2>5 DEF OtherTypes
<1>12. CASE UNCHANGED vars
  BY <1>0, <1>12 DEF vars, OtherTypes
<1> QED
  BY <1>1, <1>2, <1>3, <1>4, <1>5, <1>6, <1>7, <1>8, <1>9, <1>11, <1>12 DEF Next, Run

-----------------------------------------------------------------------------
(* The items *)

LEMMA ItemsStep ==
  ASSUME IInv, [Next]_vars
  PROVE  ItemsInv'
<1>0. TypeOK /\ ItemsInv
  BY DEF IInv
<1>t. \A p \in Processor : itemCh[p] \in Seq(Item) /\ items[p] \in Seq(Item) /\ sent[p] \in Seq(Item)
                           /\ accepted[p] \in Seq(Item)
  BY <1>0 DEF TypeOK
<1>1. CASE UNCHANGED <<itemCh, items, accepted, sent, place>>
  BY <1>0, <1>1 DEF ItemsInv
<1>2. ASSUME NEW i \in Item, Send(i) PROVE ItemsInv'
  <2> DEFINE p == ProcessorOf[i]
  <2>1. p \in Processor /\ UNCHANGED <<items, sent, place>>
    BY <1>0, <1>2, SendLemma
  <2>2. CASE UNCHANGED <<itemCh, accepted>>
    BY <1>1, <2>1, <2>2
  <2>3. CASE /\ itemCh' = [itemCh EXCEPT ![p] = Append(@, i)]
             /\ accepted' = [accepted EXCEPT ![p] = Append(@, i)]
    <3>1. sent[p] \o items[p] \o Append(itemCh[p], i) = Append(accepted[p], i)
      <4>1. sent[p] \o items[p] \o Append(itemCh[p], i) = Append(sent[p] \o items[p] \o itemCh[p], i)
        BY <1>t, <2>1, LastAppends, ZenonT(40)
      <4> QED
        BY <1>0, <2>1, <4>1 DEF ItemsInv
    <3>2. Elements(Append(accepted[p], i)) = Elements(accepted[p]) \cup {i}
      BY <1>t, <2>1, AppendElements
    <3>3. \A x \in Elements(Append(accepted[p], i)) : ProcessorOf[x] = p
      BY <1>0, <2>1, <3>2 DEF ItemsInv
    <3>4. /\ \A q \in Processor : accepted'[q] = IF q = p THEN Append(accepted[p], i) ELSE accepted[q]
          /\ \A q \in Processor : itemCh'[q] = IF q = p THEN Append(itemCh[p], i) ELSE itemCh[q]
      BY <1>0, <2>3 DEF TypeOK
    <3> HIDE DEF p
    <3> QED
      BY <1>0, <2>1, <3>1, <3>3, <3>4 DEF ItemsInv
  <2> QED
    BY <1>0, <1>2, <2>2, <2>3, SendLemma
<1>3. ASSUME NEW p \in Processor, Receive(p) \/ Drain(p) PROVE ItemsInv'
  <2> DEFINE t == Tail(itemCh[p])
             s == Append(items[p], Head(itemCh[p]))
  <2>1. /\ itemCh' = [itemCh EXCEPT ![p] = t] /\ items' = [items EXCEPT ![p] = s]
        /\ UNCHANGED <<accepted, sent, place>>
        /\ sent[p] \o s \o t = sent[p] \o items[p] \o itemCh[p]
    BY <1>0, <1>3, TakeLemma
  <2> HIDE DEF s, t
  <2>2. \A q \in Processor : /\ items'[q] = IF q = p THEN s ELSE items[q]
                             /\ itemCh'[q] = IF q = p THEN t ELSE itemCh[q]
    BY <1>0, <2>1 DEF TypeOK
  <2>3. \A q \in Processor : accepted'[q] = sent'[q] \o items'[q] \o itemCh'[q]
    <3> SUFFICES ASSUME NEW q \in Processor PROVE accepted'[q] = sent'[q] \o items'[q] \o itemCh'[q]
      OBVIOUS
    <3>1. accepted[q] = sent[q] \o items[q] \o itemCh[q]
      BY <1>0 DEF ItemsInv
    <3>2. CASE q = p
      <4>1. items'[q] = s /\ itemCh'[q] = t
        BY <2>2, <3>2
      <4>2. accepted[q] = sent[q] \o s \o t
        BY <2>1, <3>1, <3>2
      <4> QED
        BY <2>1, <4>1, <4>2
    <3>3. CASE q # p
      BY <2>1, <2>2, <3>1, <3>3
    <3> QED
      BY <3>2, <3>3
  <2> QED
    BY <1>0, <2>1, <2>3 DEF ItemsInv
<1>4. ASSUME NEW p \in Processor, SendBatch(p) PROVE ItemsInv'
  <2> DEFINE s == sent[p] \o items[p]
             E == Elements(items[p])
  <2>1. /\ sent' = [sent EXCEPT ![p] = s] /\ items' = [items EXCEPT ![p] = <<>>]
        /\ s \o <<>> \o itemCh[p] = sent[p] \o items[p] \o itemCh[p]
        /\ Elements(s) = Elements(sent[p]) \cup E
        /\ place' = [i \in Item |-> IF i \in E THEN "pending" ELSE place[i]]
        /\ UNCHANGED <<accepted, itemCh>>
    BY <1>0, <1>4, SendBatchLemma
  <2>e. E \subseteq Item
    BY <1>t, ElementsFacts
  <2>s. \A q \in Processor : Elements(sent[q]) \subseteq Item
    BY <1>t, ElementsFacts
  <2> HIDE DEF s, E
  <2>2. \A q \in Processor : /\ sent'[q] = IF q = p THEN s ELSE sent[q]
                             /\ items'[q] = IF q = p THEN <<>> ELSE items[q]
    BY <1>0, <2>1 DEF TypeOK
  <2>3. \A i \in Item : place'[i] = IF i \in E THEN "pending" ELSE place[i]
    BY <2>1
  <2>4. \A q \in Processor : \A i \in Elements(sent'[q]) : place'[i] # "outside"
    BY <1>0, <2>1, <2>2, <2>3, <2>e, <2>s, ZenonT(40) DEF ItemsInv
  <2>5. \A i \in Item : place'[i] # "refused"
    BY <1>0, <2>3 DEF ItemsInv
  <2>6. \A q \in Processor : accepted'[q] = sent'[q] \o items'[q] \o itemCh'[q]
    BY <1>0, <2>1, <2>2 DEF ItemsInv
  <2>7. \A q \in Processor : \A i \in Elements(accepted'[q]) : ProcessorOf[i] = q
    BY <1>0, <2>1 DEF ItemsInv
  <2> QED
    BY <2>4, <2>5, <2>6, <2>7 DEF ItemsInv
<1>5. ASSUME NEW event \in events, TransportSettle(event) PROVE ItemsInv'
  <2>1. /\ place' = [i \in Item |-> IF i \in event THEN "settled" ELSE place[i]]
        /\ UNCHANGED <<itemCh, items, accepted, sent>>
    BY <1>0, <1>5, SettleLemma
  <2>2. \A i \in Item : place'[i] = IF i \in event THEN "settled" ELSE place[i]
    BY <2>1
  <2>3. \A q \in Processor : Elements(sent[q]) \subseteq Item
    BY <1>t, ElementsFacts
  <2> QED
    BY <1>0, <2>1, <2>2, <2>3 DEF ItemsInv
<1>6. ASSUME NEW p \in Processor,
             Timeout(p) \/ SeeCancel(p) \/ Drained(p) \/ \E f \in Flusher : TakeFlush(p, f)
      PROVE  ItemsInv'
  BY <1>1, <1>6 DEF Timeout, SeeCancel, Drained, TakeFlush, queueVars, historyVars, transportVars
<1>7. ASSUME NEW f \in Flusher, GiveUp(f) \/ FlushNext(f) PROVE ItemsInv'
  <2>1. UNCHANGED <<itemCh, items, accepted, sent>> /\ NextStage(f)
    BY <1>7 DEF GiveUp, FlushNext, queueVars, historyVars
  <2>2. place' = place
    BY <1>0, <2>1, StageLemma
  <2> QED
    BY <1>1, <2>1, <2>2
<1>8. ASSUME \/ \E f \in Flusher : Flush(f) \/ FlushTrue(f) \/ FlushFalse(f)
             \/ Close \/ CloseNext \/ UNCHANGED vars
      PROVE  ItemsInv'
  BY <1>1, <1>8 DEF Flush, FlushTrue, FlushFalse, Transport!FlushTrue, Transport!FlushFalse, Close,
     CloseNext, vars, queueVars, historyVars, transportVars
<1> QED
  BY <1>2, <1>3, <1>4, <1>5, <1>6, <1>7, <1>8 DEF Next, Run

-----------------------------------------------------------------------------
(* What a flush found *)

\* Nothing but the flush itself can make it lose sight of an item: no place is left for
\* "outside", and a processor works for one flush at a time.
LEMMA FlushKept ==
  ASSUME IInv,
         UNCHANGED <<asked, stage, gaveUp, owed>>,
         Accepted \subseteq Accepted',
         \A f \in Flusher : flush'[f] = flush[f] \/ (flush[f] = "offer" /\ flush'[f] = "await"),
         \A i \in Item : place'[i] \in {place[i], "settled"} \/ place[i] = "outside",
         \A f \in Flusher, p \in Processor : <<f, p>> \in answered' =>
            \/ <<f, p>> \in answered
            \/ /\ worker[p] = "flush" /\ done[p] = f
               /\ \A i \in Elements(items[p]) : place'[i] # "outside",
         \A i \in Item : place[i] # "outside" => place'[i] # "outside",
         \A p \in Processor : worker'[p] \in {"drain", "flush"} =>
            /\ done'[p] \in Flusher /\ flush'[done'[p]] # "idle",
         \A p \in Processor : worker'[p] = "flush" =>
            \A i \in asked[done'[p]] :
              ProcessorOf[i] = p => i \in Elements(sent'[p]) \cup Elements(items'[p])
  PROVE  FlushInv'
<1>0. TypeOK /\ ItemsInv /\ FlushInv
  BY DEF IInv
<1>1. \A f \in Flusher : asked[f] \subseteq Item
  BY <1>0 DEF TypeOK
<1>2. \A f \in Flusher, p \in Processor : Gone(f, p) => Gone(f, p)'
  BY <1>1 DEF Gone
<1>3. ASSUME NEW f \in Flusher
      PROVE  /\ asked'[f] \subseteq Accepted'
             /\ flush'[f] = "idle" \/ stage'[f] \in 1 .. Len(Order)
             /\ flush'[f] # "idle" /\ f \notin gaveUp' =>
                  \A k \in 1 .. Len(Order) :
                    k < stage'[f] \/ flush'[f] \in {"transport", "true", "false"} => Gone(f, Order[k])'
             /\ flush'[f] = "transport" /\ f \notin gaveUp' =>
                  \A i \in asked'[f] : place'[i] = "settled" \/ i \in owed'[f]
             /\ flush'[f] = "true" /\ f \notin gaveUp' => \A i \in asked'[f] : place'[i] = "settled"
  <2>1. asked'[f] \subseteq Accepted' /\ (flush'[f] = "idle" \/ stage'[f] \in 1 .. Len(Order))
    BY <1>0 DEF FlushInv
  <2>2. flush'[f] # "idle" /\ f \notin gaveUp' =>
          \A k \in 1 .. Len(Order) :
            k < stage'[f] \/ flush'[f] \in {"transport", "true", "false"} => Gone(f, Order[k])'
    BY <1>0, <1>2, OrderFacts DEF FlushInv
  <2>3. flush[f] \in {"transport", "true"} /\ f \notin gaveUp =>
          \A i \in asked[f] : place[i] # "outside"
    <3> SUFFICES ASSUME flush[f] \in {"transport", "true"}, f \notin gaveUp, NEW i \in asked[f]
                 PROVE  place[i] # "outside"
      OBVIOUS
    <3>1. i \in Item /\ ProcessorOf[i] \in Processor
      BY <1>1, BatchAssumption
    <3>2. PICK k \in 1 .. Len(Order) : Order[k] = ProcessorOf[i]
      BY <3>1, OrderFacts
    <3>3. Gone(f, Order[k])
      BY <1>0 DEF FlushInv
    <3> QED
      BY <3>2, <3>3 DEF Gone
  <2>4. flush'[f] = "transport" /\ f \notin gaveUp' =>
          \A i \in asked'[f] : place'[i] = "settled" \/ i \in owed'[f]
    BY <1>0, <1>1, <2>3 DEF FlushInv
  <2>5. flush'[f] = "true" /\ f \notin gaveUp' => \A i \in asked'[f] : place'[i] = "settled"
    BY <1>0, <1>1, <2>3 DEF FlushInv
  <2> QED
    BY <2>1, <2>2, <2>4, <2>5
<1>4. ASSUME NEW f \in Flusher, NEW p \in Processor, <<f, p>> \in answered'
      PROVE  flush'[f] # "idle" /\ Gone(f, p)'
  <2>1. CASE <<f, p>> \in answered
    BY <1>0, <1>2, <2>1 DEF FlushInv
  <2>2. CASE /\ worker[p] = "flush" /\ done[p] = f
             /\ \A i \in Elements(items[p]) : place'[i] # "outside"
    <3>1. flush[f] # "idle" /\ \A i \in asked[f] :
            ProcessorOf[i] = p => i \in Elements(sent[p]) \cup Elements(items[p])
      BY <1>0, <2>2 DEF FlushInv
    <3>2. \A i \in asked[f] : ProcessorOf[i] = p => place'[i] # "outside"
      <4>1. ASSUME NEW i \in asked[f], ProcessorOf[i] = p PROVE place'[i] # "outside"
        <5>1. i \in Item /\ i \in Elements(sent[p]) \cup Elements(items[p])
          BY <1>1, <3>1, <4>1
        <5>2. \A x \in Elements(sent[p]) : place[x] # "outside"
          BY <1>0 DEF ItemsInv
        <5> QED
          BY <2>2, <5>1, <5>2
      <4> QED
        BY <4>1
    <3> QED
      BY <3>1, <3>2 DEF Gone
  <2> QED
    BY <1>4, <2>1, <2>2
<1>5. ASSUME NEW p \in Processor
      PROVE  /\ worker'[p] \in {"drain", "flush"} => done'[p] \in Flusher /\ flush'[done'[p]] # "idle"
             /\ worker'[p] = "flush" =>
                  \A i \in asked'[done'[p]] :
                    ProcessorOf[i] = p => i \in Elements(sent'[p]) \cup Elements(items'[p])
  OBVIOUS
<1> QED
  BY <1>3, <1>4, <1>5 DEF FlushInv

LEMMA FlushStep ==
  ASSUME IInv, [Next]_vars
  PROVE  FlushInv'
<1>0. TypeOK /\ ItemsInv /\ FlushInv
  BY DEF IInv
<1>t. \A p \in Processor : itemCh[p] \in Seq(Item) /\ items[p] \in Seq(Item) /\ sent[p] \in Seq(Item)
                           /\ accepted[p] \in Seq(Item)
  BY <1>0 DEF TypeOK
<1>i. \A f \in Flusher : asked[f] \subseteq Item
  BY <1>0 DEF TypeOK
<1>w. \A p \in Processor :
        /\ worker[p] \in {"drain", "flush"} => done[p] \in Flusher /\ flush[done[p]] # "idle"
        /\ worker[p] = "flush" =>
             \A i \in asked[done[p]] :
               ProcessorOf[i] = p => i \in Elements(sent[p]) \cup Elements(items[p])
  BY <1>0 DEF FlushInv
<1>1. ASSUME UNCHANGED <<asked, stage, gaveUp, owed, flush, place, accepted, answered, worker, done,
                         sent, items>>
      PROVE  FlushInv'
  BY <1>0, <1>1 DEF FlushInv, Gone, Accepted
<1>2. ASSUME NEW i \in Item, Send(i) PROVE FlushInv'
  <2>1. UNCHANGED <<asked, stage, gaveUp, owed, flush, place, answered, worker, done, sent, items>>
    BY <1>0, <1>2, SendLemma
  <2>2. Accepted \subseteq Accepted'
    <3> DEFINE p == ProcessorOf[i]
    <3>1. CASE accepted' = accepted
      BY <3>1 DEF Accepted
    <3>2. CASE accepted' = [accepted EXCEPT ![p] = Append(@, i)]
      <4>1. p \in Processor
        BY <1>0, <1>2, SendLemma
      <4>2. Elements(Append(accepted[p], i)) = Elements(accepted[p]) \cup {i}
        BY <1>t, <4>1, AppendElements
      <4>3. \A q \in Processor : accepted'[q] = IF q = p THEN Append(accepted[p], i) ELSE accepted[q]
        BY <1>0, <3>2 DEF TypeOK
      <4> HIDE DEF p
      <4>4. \A q \in Processor : Elements(accepted[q]) \subseteq Elements(accepted'[q])
        BY <4>2, <4>3
      <4> QED
        BY <4>4 DEF Accepted
    <3> QED
      BY <1>0, <1>2, <3>1, <3>2, SendLemma
  <2> QED
    BY <1>w, <2>1, <2>2, FlushKept
<1>3. ASSUME NEW p \in Processor, Receive(p) \/ Drain(p) PROVE FlushInv'
  <2>1. UNCHANGED <<asked, stage, gaveUp, owed, flush, place, accepted, answered, done, sent>>
    BY <1>0, <1>3, TakeLemma
  <2>2. /\ \A q \in Processor : worker'[q] = worker[q] \/ worker'[q] = "send"
        /\ \A q \in Processor : worker'[q] = "flush" => q # p
    BY <1>0, <1>3 DEF Receive, Drain, workerVars, TypeOK
  <2>3. \A q \in Processor : q # p => items'[q] = items[q]
    <3>1. \E s : items' = [items EXCEPT ![p] = s]
      BY <1>0, <1>3, TakeLemma
    <3> QED
      BY <1>0, <3>1 DEF TypeOK
  <2>4. Accepted \subseteq Accepted'
    BY <2>1 DEF Accepted
  <2>5. \A q \in Processor : worker'[q] = "flush" =>
          \A i \in asked[done'[q]] :
            ProcessorOf[i] = q => i \in Elements(sent'[q]) \cup Elements(items'[q])
    BY <1>w, <2>1, <2>2, <2>3
  <2> QED
    BY <1>w, <2>1, <2>2, <2>4, <2>5, FlushKept
<1>4. ASSUME NEW p \in Processor, Timeout(p) \/ SeeCancel(p) PROVE FlushInv'
  <2>1. UNCHANGED <<asked, stage, gaveUp, owed, flush, place, accepted, answered, done, sent, items>>
    BY <1>4 DEF Timeout, SeeCancel, queueVars, flushVars, historyVars, transportVars
  <2>2. \A q \in Processor : worker'[q] = worker[q] \/ worker'[q] \in {"send", "final"}
    BY <1>0, <1>4 DEF Timeout, SeeCancel, TypeOK
  <2>3. Accepted \subseteq Accepted'
    BY <2>1 DEF Accepted
  <2> QED
    BY <1>w, <2>1, <2>2, <2>3, FlushKept
<1>5. ASSUME NEW p \in Processor, NEW f \in Flusher, TakeFlush(p, f) PROVE FlushInv'
  <2>1. /\ flush[f] = "offer" /\ flush' = [flush EXCEPT ![f] = "await"]
        /\ worker' = [worker EXCEPT ![p] = "drain"] /\ done' = [done EXCEPT ![p] = f]
        /\ UNCHANGED <<asked, stage, gaveUp, owed, place, accepted, answered, sent, items>>
    BY <1>5 DEF TakeFlush, queueVars, historyVars, transportVars
  <2>2. \A g \in Flusher : flush'[g] = IF g = f THEN "await" ELSE flush[g]
    BY <1>0, <2>1 DEF TypeOK
  <2>3. \A q \in Processor : /\ worker'[q] = IF q = p THEN "drain" ELSE worker[q]
                             /\ done'[q] = IF q = p THEN f ELSE done[q]
    BY <1>0, <2>1 DEF TypeOK
  <2>4. Accepted \subseteq Accepted'
    BY <2>1 DEF Accepted
  <2>5. \A q \in Processor : worker'[q] \in {"drain", "flush"} =>
          done'[q] \in Flusher /\ flush'[done'[q]] # "idle"
    BY <1>w, <2>2, <2>3
  <2>6. \A q \in Processor : worker'[q] = "flush" =>
          \A i \in asked[done'[q]] :
            ProcessorOf[i] = q => i \in Elements(sent'[q]) \cup Elements(items'[q])
    BY <1>w, <2>1, <2>3
  <2> QED
    BY <2>1, <2>2, <2>4, <2>5, <2>6, FlushKept
<1>6. ASSUME NEW p \in Processor, Drained(p) PROVE FlushInv'
  <2>1. /\ itemCh[p] = <<>> /\ worker[p] \in {"drain", "final"}
        /\ worker' = [worker EXCEPT ![p] = IF @ = "drain" THEN "flush" ELSE "last"]
        /\ UNCHANGED <<asked, stage, gaveUp, owed, flush, place, accepted, answered, done, sent, items>>
    BY <1>6 DEF Drained, queueVars, flushVars, historyVars, transportVars
  <2>2. \A q \in Processor : worker'[q] = IF q # p THEN worker[q]
                                          ELSE IF worker[q] = "drain" THEN "flush" ELSE "last"
    BY <1>0, <2>1 DEF TypeOK
  <2>3. Elements(accepted[p]) = Elements(sent[p]) \cup Elements(items[p])
    <3>1. sent[p] \o items[p] \in Seq(Item)
          /\ Elements(sent[p] \o items[p]) = Elements(sent[p]) \cup Elements(items[p])
      BY <1>t, ConcatElements
    <3>2. accepted[p] = sent[p] \o items[p]
      BY <1>0, <2>1, <3>1, ConcatEmptySeq DEF ItemsInv
    <3> QED
      BY <3>1, <3>2
  <2>4. \A g \in Flusher : \A i \in asked[g] : ProcessorOf[i] = p => i \in Elements(accepted[p])
    <3> SUFFICES ASSUME NEW g \in Flusher, NEW i \in asked[g], ProcessorOf[i] = p
                 PROVE  i \in Elements(accepted[p])
      OBVIOUS
    <3>1. i \in Accepted
      BY <1>0 DEF FlushInv
    <3>2. PICK q \in Processor : i \in Elements(accepted[q])
      BY <1>0, <3>1, AcceptedFacts
    <3> QED
      BY <1>0, <3>2 DEF ItemsInv
  <2>5. Accepted \subseteq Accepted'
    BY <2>1 DEF Accepted
  <2>6. \A q \in Processor : worker'[q] \in {"drain", "flush"} =>
          done'[q] \in Flusher /\ flush'[done'[q]] # "idle"
    BY <1>w, <2>1, <2>2
  <2>7. \A q \in Processor : worker'[q] = "flush" =>
          \A i \in asked[done'[q]] :
            ProcessorOf[i] = q => i \in Elements(sent'[q]) \cup Elements(items'[q])
    BY <1>w, <2>1, <2>2, <2>3, <2>4, <2>6
  <2> QED
    BY <2>1, <2>5, <2>6, <2>7, FlushKept
<1>7. ASSUME NEW p \in Processor, SendBatch(p) PROVE FlushInv'
  <2> DEFINE E == Elements(items[p])
  <2>1. /\ place' = [i \in Item |-> IF i \in E THEN "pending" ELSE place[i]]
        /\ \A i \in E : place[i] = "outside"
        /\ worker' = [worker EXCEPT ![p] = IF @ = "last" THEN "exited" ELSE "select"]
        /\ done' = [done EXCEPT ![p] = NoOne]
        /\ answered' = IF worker[p] = "flush" THEN answered \cup {<<done[p], p>>} ELSE answered
        /\ items' = [items EXCEPT ![p] = <<>>]
        /\ UNCHANGED <<asked, stage, gaveUp, owed, flush, accepted>>
    BY <1>0, <1>7, SendBatchLemma
  <2>2. E \subseteq Item
    BY <1>t, ElementsFacts
  <2>3. \A q \in Processor : q # p => sent'[q] = sent[q] /\ items'[q] = items[q]
    <3>1. \E s : sent' = [sent EXCEPT ![p] = s]
      BY <1>0, <1>7, SendBatchLemma
    <3> QED
      BY <1>0, <2>1, <3>1 DEF TypeOK
  <2>4. /\ \A q \in Processor : q # p => worker'[q] = worker[q] /\ done'[q] = done[q]
        /\ worker'[p] \notin {"drain", "flush"}
    BY <1>0, <2>1 DEF TypeOK
  <2> HIDE DEF E
  <2>5. \A i \in Item : place'[i] = IF i \in E THEN "pending" ELSE place[i]
    BY <2>1
  <2>6. /\ \A i \in Item : place'[i] \in {place[i], "settled"} \/ place[i] = "outside"
        /\ \A i \in Item : place[i] # "outside" => place'[i] # "outside"
        /\ \A i \in E : place'[i] # "outside"
    BY <2>1, <2>2, <2>5
  <2>7. \A f \in Flusher, q \in Processor : <<f, q>> \in answered' =>
            \/ <<f, q>> \in answered
            \/ /\ worker[q] = "flush" /\ done[q] = f
               /\ \A i \in Elements(items[q]) : place'[i] # "outside"
    BY <2>1, <2>6 DEF E
  <2>8. Accepted \subseteq Accepted'
    BY <2>1 DEF Accepted
  <2>9. \A q \in Processor : worker'[q] \in {"drain", "flush"} =>
          done'[q] \in Flusher /\ flush'[done'[q]] # "idle"
    BY <1>w, <2>1, <2>4
  <2>10. \A q \in Processor : worker'[q] = "flush" =>
          \A i \in asked[done'[q]] :
            ProcessorOf[i] = q => i \in Elements(sent'[q]) \cup Elements(items'[q])
    BY <1>w, <2>3, <2>4
  <2> QED
    BY <2>1, <2>6, <2>7, <2>8, <2>9, <2>10, FlushKept
<1>8. ASSUME NEW event \in events, TransportSettle(event) PROVE FlushInv'
  <2>1. /\ place' = [i \in Item |-> IF i \in event THEN "settled" ELSE place[i]]
        /\ UNCHANGED <<asked, stage, gaveUp, owed, flush, accepted, answered, worker, done, sent, items>>
    BY <1>0, <1>8, SettleLemma
  <2>2. /\ \A i \in Item : place'[i] \in {place[i], "settled"}
        /\ \A i \in Item : place[i] # "outside" => place'[i] # "outside"
    BY <2>1
  <2>3. Accepted \subseteq Accepted'
    BY <2>1 DEF Accepted
  <2> QED
    BY <1>w, <2>1, <2>2, <2>3, FlushKept
<1>9. ASSUME Close \/ CloseNext \/ UNCHANGED vars PROVE FlushInv'
  BY <1>1, <1>9 DEF Close, CloseNext, vars, queueVars, workerVars, flushVars, historyVars, transportVars
\* The steps of the flush f itself leave the others alone.
<1>10. ASSUME NEW f \in Flusher, UNCHANGED <<place, accepted, answered, worker, done, sent, items>>,
              \A g \in Flusher : g # f => asked'[g] = asked[g] /\ flush'[g] = flush[g]
                  /\ stage'[g] = stage[g] /\ (g \in gaveUp' <=> g \in gaveUp) /\ owed'[g] = owed[g],
              flush'[f] # "idle", stage'[f] \in 1 .. Len(Order), asked'[f] \subseteq Accepted,
              asked'[f] = asked[f] \/ flush[f] = "idle",
              f \notin gaveUp' => \A k \in 1 .. Len(Order) :
                k < stage'[f] \/ flush'[f] \in {"transport", "true", "false"} => Gone(f, Order[k])',
              flush'[f] = "transport" /\ f \notin gaveUp' =>
                \A i \in asked'[f] : place[i] = "settled" \/ i \in owed'[f],
              flush'[f] = "true" /\ f \notin gaveUp' => \A i \in asked'[f] : place[i] = "settled"
       PROVE  FlushInv'
  <2>1. Accepted' = Accepted
    BY <1>10 DEF Accepted
  <2>2. ASSUME NEW g \in Flusher
        PROVE  /\ asked'[g] \subseteq Accepted'
               /\ flush'[g] = "idle" \/ stage'[g] \in 1 .. Len(Order)
               /\ flush'[g] # "idle" /\ g \notin gaveUp' =>
                    \A k \in 1 .. Len(Order) :
                      k < stage'[g] \/ flush'[g] \in {"transport", "true", "false"} => Gone(g, Order[k])'
               /\ flush'[g] = "transport" /\ g \notin gaveUp' =>
                    \A i \in asked'[g] : place'[i] = "settled" \/ i \in owed'[g]
               /\ flush'[g] = "true" /\ g \notin gaveUp' => \A i \in asked'[g] : place'[i] = "settled"
    <3>1. CASE g = f
      BY <1>10, <2>1, <3>1
    <3>2. CASE g # f
      <4>1. \A k : Gone(g, k)' <=> Gone(g, k)
        BY <1>10, <3>2 DEF Gone
      <4> QED
        BY <1>0, <1>10, <2>1, <3>2, <4>1 DEF FlushInv
    <3> QED
      BY <3>1, <3>2
  <2>3. ASSUME NEW g \in Flusher, NEW p \in Processor, <<g, p>> \in answered'
        PROVE  flush'[g] # "idle" /\ Gone(g, p)'
    <3>1. flush[g] # "idle" /\ Gone(g, p)
      BY <1>0, <1>10, <2>3 DEF FlushInv
    <3>2. asked'[g] = asked[g] /\ flush'[g] # "idle"
      BY <1>10, <3>1
    <3> QED
      BY <1>10, <3>1, <3>2 DEF Gone
  <2>4. ASSUME NEW p \in Processor
        PROVE  /\ worker'[p] \in {"drain", "flush"} => done'[p] \in Flusher /\ flush'[done'[p]] # "idle"
               /\ worker'[p] = "flush" =>
                    \A i \in asked'[done'[p]] :
                      ProcessorOf[i] = p => i \in Elements(sent'[p]) \cup Elements(items'[p])
    BY <1>w, <1>10
  <2> QED
    BY <2>2, <2>3, <2>4 DEF FlushInv
<1>11. ASSUME NEW f \in Flusher, Flush(f) PROVE FlushInv'
  <2>1. /\ flush[f] = "idle" /\ flush' = [flush EXCEPT ![f] = "offer"]
        /\ stage' = [stage EXCEPT ![f] = 1]
        /\ asked' = [asked EXCEPT ![f] = {i \in Accepted : place[i] # "settled"}]
        /\ UNCHANGED <<gaveUp, owed, place, accepted, answered, worker, done, sent, items>>
    BY <1>11 DEF Flush, queueVars, workerVars, historyVars, transportVars
  <2>2. \A g \in Flusher : g # f => asked'[g] = asked[g] /\ flush'[g] = flush[g] /\ stage'[g] = stage[g]
    BY <1>0, <2>1 DEF TypeOK
  <2>3. flush'[f] = "offer" /\ stage'[f] = 1 /\ asked'[f] \subseteq Accepted
    BY <1>0, <2>1 DEF TypeOK
  <2>4. 1 \in 1 .. Len(Order) /\ \A k \in 1 .. Len(Order) : ~(k < 1)
    BY OrderFacts
  <2> QED
    BY <1>10, <2>1, <2>2, <2>3, <2>4
<1>12. ASSUME NEW f \in Flusher, NextStage(f), flush[f] # "idle",
              UNCHANGED <<asked, accepted, answered, worker, done, sent, items>>,
              gaveUp' = gaveUp \cup {f} \/ (gaveUp' = gaveUp /\ Gone(f, Order[stage[f]])),
              flush[f] \in {"offer", "await"}
       PROVE  FlushInv'
  <2>1. stage[f] \in 1 .. Len(Order) /\ Len(Order) \in Nat /\ asked[f] \subseteq Accepted
    BY <1>0, <1>12, OrderFacts DEF FlushInv
  <2>2. f \notin gaveUp' => \A k \in 1 .. Len(Order) : k <= stage[f] => Gone(f, Order[k])
    <3> SUFFICES ASSUME f \notin gaveUp', NEW k \in 1 .. Len(Order), k <= stage[f] PROVE Gone(f, Order[k])
      OBVIOUS
    <3>1. k < stage[f] \/ k = stage[f]
      BY <2>1
    <3> QED
      BY <1>0, <1>12, <3>1 DEF FlushInv
  <2>3. \A g \in Flusher : g # f => (g \in gaveUp' <=> g \in gaveUp)
    BY <1>12
  <2>4. place' = place
    BY <1>0, <1>12, StageLemma
  <2>5. \A k \in 1 .. Len(Order) : Gone(f, Order[k])' <=> Gone(f, Order[k])
    BY <1>12, <2>4 DEF Gone
  <2>6. CASE /\ stage[f] < Len(Order)
             /\ flush' = [flush EXCEPT ![f] = "offer"]
             /\ stage' = [stage EXCEPT ![f] = stage[f] + 1]
             /\ UNCHANGED <<events, place, call, owed>>
    <3>1. flush'[f] = "offer" /\ stage'[f] = stage[f] + 1
      BY <1>0, <2>6 DEF TypeOK
    <3>2. \A g \in Flusher : g # f => flush'[g] = flush[g] /\ stage'[g] = stage[g]
      BY <1>0, <2>6 DEF TypeOK
    <3>3. stage'[f] \in 1 .. Len(Order) /\ \A k \in 1 .. Len(Order) : k < stage'[f] => k <= stage[f]
      BY <2>1, <2>6, <3>1
    <3> QED
      BY <1>10, <1>12, <2>1, <2>2, <2>3, <2>4, <2>5, <2>6, <3>1, <3>2, <3>3
  <2>7. CASE /\ stage[f] = Len(Order)
             /\ flush' = [flush EXCEPT ![f] = "transport"]
             /\ call' = [call EXCEPT ![f] = "waiting"]
             /\ owed' = [owed EXCEPT ![f] = Transport!Pending]
             /\ UNCHANGED <<stage, events, place>>
    <3>1. flush'[f] = "transport" /\ owed'[f] = Transport!Pending
      BY <1>0, <2>7 DEF TypeOK
    <3>2. \A g \in Flusher : g # f => flush'[g] = flush[g] /\ owed'[g] = owed[g]
      BY <1>0, <2>7 DEF TypeOK
    <3>3. \A k \in 1 .. Len(Order) : k <= stage[f]
      BY <2>1, <2>7
    <3>4. f \notin gaveUp' => \A i \in asked[f] : place[i] = "settled" \/ i \in Transport!Pending
      <4> SUFFICES ASSUME f \notin gaveUp', NEW i \in asked[f]
                   PROVE  place[i] = "settled" \/ i \in Transport!Pending
        OBVIOUS
      <4>1. i \in Item /\ ProcessorOf[i] \in Processor
        BY <1>i, BatchAssumption
      <4>2. PICK k \in 1 .. Len(Order) : Order[k] = ProcessorOf[i]
        BY <4>1, OrderFacts
      <4>3. place[i] # "outside"
        BY <2>2, <3>3, <4>2 DEF Gone
      <4>4. place[i] # "refused" /\ place[i] \in Transport!Places
        BY <1>0, <4>1 DEF ItemsInv, TypeOK
      <4> QED
        BY <4>1, <4>3, <4>4 DEF Transport!Pending, Transport!Places
    <3>5. f \notin gaveUp' => \A k \in 1 .. Len(Order) : Gone(f, Order[k])'
      BY <2>2, <2>5, <3>3
    <3> QED
      BY <1>10, <1>12, <2>1, <2>3, <2>7, <3>1, <3>2, <3>4, <3>5
  <2> QED
    BY <1>0, <1>12, <2>6, <2>7, StageLemma
<1>13. ASSUME NEW f \in Flusher, GiveUp(f) PROVE FlushInv'
  BY <1>12, <1>13 DEF GiveUp, queueVars, workerVars, historyVars
<1>14. ASSUME NEW f \in Flusher, FlushNext(f) PROVE FlushInv'
  <2>1. flush[f] = "await" /\ <<f, Order[stage[f]]>> \in answered
    BY <1>14 DEF FlushNext
  <2>2. Order[stage[f]] \in Processor
    BY <1>0, <2>1, OrderFacts DEF FlushInv
  <2>3. Gone(f, Order[stage[f]])
    BY <1>0, <2>1, <2>2 DEF FlushInv
  <2> QED
    BY <1>12, <1>14, <2>1, <2>3 DEF FlushNext, queueVars, workerVars, historyVars
<1>15. ASSUME NEW f \in Flusher, FlushTrue(f) \/ FlushFalse(f) PROVE FlushInv'
  <2>1. /\ flush[f] = "transport"
        /\ \/ flush' = [flush EXCEPT ![f] = "true"] /\ owed[f] \cap Transport!Pending = {}
           \/ flush' = [flush EXCEPT ![f] = "false"]
        /\ UNCHANGED <<asked, stage, gaveUp, owed, place, accepted, answered, worker, done, sent, items>>
    BY <1>15 DEF FlushTrue, FlushFalse, Transport!FlushTrue, Transport!FlushFalse, queueVars,
       workerVars, closeVars, historyVars
  <2>2. \A g \in Flusher : g # f => flush'[g] = flush[g]
    BY <1>0, <2>1 DEF TypeOK
  <2>3. flush'[f] \in {"true", "false"}
        /\ (flush'[f] = "true" => owed[f] \cap Transport!Pending = {})
    BY <1>0, <2>1 DEF TypeOK
  <2>4. stage[f] \in 1 .. Len(Order) /\ asked[f] \subseteq Accepted
    BY <1>0, <2>1 DEF FlushInv
  <2>5. f \notin gaveUp => \A k \in 1 .. Len(Order) : Gone(f, Order[k])'
    BY <1>0, <2>1 DEF FlushInv, Gone
  <2>6. flush'[f] = "true" /\ f \notin gaveUp => \A i \in asked[f] : place[i] = "settled"
    <3> SUFFICES ASSUME flush'[f] = "true", f \notin gaveUp, NEW i \in asked[f] PROVE place[i] = "settled"
      OBVIOUS
    <3>1. place[i] = "settled" \/ i \in owed[f]
      BY <1>0, <2>1 DEF FlushInv
    <3>2. i \in Item /\ ProcessorOf[i] \in Processor
      BY <1>i, BatchAssumption
    <3>3. PICK k \in 1 .. Len(Order) : Order[k] = ProcessorOf[i]
      BY <3>2, OrderFacts
    <3>4. place[i] # "outside"
      BY <1>0, <2>1, <3>3 DEF FlushInv, Gone
    <3>5. place[i] # "refused" /\ place[i] \in Transport!Places
      BY <1>0, <3>2 DEF ItemsInv, TypeOK
    <3>6. place[i] = "pending" => i \in Transport!Pending
      BY <3>2 DEF Transport!Pending
    <3> QED
      BY <2>3, <3>1, <3>4, <3>5, <3>6 DEF Transport!Places
  <2> QED
    BY <1>10, <2>1, <2>2, <2>3, <2>4, <2>5, <2>6
<1> QED
  BY <1>2, <1>3, <1>4, <1>5, <1>6, <1>7, <1>8, <1>9, <1>11, <1>13, <1>14, <1>15 DEF Next, Run

-----------------------------------------------------------------------------
(* What Close waits for *)

LEMMA LengthFacts ==
  ASSUME TypeOK, ItemsInv, NEW p \in Processor
  PROVE  /\ Len(accepted[p]) = Len(sent[p]) + Len(items[p]) + Len(itemCh[p])
         /\ Len(accepted[p]) \in Nat /\ Len(sent[p]) \in Nat /\ Len(items[p]) \in Nat
         /\ Len(itemCh[p]) \in Nat
<1>1. /\ itemCh[p] \in Seq(Item) /\ items[p] \in Seq(Item) /\ sent[p] \in Seq(Item)
      /\ accepted[p] \in Seq(Item)
  BY DEF TypeOK
<1>2. sent[p] \o items[p] \in Seq(Item) /\ Len(sent[p] \o items[p]) = Len(sent[p]) + Len(items[p])
  BY <1>1, ConcatElements
<1>3. Len((sent[p] \o items[p]) \o itemCh[p]) = Len(sent[p] \o items[p]) + Len(itemCh[p])
  BY <1>1, <1>2, ConcatElements
<1>4. accepted[p] = (sent[p] \o items[p]) \o itemCh[p]
  BY DEF ItemsInv
<1> QED
  BY <1>1, <1>2, <1>3, <1>4, ElementsFacts

LEMMA CloseKept ==
  ASSUME IInv, UNCHANGED <<cancelled, closeStage, before>>,
         \A p \in Processor : before[p] <= Len(accepted'[p]),
         \A p \in Processor :
           /\ worker[p] = "exited" => worker'[p] = "exited"
           /\ worker'[p] \in {"final", "last", "exited"} => p \in cancelled
           /\ worker'[p] = "last" => Len(sent'[p]) + Len(items'[p]) >= before[p]
           /\ worker'[p] = "exited" => Len(sent'[p]) >= before[p] /\ items'[p] = <<>>
  PROVE  CloseInv'
  BY OrderFacts DEF IInv, CloseInv

LEMMA CloseStep ==
  ASSUME IInv, [Next]_vars
  PROVE  CloseInv'
<1>0. TypeOK /\ ItemsInv /\ CloseInv
  BY DEF IInv
<1>t. \A p \in Processor : itemCh[p] \in Seq(Item) /\ items[p] \in Seq(Item) /\ sent[p] \in Seq(Item)
                           /\ accepted[p] \in Seq(Item)
  BY <1>0 DEF TypeOK
<1>l. \A p \in Processor : before[p] \in Nat /\ Len(accepted[p]) \in Nat /\ before[p] <= Len(accepted[p])
  BY <1>0, <1>t, ElementsFacts DEF TypeOK, CloseInv
<1>c. \A p \in Processor :
       /\ worker[p] \in {"final", "last", "exited"} => p \in cancelled
       /\ worker[p] = "last" => Len(sent[p]) + Len(items[p]) >= before[p]
       /\ worker[p] = "exited" => Len(sent[p]) >= before[p] /\ items[p] = <<>>
  BY <1>0 DEF CloseInv
<1>1. CASE UNCHANGED <<cancelled, closeStage, before, accepted, worker, sent, items>>
  BY <1>0, <1>1 DEF CloseInv
<1>2. ASSUME NEW i \in Item, Send(i) PROVE CloseInv'
  <2>1. UNCHANGED <<cancelled, closeStage, before, worker, sent, items>>
    BY <1>0, <1>2, SendLemma
  <2>2. \A p \in Processor : before[p] <= Len(accepted'[p])
    <3> DEFINE p == ProcessorOf[i]
    <3>1. CASE accepted' = accepted
      BY <1>l, <3>1
    <3>2. CASE accepted' = [accepted EXCEPT ![p] = Append(@, i)]
      <4>1. p \in Processor
        BY <1>0, <1>2, SendLemma
      <4>2. Len(Append(accepted[p], i)) = Len(accepted[p]) + 1
        BY <1>t, <4>1, AppendElements
      <4>3. \A q \in Processor : accepted'[q] = IF q = p THEN Append(accepted[p], i) ELSE accepted[q]
        BY <1>0, <3>2 DEF TypeOK
      <4> HIDE DEF p
      <4>4. before[p] <= Len(accepted[p]) + 1
        BY <1>l, <4>1
      <4> QED
        BY <1>l, <4>2, <4>3, <4>4
    <3> QED
      BY <1>0, <1>2, <3>1, <3>2, SendLemma
  <2> QED
    BY <1>c, <2>1, <2>2, CloseKept
<1>3. ASSUME NEW p \in Processor, Receive(p) \/ Drain(p) PROVE CloseInv'
  <2>1. UNCHANGED <<cancelled, closeStage, before, accepted, sent>>
    BY <1>0, <1>3, TakeLemma
  <2>2. \A q \in Processor : q # p => items'[q] = items[q]
    <3>1. \E s : items' = [items EXCEPT ![p] = s]
      BY <1>0, <1>3, TakeLemma
    <3> QED
      BY <1>0, <3>1 DEF TypeOK
  <2>3. /\ worker[p] \in {"select", "drain", "final"} /\ worker'[p] \in {worker[p], "send"}
        /\ \A q \in Processor : q # p => worker'[q] = worker[q]
    BY <1>0, <1>3 DEF Receive, Drain, workerVars, TypeOK
  <2>4. \A q \in Processor :
           /\ worker[q] = "exited" => worker'[q] = "exited"
           /\ worker'[q] \in {"final", "last", "exited"} => q \in cancelled
           /\ worker'[q] = "last" => Len(sent'[q]) + Len(items'[q]) >= before[q]
           /\ worker'[q] = "exited" => Len(sent'[q]) >= before[q] /\ items'[q] = <<>>
    <3> SUFFICES ASSUME NEW q \in Processor
                 PROVE  /\ worker[q] = "exited" => worker'[q] = "exited"
                        /\ worker'[q] \in {"final", "last", "exited"} => q \in cancelled
                        /\ worker'[q] = "last" => Len(sent'[q]) + Len(items'[q]) >= before[q]
                        /\ worker'[q] = "exited" => Len(sent'[q]) >= before[q] /\ items'[q] = <<>>
      OBVIOUS
    <3>1. CASE q = p
      BY <1>c, <2>3, <3>1
    <3>2. CASE q # p
      BY <1>c, <2>1, <2>2, <2>3, <3>2
    <3> QED
      BY <3>1, <3>2
  <2> QED
    BY <1>l, <2>1, <2>4, CloseKept
<1>4. ASSUME NEW p \in Processor,
             Timeout(p) \/ SeeCancel(p) \/ \E f \in Flusher : TakeFlush(p, f)
      PROVE  CloseInv'
  <2>1. UNCHANGED <<cancelled, closeStage, before, accepted, sent, items>>
    BY <1>4 DEF Timeout, SeeCancel, TakeFlush, queueVars, closeVars, historyVars
  <2>2. /\ worker[p] = "select" /\ worker'[p] \in {"select", "send", "drain", "final"}
        /\ worker'[p] = "final" => p \in cancelled
        /\ \A q \in Processor : q # p => worker'[q] = worker[q]
    BY <1>0, <1>4 DEF Timeout, SeeCancel, TakeFlush, TypeOK
  <2> QED
    BY <1>c, <1>l, <2>1, <2>2, CloseKept
<1>5. ASSUME NEW p \in Processor, Drained(p) PROVE CloseInv'
  <2>1. /\ itemCh[p] = <<>> /\ worker[p] \in {"drain", "final"}
        /\ UNCHANGED <<cancelled, closeStage, before, accepted, sent, items>>
    BY <1>5 DEF Drained, queueVars, closeVars, historyVars
  <2>2. /\ worker'[p] = IF worker[p] = "drain" THEN "flush" ELSE "last"
        /\ \A q \in Processor : q # p => worker'[q] = worker[q]
    BY <1>0, <1>5 DEF Drained, TypeOK
  <2>3. Len(sent[p]) + Len(items[p]) >= before[p]
    <3>1. Len(itemCh[p]) = 0
      BY <1>t, <2>1, ElementsFacts
    <3>2. /\ Len(accepted[p]) = Len(sent[p]) + Len(items[p]) + Len(itemCh[p])
          /\ Len(accepted[p]) \in Nat /\ Len(sent[p]) \in Nat /\ Len(items[p]) \in Nat
      BY <1>0, LengthFacts
    <3>3. before[p] \in Nat /\ before[p] <= Len(accepted[p])
      BY <1>l
    <3> DEFINE a == Len(accepted[p])
               b == Len(sent[p])
               c == Len(items[p])
               d == Len(itemCh[p])
    <3>4. /\ a \in Nat /\ b \in Nat /\ c \in Nat /\ d = 0
          /\ a = b + c + d /\ before[p] \in Nat /\ before[p] <= a
      BY <3>1, <3>2, <3>3
    <3> HIDE DEF a, b, c, d
    <3>5. b + c >= before[p]
      BY <3>4
    <3> QED
      BY <3>5 DEF b, c
  <2> QED
    BY <1>c, <1>l, <2>1, <2>2, <2>3, CloseKept
<1>6. ASSUME NEW p \in Processor, SendBatch(p) PROVE CloseInv'
  <2> DEFINE s == sent[p] \o items[p]
  <2>1. /\ sent' = [sent EXCEPT ![p] = s] /\ Len(s) = Len(sent[p]) + Len(items[p])
        /\ items' = [items EXCEPT ![p] = <<>>]
        /\ worker' = [worker EXCEPT ![p] = IF @ = "last" THEN "exited" ELSE "select"]
        /\ worker[p] \in {"send", "flush", "last"}
        /\ UNCHANGED <<cancelled, closeStage, before, accepted>>
    BY <1>0, <1>6, SendBatchLemma
  <2> HIDE DEF s
  <2>2. /\ \A q \in Processor : q # p => sent'[q] = sent[q] /\ items'[q] = items[q] /\ worker'[q] = worker[q]
        /\ sent'[p] = s /\ items'[p] = <<>>
        /\ worker'[p] = IF worker[p] = "last" THEN "exited" ELSE "select"
    BY <1>0, <2>1 DEF TypeOK
  <2>3. worker[p] = "last" => Len(s) >= before[p] /\ p \in cancelled
    BY <1>c, <2>1
  <2>4. \A q \in Processor :
           /\ worker[q] = "exited" => worker'[q] = "exited"
           /\ worker'[q] \in {"final", "last", "exited"} => q \in cancelled
           /\ worker'[q] = "last" => Len(sent'[q]) + Len(items'[q]) >= before[q]
           /\ worker'[q] = "exited" => Len(sent'[q]) >= before[q] /\ items'[q] = <<>>
    <3> SUFFICES ASSUME NEW q \in Processor
                 PROVE  /\ worker[q] = "exited" => worker'[q] = "exited"
                        /\ worker'[q] \in {"final", "last", "exited"} => q \in cancelled
                        /\ worker'[q] = "last" => Len(sent'[q]) + Len(items'[q]) >= before[q]
                        /\ worker'[q] = "exited" => Len(sent'[q]) >= before[q] /\ items'[q] = <<>>
      OBVIOUS
    <3>1. CASE q = p
      <4>1. worker[q] \in {"send", "flush", "last"} /\ worker'[q] \in {"exited", "select"}
            /\ (worker'[q] = "exited" => worker[q] = "last")
        BY <2>1, <2>2, <3>1
      <4>2. worker'[q] = "exited" => Len(sent'[q]) >= before[q] /\ items'[q] = <<>> /\ q \in cancelled
        BY <2>2, <2>3, <3>1, <4>1
      <4> QED
        BY <4>1, <4>2
    <3>2. CASE q # p
      BY <1>c, <2>2, <3>2
    <3> QED
      BY <3>1, <3>2
  <2> QED
    BY <1>l, <2>1, <2>4, CloseKept
<1>7. ASSUME \/ \E event \in events : TransportSettle(event)
             \/ \E f \in Flusher : Flush(f) \/ GiveUp(f) \/ FlushNext(f) \/ FlushTrue(f) \/ FlushFalse(f)
             \/ UNCHANGED vars
      PROVE  CloseInv'
  BY <1>1, <1>7 DEF TransportSettle, Flush, GiveUp, FlushNext, FlushTrue, FlushFalse, vars, queueVars,
     workerVars, closeVars, historyVars
\* Close cancels the next processor when the last one has ended.
<1>8. ASSUME UNCHANGED <<accepted, worker, sent, items>>, closeStage' = closeStage + 1,
             Cancel(closeStage + 1), closeStage \in 0 .. Len(Order),
             closeStage # 0 => worker[Order[closeStage]] = "exited"
      PROVE  CloseInv'
  <2>1. \A k \in 1 .. Len(Order) : closeStage' > k => worker[Order[k]] = "exited"
    <3> SUFFICES ASSUME NEW k \in 1 .. Len(Order), closeStage' > k PROVE worker[Order[k]] = "exited"
      OBVIOUS
    <3>1. closeStage > k \/ (closeStage = k /\ closeStage # 0)
      BY <1>8, OrderFacts
    <3> QED
      BY <1>0, <1>8, <3>1 DEF CloseInv
  <2>2. CASE closeStage + 1 <= Len(Order)
    <3>1. PICK n : n = closeStage + 1
      OBVIOUS
    <3>2. n \in 1 .. Len(Order) /\ ~(n <= closeStage) /\ closeStage' = n
      BY <1>8, <2>2, <3>1, OrderFacts
    <3>3. PICK p \in Processor : p = Order[n]
      BY <3>2, OrderFacts
    <3>4. cancelled' = cancelled \cup {p} /\ before' = [before EXCEPT ![p] = Len(accepted[p])]
      BY <1>8, <2>2, <3>1, <3>3 DEF Cancel
    <3>5. worker[p] \notin {"final", "last", "exited"}
      BY <1>0, <3>2, <3>3 DEF CloseInv
    <3>6. \A q \in Processor : before'[q] = IF q = p THEN Len(accepted[p]) ELSE before[q]
      BY <1>0, <3>4 DEF TypeOK
    <3>7. \A k \in 1 .. Len(Order) : Order[k] \in cancelled' => k <= closeStage'
      <4> SUFFICES ASSUME NEW k \in 1 .. Len(Order), Order[k] \in cancelled' PROVE k <= n
        BY <3>2
      <4>1. CASE Order[k] \in cancelled
        BY <1>0, <1>8, <3>1, <4>1, OrderFacts DEF CloseInv
      <4>2. CASE Order[k] = p
        <5>1. k = n
          BY <3>2, <3>3, <4>2, OrderFacts
        <5> QED
          BY <5>1, OrderFacts
      <4> QED
        BY <3>4, <4>1, <4>2
    <3>8. ASSUME NEW q \in Processor
          PROVE  /\ before'[q] <= Len(accepted'[q])
                 /\ worker'[q] \in {"final", "last", "exited"} => q \in cancelled'
                 /\ worker'[q] = "last" => Len(sent'[q]) + Len(items'[q]) >= before'[q]
                 /\ worker'[q] = "exited" => Len(sent'[q]) >= before'[q] /\ items'[q] = <<>>
      <4>1. CASE q = p
        <5>1. before'[q] = Len(accepted'[q]) /\ Len(accepted'[q]) \in Nat
          BY <1>8, <1>l, <3>6, <4>1
        <5>2. before'[q] <= Len(accepted'[q])
          BY <5>1
        <5>3. worker'[q] \notin {"final", "last", "exited"}
          BY <1>8, <3>5, <4>1
        <5> QED
          BY <5>2, <5>3
      <4>2. CASE q # p
        BY <1>8, <1>c, <1>l, <3>4, <3>6, <4>2
      <4> QED
        BY <4>1, <4>2
    <3>9. \A k \in 1 .. Len(Order) : closeStage' > k => worker'[Order[k]] = "exited"
      BY <1>8, <2>1
    <3> QED
      BY <3>7, <3>8, <3>9 DEF CloseInv
  <2>3. CASE ~(closeStage + 1 <= Len(Order))
    <3>1. UNCHANGED <<cancelled, before>>
      BY <1>8, <2>3 DEF Cancel
    <3>2. \A k \in 1 .. Len(Order) : k <= closeStage => k <= closeStage'
      BY <1>8, OrderFacts
    <3>3. \A k \in 1 .. Len(Order) : Order[k] \in cancelled => k <= closeStage'
      BY <1>0, <3>2 DEF CloseInv
    <3> QED
      BY <1>0, <1>8, <2>1, <3>1, <3>3 DEF CloseInv
  <2> QED
    BY <2>2, <2>3
<1>9. CASE Close
  <2>1. /\ closeStage = 0 /\ closeStage' = 1 /\ Cancel(1) /\ 0 + 1 = 1
        /\ UNCHANGED <<accepted, worker, sent, items>>
    BY <1>9 DEF Close, queueVars, workerVars, historyVars
  <2> QED
    BY <1>8, <2>1, OrderFacts
<1>10. CASE CloseNext
  <2>1. /\ closeStage \in 1 .. Len(Order) /\ worker[Order[closeStage]] = "exited"
        /\ closeStage' = closeStage + 1 /\ Cancel(closeStage + 1)
        /\ UNCHANGED <<accepted, worker, sent, items>>
    BY <1>10 DEF CloseNext, queueVars, workerVars, historyVars
  <2> QED
    BY <1>8, <2>1, OrderFacts
<1> QED
  BY <1>2, <1>3, <1>4, <1>5, <1>6, <1>7, <1>9, <1>10 DEF Next, Run

-----------------------------------------------------------------------------
(* The invariant, and what follows from it *)

LEMMA InitInv ==
  ASSUME Init
  PROVE  IInv
<1>1. <<>> \in Seq(Item) /\ Len(<<>>) = 0 /\ Elements(<<>>) = {} /\ <<>> \o <<>> \o <<>> = <<>>
  <2>1. <<>> \in Seq(Item) /\ Len(<<>>) = 0
    OBVIOUS
  <2>2. Elements(<<>>) = {}
    BY <2>1, ElementsFacts
  <2>3. <<>> \o <<>> = <<>>
    BY <2>1, ConcatEmptySeq
  <2> QED
    BY <2>1, <2>2, <2>3
<1> USE OrderFacts DEF Init
<1>2. batchSize \in Nat /\ 0 < batchSize /\ 0 <= batchSize
  BY BatchAssumption
<1>3. Transport!Init
  OBVIOUS
<1>4. 0 \in 0 .. Len(Order) /\ 0 \in 0 .. Len(Order) + 1 /\ \A k \in 1 .. Len(Order) : ~(0 > k)
  BY OrderFacts
<1>5. QueueTypes
  BY <1>1, <1>2 DEF QueueTypes
<1>6. OtherTypes
  BY <1>3, <1>4 DEF OtherTypes, Transport!Init, Transport!Places
<1>7. TypeOK
  BY <1>5, <1>6, TypeParts
<1>8. ItemsInv
  BY <1>1, <1>3 DEF ItemsInv, Transport!Init
<1>9. FlushInv
  BY <1>3 DEF FlushInv, Gone, Transport!Init
<1>10. CloseInv
  BY <1>1, <1>4 DEF CloseInv
<1> QED
  BY <1>7, <1>8, <1>9, <1>10 DEF IInv

THEOREM Invariance == Spec => []IInv
<1>1. IInv /\ [Next]_vars => IInv'
  <2> SUFFICES ASSUME IInv, [Next]_vars PROVE IInv'
    OBVIOUS
  <2>1. TypeOK'
    BY QueueTypesStep, OtherTypesStep DEF TypeOK, QueueTypes, OtherTypes
  <2> QED
    BY <2>1, ItemsStep, FlushStep, CloseStep DEF IInv
<1> QED
  BY <1>1, InitInv, PTL DEF Spec

\* Whichever of size, timer, flush and shutdown ends a batch (batch_processor.go run), no
\* item that Send accepted is lost, doubled or overtaken by a later one of its processor.
THEOREM ItemsConserved == Spec => []Conserved
<1>1. IInv => Conserved
  BY DEF IInv, ItemsInv, Conserved
<1> QED
  BY <1>1, Invariance, PTL

\* A client.Flush that returns true without giving a processor up has had everything
\* settled that was accepted before it was called, and a Shutdown that returns has had
\* everything sent that was accepted before it.
THEOREM ReturnsAreSound == Spec => []ReturnsSound
<1>1. IInv => ReturnsSound
  <2> SUFFICES ASSUME IInv PROVE ReturnsSound
    OBVIOUS
  <2>1. \A f \in Flusher : flush[f] = "true" /\ f \notin gaveUp =>
          \A i \in asked[f] : place[i] = "settled"
    BY DEF IInv, FlushInv
  <2>2. \A k \in 1 .. Len(Order) :
          closeStage > k => /\ Len(sent[Order[k]]) >= before[Order[k]]
                            /\ items[Order[k]] = <<>>
    BY OrderFacts DEF IInv, CloseInv
  <2> QED
    BY <2>1, <2>2 DEF ReturnsSound
<1> QED
  BY <1>1, Invariance, PTL

==============================================================================
