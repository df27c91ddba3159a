------------------------------- MODULE HubProofs -------------------------------
(***************************************************************************)
(* The stack of a hub is never empty and has a layer for each PushScope,   *)
(* scopes share nothing, and breadcrumbs are kept in order and cut, for    *)
(* every number of goroutines, layers, hubs and writes and every limit.    *)
(***************************************************************************)
EXTENDS Hub, SequenceTheorems, FiniteSetTheorems, TLAPS

\* Where a goroutine is, what it has seen is a layer that exists.
CallOK(c, n) ==
  /\ c = Idle \/ c.op # "idle"
  /\ c.op \notin {"idle", "limit"} => c.top \in 1 .. n
  /\ c.op \in {"append", "newHub"} => c.scope \in 1 .. n

CallInv == \A g \in Goroutine : CallOK(at[g], layers)

StackInv ==
  /\ \A h \in HubId : \A i \in 1 .. Len(stack[h]) : stack[h][i] \in 1 .. layers
  /\ \A g \in Goroutine : stack[hub[g]] # <<>>

\* Every scope has a map of its own.
MapInv ==
  /\ \A l \in Layer : tags[l] = l
  /\ \A l \in 1 .. layers : maps[l] = fresh[l].tag

\* A slice is part of an array, and the elements it has are those that were added.
SliceInv ==
  \A l \in 1 .. layers :
    /\ processors[l].cap > 0 =>
         /\ processors[l].array \in 1 .. Len(heap)
         /\ processors[l].cap <= Len(heap[processors[l].array])
    /\ Elements(processors[l]) = fresh[l].processors

\* Of the slices of one array at most one has room, and it is the longest.
RoomInv ==
  \A l, k \in 1 .. layers :
    /\ l # k
    /\ processors[l].len < processors[l].cap
    /\ processors[k].cap > 0
    /\ processors[k].array = processors[l].array
    => processors[k].len = processors[k].cap /\ processors[k].len <= processors[l].len

IInv == TypeOK /\ CallInv /\ StackInv /\ MapInv /\ SliceInv /\ RoomInv

-----------------------------------------------------------------------------

LEMMA InitInv == Init => IInv
<1> SUFFICES ASSUME Init PROVE IInv
  OBVIOUS
<1> USE HubAssumption DEF Layer, HubId, Write
<1>1. TypeOK
  <2>1. stack \in [HubId -> Seq(Layer)]
    <3>1. <<1>> \in Seq(Layer) /\ <<>> \in Seq(Layer)
      OBVIOUS
    <3> QED
      BY <3>1 DEF Init
  <2>2. /\ heap \in Seq(Seq(0 .. MaxWrites))
        /\ breadcrumbs \in [Layer -> Seq(Write)]
        /\ processors \in [Layer -> Slice]
        /\ \A l \in Layer : processors[l].len <= processors[l].cap
    BY DEF Init, EmptySlice, Slice
  <2>3. at \in [Goroutine -> Call]
    BY DEF Init, Idle, Ops, Call
  <2>4. fresh \in [Layer -> Contents]
    BY DEF Init, Empty, Contents
  <2>5. client \in [Layer -> Client \cup {NoClient}] /\ layers \in Layer
    BY DEF Init
  <2>6. /\ tags \in [Layer -> Layer] /\ maps \in [Layer -> 0 .. MaxWrites]
        /\ writes \in 0 .. MaxWrites
    BY DEF Init
  <2>7. hub \in [Goroutine -> HubId] /\ open \in [Goroutine -> Nat]
    BY DEF Init
  <2> QED
    BY <2>1, <2>2, <2>3, <2>4, <2>5, <2>6, <2>7 DEF TypeOK
<1>2. CallInv
  BY DEF Init, CallInv, CallOK, Idle
<1>3. StackInv
  BY DEF Init, StackInv
<1>4. MapInv
  BY DEF Init, MapInv, Empty
<1>5. SliceInv
  BY DEF Init, SliceInv, Elements, Empty, EmptySlice
<1>6. RoomInv
  BY DEF Init, RoomInv, EmptySlice
<1> QED
  BY <1>1, <1>2, <1>3, <1>4, <1>5, <1>6 DEF IInv

\* stackTop finds a layer that exists.
LEMMA TopLemma ==
  ASSUME TypeOK, StackInv, NEW g \in Goroutine
  PROVE  stackTop(hub[g]) \in 1 .. layers /\ stackTop(hub[g]) \in Layer
<1>1. hub[g] \in HubId /\ layers \in Layer
  BY DEF TypeOK
<1>2. stack[hub[g]] \in Seq(Layer) /\ stack[hub[g]] # <<>>
  BY <1>1 DEF TypeOK, StackInv
<1>3. Len(stack[hub[g]]) \in 1 .. Len(stack[hub[g]])
  BY <1>2
<1>4. stack[hub[g]][Len(stack[hub[g]])] \in 1 .. layers
  BY <1>1, <1>3 DEF StackInv
<1> QED
  BY <1>1, <1>4, HubAssumption DEF stackTop, Layer

\* What a look at the top of the stack leaves behind.
LEMMA LookLemma ==
  ASSUME TypeOK, StackInv, NEW g \in Goroutine, NEW op \in Ops, Look(g, op)
  PROVE  /\ at' = [at EXCEPT ![g] = [@ EXCEPT !.op = op, !.top = stackTop(hub[g])]]
         /\ at[g].op = "idle"
         /\ stackTop(hub[g]) \in 1 .. layers /\ stackTop(hub[g]) \in Layer
         /\ UNCHANGED <<stacks, data, hub, open>>
  BY TopLemma DEF Look, Idle

-----------------------------------------------------------------------------
(* Each part of the invariant holds in the next state *)

\* The clone of a slice, and a slice after append, are slices.
LEMMA SliceTypes ==
  ASSUME NEW s \in Slice, s.len <= s.cap, heap \in Seq(Seq(0 .. MaxWrites))
  PROVE  /\ CloneSlice(s) \in Slice /\ CloneSlice(s).len <= CloneSlice(s).cap
         /\ AppendTo(s) \in Slice /\ AppendTo(s).len <= AppendTo(s).cap
<1>1. CloneSlice(s) \in Slice /\ CloneSlice(s).len <= CloneSlice(s).cap
  BY DEF Slice, CloneSlice
<1>2. CASE s.len < s.cap
  BY <1>1, <1>2 DEF Slice, AppendTo, InPlace
<1>3. CASE ~(s.len < s.cap)
  <2>1. Len(heap) \in Nat /\ s.len \in Nat
    BY DEF Slice
  <2> QED
    BY <1>1, <1>3, <2>1 DEF Slice, AppendTo, Moved
<1> QED
  BY <1>2, <1>3

\* The heap keeps its type.
LEMMA HeapType ==
  ASSUME NEW s \in Slice, NEW x \in 0 .. MaxWrites, heap \in Seq(Seq(0 .. MaxWrites)),
         s.len < s.cap => s.array \in 1 .. Len(heap) /\ s.cap <= Len(heap[s.array]),
         s.len >= s.cap /\ s.len > 0 => s.array \in 1 .. Len(heap) /\ s.len <= Len(heap[s.array])
  PROVE  HeapAfter(s, x) \in Seq(Seq(0 .. MaxWrites))
<1> USE HubAssumption DEF Slice
<1>1. CASE s.len < s.cap
  <2>1. heap[s.array] \in Seq(0 .. MaxWrites)
    BY <1>1
  <2>2. [heap[s.array] EXCEPT ![s.len + 1] = x] \in Seq(0 .. MaxWrites)
    BY <1>1, <2>1, SMTT(20)
  <2> QED
    BY <1>1, <2>2 DEF HeapAfter
<1>2. CASE ~(s.len < s.cap)
  <2> DEFINE a == [i \in 1 .. 2 * (s.len + 1) |->
                     IF i <= s.len THEN heap[s.array][i] ELSE IF i = s.len + 1 THEN x ELSE 0]
  <2>1. \A i \in 1 .. s.len : heap[s.array][i] \in 0 .. MaxWrites
    <3>1. SUFFICES ASSUME NEW i \in 1 .. s.len PROVE heap[s.array][i] \in 0 .. MaxWrites
      OBVIOUS
    <3>2. heap[s.array] \in Seq(0 .. MaxWrites) /\ i \in 1 .. Len(heap[s.array])
      BY <1>2, SMTT(20)
    <3> QED
      BY <3>2, ElementOfSeq
  <2>2. a \in Seq(0 .. MaxWrites)
    <3> DEFINE n == 2 * (s.len + 1)
    <3>1. n \in Nat /\ 0 \in 0 .. MaxWrites
      OBVIOUS
    <3>2. \A i \in 1 .. n :
            (IF i <= s.len THEN heap[s.array][i] ELSE IF i = s.len + 1 THEN x ELSE 0) \in 0 .. MaxWrites
      BY <2>1, <3>1
    <3> HIDE DEF n
    <3>3. [i \in 1 .. n |-> IF i <= s.len THEN heap[s.array][i] ELSE IF i = s.len + 1 THEN x ELSE 0]
            \in Seq(0 .. MaxWrites)
      BY <3>1, <3>2
    <3> QED
      BY <3>3 DEF n
  <2> QED
    BY <1>2, <2>2 DEF HeapAfter
<1> QED
  BY <1>1, <1>2

LEMMA IdleLemma == Idle \in Call
  BY HubAssumption DEF Idle, Call, Ops

\* What the steps change about a call.
LEMMA CallTypes ==
  ASSUME NEW c \in Call, NEW o \in Ops, NEW l \in 0 .. MaxLayers, NEW m \in Int
  PROVE  /\ [c EXCEPT !.op = o, !.top = l] \in Call
         /\ [c EXCEPT !.op = o, !.scope = l] \in Call
         /\ [c EXCEPT !.op = o, !.limit = m] \in Call
  BY DEF Call

\* What the steps that set something on a scope have in common.
LEMMA WriteLemma ==
  ASSUME IInv, NEW g \in Goroutine, SetTag(g) \/ AddEventProcessor(g) \/ AddBreadcrumb(g)
  PROVE  /\ at[g].top \in 1 .. layers /\ at[g].top \in Layer
         /\ writes + 1 \in Write /\ writes' = writes + 1
         /\ at' = [at EXCEPT ![g] = Idle]
         /\ UNCHANGED <<stacks, hub, open>>
<1>1. at[g].op \in {"scope", "crumb"} /\ Written(g)
  BY DEF SetTag, AddEventProcessor, AddBreadcrumb
<1>2. at[g].top \in 1 .. layers
  BY <1>1 DEF IInv, CallInv, CallOK
<1>3. layers \in 1 .. MaxLayers /\ writes \in 0 .. MaxWrites
  BY DEF IInv, TypeOK, Layer
<1> QED
  BY <1>1, <1>2, <1>3, HubAssumption DEF Written, Return, Layer, Write

LEMMA TypeStep == IInv /\ [Next]_vars => TypeOK'
<1> SUFFICES ASSUME IInv, [Next]_vars PROVE TypeOK'
  OBVIOUS
<1> USE HubAssumption DEF Layer, HubId, Write
<1>0. TypeOK /\ StackInv /\ CallInv /\ SliceInv
  BY DEF IInv
<1>a. at \in [Goroutine -> Call] /\ hub \in [Goroutine -> HubId] /\ open \in [Goroutine -> Nat]
  BY <1>0 DEF TypeOK
<1>b. /\ stack \in [HubId -> Seq(Layer)] /\ client \in [Layer -> Client \cup {NoClient}]
      /\ layers \in Layer /\ writes \in 0 .. MaxWrites
  BY <1>0 DEF TypeOK
<1>1. CASE UNCHANGED vars
  BY <1>0, <1>1 DEF vars, TypeOK
<1>2. ASSUME NEW g \in Goroutine, NEW op \in Ops, Look(g, op) PROVE TypeOK'
  <2>1. /\ stackTop(hub[g]) \in 0 .. MaxLayers
        /\ at' = [at EXCEPT ![g] = [at[g] EXCEPT !.op = op, !.top = stackTop(hub[g])]]
    <3>1. stackTop(hub[g]) \in Layer
      BY <1>0, TopLemma
    <3> QED
      BY <1>2, <3>1 DEF Look
  <2>2. at' \in [Goroutine -> Call]
    <3>1. [at[g] EXCEPT !.op = op, !.top = stackTop(hub[g])] \in Call
      <4>1. at[g] \in Call
        BY <1>a
      <4> QED
        BY <2>1, <4>1, CallTypes
    <3> QED
      BY <1>a, <2>1, <3>1
  <2> QED
    BY <1>0, <1>2, <2>2 DEF TypeOK, Look, stacks, data
<1>3. ASSUME NEW g \in Goroutine, CloneScope(g) PROVE TypeOK'
  <2>1. at[g].top \in Layer /\ layers + 1 \in Layer
    <3>1. at[g].op \in {"push", "clone"} /\ layers + 1 <= MaxLayers
      BY <1>3 DEF CloneScope
    <3>2. at[g].top \in 1 .. layers
      BY <1>0, <3>1 DEF CallInv, CallOK
    <3> QED
      BY <1>b, <3>1, <3>2, SMTT(20)
  <2>2. processors' \in [Layer -> Slice] /\ \A l \in Layer : processors'[l].len <= processors'[l].cap
    BY <1>0, <1>3, <2>1, SliceTypes DEF CloneScope, TypeOK
  <2>3. at' \in [Goroutine -> Call]
    <3> DEFINE o == IF at[g].op = "push" THEN "append" ELSE "newHub"
    <3>1. o \in Ops /\ layers + 1 \in 0 .. MaxLayers
      BY <2>1 DEF Ops
    <3>2. at' = [at EXCEPT ![g] = [at[g] EXCEPT !.op = o, !.scope = layers + 1]]
      BY <1>3 DEF CloneScope
    <3> HIDE DEF o
    <3>3. [at[g] EXCEPT !.op = o, !.scope = layers + 1] \in Call
      <4>1. at[g] \in Call
        BY <1>a
      <4> QED
        BY <3>1, <4>1, CallTypes
    <3> QED
      BY <1>a, <3>2, <3>3
  <2>4. tags' \in [Layer -> Layer] /\ maps' \in [Layer -> 0 .. MaxWrites]
    BY <1>0, <1>3, <2>1 DEF CloneScope, CloneMap, TypeOK
  <2>5. /\ breadcrumbs' \in [Layer -> Seq(Write)]
        /\ fresh' \in [Layer -> Contents]
    BY <1>0, <1>3, <2>1 DEF CloneScope, TypeOK
  <2> QED
    BY <1>0, <1>3, <2>1, <2>2, <2>3, <2>4, <2>5 DEF CloneScope, TypeOK
<1>4. ASSUME NEW g \in Goroutine, AppendLayer(g) PROVE TypeOK'
  <2>1. at[g].top \in Layer /\ at[g].scope \in Layer
    <3>1. at[g].top \in 1 .. layers /\ at[g].scope \in 1 .. layers
      BY <1>0, <1>4 DEF AppendLayer, CallInv, CallOK
    <3> QED
      BY <1>b, <3>1
  <2>2. stack' \in [HubId -> Seq(Layer)]
    BY <1>4, <1>a, <1>b, <2>1 DEF AppendLayer, Pushed
  <2>3. client' \in [Layer -> Client \cup {NoClient}] /\ open' \in [Goroutine -> Nat]
    BY <1>4, <1>a, <1>b, <2>1, SMTT(20) DEF AppendLayer
  <2>4. at' \in [Goroutine -> Call]
    BY <1>4, <1>a, IdleLemma DEF AppendLayer, Return
  <2> QED
    BY <1>0, <1>4, <2>2, <2>3, <2>4 DEF AppendLayer, TypeOK, data
<1>5. ASSUME NEW g \in Goroutine, NEW h \in HubId, NewHub(g, h) PROVE TypeOK'
  <2>1. at[g].top \in Layer /\ at[g].scope \in Layer
    <3>1. at[g].top \in 1 .. layers /\ at[g].scope \in 1 .. layers
      BY <1>0, <1>5 DEF NewHub, CallInv, CallOK
    <3> QED
      BY <1>b, <3>1
  <2>2. stack' \in [HubId -> Seq(Layer)]
    <3>1. <<at[g].scope>> \in Seq(Layer)
      BY <2>1
    <3> QED
      BY <1>5, <1>b, <3>1 DEF NewHub
  <2>3. client' \in [Layer -> Client \cup {NoClient}] /\ hub' \in [Goroutine -> HubId]
    BY <1>5, <1>a, <1>b, <2>1 DEF NewHub
  <2>4. at' \in [Goroutine -> Call]
    BY <1>5, <1>a, IdleLemma DEF NewHub, Return
  <2> QED
    BY <1>0, <1>5, <2>2, <2>3, <2>4 DEF NewHub, TypeOK, data
<1>6. ASSUME NEW g \in Goroutine, PopScope(g) \/ PopUnmatched(g) PROVE TypeOK'
  <2>1. hub[g] \in HubId /\ stack[hub[g]] \in Seq(Layer)
    BY <1>a, <1>b
  <2>2. Popped(hub[g]) \in Seq(Layer)
    <3> DEFINE q == stack[hub[g]]
    <3>1. q \in Seq(Layer) /\ Len(q) \in Nat /\ \A i \in 1 .. Len(q) : q[i] \in Layer
      BY <2>1
    <3> HIDE DEF q
    <3>2. SubSeq(q, 1, Len(q) - 1) \in Seq(Layer)
      BY <3>1, SubSeqProperties
    <3> QED
      BY <3>1, <3>2 DEF Popped, q
  <2>3. stack' \in [HubId -> Seq(Layer)]
    BY <1>6, <1>b, <2>1, <2>2 DEF PopScope, PopUnmatched
  <2>4. open' \in [Goroutine -> Nat]
    BY <1>6, <1>a DEF PopScope, PopUnmatched
  <2> QED
    BY <1>0, <1>6, <2>3, <2>4 DEF PopScope, PopUnmatched, TypeOK, data
<1>7. ASSUME NEW g \in Goroutine, NEW c \in Client, SetClient(g, c) PROVE TypeOK'
  <2>1. client' \in [Layer -> Client \cup {NoClient}] /\ at' \in [Goroutine -> Call]
    BY <1>7, <1>a, <1>b, IdleLemma DEF SetClient, Return
  <2> QED
    BY <1>0, <1>7, <2>1 DEF SetClient, TypeOK, data
<1>8. ASSUME NEW g \in Goroutine, SetTag(g) \/ AddEventProcessor(g) \/ AddBreadcrumb(g)
      PROVE  TypeOK'
  <2>1. /\ at[g].top \in Layer /\ at[g].top \in 1 .. layers
        /\ writes + 1 \in Write /\ writes + 1 \in 0 .. MaxWrites
    BY <1>8, WriteLemma
  <2>2. at' \in [Goroutine -> Call] /\ writes' \in 0 .. MaxWrites
    BY <1>8, <1>a, <2>1, WriteLemma, IdleLemma
  <2>3. UNCHANGED <<stacks, hub, open>>
    BY <1>8, WriteLemma
  <2>c. fresh[at[g].top] \in Contents /\ fresh \in [Layer -> Contents]
    BY <1>0, <2>1 DEF TypeOK
  <2>4. CASE SetTag(g)
    <3>1. tags[at[g].top] \in Layer
      BY <1>0, <2>1 DEF TypeOK
    <3>2. maps' \in [Layer -> 0 .. MaxWrites]
      BY <1>0, <2>1, <2>4, <3>1 DEF SetTag, TypeOK
    <3>3. fresh' \in [Layer -> Contents]
      <4>1. [fresh[at[g].top] EXCEPT !.tag = writes + 1] \in Contents
        BY <2>1, <2>c DEF Contents
      <4> QED
        BY <2>1, <2>4, <2>c, <4>1 DEF SetTag
    <3> QED
      BY <1>0, <2>2, <2>3, <2>4, <3>2, <3>3 DEF SetTag, TypeOK, stacks
  <2>5. CASE AddEventProcessor(g)
    <3> DEFINE s == processors[at[g].top]
    <3>1. s \in Slice /\ s.len <= s.cap
      BY <1>0, <2>1 DEF TypeOK
    <3>2. s.cap > 0 => s.array \in 1 .. Len(heap) /\ s.cap <= Len(heap[s.array])
      BY <1>0, <2>1 DEF SliceInv
    <3>3. heap \in Seq(Seq(0 .. MaxWrites))
      BY <1>0 DEF TypeOK
    <3>4. /\ s.len < s.cap => s.array \in 1 .. Len(heap) /\ s.cap <= Len(heap[s.array])
          /\ s.len >= s.cap /\ s.len > 0 => s.array \in 1 .. Len(heap) /\ s.len <= Len(heap[s.array])
      BY <3>1, <3>2 DEF Slice
    <3> HIDE DEF s
    <3>5. HeapAfter(s, writes + 1) \in Seq(Seq(0 .. MaxWrites))
      BY <2>1, <3>1, <3>3, <3>4, HeapType
    <3>6. AppendTo(s) \in Slice /\ AppendTo(s).len <= AppendTo(s).cap
      BY <3>1, <3>3, SliceTypes
    <3>7. processors' = [processors EXCEPT ![at[g].top] = AppendTo(s)] /\ heap' = HeapAfter(s, writes + 1)
      BY <2>5 DEF AddEventProcessor, s
    <3>8. processors' \in [Layer -> Slice] /\ \A l \in Layer : processors'[l].len <= processors'[l].cap
      BY <1>0, <2>1, <3>6, <3>7 DEF TypeOK
    <3>9. fresh' \in [Layer -> Contents]
      <4>1. Append(fresh[at[g].top].processors, writes + 1) \in Seq(Write)
        BY <2>1, <2>c, AppendProperties DEF Contents
      <4>2. [fresh[at[g].top] EXCEPT !.processors = Append(@, writes + 1)] \in Contents
        BY <2>c, <4>1 DEF Contents
      <4> QED
        BY <2>1, <2>5, <2>c, <4>2 DEF AddEventProcessor
    <3> QED
      BY <1>0, <2>2, <2>3, <2>5, <3>5, <3>7, <3>8, <3>9 DEF AddEventProcessor, TypeOK, stacks
  <2>6. CASE AddBreadcrumb(g)
    <3> DEFINE q == Append(breadcrumbs[at[g].top], writes + 1)
    <3>0. breadcrumbs[at[g].top] \in Seq(Write) /\ at[g] \in Call
      BY <1>0, <2>1 DEF TypeOK
    <3>1. q \in Seq(Write) /\ Len(q) \in Nat /\ at[g].limit \in Int
      BY <2>1, <3>0 DEF Call
    <3> HIDE DEF q
    <3>2. Cut(q, at[g].limit) \in Seq(Write)
      <4>1. CASE Len(q) > at[g].limit
        <5> DEFINE n == at[g].limit + 1
        <5>1. n \in Int /\ n <= Len(q)
          BY <3>1, <4>1
        <5> HIDE DEF n
        <5>2. SubSeq(q, 2, n) \in Seq(Write)
          BY <3>1, <5>1, SubSeqProperties
        <5> QED
          BY <4>1, <5>2 DEF Cut, n
      <4> QED
        BY <3>1, <4>1 DEF Cut
    <3>3. breadcrumbs' \in [Layer -> Seq(Write)]
      BY <1>0, <2>1, <2>6, <3>2 DEF AddBreadcrumb, TypeOK, q
    <3>4. fresh' \in [Layer -> Contents]
      <4>1. Append(fresh[at[g].top].breadcrumbs, writes + 1) \in Seq(Write)
        BY <2>1, <2>c, AppendProperties DEF Contents
      <4>2. [fresh[at[g].top] EXCEPT !.breadcrumbs = Append(@, writes + 1)] \in Contents
        BY <2>c, <4>1 DEF Contents
      <4> QED
        BY <2>1, <2>6, <2>c, <4>2 DEF AddBreadcrumb
    <3> QED
      BY <1>0, <2>2, <2>3, <2>6, <3>3, <3>4 DEF AddBreadcrumb, TypeOK, stacks
  <2> QED
    BY <1>8, <2>4, <2>5, <2>6
<1>9. ASSUME NEW g \in Goroutine, CrumbLook(g) \/ CrumbScope(g) PROVE TypeOK'
  <2>1. stackTop(hub[g]) \in Layer
    BY <1>0, TopLemma
  <2>2. MaxBreadcrumbs[client[stackTop(hub[g])]] \in Int
    BY <1>b, <2>1
  <2>3. stackTop(hub[g]) \in 0 .. MaxLayers
    BY <2>1
  <2>4. at' \in [Goroutine -> Call]
    <3>1. "limit" \in Ops /\ "crumb" \in Ops
      BY DEF Ops
    <3>2. [at[g] EXCEPT !.op = "limit", !.limit = MaxBreadcrumbs[client[stackTop(hub[g])]]] \in Call
      BY <1>a, <2>2, <2>3, <3>1, CallTypes
    <3>3. [at[g] EXCEPT !.op = "crumb", !.top = stackTop(hub[g])] \in Call
      BY <1>a, <2>3, <3>1, CallTypes
    <3>4. CASE CrumbLook(g)
      BY <1>a, <3>2, <3>4 DEF CrumbLook
    <3>5. CASE CrumbScope(g)
      BY <1>a, <3>3, <3>5 DEF CrumbScope
    <3> QED
      BY <1>9, <3>4, <3>5
  <2> QED
    BY <1>0, <1>9, <2>4 DEF CrumbLook, CrumbScope, TypeOK, stacks, data
<1> QED
  BY <1>1, <1>2, <1>3, <1>4, <1>5, <1>6, <1>7, <1>8, <1>9
     DEF Next, PushLook, CloneLook, BindLook, ScopeLook, Ops

\* One call goes on, and no layer goes.
LEMMA CallChange ==
  ASSUME IInv, NEW g \in Goroutine, \A p \in Goroutine \ {g} : at'[p] = at[p],
         CallOK(at'[g], layers'), layers' \in Nat, layers <= layers'
  PROVE  CallInv'
<1> SUFFICES ASSUME NEW p \in Goroutine PROVE CallOK(at'[p], layers')
  BY DEF CallInv
<1>1. layers \in Nat
  BY HubAssumption DEF IInv, TypeOK, Layer
<1>2. CASE p # g
  <2>1. CallOK(at[p], layers) /\ at'[p] = at[p]
    BY <1>2 DEF IInv, CallInv
  <2> QED
    BY <1>1, <2>1 DEF CallOK
<1> QED
  BY <1>2

LEMMA CallStep == IInv /\ [Next]_vars => CallInv'
<1> SUFFICES ASSUME IInv, [Next]_vars PROVE CallInv'
  OBVIOUS
<1> USE HubAssumption DEF Layer
<1>0. TypeOK /\ StackInv /\ CallInv
  BY DEF IInv
<1>a. at \in [Goroutine -> Call] /\ layers \in Nat
  BY <1>0 DEF TypeOK
<1>b. CallOK(Idle, layers)
  BY DEF CallOK, Idle
<1>c. \A g \in Goroutine : at[g] \in Call /\ CallOK(at[g], layers)
  BY <1>0, <1>a DEF CallInv
<1>1. CASE UNCHANGED vars
  BY <1>0, <1>1 DEF vars, CallInv, CallOK
<1>2. ASSUME NEW g \in Goroutine, NEW op \in {"push", "clone", "bind", "scope"}, Look(g, op)
      PROVE  CallInv'
  <2> DEFINE c == [at[g] EXCEPT !.op = op, !.top = stackTop(hub[g])]
  <2>1. at' = [at EXCEPT ![g] = c] /\ layers' = layers
    BY <1>2 DEF Look, stacks
  <2>2. stackTop(hub[g]) \in 1 .. layers
    BY <1>0, TopLemma
  <2>3. c.op = op /\ c.top = stackTop(hub[g])
    BY <1>c DEF Call
  <2> HIDE DEF c
  <2>4. CallOK(c, layers')
    BY <2>1, <2>2, <2>3 DEF CallOK
  <2> QED
    BY <1>a, <2>1, <2>4, CallChange
<1>3. ASSUME NEW g \in Goroutine, CloneScope(g) PROVE CallInv'
  <2> DEFINE o == IF at[g].op = "push" THEN "append" ELSE "newHub"
             c == [at[g] EXCEPT !.op = o, !.scope = layers + 1]
  <2>1. at' = [at EXCEPT ![g] = c] /\ layers' = layers + 1 /\ at[g].op \in {"push", "clone"}
    BY <1>3 DEF CloneScope
  <2>2. at[g].top \in 1 .. layers
    BY <1>c, <2>1 DEF CallOK
  <2>3. c.op \in {"append", "newHub"} /\ c.top = at[g].top /\ c.scope = layers + 1
    BY <1>c DEF Call
  <2> HIDE DEF c
  <2>4. CallOK(c, layers')
    BY <1>a, <2>1, <2>2, <2>3 DEF CallOK
  <2> QED
    BY <1>a, <2>1, <2>4, CallChange
<1>4. ASSUME NEW g \in Goroutine, AppendLayer(g) \/ (\E h \in HubId : NewHub(g, h)) PROVE CallInv'
  <2>1. at' = [at EXCEPT ![g] = Idle] /\ layers' = layers
    BY <1>4 DEF AppendLayer, NewHub, Return
  <2> QED
    BY <1>a, <1>b, <2>1, CallChange
<1>5. ASSUME NEW g \in Goroutine, PopScope(g) \/ PopUnmatched(g) PROVE CallInv'
  BY <1>0, <1>5 DEF PopScope, PopUnmatched, CallInv, CallOK
<1>6. ASSUME NEW g \in Goroutine, NEW c \in Client, SetClient(g, c) PROVE CallInv'
  <2>1. at' = [at EXCEPT ![g] = Idle] /\ layers' = layers
    BY <1>6 DEF SetClient, Return
  <2> QED
    BY <1>a, <1>b, <2>1, CallChange
<1>7. ASSUME NEW g \in Goroutine, SetTag(g) \/ AddEventProcessor(g) \/ AddBreadcrumb(g)
      PROVE  CallInv'
  <2>1. at' = [at EXCEPT ![g] = Idle] /\ layers' = layers
    BY <1>7, WriteLemma DEF stacks
  <2> QED
    BY <1>a, <1>b, <2>1, CallChange
<1>8. ASSUME NEW g \in Goroutine, CrumbLook(g) PROVE CallInv'
  <2> DEFINE c == [at[g] EXCEPT !.op = "limit", !.limit = MaxBreadcrumbs[client[stackTop(hub[g])]]]
  <2>1. at' = [at EXCEPT ![g] = c] /\ layers' = layers
    BY <1>8 DEF CrumbLook, stacks
  <2>2. c.op = "limit"
    BY <1>c DEF Call
  <2> HIDE DEF c
  <2>3. CallOK(c, layers')
    BY <2>2 DEF CallOK
  <2> QED
    BY <1>a, <2>1, <2>3, CallChange
<1>9. ASSUME NEW g \in Goroutine, CrumbScope(g) PROVE CallInv'
  <2> DEFINE c == [at[g] EXCEPT !.op = "crumb", !.top = stackTop(hub[g])]
  <2>1. at' = [at EXCEPT ![g] = c] /\ layers' = layers
    BY <1>9 DEF CrumbScope, stacks
  <2>2. stackTop(hub[g]) \in 1 .. layers
    BY <1>0, TopLemma
  <2>3. c.op = "crumb" /\ c.top = stackTop(hub[g])
    BY <1>c DEF Call
  <2> HIDE DEF c
  <2>4. CallOK(c, layers')
    BY <2>1, <2>2, <2>3 DEF CallOK
  <2> QED
    BY <1>a, <2>1, <2>4, CallChange
<1> QED
  BY <1>1, <1>2, <1>3, <1>4, <1>5, <1>6, <1>7, <1>8, <1>9
     DEF Next, PushLook, CloneLook, BindLook, ScopeLook

\* A step changes the stack of a hub by what is pushed, what is popped, or a first layer.
LEMMA StackChange ==
  ASSUME IInv, [Next]_vars
  PROVE  /\ layers \in Nat /\ layers' \in Nat /\ layers <= layers'
         /\ \/ UNCHANGED <<stack, hub>>
            \/ \E g \in Goroutine :
                 /\ hub' = hub
                 /\ at[g].scope \in 1 .. layers
                 /\ stack' = [stack EXCEPT ![hub[g]] = Append(stack[hub[g]], at[g].scope)]
            \/ \E g \in Goroutine :
                 hub' = hub /\ stack' = [stack EXCEPT ![hub[g]] = Popped(hub[g])]
            \/ \E g \in Goroutine, h \in HubId :
                 /\ hub' = [hub EXCEPT ![g] = h]
                 /\ at[g].scope \in 1 .. layers
                 /\ stack[h] = <<>>
                 /\ stack' = [stack EXCEPT ![h] = <<at[g].scope>>]
<1>0. layers \in Nat
  BY HubAssumption DEF IInv, TypeOK, Layer
<1>1. CASE UNCHANGED vars
  BY <1>0, <1>1 DEF vars
<1>2. ASSUME NEW g \in Goroutine, NEW op \in Ops, Look(g, op)
      PROVE  layers' = layers /\ UNCHANGED <<stack, hub>>
  BY <1>2 DEF Look, stacks
<1>3. ASSUME NEW g \in Goroutine, CloneScope(g)
      PROVE  layers' = layers + 1 /\ UNCHANGED <<stack, hub>>
  BY <1>3 DEF CloneScope
<1>4. ASSUME NEW g \in Goroutine, AppendLayer(g)
      PROVE  /\ layers' = layers /\ hub' = hub /\ at[g].scope \in 1 .. layers
             /\ stack' = [stack EXCEPT ![hub[g]] = Append(stack[hub[g]], at[g].scope)]
  BY <1>4 DEF AppendLayer, Pushed, IInv, CallInv, CallOK
<1>5. ASSUME NEW g \in Goroutine, NEW h \in HubId, NewHub(g, h)
      PROVE  /\ layers' = layers /\ hub' = [hub EXCEPT ![g] = h] /\ at[g].scope \in 1 .. layers
             /\ stack[h] = <<>>
             /\ stack' = [stack EXCEPT ![h] = <<at[g].scope>>]
  BY <1>5 DEF NewHub, Hubs, IInv, CallInv, CallOK
<1>6. ASSUME NEW g \in Goroutine, PopScope(g) \/ PopUnmatched(g)
      PROVE  layers' = layers /\ hub' = hub /\ stack' = [stack EXCEPT ![hub[g]] = Popped(hub[g])]
  BY <1>6 DEF PopScope, PopUnmatched
<1>7. ASSUME NEW g \in Goroutine, NEW c \in Client, SetClient(g, c)
      PROVE  layers' = layers /\ UNCHANGED <<stack, hub>>
  BY <1>7 DEF SetClient
<1>8. ASSUME NEW g \in Goroutine, SetTag(g) \/ AddEventProcessor(g) \/ AddBreadcrumb(g)
      PROVE  layers' = layers /\ UNCHANGED <<stack, hub>>
  BY <1>8, WriteLemma DEF stacks
<1>9. ASSUME NEW g \in Goroutine, CrumbLook(g) \/ CrumbScope(g)
      PROVE  layers' = layers /\ UNCHANGED <<stack, hub>>
  BY <1>9 DEF CrumbLook, CrumbScope, stacks
<1> QED
  BY <1>0, <1>1, <1>2, <1>3, <1>4, <1>5, <1>6, <1>7, <1>8, <1>9
     DEF Next, PushLook, CloneLook, BindLook, ScopeLook, Ops

\* The stacks of a step, one by one.
LEMMA StackOfHub ==
  ASSUME IInv, [Next]_vars, NEW h \in HubId
  PROVE  \/ stack'[h] = stack[h]
         \/ \E x \in 1 .. layers : stack'[h] = Append(stack[h], x)
         \/ stack'[h] = Popped(h)
         \/ stack[h] = <<>> /\ \E x \in 1 .. layers : stack'[h] = <<x>>
<1>1. stack \in [HubId -> Seq(Layer)]
  BY DEF IInv, TypeOK
<1> QED
  BY <1>1, StackChange

\* Popped leaves a first layer, and the same.
LEMMA PoppedKeeps ==
  ASSUME NEW h \in HubId, stack[h] \in Seq(Layer)
  PROVE  /\ Popped(h) \in Seq(Layer)
         /\ Len(Popped(h)) <= Len(stack[h])
         /\ \A i \in 1 .. Len(Popped(h)) : Popped(h)[i] = stack[h][i]
         /\ stack[h] # <<>> => Popped(h) # <<>>
<1> DEFINE q == stack[h]
<1>1. q \in Seq(Layer) /\ Len(q) \in Nat
  OBVIOUS
<1>2. Popped(h) = IF Len(q) > 1 THEN SubSeq(q, 1, Len(q) - 1) ELSE q
  BY DEF Popped
<1> HIDE DEF q
<1>3. CASE Len(q) > 1
  <2> DEFINE s == SubSeq(q, 1, Len(q) - 1)
  <2>1. s \in Seq(Layer) /\ Len(s) = Len(q) - 1 /\ \A i \in 1 .. Len(s) : s[i] = q[i]
    BY <1>1, <1>3
  <2> HIDE DEF s
  <2>2. Popped(h) = s
    BY <1>2, <1>3 DEF s
  <2>3. s # <<>>
    BY <1>1, <1>3, <2>1
  <2> QED
    BY <1>1, <2>1, <2>2, <2>3 DEF q
<1>4. CASE ~(Len(q) > 1)
  BY <1>1, <1>2, <1>4 DEF q
<1> QED
  BY <1>3, <1>4

LEMMA StackStep == IInv /\ [Next]_vars => StackInv'
<1> SUFFICES ASSUME IInv, [Next]_vars PROVE StackInv'
  OBVIOUS
<1>0. /\ stack \in [HubId -> Seq(Layer)] /\ hub \in [Goroutine -> HubId] /\ StackInv
      /\ layers \in Nat /\ layers' \in Nat /\ layers <= layers'
  BY StackChange DEF IInv, TypeOK
<1>1. ASSUME NEW h \in HubId, NEW i \in 1 .. Len(stack'[h]) PROVE stack'[h][i] \in 1 .. layers'
  <2>1. stack[h] \in Seq(Layer) /\ \A j \in 1 .. Len(stack[h]) : stack[h][j] \in 1 .. layers
    BY <1>0 DEF StackInv
  <2>2. stack'[h][i] \in 1 .. layers
    <3>1. CASE stack'[h] = stack[h]
      BY <1>1, <2>1, <3>1
    <3>2. ASSUME NEW x \in 1 .. layers, stack'[h] = Append(stack[h], x) PROVE stack'[h][i] \in 1 .. layers
      BY <1>1, <2>1, <3>2
    <3>3. CASE stack'[h] = Popped(h)
      <4>1. Len(Popped(h)) <= Len(stack[h]) /\ Popped(h)[i] = stack[h][i] /\ Popped(h) \in Seq(Layer)
        BY <1>1, <2>1, <3>3, PoppedKeeps
      <4>2. i \in 1 .. Len(stack[h])
        BY <1>1, <2>1, <3>3, <4>1
      <4> QED
        BY <2>1, <3>3, <4>1, <4>2
    <3>4. ASSUME NEW x \in 1 .. layers, stack'[h] = <<x>> PROVE stack'[h][i] \in 1 .. layers
      BY <1>1, <3>4
    <3> QED
      BY <3>1, <3>2, <3>3, <3>4, StackOfHub
  <2> QED
    BY <1>0, <2>2
<1>2. ASSUME NEW p \in Goroutine PROVE stack'[hub'[p]] # <<>>
  <2>1. hub[p] \in HubId /\ stack[hub[p]] \in Seq(Layer) /\ stack[hub[p]] # <<>>
    BY <1>0 DEF StackInv
  <2>2. CASE hub' = hub
    <3>1. Popped(hub[p]) # <<>>
      BY <2>1, PoppedKeeps
    <3>2. \A x \in 1 .. layers : Append(stack[hub[p]], x) # <<>> /\ <<x>> # <<>>
      BY <2>1
    <3> QED
      BY <2>1, <2>2, <3>1, <3>2, StackOfHub
  <2>3. ASSUME NEW g \in Goroutine, NEW h \in HubId, hub' = [hub EXCEPT ![g] = h], stack[h] = <<>>,
               stack' = [stack EXCEPT ![h] = <<at[g].scope>>]
        PROVE  stack'[hub'[p]] # <<>>
    BY <1>0, <2>1, <2>3
  <2> QED
    BY <2>2, <2>3, StackChange
<1> QED
  BY <1>1, <1>2 DEF StackInv

\* No step takes the first layer of a hub.
LEMMA FirstLayerStep ==
  ASSUME IInv, [Next]_vars, NEW h \in Hubs
  PROVE  stack'[h] # <<>> /\ Head(stack'[h]) = Head(stack[h])
<1>1. h \in HubId /\ stack[h] \in Seq(Layer) /\ stack[h] # <<>>
  BY DEF IInv, TypeOK, Hubs
<1>2. Len(stack[h]) >= 1
  BY <1>1
<1>3. CASE stack'[h] = Popped(h)
  <2>1. Popped(h) \in Seq(Layer) /\ Popped(h) # <<>> /\ (\A i \in 1 .. Len(Popped(h)) : Popped(h)[i] = stack[h][i])
    BY <1>1, PoppedKeeps
  <2>2. 1 \in 1 .. Len(Popped(h))
    BY <2>1
  <2>3. Popped(h)[1] = stack[h][1]
    BY <2>1, <2>2
  <2> QED
    BY <1>1, <1>2, <1>3, <2>1, <2>3
<1>4. ASSUME NEW x \in 1 .. layers, stack'[h] = Append(stack[h], x)
      PROVE  stack'[h] # <<>> /\ Head(stack'[h]) = Head(stack[h])
  BY <1>1, <1>2, <1>4
<1> QED
  BY <1>1, <1>3, <1>4, StackOfHub

\* A step leaves the scopes alone, clones one, or sets something on one.
LEMMA ScopeChange ==
  ASSUME IInv, [Next]_vars
  PROVE  \/ UNCHANGED data /\ layers' = layers
         \/ \E g \in Goroutine : CloneScope(g) /\ at[g].top \in 1 .. layers
         \/ \E g \in Goroutine :
              /\ SetTag(g) \/ AddEventProcessor(g) \/ AddBreadcrumb(g)
              /\ at[g].top \in 1 .. layers
              /\ layers' = layers
<1>1. CASE UNCHANGED vars
  BY <1>1 DEF vars, data
<1>2. ASSUME NEW g \in Goroutine, NEW op \in Ops, Look(g, op)
      PROVE  UNCHANGED data /\ layers' = layers
  BY <1>2 DEF Look, stacks
<1>3. ASSUME NEW g \in Goroutine, CloneScope(g)
      PROVE  at[g].top \in 1 .. layers
  <2>1. at[g].op \in {"push", "clone"}
    BY <1>3 DEF CloneScope
  <2> QED
    BY <2>1 DEF IInv, CallInv, CallOK
<1>4. ASSUME NEW g \in Goroutine,
             \/ AppendLayer(g) \/ (\E h \in HubId : NewHub(g, h))
             \/ PopScope(g) \/ PopUnmatched(g)
             \/ (\E c \in Client : SetClient(g, c))
             \/ CrumbLook(g) \/ CrumbScope(g)
      PROVE  UNCHANGED data /\ layers' = layers
  BY <1>4 DEF AppendLayer, NewHub, PopScope, PopUnmatched, SetClient, CrumbLook, CrumbScope, stacks
<1>5. ASSUME NEW g \in Goroutine, SetTag(g) \/ AddEventProcessor(g) \/ AddBreadcrumb(g)
      PROVE  at[g].top \in 1 .. layers /\ layers' = layers
  BY <1>5, WriteLemma DEF stacks
<1> QED
  BY <1>1, <1>2, <1>3, <1>4, <1>5 DEF Next, PushLook, CloneLook, BindLook, ScopeLook, Ops

LEMMA MapStep == IInv /\ [Next]_vars => MapInv'
<1> SUFFICES ASSUME IInv, [Next]_vars PROVE MapInv'
  OBVIOUS
<1> USE HubAssumption DEF Layer
<1>0. /\ tags \in [Layer -> Layer] /\ maps \in [Layer -> 0 .. MaxWrites]
      /\ fresh \in [Layer -> Contents] /\ layers \in Layer /\ MapInv
  BY DEF IInv, TypeOK
<1>1. CASE UNCHANGED data /\ layers' = layers
  BY <1>0, <1>1 DEF data, MapInv
<1>2. ASSUME NEW g \in Goroutine, CloneScope(g), at[g].top \in 1 .. layers PROVE MapInv'
  <2>1. /\ layers' = layers + 1 /\ layers + 1 \in Layer /\ at[g].top \in Layer
        /\ tags' = [tags EXCEPT ![layers + 1] = layers + 1]
        /\ maps' = [maps EXCEPT ![layers + 1] = maps[tags[at[g].top]]]
        /\ fresh' = [fresh EXCEPT ![layers + 1] = fresh[at[g].top]]
    BY <1>0, <1>2 DEF CloneScope, CloneMap
  <2>2. maps[tags[at[g].top]] = fresh[at[g].top].tag
    BY <1>0, <1>2, <2>1 DEF MapInv
  <2>3. \A l \in Layer : tags'[l] = l
    BY <1>0, <2>1 DEF MapInv
  <2>4. ASSUME NEW l \in 1 .. layers + 1 PROVE maps'[l] = fresh'[l].tag
    BY <1>0, <2>1, <2>2 DEF MapInv
  <2> QED
    BY <2>1, <2>3, <2>4 DEF MapInv
<1>3. ASSUME NEW g \in Goroutine, at[g].top \in 1 .. layers, layers' = layers,
             SetTag(g) \/ AddEventProcessor(g) \/ AddBreadcrumb(g)
      PROVE  MapInv'
  <2> DEFINE t == at[g].top
  <2>1. t \in Layer /\ tags[t] = t /\ tags' = tags
    <3>1. tags' = tags
      BY <1>3 DEF SetTag, AddEventProcessor, AddBreadcrumb
    <3>2. t \in Layer
      <4>1. layers \in Layer
        BY <1>0
      <4> QED
        BY <1>3, <4>1
    <3> QED
      BY <1>0, <3>1, <3>2 DEF MapInv
  <2>2. CASE SetTag(g)
    <3>1. /\ maps' = [maps EXCEPT ![t] = writes + 1]
          /\ fresh' = [fresh EXCEPT ![t] = [fresh[t] EXCEPT !.tag = writes + 1]]
      BY <2>1, <2>2 DEF SetTag
    <3>2. fresh[t] \in Contents /\ fresh'[t].tag = writes + 1
      BY <1>0, <2>1, <3>1 DEF Contents
    <3> HIDE DEF t
    <3> QED
      BY <1>0, <1>3, <2>1, <3>1, <3>2 DEF MapInv
  <2>3. CASE AddEventProcessor(g) \/ AddBreadcrumb(g)
    <3>1. maps' = maps
      BY <2>3 DEF AddEventProcessor, AddBreadcrumb
    <3>2. fresh[t] \in Contents
      BY <1>0, <2>1
    <3>3. \E x \in Contents : x.tag = fresh[t].tag /\ fresh' = [fresh EXCEPT ![t] = x]
      <4> DEFINE p == [fresh[t] EXCEPT !.processors = Append(fresh[t].processors, writes + 1)]
                 b == [fresh[t] EXCEPT !.breadcrumbs = Append(fresh[t].breadcrumbs, writes + 1)]
      <4>1. writes + 1 \in Write
        BY <1>3, WriteLemma
      <4>2. p \in Contents /\ p.tag = fresh[t].tag /\ b \in Contents /\ b.tag = fresh[t].tag
        <5>1. /\ Append(fresh[t].processors, writes + 1) \in Seq(Write)
              /\ Append(fresh[t].breadcrumbs, writes + 1) \in Seq(Write)
          BY <3>2, <4>1, AppendProperties DEF Contents
        <5> HIDE DEF t
        <5> QED
          BY <3>2, <5>1 DEF Contents
      <4>3. fresh' = [fresh EXCEPT ![t] = p] \/ fresh' = [fresh EXCEPT ![t] = b]
        BY <2>3 DEF AddEventProcessor, AddBreadcrumb
      <4> HIDE DEF p, b
      <4> QED
        BY <4>2, <4>3
    <3> HIDE DEF t
    <3>4. \A l \in Layer : fresh'[l].tag = fresh[l].tag
      BY <1>0, <2>1, <3>3
    <3> QED
      BY <1>0, <1>3, <2>1, <3>1, <3>4 DEF MapInv
  <2> QED
    BY <1>3, <2>2, <2>3
<1> QED
  BY <1>1, <1>2, <1>3, ScopeChange

\* What is appended to a slice is behind its elements, and nothing else in the heap
\* that a slice without room, or with less, can see changes.
Appended(old, new, s, a, x) ==
  /\ a.len = s.len + 1 /\ a.cap > 0
  /\ a.array \in 1 .. Len(new) /\ a.cap <= Len(new[a.array])
  /\ \A i \in 1 .. s.len : new[a.array][i] = old[s.array][i]
  /\ new[a.array][s.len + 1] = x
  /\ Len(old) <= Len(new)
  /\ \A b \in 1 .. Len(old) :
       /\ Len(new[b]) = Len(old[b])
       /\ b # a.array => new[b] = old[b]
       /\ \A i \in 1 .. s.len : new[b][i] = old[b][i]
  /\ s.len < s.cap => a.array = s.array /\ a.cap = s.cap
  /\ s.len >= s.cap => a.array > Len(old)

LEMMA AppendLemma ==
  ASSUME NEW s \in Slice, s.len <= s.cap, NEW x \in Write, heap \in Seq(Seq(0 .. MaxWrites)),
         s.cap > 0 => s.array \in 1 .. Len(heap) /\ s.cap <= Len(heap[s.array])
  PROVE  Appended(heap, HeapAfter(s, x), s, AppendTo(s), x)
<1> DEFINE new == HeapAfter(s, x)
           a == AppendTo(s)
<1>0. new = HeapAfter(s, x) /\ a = AppendTo(s)
  OBVIOUS
<1> HIDE DEF new, a
<1> SUFFICES Appended(heap, new, s, a, x)
  BY <1>0
<1> USE DEF Slice
<1>1. CASE s.len < s.cap
  <2> DEFINE row == heap[s.array]
  <2>1. /\ new = [heap EXCEPT ![s.array] = [row EXCEPT ![s.len + 1] = x]]
        /\ a = [s EXCEPT !.len = s.len + 1]
    BY <1>0, <1>1 DEF HeapAfter, AppendTo, InPlace
  <2>2. a.len = s.len + 1 /\ a.cap = s.cap /\ a.array = s.array /\ s.array \in 1 .. Len(heap)
    BY <1>1, <2>1
  <2>3. row \in Seq(0 .. MaxWrites) /\ s.len + 1 \in 1 .. Len(row)
    BY <1>1, <2>2
  <2> HIDE DEF row
  <2> DEFINE new1 == [row EXCEPT ![s.len + 1] = x]
  <2>4. Len(new1) = Len(row) /\ new1[s.len + 1] = x /\ \A i \in 1 .. s.len : new1[i] = row[i]
    BY <2>3
  <2> HIDE DEF new1
  <2>5. /\ Len(new) = Len(heap) /\ new[s.array] = new1
        /\ \A b \in 1 .. Len(heap) : b # s.array => new[b] = heap[b]
    BY <2>1, <2>2 DEF new1
  <2> QED
    BY <1>1, <2>2, <2>3, <2>4, <2>5 DEF row, Appended
<1>2. CASE ~(s.len < s.cap)
  <2> DEFINE n == 2 * (s.len + 1)
             row == [i \in 1 .. n |-> IF i <= s.len THEN heap[s.array][i]
                                       ELSE IF i = s.len + 1 THEN x ELSE 0]
  <2>1. new = Append(heap, row) /\ a = [array |-> Len(heap) + 1, len |-> s.len + 1, cap |-> n]
    BY <1>0, <1>2 DEF HeapAfter, AppendTo, Moved
  <2>2. n \in Nat /\ n > 0 /\ s.len + 1 <= n
    OBVIOUS
  <2>3. Len(row) = n /\ row[s.len + 1] = x /\ \A i \in 1 .. s.len : row[i] = heap[s.array][i]
    BY <2>2
  <2> HIDE DEF row, n
  <2>4. /\ Len(new) = Len(heap) + 1 /\ new[Len(heap) + 1] = row
        /\ \A b \in 1 .. Len(heap) : new[b] = heap[b]
    BY <2>1
  <2> QED
    BY <1>2, <2>1, <2>2, <2>3, <2>4 DEF Appended
<1> QED
  BY <1>1, <1>2

\* AddEventProcessor, on what the other slices see.
LEMMA AddLemma ==
  ASSUME IInv, NEW g \in Goroutine, AddEventProcessor(g)
  PROVE  SliceInv' /\ RoomInv'
<1> DEFINE t == at[g].top
           s == processors[t]
           a == AppendTo(s)
           x == writes + 1
<1> USE HubAssumption DEF Layer
<1>0. /\ processors \in [Layer -> Slice] /\ heap \in Seq(Seq(0 .. MaxWrites))
      /\ fresh \in [Layer -> Contents] /\ layers \in Layer
      /\ \A l \in Layer : processors[l].len <= processors[l].cap
      /\ SliceInv /\ RoomInv
  BY DEF IInv, TypeOK
<1>1. t \in 1 .. layers /\ t \in Layer /\ x \in Write /\ layers' = layers
  BY WriteLemma DEF stacks
<1>2. /\ processors' = [processors EXCEPT ![t] = a]
      /\ heap' = HeapAfter(s, x)
      /\ fresh' = [fresh EXCEPT ![t] = [fresh[t] EXCEPT !.processors = Append(fresh[t].processors, x)]]
  BY DEF AddEventProcessor
<1>3. /\ s \in Slice /\ s.len <= s.cap
      /\ s.cap > 0 => s.array \in 1 .. Len(heap) /\ s.cap <= Len(heap[s.array])
      /\ fresh[t].processors = [i \in 1 .. s.len |-> heap[s.array][i]]
      /\ fresh[t] \in Contents
  BY <1>0, <1>1 DEF SliceInv, Elements
<1>4. \A l \in 1 .. layers : l # t =>
        /\ processors'[l] = processors[l] /\ processors[l] \in Slice
        /\ processors[l].len <= processors[l].cap
        /\ fresh'[l] = fresh[l]
        /\ fresh[l].processors = [i \in 1 .. processors[l].len |-> heap[processors[l].array][i]]
        /\ processors[l].cap > 0 =>
             /\ processors[l].array \in 1 .. Len(heap)
             /\ processors[l].cap <= Len(heap[processors[l].array])
  BY <1>0, <1>1, <1>2 DEF SliceInv, Elements
<1>5. \A l \in 1 .. layers : l # t =>
        /\ s.len < s.cap /\ processors[l].cap > 0 /\ processors[l].array = s.array
             => processors[l].len = processors[l].cap /\ processors[l].len <= s.len
        /\ processors[l].len < processors[l].cap /\ s.cap > 0 /\ processors[l].array = s.array
             => s.len = s.cap /\ s.len <= processors[l].len
  BY <1>0, <1>1 DEF RoomInv
<1>6. processors'[t] = a /\ fresh'[t].processors = Append(fresh[t].processors, x)
  BY <1>0, <1>1, <1>2, <1>3 DEF Contents
<1>7. Appended(heap, heap', s, a, x) /\ a \in Slice /\ heap' \in Seq(Seq(0 .. MaxWrites))
  <2>1. heap' = HeapAfter(s, x) /\ a = AppendTo(s)
    BY <1>2
  <2> HIDE DEF s, x, a
  <2>2. a \in Slice
    BY <1>0, <1>3, <2>1, SliceTypes
  <2>3. Appended(heap, heap', s, a, x)
    BY <1>0, <1>1, <1>3, <2>1, AppendLemma
  <2>4. heap' \in Seq(Seq(0 .. MaxWrites))
    <3>1. x \in 0 .. MaxWrites
      BY <1>1 DEF Write
    <3>2. /\ s.len < s.cap => s.array \in 1 .. Len(heap) /\ s.cap <= Len(heap[s.array])
          /\ s.len >= s.cap /\ s.len > 0 => s.array \in 1 .. Len(heap) /\ s.len <= Len(heap[s.array])
      BY <1>3 DEF Slice
    <3> QED
      BY <1>0, <1>3, <2>1, <3>1, <3>2, HeapType
  <2> QED
    BY <2>2, <2>3, <2>4
<1>8. /\ heap \in Seq(Seq(0 .. MaxWrites)) /\ Len(heap) \in Nat /\ Len(heap') \in Nat
      /\ \A b \in 1 .. Len(heap) : Len(heap[b]) \in Nat
  BY <1>0, <1>7
<1> HIDE DEF t, s, a, x
<1> USE DEF Appended
<1>a. /\ s.len \in Nat /\ s.cap \in Nat /\ s.array \in Nat /\ s.len <= s.cap
      /\ a.len \in Nat /\ a.cap \in Nat /\ a.array \in Nat
      /\ a.len = s.len + 1
      /\ s.len < s.cap => a.array = s.array /\ a.cap = s.cap
      /\ s.len >= s.cap => a.array > Len(heap)
  BY <1>3, <1>7 DEF Slice
<1>9. SliceInv'
  <2>1. SUFFICES ASSUME NEW l \in 1 .. layers
        PROVE  /\ processors'[l].cap > 0 =>
                    /\ processors'[l].array \in 1 .. Len(heap')
                    /\ processors'[l].cap <= Len(heap'[processors'[l].array])
               /\ [i \in 1 .. processors'[l].len |-> heap'[processors'[l].array][i]] = fresh'[l].processors
    BY <1>1 DEF SliceInv, Elements
  <2>2. CASE l = t
    <3>1. Append(fresh[t].processors, x) = [i \in 1 .. s.len + 1 |-> heap'[a.array][i]]
      <4>1. fresh[t].processors \in Seq(Write) /\ Len(fresh[t].processors) = s.len /\ s.len \in Nat
        BY <1>3 DEF Contents, Slice
      <4>2. \A i \in 1 .. s.len : fresh[t].processors[i] = heap'[a.array][i]
        BY <1>3, <1>7
      <4>3. heap'[a.array][s.len + 1] = x
        BY <1>7
      <4> DEFINE q == fresh[t].processors
                 row == heap'[a.array]
      <4>4. q \in Seq(Write) /\ Len(q) \in Nat /\ s.len = Len(q)
        BY <4>1
      <4>5. /\ \A i \in 1 .. Len(q) : q[i] = row[i]
            /\ row[Len(q) + 1] = x
        BY <4>2, <4>3, <4>4
      <4> HIDE DEF q, row
      <4>6. Append(q, x) = [i \in 1 .. Len(q) + 1 |-> row[i]]
        <5>1. Append(q, x) \in Seq(Write) /\ Len(Append(q, x)) = Len(q) + 1
          BY <1>1, <4>4, AppendProperties
        <5>2. \A i \in 1 .. Len(q) + 1 : Append(q, x)[i] = row[i]
          BY <1>1, <4>4, <4>5, AppendProperties
        <5> DEFINE w == Append(q, x)
        <5>3. w \in [1 .. Len(w) -> Write]
          BY <5>1, LenProperties
        <5> HIDE DEF w
        <5>4. w = [i \in 1 .. Len(w) |-> w[i]]
          BY <5>3
        <5> QED
          BY <4>4, <5>1, <5>2, <5>4 DEF w
      <4> QED
        BY <4>4, <4>6 DEF q, row
    <3> QED
      BY <1>6, <1>7, <2>2, <3>1
  <2>3. CASE l # t
    <3> DEFINE p == processors[l]
    <3>1. /\ processors'[l] = p /\ p \in Slice /\ p.len <= p.cap /\ fresh'[l] = fresh[l]
          /\ fresh[l].processors = [i \in 1 .. p.len |-> heap[p.array][i]]
          /\ p.cap > 0 => p.array \in 1 .. Len(heap) /\ p.cap <= Len(heap[p.array])
          /\ s.len < s.cap /\ p.cap > 0 /\ p.array = s.array => p.len <= s.len
      BY <1>4, <1>5, <2>3
    <3> HIDE DEF p
    <3>2. p.cap > 0 => p.array \in 1 .. Len(heap') /\ p.cap <= Len(heap'[p.array])
      <4>1. Len(heap) <= Len(heap') /\ \A b \in 1 .. Len(heap) : Len(heap'[b]) = Len(heap[b])
        BY <1>7
      <4> QED
        BY <1>8, <3>1, <4>1
    <3>3. \A i \in 1 .. p.len : heap'[p.array][i] = heap[p.array][i]
      <4>1. CASE p.cap > 0 /\ p.array = a.array
        <5>0. ~(a.array > Len(heap))
          BY <1>a, <1>8, <3>1, <4>1
        <5>1. s.len < s.cap /\ p.array = s.array
          BY <1>a, <4>1, <5>0
        <5>2. \A i \in 1 .. s.len : heap'[p.array][i] = heap[p.array][i]
          BY <1>7, <3>1, <4>1
        <5> QED
          BY <1>3, <3>1, <4>1, <5>1, <5>2 DEF Slice
      <4>2. CASE p.cap > 0 /\ p.array # a.array
        BY <1>7, <3>1, <4>2
      <4>3. CASE ~(p.cap > 0)
        BY <3>1, <4>3 DEF Slice
      <4> QED
        BY <4>1, <4>2, <4>3
    <3> QED
      BY <3>1, <3>2, <3>3
  <2> QED
    BY <2>2, <2>3
<1>10. RoomInv'
  <2>1. SUFFICES ASSUME NEW l \in 1 .. layers, NEW k \in 1 .. layers, l # k,
                        processors'[l].len < processors'[l].cap, processors'[k].cap > 0,
                        processors'[k].array = processors'[l].array
        PROVE  processors'[k].len = processors'[k].cap /\ processors'[k].len <= processors'[l].len
    BY <1>1 DEF RoomInv
  <2>2. CASE l = t
    <3> DEFINE p == processors[k]
    <3>1. /\ processors'[k] = p /\ p \in Slice
          /\ p.cap > 0 => p.array \in 1 .. Len(heap)
          /\ s.len < s.cap /\ p.cap > 0 /\ p.array = s.array => p.len = p.cap /\ p.len <= s.len
      BY <1>4, <1>5, <2>1, <2>2
    <3>2. a.len < a.cap /\ p.cap > 0 /\ p.array = a.array
      BY <1>4, <1>6, <2>1, <2>2
    <3>3. p.len \in Nat /\ processors'[l] = a /\ processors'[k] = p
      BY <1>4, <1>6, <2>1, <2>2 DEF Slice
    <3> HIDE DEF p
    <3>a. ~(a.array > Len(heap))
      BY <1>a, <1>8, <3>1, <3>2
    <3>4. s.len < s.cap
      BY <1>a, <3>a
    <3>5. p.len = p.cap /\ p.len <= a.len
      BY <1>a, <3>1, <3>2, <3>3, <3>4
    <3> QED
      BY <3>3, <3>5
  <2>3. CASE k = t
    <3> DEFINE p == processors[l]
    <3>1. /\ processors'[l] = p /\ p \in Slice
          /\ p.cap > 0 => p.array \in 1 .. Len(heap)
          /\ s.len < s.cap /\ p.cap > 0 /\ p.array = s.array => p.len = p.cap
      BY <1>4, <1>5, <2>1, <2>3
    <3>2. p.len < p.cap /\ p.array = a.array
      BY <1>4, <1>6, <2>1, <2>3
    <3>3. p.len \in Nat /\ p.cap \in Nat
      BY <3>1 DEF Slice
    <3> HIDE DEF p
    <3>a. ~(a.array > Len(heap))
      BY <1>a, <1>8, <3>1, <3>2, <3>3, SMTT(20)
    <3>4. s.len < s.cap /\ p.array = s.array /\ p.cap > 0
      BY <1>a, <3>a, <3>2, <3>3
    <3> QED
      BY <3>1, <3>2, <3>3, <3>4
  <2>4. CASE l # t /\ k # t
    BY <1>0, <1>4, <2>1, <2>4 DEF RoomInv
  <2> QED
    BY <2>2, <2>3, <2>4
<1> QED
  BY <1>9, <1>10

\* CloneScope, on what the slices see: the clone has no room.
LEMMA CloneLemma ==
  ASSUME IInv, NEW g \in Goroutine, CloneScope(g), at[g].top \in 1 .. layers
  PROVE  SliceInv' /\ RoomInv'
<1> DEFINE f == at[g].top
           n == layers + 1
           s == processors[f]
<1> USE HubAssumption DEF Layer
<1>0. /\ processors \in [Layer -> Slice] /\ fresh \in [Layer -> Contents] /\ layers \in Layer
      /\ \A l \in Layer : processors[l].len <= processors[l].cap
      /\ SliceInv /\ RoomInv
  BY DEF IInv, TypeOK
<1>1. /\ layers' = n /\ n \in Layer /\ f \in Layer /\ heap' = heap
      /\ processors' = [processors EXCEPT ![n] = [s EXCEPT !.cap = s.len]]
      /\ fresh' = [fresh EXCEPT ![n] = fresh[f]]
  BY <1>0 DEF CloneScope, CloneSlice
<1>2. /\ s \in Slice /\ s.len <= s.cap
      /\ s.cap > 0 => s.array \in 1 .. Len(heap) /\ s.cap <= Len(heap[s.array])
      /\ fresh[f].processors = [i \in 1 .. s.len |-> heap[s.array][i]]
  BY <1>0, <1>1 DEF SliceInv, Elements
<1>3. \A l \in 1 .. layers : processors'[l] = processors[l] /\ fresh'[l] = fresh[l]
  BY <1>0, <1>1
<1> DEFINE c == processors'[n]
<1>4. c.len = s.len /\ c.cap = s.len /\ c.array = s.array /\ fresh'[n] = fresh[f]
  BY <1>0, <1>1, <1>2 DEF Slice
<1>5. \A l \in 1 .. layers :
        /\ l # f /\ processors[l].len < processors[l].cap /\ s.cap > 0 /\ s.array = processors[l].array
             => s.len = s.cap /\ s.len <= processors[l].len
        /\ processors[l] \in Slice
  <2>1. \A l \in 1 .. layers : processors[l] \in Slice
    BY <1>0
  <2> HIDE DEF s
  <2>2. \A l \in 1 .. layers :
          l # f /\ processors[l].len < processors[l].cap /\ s.cap > 0 /\ s.array = processors[l].array
             => s.len = s.cap /\ s.len <= processors[l].len
    BY <1>0 DEF RoomInv, s
  <2> QED
    BY <2>1, <2>2
<1>6. n \in Nat /\ layers \in Nat /\ n = layers + 1 /\ s.len \in Nat /\ s.cap \in Nat
  BY <1>0, <1>2, SMTT(20) DEF Slice
<1> HIDE DEF n, s, c
<1>7. SliceInv'
  <2>1. ASSUME NEW l \in 1 .. layers
        PROVE  /\ processors'[l].cap > 0 =>
                    /\ processors'[l].array \in 1 .. Len(heap')
                    /\ processors'[l].cap <= Len(heap'[processors'[l].array])
               /\ [i \in 1 .. processors'[l].len |-> heap'[processors'[l].array][i]] = fresh'[l].processors
    <3> DEFINE p == processors[l]
    <3>1. processors'[l] = p /\ fresh'[l] = fresh[l] /\ heap' = heap
      BY <1>1, <1>3
    <3>2. /\ p.cap > 0 => p.array \in 1 .. Len(heap) /\ p.cap <= Len(heap[p.array])
          /\ [i \in 1 .. p.len |-> heap[p.array][i]] = fresh[l].processors
      BY <1>0 DEF SliceInv, Elements
    <3> HIDE DEF p
    <3> QED
      BY <3>1, <3>2
  <2>2. /\ c.cap > 0 => c.array \in 1 .. Len(heap') /\ c.cap <= Len(heap'[c.array])
        /\ [i \in 1 .. c.len |-> heap'[c.array][i]] = fresh'[n].processors
    <3>1. [i \in 1 .. c.len |-> heap'[c.array][i]] = fresh'[n].processors
      BY <1>1, <1>2, <1>4
    <3>2. ASSUME c.cap > 0 PROVE c.array \in 1 .. Len(heap') /\ c.cap <= Len(heap'[c.array])
      <4>1. s.cap > 0
        BY <1>2, <1>4, <1>6, <3>2
      <4>2. s.array \in 1 .. Len(heap) /\ s.cap <= Len(heap[s.array])
        BY <1>2, <4>1
      <4>3. heap \in Seq(Seq(0 .. MaxWrites))
        BY DEF IInv, TypeOK
      <4>4. Len(heap[s.array]) \in Nat
        BY <4>2, <4>3
      <4> QED
        BY <1>1, <1>2, <1>4, <1>6, <4>2, <4>4
    <3> QED
      BY <3>1, <3>2
  <2>3. \A l \in 1 .. layers' : l \in 1 .. layers \/ l = n
    BY <1>1, <1>6
  <2> QED
    BY <2>1, <2>2, <2>3 DEF SliceInv, Elements, c
<1>8. RoomInv'
  <2>1. SUFFICES ASSUME NEW l \in 1 .. n, NEW k \in 1 .. n, l # k,
                        processors'[l].len < processors'[l].cap, processors'[k].cap > 0,
                        processors'[k].array = processors'[l].array
        PROVE  processors'[k].len = processors'[k].cap /\ processors'[k].len <= processors'[l].len
    BY <1>1 DEF RoomInv
  <2>2. l \in 1 .. layers
    BY <1>4, <1>6, <2>1 DEF c
  <2>3. CASE k = n
    <3> DEFINE p == processors[l]
    <3>1. processors'[l] = p /\ p \in Slice
      BY <1>3, <1>5, <2>2
    <3>2. p.len < p.cap /\ s.len > 0 /\ p.array = s.array
      BY <1>4, <1>6, <2>1, <2>3, <3>1 DEF c
    <3>a. l # f => (p.len < p.cap /\ s.cap > 0 /\ s.array = p.array
                     => s.len = s.cap /\ s.len <= p.len)
      BY <1>5, <2>2
    <3>b. l = f => p = s
      BY DEF s
    <3> HIDE DEF p
    <3>3. s.len <= p.len
      BY <1>2, <1>6, <3>2, <3>a, <3>b
    <3> QED
      BY <1>4, <2>3, <3>1, <3>3 DEF c
  <2>4. CASE k # n
    <3>1. k \in 1 .. layers
      BY <1>6, <2>4
    <3> QED
      BY <1>0, <1>3, <2>1, <2>2, <3>1 DEF RoomInv
  <2> QED
    BY <2>3, <2>4
<1> QED
  BY <1>7, <1>8

LEMMA SliceStep == IInv /\ [Next]_vars => SliceInv' /\ RoomInv'
<1> SUFFICES ASSUME IInv, [Next]_vars PROVE SliceInv' /\ RoomInv'
  OBVIOUS
<1>0. SliceInv /\ RoomInv
  BY DEF IInv
<1>1. ASSUME processors' = processors, heap' = heap, layers' = layers,
             \A l \in 1 .. layers : fresh'[l].processors = fresh[l].processors
      PROVE  SliceInv' /\ RoomInv'
  BY <1>0, <1>1 DEF SliceInv, RoomInv, Elements
<1>2. CASE UNCHANGED data /\ layers' = layers
  BY <1>1, <1>2 DEF data
<1>3. ASSUME NEW g \in Goroutine, SetTag(g) \/ AddBreadcrumb(g), at[g].top \in 1 .. layers,
             layers' = layers
      PROVE  SliceInv' /\ RoomInv'
  <2>1. \A l \in 1 .. layers : l \in Layer
    BY HubAssumption DEF IInv, TypeOK, Layer
  <2>2. /\ processors' = processors /\ heap' = heap
        /\ \E x \in Write :
             \/ fresh' = [fresh EXCEPT ![at[g].top].tag = x]
             \/ fresh' = [fresh EXCEPT ![at[g].top].breadcrumbs = Append(@, x)]
    BY <1>3, WriteLemma DEF SetTag, AddBreadcrumb
  <2>3. fresh \in [Layer -> Contents]
    BY DEF IInv, TypeOK
  <2>4. \A l \in 1 .. layers : fresh'[l].processors = fresh[l].processors
    <3> DEFINE t == at[g].top
    <3>1. \A x \in Write :
            /\ [fresh[t] EXCEPT !.tag = x].processors = fresh[t].processors
            /\ [fresh[t] EXCEPT !.breadcrumbs = Append(fresh[t].breadcrumbs, x)].processors
                 = fresh[t].processors
      BY <1>3, <2>1, <2>3 DEF Contents
    <3>2. \E c : c.processors = fresh[t].processors /\ fresh' = [fresh EXCEPT ![t] = c]
      BY <2>2, <3>1
    <3> HIDE DEF t
    <3> QED
      BY <2>1, <2>3, <3>2
  <2> QED
    BY <1>1, <1>3, <2>2, <2>4
<1> QED
  BY <1>2, <1>3, AddLemma, CloneLemma, ScopeChange

-----------------------------------------------------------------------------
(* The stack is balanced *)

Opened(h) == {p \in Inside(h) \X Layer : p[2] <= open[p[1]]}

\* Each PushScope has made a layer, and so has the one that is to append it now; who
\* clones a hub is inside of no PushScope.
OpenInv ==
  \A g \in Goroutine :
    /\ open[g] <= layers - 1
    /\ at[g].op = "append" => open[g] + 1 <= layers - 1
    /\ at[g].op \in {"clone", "newHub"} => open[g] = 0

BalanceInv == OpenInv /\ StackBalanced

LEMMA BalanceInit == Init => BalanceInv
<1> SUFFICES ASSUME Init PROVE BalanceInv
  OBVIOUS
<1> USE HubAssumption DEF Init
<1>1. OpenInv
  BY DEF OpenInv, Idle
<1>2. Hubs = {1} /\ 1 \in HubId /\ Len(stack[1]) = 1
  BY DEF Hubs, HubId
<1>3. {p \in Inside(1) \X Layer : p[2] <= open[p[1]]} = {}
  BY DEF Inside, Layer
<1>4. \A h \in Hubs : h = 1
  BY <1>2
<1>5. Len(stack[1]) = 1 + Cardinality({p \in Inside(1) \X Layer : p[2] <= open[p[1]]})
  <2>1. Cardinality({p \in Inside(1) \X Layer : p[2] <= open[p[1]]}) = 0
    BY <1>3, FS_EmptySet
  <2> HIDE DEF Init
  <2> QED
    BY <1>2, <2>1
<1>6. StackBalanced
  BY <1>4, <1>5 DEF StackBalanced
<1> QED
  BY <1>1, <1>6 DEF BalanceInv

LEMMA NumberFacts ==
  ASSUME TypeOK
  PROVE  layers \in 1 .. MaxLayers /\ layers \in Nat /\ MaxLayers \in Nat /\ writes \in Nat
<1>1. layers \in 1 .. MaxLayers /\ writes \in 0 .. MaxWrites
  BY DEF TypeOK, Layer
<1> QED
  BY <1>1, HubAssumption

LEMMA LayerLemma ==
  ASSUME TypeOK, NEW n \in Nat
  PROVE  0 < n /\ (n <= layers - 1 \/ n \in 1 .. layers) => n \in Layer
  BY NumberFacts DEF Layer

\* One call goes on, or none: what it has undone, and where it is, decide.
LEMMA OpenStep ==
  ASSUME IInv, BalanceInv, [Next]_vars
  PROVE  OpenInv'
<1> USE DEF BalanceInv
<1>0. /\ layers \in Nat /\ layers' \in Nat /\ layers <= layers'
      /\ open \in [Goroutine -> Nat] /\ at \in [Goroutine -> Call]
  BY StackChange DEF IInv, TypeOK
<1>1. CASE UNCHANGED vars
  BY <1>1 DEF OpenInv, vars
<1>2. ASSUME NEW g \in Goroutine, NEW op \in {"push", "bind", "scope"}, Look(g, op)
      PROVE  OpenInv'
  BY <1>0, <1>2 DEF OpenInv, Look, Call, stacks, Idle
<1>3. ASSUME NEW g \in Goroutine, CloneLook(g)
      PROVE  OpenInv'
  BY <1>0, <1>3 DEF OpenInv, CloneLook, Look, Call, stacks, Idle
<1>4. ASSUME NEW g \in Goroutine, CloneScope(g)
      PROVE  OpenInv'
  BY <1>0, <1>4 DEF OpenInv, CloneScope, Call
<1>5. ASSUME NEW g \in Goroutine, AppendLayer(g)
      PROVE  OpenInv'
  BY <1>0, <1>5 DEF OpenInv, AppendLayer, Return, Idle
<1>6. ASSUME NEW g \in Goroutine, NEW h \in HubId, NewHub(g, h)
      PROVE  OpenInv'
  BY <1>0, <1>6 DEF OpenInv, NewHub, Return, Idle
<1>7. ASSUME NEW g \in Goroutine, PopScope(g) \/ PopUnmatched(g)
      PROVE  OpenInv'
  BY <1>0, <1>7 DEF OpenInv, PopScope, PopUnmatched, Idle
<1>8. ASSUME NEW g \in Goroutine, NEW c \in Client, SetClient(g, c)
      PROVE  OpenInv'
  BY <1>0, <1>8 DEF OpenInv, SetClient, Return, Idle
<1>9. ASSUME NEW g \in Goroutine, SetTag(g) \/ AddEventProcessor(g) \/ AddBreadcrumb(g)
      PROVE  OpenInv'
  BY <1>0, <1>9 DEF OpenInv, SetTag, AddEventProcessor, AddBreadcrumb, Written, Return, Idle, stacks
<1>10. ASSUME NEW g \in Goroutine, CrumbLook(g) \/ CrumbScope(g)
      PROVE  OpenInv'
  BY <1>0, <1>10, ZenonT(40) DEF OpenInv, CrumbLook, CrumbScope, Call, stacks
<1> QED
  BY <1>1, <1>2, <1>3, <1>4, <1>5, <1>6, <1>7, <1>8, <1>9, <1>10
     DEF Next, PushLook, BindLook, ScopeLook

LEMMA PopLength ==
  ASSUME NEW h, stack[h] \in Seq(Layer), Len(stack[h]) > 1
  PROVE  Len(Popped(h)) = Len(stack[h]) - 1
  BY DEF Popped

LEMMA OpenedFinite == \A h : IsFiniteSet(Opened(h)) /\ Cardinality(Opened(h)) \in Nat
<1> TAKE h
<1>1. IsFiniteSet(Inside(h)) /\ IsFiniteSet(Layer)
  <2>1. Inside(h) \subseteq Goroutine
    BY DEF Inside
  <2>2. IsFiniteSet(1 .. MaxLayers)
    BY HubAssumption, FS_Interval
  <2> QED
    BY <2>1, <2>2, HubAssumption, FS_Subset DEF Layer
<1>2. IsFiniteSet(Inside(h) \X Layer)
  BY <1>1, FS_Product
<1> QED
  BY <1>2, FS_Subset, FS_CardinalityType DEF Opened

\* The stack of a hub with as many layers as it has PushScopes, and one more.
LEMMA BalanceStep ==
  ASSUME IInv, BalanceInv, [Next]_vars
  PROVE  StackBalanced'
<1> USE DEF BalanceInv
<1>0. /\ layers \in Nat /\ layers \in 1 .. MaxLayers
      /\ open \in [Goroutine -> Nat] /\ at \in [Goroutine -> Call]
      /\ hub \in [Goroutine -> HubId] /\ stack \in [HubId -> Seq(Layer)]
      /\ \A g \in Goroutine : stack[hub[g]] # <<>>
      /\ TypeOK
  <2>1. TypeOK /\ StackInv
    BY DEF IInv
  <2> QED
    BY <2>1, NumberFacts DEF TypeOK, StackInv
<1>a. \A h \in HubId : stack[h] # <<>> => Len(stack[h]) = 1 + Cardinality(Opened(h))
  BY DEF StackBalanced, Hubs, Opened
<1>b. ASSUME \A h \in HubId : stack'[h] # <<>> => Len(stack'[h]) = 1 + Cardinality(Opened(h)')
      PROVE  StackBalanced'
  BY <1>b DEF StackBalanced, Hubs, Opened
<1>1. CASE UNCHANGED <<stack, hub, open>>
  <2>1. \A h \in HubId : Opened(h)' = Opened(h)
    BY <1>1 DEF Opened, Inside
  <2> QED
    BY <1>1, <1>a, <1>b, <2>1
<1>2. ASSUME NEW g \in Goroutine, AppendLayer(g) PROVE StackBalanced'
  <2>0. PICK k \in HubId, n \in Nat : k = hub[g] /\ n = open[g] + 1
    BY <1>0
  <2>1. n \in Layer
    <3>1. n <= layers - 1 /\ 0 < n
      BY <1>0, <1>2, <2>0 DEF AppendLayer, OpenInv
    <3> QED
      BY <1>0, <2>0, <3>1, LayerLemma
  <2>2. hub' = hub /\ open' = [open EXCEPT ![g] = n] /\ at[g].scope \in Layer
    <3>1. at[g].scope \in 1 .. layers
      BY <1>2 DEF AppendLayer, IInv, CallInv, CallOK
    <3>2. at[g].scope \in Nat
      BY <1>0, <3>1
    <3>3. at[g].scope \in Layer
      BY <1>0, <3>1, <3>2, LayerLemma
    <3> QED
      BY <1>2, <2>0, <3>3 DEF AppendLayer
  <2>3. stack' = [stack EXCEPT ![k] = Append(stack[k], at[g].scope)]
    BY <1>2, <2>0 DEF AppendLayer, Pushed
  <2>4. Opened(k)' = Opened(k) \cup {<<g, n>>} /\ <<g, n>> \notin Opened(k)
    <3>1. <<g, n>> \in Inside(k) \X Layer
      BY <2>0, <2>1 DEF Inside
    <3>2. \A p \in Inside(k) \X Layer :
            p[2] <= open'[p[1]] <=> p[2] <= open[p[1]] \/ p = <<g, n>>
      <4> TAKE p \in Inside(k) \X Layer
      <4>1. p[1] \in Goroutine /\ p[2] \in Nat /\ p = <<p[1], p[2]>>
        BY DEF Inside, Layer
      <4>2. p[1] = g => open'[p[1]] = n
        BY <1>0, <2>2
      <4>3. p[1] # g => open'[p[1]] = open[p[1]]
        BY <1>0, <2>2, <4>1
      <4>4. p = <<g, n>> <=> p[1] = g /\ p[2] = n
        BY <4>1
      <4> QED
        BY <1>0, <2>0, <2>1, <4>1, <4>2, <4>3, <4>4
    <3>3. Inside(k)' = Inside(k)
      BY <2>2 DEF Inside
    <3>4. ~(n <= open[g])
      BY <1>0, <2>0
    <3> QED
      BY <2>2, <3>1, <3>2, <3>3, <3>4 DEF Opened
  <2>5. Cardinality(Opened(k)') = Cardinality(Opened(k)) + 1
    BY <2>4, OpenedFinite, FS_AddElement
  <2>6. \A h \in HubId : h # k => Opened(h)' = Opened(h)
    BY <1>0, <2>0, <2>2 DEF Opened, Inside
  <2>7. Len(stack'[k]) = Len(stack[k]) + 1
    BY <1>0, <2>2, <2>3
  <2>8. \A h \in HubId : h # k => stack'[h] = stack[h]
    BY <1>0, <2>3
  <2>9. Len(stack'[k]) = 1 + Cardinality(Opened(k)')
    BY <1>0, <1>a, <2>0, <2>2, <2>5, <2>7, OpenedFinite
  <2> QED
    BY <1>a, <1>b, <2>6, <2>8, <2>9
<1>3. ASSUME NEW g \in Goroutine, NEW h \in HubId, NewHub(g, h) PROVE StackBalanced'
  <2>1. /\ stack' = [stack EXCEPT ![h] = <<at[g].scope>>] /\ stack[h] = <<>>
        /\ hub' = [hub EXCEPT ![g] = h] /\ open' = open /\ open[g] = 0
    BY <1>3 DEF NewHub, Hubs, OpenInv
  <2>2. Inside(h) = {} /\ Inside(h)' = {g}
    BY <1>0, <2>1 DEF Inside
  <2>3. Opened(h)' = {}
    BY <2>1, <2>2 DEF Opened, Layer
  <2>4. \A k \in HubId : k # h => Opened(k)' = Opened(k)
    <3> TAKE k \in HubId
    <3> HAVE k # h
    <3>1. \A p \in Goroutine \X Layer : p[2] <= open[p[1]] => (p[1] \in Inside(k)' <=> p[1] \in Inside(k))
      BY <1>0, <2>1 DEF Inside, Layer
    <3> QED
      BY <2>1, <3>1 DEF Opened, Inside
  <2>5. Len(stack'[h]) = 1
    BY <1>0, <2>1
  <2>6. \A k \in HubId : k # h => stack'[k] = stack[k]
    BY <1>0, <2>1
  <2>7. Cardinality(Opened(h)') = 0
    BY <2>3, FS_EmptySet
  <2>8. Len(stack'[h]) = 1 + Cardinality(Opened(h)')
    BY <2>5, <2>7
  <2> QED
    BY <1>a, <1>b, <2>4, <2>6, <2>8
<1>4. ASSUME NEW g \in Goroutine, PopScope(g) PROVE StackBalanced'
  <2>0. PICK k \in HubId, n \in Nat : k = hub[g] /\ n = open[g]
    BY <1>0
  <2>1. n \in Layer /\ n > 0
    <3>1. n <= layers - 1 /\ n > 0
      BY <1>4, <2>0 DEF PopScope, OpenInv
    <3> QED
      BY <1>0, <2>0, <3>1, LayerLemma
  <2>2. hub' = hub /\ open' = [open EXCEPT ![g] = n - 1] /\ stack' = [stack EXCEPT ![k] = Popped(k)]
    BY <1>4, <2>0 DEF PopScope
  <2>4. Opened(k)' = Opened(k) \ {<<g, n>>} /\ <<g, n>> \in Opened(k)
    <3>1. <<g, n>> \in Inside(k) \X Layer
      BY <2>0, <2>1 DEF Inside
    <3>2. \A p \in Inside(k) \X Layer :
            p[2] <= open'[p[1]] <=> p[2] <= open[p[1]] /\ p # <<g, n>>
      <4> TAKE p \in Inside(k) \X Layer
      <4>1. p[1] \in Goroutine /\ p[2] \in Nat /\ p = <<p[1], p[2]>>
        BY DEF Inside, Layer
      <4>2. p[1] = g => open'[p[1]] = n - 1
        BY <1>0, <2>2
      <4>3. p[1] # g => open'[p[1]] = open[p[1]]
        BY <1>0, <2>2, <4>1
      <4>4. p = <<g, n>> <=> p[1] = g /\ p[2] = n
        BY <4>1
      <4> QED
        BY <1>0, <2>0, <2>1, <4>1, <4>2, <4>3, <4>4
    <3>3. Inside(k)' = Inside(k)
      BY <2>2 DEF Inside
    <3>4. n <= open[g]
      BY <2>0
    <3> QED
      BY <2>2, <3>1, <3>2, <3>3, <3>4 DEF Opened
  <2>5. Cardinality(Opened(k)') = Cardinality(Opened(k)) - 1 /\ Cardinality(Opened(k)) # 0
    BY <2>4, OpenedFinite, FS_RemoveElement, FS_EmptySet, ZenonT(40)
  <2>6. \A h \in HubId : h # k => Opened(h)' = Opened(h)
    BY <1>0, <2>0, <2>2 DEF Opened, Inside
  <2>7. Len(stack[k]) = 1 + Cardinality(Opened(k)) /\ Len(stack[k]) > 1
    BY <1>0, <1>a, <2>0, <2>1, <2>5, OpenedFinite
  <2>8. Len(Popped(k)) = Len(stack[k]) - 1
    BY <1>0, <2>1, <2>7, PopLength
  <2>9. stack'[k] = Popped(k) /\ \A h \in HubId : h # k => stack'[h] = stack[h]
    BY <1>0, <2>1, <2>2
  <2>10. Len(stack'[k]) = 1 + Cardinality(Opened(k)')
    BY <2>5, <2>7, <2>8, <2>9, OpenedFinite
  <2> QED
    BY <1>a, <1>b, <2>6, <2>9, <2>10
<1>5. ASSUME NEW g \in Goroutine, PopUnmatched(g) PROVE StackBalanced'
  <2>0. PICK k \in HubId : k = hub[g]
    BY <1>0
  <2>1. /\ hub' = hub /\ open' = open
        /\ stack' = [stack EXCEPT ![k] = Popped(k)]
        /\ \A p \in Inside(k) : open[p] = 0
    BY <1>5, <2>0 DEF PopUnmatched, Inside
  <2>2. Opened(k) = {}
    BY <2>1 DEF Opened, Layer
  <2>3. Len(stack[k]) = 1
    <3>1. Cardinality(Opened(k)) = 0 /\ stack[k] # <<>>
      BY <1>0, <2>0, <2>2, FS_EmptySet
    <3>2. Len(stack[k]) = 1 + Cardinality(Opened(k))
      BY <1>a, <3>1
    <3> QED
      BY <3>1, <3>2
  <2>4. stack' = stack
    BY <1>0, <2>1, <2>3 DEF Popped
  <2> QED
    BY <1>1, <2>1, <2>4
<1>6. ASSUME NEW g \in Goroutine, SetTag(g) \/ AddEventProcessor(g) \/ AddBreadcrumb(g)
      PROVE  UNCHANGED <<stack, hub, open>>
  BY <1>6, WriteLemma DEF stacks
<1>7. ASSUME NEW g \in Goroutine,
             \/ CloneScope(g) \/ (\E c \in Client : SetClient(g, c)) \/ CrumbLook(g) \/ CrumbScope(g)
      PROVE  UNCHANGED <<stack, hub, open>>
  BY <1>7 DEF CloneScope, SetClient, CrumbLook, CrumbScope, stacks
<1>8. ASSUME NEW g \in Goroutine, NEW op \in Ops, Look(g, op)
      PROVE  UNCHANGED <<stack, hub, open>>
  BY <1>8 DEF Look, stacks
<1>9. CASE UNCHANGED vars
  BY <1>1, <1>9 DEF vars
<1> QED
  BY <1>1, <1>2, <1>3, <1>4, <1>5, <1>6, <1>7, <1>8, <1>9
     DEF Next, PushLook, CloneLook, BindLook, ScopeLook, Ops

-----------------------------------------------------------------------------
(* The breadcrumbs *)

Ascending(s) == \A i, j \in 1 .. Len(s) : i < j => s[i] < s[j]

\* What a goroutine has seen as the limit is the limit of some client, and the
\* breadcrumbs of a scope are older than what is set next.
CrumbInv ==
  /\ CrumbsInOrder
  /\ \A l \in 1 .. layers : \A i \in 1 .. Len(breadcrumbs[l]) : breadcrumbs[l][i] <= writes
  /\ \A g \in Goroutine : at[g].op \in {"limit", "crumb"} =>
       at[g].limit >= 0 /\ \E c \in Client \cup {NoClient} : at[g].limit = MaxBreadcrumbs[c]

LEMMA Numbers ==
  ASSUME NEW s \in Seq(Write)
  PROVE  Len(s) \in Nat /\ \A i \in 1 .. Len(s) : s[i] \in Write /\ s[i] \in Nat
<1>1. Len(s) \in Nat /\ \A i \in 1 .. Len(s) : s[i] \in Write
  OBVIOUS
<1> QED
  BY <1>1, HubAssumption DEF Write

\* Adding a breadcrumb and cutting keep the order and the limit.
LEMMA CutLemma ==
  ASSUME NEW s \in Seq(Write), Ascending(s), NEW x \in Write, NEW limit \in Nat,
         \A i \in 1 .. Len(s) : s[i] < x
  PROVE  /\ Ascending(Cut(Append(s, x), limit))
         /\ Len(Cut(Append(s, x), limit)) <= limit
         /\ \A i \in 1 .. Len(Cut(Append(s, x), limit)) : Cut(Append(s, x), limit)[i] <= x
<1> DEFINE w == Append(s, x)
<1>1. w \in Seq(Write) /\ Len(w) \in Nat /\ Len(w) = Len(s) + 1
  OBVIOUS
<1>2. \A i \in 1 .. Len(w) : w[i] = IF i <= Len(s) THEN s[i] ELSE x
  OBVIOUS
<1>3. Write \subseteq Nat
  BY HubAssumption DEF Write
<1>4. Ascending(w) /\ \A i \in 1 .. Len(w) : w[i] <= x
  <2>1. /\ Len(s) \in Nat /\ x \in Nat
        /\ \A i \in 1 .. Len(s) : s[i] \in Nat /\ s[i] < x
        /\ \A i, j \in 1 .. Len(s) : i < j => s[i] < s[j]
    BY <1>3, Numbers DEF Ascending
  <2>2. \A i \in 1 .. Len(w) : i \in 1 .. Len(s) \/ i = Len(s) + 1
    BY <1>1, <2>1
  <2> HIDE DEF w
  <2>3. \A i \in 1 .. Len(w) : (i \in 1 .. Len(s) => w[i] = s[i]) /\ (i = Len(s) + 1 => w[i] = x)
    BY <1>2, <2>1
  <2>4. \A i \in 1 .. Len(w) : w[i] <= x
    BY <2>1, <2>2, <2>3
  <2>5. ASSUME NEW i \in 1 .. Len(w), NEW j \in 1 .. Len(w), i < j PROVE w[i] < w[j]
    <3>1. i \in 1 .. Len(s)
      BY <1>1, <2>1, <2>5
    <3> QED
      BY <2>1, <2>2, <2>3, <3>1, <2>5
  <2> QED
    BY <2>4, <2>5 DEF Ascending
<1> HIDE DEF w
<1>5. CASE Len(w) > limit
  <2>1. /\ Len(SubSeq(w, 2, limit + 1)) = limit
        /\ \A i \in 1 .. limit : i + 1 \in 1 .. Len(w) /\ SubSeq(w, 2, limit + 1)[i] = w[i + 1]
    BY <1>1, <1>5
  <2>2. Cut(w, limit) = SubSeq(w, 2, limit + 1)
    BY <1>5 DEF Cut
  <2> HIDE DEF Ascending
  <2>3. Ascending(SubSeq(w, 2, limit + 1))
    BY <1>4, <2>1 DEF Ascending
  <2> QED
    BY <1>4, <2>1, <2>2, <2>3 DEF w
<1>6. CASE ~(Len(w) > limit)
  BY <1>1, <1>4, <1>6 DEF Cut, w
<1> QED
  BY <1>5, <1>6

LEMMA CrumbInit == Init => CrumbInv
<1> SUFFICES ASSUME Init PROVE CrumbInv
  OBVIOUS
<1>1. \A l \in Layer : breadcrumbs[l] = <<>>
  BY DEF Init
<1>2. 1 .. layers \subseteq Layer
  BY HubAssumption DEF Init, Layer
<1>3. MaxBreadcrumbs[NoClient] >= 0
  BY HubAssumption
<1> QED
  BY <1>1, <1>2, <1>3 DEF Init, Idle, CrumbInv, CrumbsInOrder

LEMMA CrumbStep ==
  ASSUME IInv, CrumbInv, [Next]_vars
  PROVE  CrumbInv'
<1> USE HubAssumption DEF Layer
<1>0. /\ layers \in Layer /\ breadcrumbs \in [Layer -> Seq(Write)] /\ writes \in Nat
      /\ at \in [Goroutine -> Call] /\ client \in [Layer -> Client \cup {NoClient}]
      /\ CallInv /\ TypeOK /\ StackInv
  <2>1. TypeOK /\ CallInv /\ StackInv
    BY DEF IInv
  <2> QED
    BY <2>1, NumberFacts DEF TypeOK
<1> DEFINE CrumbsOK(s, n) ==
             /\ Ascending(s) /\ \A i \in 1 .. Len(s) : s[i] <= n
             /\ \E c \in Client \cup {NoClient} : Len(s) <= MaxBreadcrumbs[c]
           SeenOK(c) ==
             c.op \in {"limit", "crumb"} =>
               c.limit >= 0 /\ \E b \in Client \cup {NoClient} : c.limit = MaxBreadcrumbs[b]
<1>a. /\ \A l \in 1 .. layers : CrumbsOK(breadcrumbs[l], writes)
      /\ \A g \in Goroutine : SeenOK(at[g])
  BY DEF CrumbInv, CrumbsInOrder, Ascending
<1>b. ASSUME \A l \in 1 .. layers' : CrumbsOK(breadcrumbs'[l], writes'),
             \A g \in Goroutine : SeenOK(at'[g])
      PROVE  CrumbInv'
  BY <1>b DEF CrumbInv, CrumbsInOrder, Ascending
<1>c. SeenOK(Idle)
  BY DEF Idle
<1> HIDE DEF CrumbsOK, SeenOK
<1>1. ASSUME UNCHANGED <<breadcrumbs, writes, layers>>,
             NEW g \in Goroutine, NEW c, at' = [at EXCEPT ![g] = c], SeenOK(c)
      PROVE  CrumbInv'
  BY <1>0, <1>a, <1>b, <1>1
<1>2. CASE UNCHANGED <<breadcrumbs, writes, layers, at>>
  BY <1>a, <1>b, <1>2
<1>3. ASSUME NEW g \in Goroutine, NEW op \in {"push", "clone", "bind", "scope"}, Look(g, op)
      PROVE  CrumbInv'
  <2> DEFINE c == [at[g] EXCEPT !.op = op, !.top = stackTop(hub[g])]
  <2>1. at' = [at EXCEPT ![g] = c] /\ UNCHANGED <<breadcrumbs, writes, layers>>
    BY <1>3 DEF Look, data, stacks
  <2>2. c.op = op
    BY <1>0 DEF Call
  <2>3. SeenOK(c)
    BY <2>2 DEF SeenOK
  <2> QED
    BY <1>1, <2>1, <2>3
<1>4. ASSUME NEW g \in Goroutine, CloneScope(g) PROVE CrumbInv'
  <2> DEFINE o == IF at[g].op = "push" THEN "append" ELSE "newHub"
             c == [at[g] EXCEPT !.op = o, !.scope = layers + 1]
  <2>1. /\ at' = [at EXCEPT ![g] = c] /\ layers' = layers + 1 /\ layers + 1 \in Layer
        /\ breadcrumbs' = [breadcrumbs EXCEPT ![layers + 1] = breadcrumbs[at[g].top]]
        /\ writes' = writes /\ at[g].op \in {"push", "clone"}
    BY <1>0, <1>4 DEF CloneScope
  <2>2. at[g].top \in 1 .. layers
    BY <1>0, <2>1 DEF CallInv, CallOK
  <2>3. SeenOK(c)
    <3>1. c.op = o
      BY <1>0 DEF Call
    <3> QED
      BY <3>1 DEF SeenOK
  <2>4. \A l \in 1 .. layers' : CrumbsOK(breadcrumbs'[l], writes')
    <3> TAKE l \in 1 .. layers'
    <3>1. \/ l = layers + 1 /\ breadcrumbs'[l] = breadcrumbs[at[g].top]
          \/ l \in 1 .. layers /\ breadcrumbs'[l] = breadcrumbs[l]
      BY <1>0, <2>1, NumberFacts
    <3> QED
      BY <1>a, <2>1, <2>2, <3>1
  <2> QED
    BY <1>0, <1>a, <1>b, <2>1, <2>3, <2>4
<1>5. ASSUME NEW g \in Goroutine,
             AppendLayer(g) \/ (\E h \in HubId : NewHub(g, h)) \/ (\E c \in Client : SetClient(g, c))
      PROVE  CrumbInv'
  <2>1. at' = [at EXCEPT ![g] = Idle] /\ UNCHANGED <<breadcrumbs, writes, layers>>
    BY <1>5 DEF AppendLayer, NewHub, SetClient, Return, data
  <2> QED
    BY <1>1, <1>c, <2>1
<1>6. ASSUME NEW g \in Goroutine, PopScope(g) \/ PopUnmatched(g)
      PROVE  UNCHANGED <<breadcrumbs, writes, layers, at>>
  BY <1>6 DEF PopScope, PopUnmatched, data
<1>7. ASSUME NEW g \in Goroutine, SetTag(g) \/ AddEventProcessor(g) PROVE CrumbInv'
  <2>1. /\ at' = [at EXCEPT ![g] = Idle] /\ UNCHANGED <<breadcrumbs, layers>>
        /\ writes' = writes + 1
    BY <1>7, WriteLemma DEF SetTag, AddEventProcessor, stacks
  <2>2. \A l \in 1 .. layers : CrumbsOK(breadcrumbs[l], writes + 1)
    <3> TAKE l \in 1 .. layers
    <3>1. breadcrumbs[l] \in Seq(Write)
      BY <1>0, NumberFacts
    <3>2. \A i \in 1 .. Len(breadcrumbs[l]) : breadcrumbs[l][i] \in Nat
      BY <3>1, Numbers
    <3> QED
      BY <1>0, <1>a, <3>2 DEF CrumbsOK
  <2> QED
    BY <1>0, <1>a, <1>b, <1>c, <2>1, <2>2
<1>8. ASSUME NEW g \in Goroutine, AddBreadcrumb(g) PROVE CrumbInv'
  <2> DEFINE t == at[g].top
             m == at[g].limit
             s == breadcrumbs[t]
             x == writes + 1
  <2>1. /\ at' = [at EXCEPT ![g] = Idle] /\ layers' = layers /\ t \in 1 .. layers /\ t \in Layer
        /\ writes' = x /\ x \in Write
        /\ breadcrumbs' = [breadcrumbs EXCEPT ![t] = Cut(Append(s, x), m)]
    BY <1>8, WriteLemma DEF AddBreadcrumb, stacks
  <2>2. m \in Nat /\ \E b \in Client \cup {NoClient} : m = MaxBreadcrumbs[b]
    <3>1. at[g].op = "crumb" /\ m \in Int
      BY <1>0, <1>8 DEF AddBreadcrumb, Call
    <3> QED
      BY <1>a, <3>1 DEF SeenOK
  <2>3. Write \subseteq Nat
    BY DEF Write
  <2>4. \A l \in 1 .. layers : CrumbsOK(breadcrumbs[l], x)
    <3> TAKE l \in 1 .. layers
    <3>1. breadcrumbs[l] \in Seq(Write)
      BY <1>0
    <3>2. \A i \in 1 .. Len(breadcrumbs[l]) : breadcrumbs[l][i] \in Nat
      BY <3>1, Numbers
    <3> QED
      BY <1>0, <1>a, <3>2 DEF CrumbsOK
  <2>5. CrumbsOK(Cut(Append(s, x), m), x)
    <3>1. s \in Seq(Write) /\ Ascending(s) /\ \A i \in 1 .. Len(s) : s[i] < x
      <4>1. s \in Seq(Write) /\ CrumbsOK(s, writes)
        BY <1>0, <1>a, <2>1
      <4>2. \A i \in 1 .. Len(s) : s[i] \in Nat
        BY <4>1, Numbers
      <4> QED
        BY <1>0, <4>1, <4>2 DEF CrumbsOK
    <3> HIDE DEF s, x, m
    <3>2. /\ Ascending(Cut(Append(s, x), m)) /\ Len(Cut(Append(s, x), m)) <= m
          /\ \A i \in 1 .. Len(Cut(Append(s, x), m)) : Cut(Append(s, x), m)[i] <= x
      BY <2>1, <2>2, <3>1, CutLemma
    <3> QED
      BY <2>2, <3>2 DEF CrumbsOK
  <2> HIDE DEF t, m, s, x
  <2>6. \A l \in 1 .. layers' : CrumbsOK(breadcrumbs'[l], writes')
    BY <1>0, <2>1, <2>4, <2>5
  <2> QED
    BY <1>0, <1>a, <1>b, <1>c, <2>1, <2>6
<1>9. ASSUME NEW g \in Goroutine, CrumbLook(g) PROVE CrumbInv'
  <2> DEFINE m == MaxBreadcrumbs[client[stackTop(hub[g])]]
             c == [at[g] EXCEPT !.op = "limit", !.limit = m]
  <2>1. at' = [at EXCEPT ![g] = c] /\ m >= 0 /\ UNCHANGED <<breadcrumbs, writes, layers>>
    BY <1>9 DEF CrumbLook, stacks, data
  <2>2. client[stackTop(hub[g])] \in Client \cup {NoClient}
    BY <1>0, TopLemma
  <2>3. c.limit = m
    BY <1>0 DEF Call
  <2>4. SeenOK(c)
    BY <2>1, <2>2, <2>3 DEF SeenOK
  <2> QED
    BY <1>1, <2>1, <2>4
<1>10. ASSUME NEW g \in Goroutine, CrumbScope(g) PROVE CrumbInv'
  <2> DEFINE c == [at[g] EXCEPT !.op = "crumb", !.top = stackTop(hub[g])]
  <2>1. /\ at' = [at EXCEPT ![g] = c] /\ at[g].op = "limit"
        /\ UNCHANGED <<breadcrumbs, writes, layers>>
    BY <1>10 DEF CrumbScope, stacks, data
  <2>2. c.limit = at[g].limit
    BY <1>0 DEF Call
  <2>3. SeenOK(c)
    BY <1>a, <2>1, <2>2 DEF SeenOK
  <2> QED
    BY <1>1, <2>1, <2>3
<1>11. CASE UNCHANGED vars
  BY <1>2, <1>11 DEF vars
<1> QED
  BY <1>2, <1>3, <1>4, <1>5, <1>6, <1>7, <1>8, <1>9, <1>10, <1>11
     DEF Next, PushLook, CloneLook, BindLook, ScopeLook

-----------------------------------------------------------------------------
(* Theorems *)

THEOREM Invariance == Spec => []IInv
<1>1. IInv /\ [Next]_vars => IInv'
  BY TypeStep, CallStep, StackStep, MapStep, SliceStep DEF IInv
<1> QED
  BY InitInv, <1>1, PTL DEF Spec

\* The variables of a hub have their types whatever the goroutines do.
THEOREM TypeCorrect == Spec => []TypeOK
<1>1. IInv => TypeOK
  BY DEF IInv
<1> QED
  BY <1>1, Invariance, PTL

\* PopScope never takes the layer a hub began with: stackTop finds one in every hub,
\* also when others pop between a look and the step that follows it.
THEOREM FirstLayerKept == Spec => FirstLayerStays
<1>1. IInv /\ [Next]_vars =>
        [\A h \in Hubs : stack'[h] # <<>> /\ Head(stack'[h]) = Head(stack[h])]_vars
  BY FirstLayerStep
<1> QED
  BY <1>1, Invariance, PTL DEF Spec, FirstLayerStays

\* What is set on a scope is in no other: the maps are copied, and of the slices that
\* share an array only the longest has room to write behind its elements.
THEOREM ScopesShareNothing == Spec => []ScopesIndependent
<1>1. IInv => ScopesIndependent
  <2> SUFFICES ASSUME IInv, NEW l \in 1 .. layers
               PROVE  /\ maps[tags[l]] = fresh[l].tag
                      /\ Elements(processors[l]) = fresh[l].processors
    BY DEF ScopesIndependent
  <2>1. l \in Layer
    BY HubAssumption DEF IInv, TypeOK, Layer
  <2> QED
    BY <2>1 DEF IInv, MapInv, SliceInv
<1> QED
  BY <1>1, Invariance, PTL

\* However the goroutines that share a hub come between the look and the append of a
\* PushScope, the hub has a layer for each PushScope that is not undone.
THEOREM StacksBalanced == Spec => []StackBalanced
<1>1. Init => BalanceInv
  BY BalanceInit
<1>2. IInv /\ BalanceInv /\ [Next]_vars => BalanceInv'
  BY OpenStep, BalanceStep DEF BalanceInv
<1>3. BalanceInv => StackBalanced
  BY DEF BalanceInv
<1> QED
  BY <1>1, <1>2, <1>3, Invariance, PTL DEF Spec

\* The breadcrumbs of a scope are in the order they were added, and never more than
\* the limit of one of the clients, or of a hub without a client.
THEOREM BreadcrumbsInOrder == Spec => []CrumbsInOrder
<1>1. Init => CrumbInv
  BY CrumbInit
<1>2. IInv /\ CrumbInv /\ [Next]_vars => CrumbInv'
  BY CrumbStep
<1>3. CrumbInv => CrumbsInOrder
  BY DEF CrumbInv
<1> QED
  BY <1>1, <1>2, <1>3, Invariance, PTL DEF Spec

===============================================================================
