---------------------------------- MODULE Hub ----------------------------------
(***************************************************************************)
(* hub.go and scope.go: a hub is a stack of layers, each with a client and *)
(* a scope.  PushScope, Clone, BindClient, AddBreadcrumb and what sets     *)
(* something on hub.Scope() all look at the top of the stack, give the     *)
(* lock back, and act on what they saw; goroutines that share a hub come   *)
(* between.                                                                *)
(*                                                                         *)
(* A scope is cloned by copying what its fields refer to.  Two of them     *)
(* stand for the rest: the tags, a map, and the event processors, a slice  *)
(* of an array on the heap that has room for more elements.                *)
(*                                                                         *)
(* Layers and their scopes are numbered in the order they are made; what   *)
(* is set on scopes is numbered too, in the order of the calls.            *)
(***************************************************************************)
EXTENDS Integers, Sequences, FiniteSets

CONSTANTS
  Goroutine,
  Client,
  NoClient,
  MaxBreadcrumbs,   \* the limit of each client, and of a hub without one
  MaxLayers, MaxHubs, MaxWrites   \* bounds

Layer == 1 .. MaxLayers
HubId == 1 .. MaxHubs
Write == 1 .. MaxWrites

ASSUME HubAssumption ==
  /\ NoClient \notin Client
  /\ MaxBreadcrumbs \in [Client \cup {NoClient} -> Int]
  /\ MaxBreadcrumbs[NoClient] \in Nat
  /\ MaxLayers \in Nat \ {0} /\ MaxHubs \in Nat \ {0} /\ MaxWrites \in Nat
  /\ IsFiniteSet(Goroutine)

VARIABLES
  stack,        \* the layers of each hub; no hub has none
  client,       \* the client of each layer
  layers,       \* how many layers there are
  tags,         \* the map each scope refers to, named by the layer it was made for
  maps,         \* what is in each map
  processors,   \* the slice of each scope: an array, a length, a capacity
  heap,         \* the arrays
  breadcrumbs,
  writes,       \* how many values were set
  hub,          \* the hub each goroutine uses
  at,           \* where each goroutine is
  open,         \* how many of its PushScopes it has not undone
  fresh         \* history: what is in each scope when clones share nothing

data == <<tags, maps, processors, heap, breadcrumbs, writes, fresh>>
stacks == <<stack, client, layers>>
vars == <<stack, client, layers, tags, maps, processors, heap, breadcrumbs, writes,
          hub, at, open, fresh>>

Idle == [op |-> "idle", top |-> 0, scope |-> 0, limit |-> 0]
Empty == [tag |-> 0, processors |-> <<>>, breadcrumbs |-> <<>>]
EmptySlice == [array |-> 0, len |-> 0, cap |-> 0]

\* NewHub(nil, NewScope()), as the global hub is made.
Init ==
  /\ stack = [h \in HubId |-> IF h = 1 THEN <<1>> ELSE <<>>]
  /\ client = [l \in Layer |-> NoClient]
  /\ layers = 1
  /\ tags = [l \in Layer |-> l]
  /\ maps = [l \in Layer |-> 0]
  /\ processors = [l \in Layer |-> EmptySlice]
  /\ heap = <<>>
  /\ breadcrumbs = [l \in Layer |-> <<>>]
  /\ writes = 0
  /\ hub = [g \in Goroutine |-> 1]
  /\ at = [g \in Goroutine |-> Idle]
  /\ open = [g \in Goroutine |-> 0]
  /\ fresh = [l \in Layer |-> Empty]

stackTop(h) == stack[h][Len(stack[h])]
Hubs == {h \in HubId : stack[h] # <<>>}

\* A call begins with a look at the top layer.
Look(g, op) ==
  /\ at[g] = Idle
  /\ at' = [at EXCEPT ![g] = [@ EXCEPT !.op = op, !.top = stackTop(hub[g])]]
  /\ UNCHANGED <<stacks, data, hub, open>>

Return(g) == at' = [at EXCEPT ![g] = Idle]

-----------------------------------------------------------------------------
(* Slices *)

Elements(s) == [i \in 1 .. s.len |-> heap[s.array][i]]

\* The slice and the heap after append: in place while there is room, otherwise in a
\* new array with room for more (how much, Go leaves open).
InPlace(s) == [s EXCEPT !.len = @ + 1]
Moved(s) == [array |-> Len(heap) + 1, len |-> s.len + 1, cap |-> 2 * (s.len + 1)]

AppendTo(s) == IF s.len < s.cap THEN InPlace(s) ELSE Moved(s)
HeapAfter(s, x) ==
  IF s.len < s.cap
    THEN [heap EXCEPT ![s.array][s.len + 1] = x]
    ELSE Append(heap, [i \in 1 .. 2 * (s.len + 1) |->
                         IF i <= s.len THEN heap[s.array][i] ELSE IF i = s.len + 1 THEN x ELSE 0])

\* A fault: the clone keeps the room of the slice.
CloneSliceWhole(s) == s

\* s[:len(s):len(s)]
CloneSlice(s) == [s EXCEPT !.cap = s.len]

\* maps.Clone makes a map for the layer n.
CloneMap(from, n) == n

-----------------------------------------------------------------------------
(* The stack *)

\* PushScope, and Clone for a hub of its own.
PushLook(g) == layers < MaxLayers /\ Look(g, "push")
CloneLook(g) == open[g] = 0 /\ Hubs # HubId /\ layers < MaxLayers /\ Look(g, "clone")

\* scope.Clone()
CloneScope(g) ==
  LET from == at[g].top
      n == layers + 1
  IN
  /\ at[g].op \in {"push", "clone"}
  /\ n <= MaxLayers
  /\ layers' = n
  /\ tags' = [tags EXCEPT ![n] = CloneMap(from, n)]
  /\ maps' = [maps EXCEPT ![n] = maps[tags[from]]]
  /\ processors' = [processors EXCEPT ![n] = CloneSlice(processors[from])]
  /\ breadcrumbs' = [breadcrumbs EXCEPT ![n] = breadcrumbs[from]]
  /\ fresh' = [fresh EXCEPT ![n] = fresh[from]]
  /\ at' = [at EXCEPT ![g] = [@ EXCEPT !.op = IF at[g].op = "push" THEN "append" ELSE "newHub",
                                      !.scope = n]]
  /\ UNCHANGED <<stack, client, heap, writes, hub, open>>

\* A fault: the layer goes on top of the one that was seen.
PushedOnSeen(h, g) ==
  LET above == {i \in 1 .. Len(stack[h]) : \A j \in 1 .. i - 1 : stack[h][j] # at[g].top}
  IN Append([i \in above |-> stack[h][i]], at[g].scope)

Pushed(h, g) == Append(stack[h], at[g].scope)

\* The new layer has the client of the layer seen at first.
AppendLayer(g) ==
  /\ at[g].op = "append"
  /\ stack' = [stack EXCEPT ![hub[g]] = Pushed(hub[g], g)]
  /\ client' = [client EXCEPT ![at[g].scope] = client[at[g].top]]
  /\ open' = [open EXCEPT ![g] = @ + 1]
  /\ Return(g)
  /\ UNCHANGED <<layers, data, hub>>

\* Clone returns a hub; the goroutine goes on with it.
NewHub(g, h) ==
  /\ at[g].op = "newHub"
  /\ h \notin Hubs
  /\ stack' = [stack EXCEPT ![h] = <<at[g].scope>>]
  /\ client' = [client EXCEPT ![at[g].scope] = client[at[g].top]]
  /\ hub' = [hub EXCEPT ![g] = h]
  /\ Return(g)
  /\ UNCHANGED <<layers, data, open>>

\* A fault: the last layer can go.
PopAny(h) == SubSeq(stack[h], 1, Len(stack[h]) - 1)

Popped(h) ==
  IF Len(stack[h]) > 1 THEN SubSeq(stack[h], 1, Len(stack[h]) - 1) ELSE stack[h]

\* PopScope, at the end of WithScope or by itself.
PopScope(g) ==
  /\ at[g] = Idle
  /\ open[g] > 0
  /\ stack' = [stack EXCEPT ![hub[g]] = Popped(hub[g])]
  /\ open' = [open EXCEPT ![g] = @ - 1]
  /\ UNCHANGED <<client, layers, data, hub, at>>

\* A PopScope without a PushScope, where nobody is inside of one.
PopUnmatched(g) ==
  /\ at[g] = Idle
  /\ \A other \in Goroutine : hub[other] = hub[g] => open[other] = 0
  /\ stack' = [stack EXCEPT ![hub[g]] = Popped(hub[g])]
  /\ UNCHANGED <<client, layers, data, hub, at, open>>

\* A bound: no client is bound once each is in use.
BindLook(g) == (\E c \in Client : \A l \in Layer : client[l] # c) /\ Look(g, "bind")

SetClient(g, c) ==
  /\ at[g].op = "bind"
  /\ client' = [client EXCEPT ![at[g].top] = c]
  /\ Return(g)
  /\ UNCHANGED <<stack, layers, data, hub, open>>

-----------------------------------------------------------------------------
(* Scopes *)

Written(g) ==
  /\ writes < MaxWrites
  /\ writes' = writes + 1
  /\ Return(g)
  /\ UNCHANGED <<stacks, hub, open>>

ScopeLook(g) == writes < MaxWrites /\ Look(g, "scope")

SetTag(g) ==
  LET l == at[g].top
  IN
  /\ at[g].op = "scope"
  /\ maps' = [maps EXCEPT ![tags[l]] = writes + 1]
  /\ fresh' = [fresh EXCEPT ![l].tag = writes + 1]
  /\ Written(g)
  /\ UNCHANGED <<tags, processors, heap, breadcrumbs>>

AddEventProcessor(g) ==
  LET l == at[g].top
  IN
  /\ at[g].op = "scope"
  /\ processors' = [processors EXCEPT ![l] = AppendTo(@)]
  /\ heap' = HeapAfter(processors[l], writes + 1)
  /\ fresh' = [fresh EXCEPT ![l].processors = Append(@, writes + 1)]
  /\ Written(g)
  /\ UNCHANGED <<tags, maps, breadcrumbs>>

\* Hub.AddBreadcrumb takes the limit from the client it sees and drops the breadcrumb
\* if it is negative; so may BeforeBreadcrumb.
CrumbLook(g) ==
  LET l == stackTop(hub[g])
  IN
  /\ writes < MaxWrites
  /\ at[g] = Idle
  /\ MaxBreadcrumbs[client[l]] >= 0
  /\ at' = [at EXCEPT ![g] = [@ EXCEPT !.op = "limit", !.limit = MaxBreadcrumbs[client[l]]]]
  /\ UNCHANGED <<stacks, data, hub, open>>

\* A second look, for the scope.
CrumbScope(g) ==
  /\ at[g].op = "limit"
  /\ at' = [at EXCEPT ![g] = [@ EXCEPT !.op = "crumb", !.top = stackTop(hub[g])]]
  /\ UNCHANGED <<stacks, data, hub, open>>

\* A fault: the limit is tested before the breadcrumb is added.
CutLate(s, limit) == IF Len(s) > limit + 1 THEN SubSeq(s, 2, limit + 2) ELSE s

\* breadcrumbs[1 : limit+1]
Cut(s, limit) == IF Len(s) > limit THEN SubSeq(s, 2, limit + 1) ELSE s

AddBreadcrumb(g) ==
  LET l == at[g].top
  IN
  /\ at[g].op = "crumb"
  /\ breadcrumbs' = [breadcrumbs EXCEPT ![l] = Cut(Append(@, writes + 1), at[g].limit)]
  /\ fresh' = [fresh EXCEPT ![l].breadcrumbs = Append(@, writes + 1)]
  /\ Written(g)
  /\ UNCHANGED <<tags, maps, processors, heap>>

-----------------------------------------------------------------------------

Next ==
  \E g \in Goroutine :
    \/ PushLook(g) \/ CloneLook(g) \/ CloneScope(g) \/ AppendLayer(g)
    \/ \E h \in HubId : NewHub(g, h)
    \/ PopScope(g) \/ PopUnmatched(g)
    \/ BindLook(g) \/ \E c \in Client : SetClient(g, c)
    \/ ScopeLook(g) \/ SetTag(g) \/ AddEventProcessor(g)
    \/ CrumbLook(g) \/ CrumbScope(g) \/ AddBreadcrumb(g)

Spec == Init /\ [][Next]_vars

-----------------------------------------------------------------------------
(* Properties *)

Slice == [array : Nat, len : Nat, cap : Nat]

Ops == {"idle", "push", "clone", "append", "newHub", "bind", "scope", "limit", "crumb"}
Call == [op : Ops, top : 0 .. MaxLayers, scope : 0 .. MaxLayers, limit : Int]
Contents == [tag : 0 .. MaxWrites, processors : Seq(Write), breadcrumbs : Seq(Write)]

TypeOK ==
  /\ stack \in [HubId -> Seq(Layer)]
  /\ client \in [Layer -> Client \cup {NoClient}]
  /\ layers \in Layer
  /\ tags \in [Layer -> Layer]
  /\ maps \in [Layer -> 0 .. MaxWrites]
  /\ processors \in [Layer -> Slice]
  /\ \A l \in Layer : processors[l].len <= processors[l].cap
  /\ heap \in Seq(Seq(0 .. MaxWrites))
  /\ breadcrumbs \in [Layer -> Seq(Write)]
  /\ writes \in 0 .. MaxWrites
  /\ fresh \in [Layer -> Contents]
  /\ hub \in [Goroutine -> HubId]
  /\ open \in [Goroutine -> Nat]
  /\ at \in [Goroutine -> Call]

Inside(h) == {g \in Goroutine : hub[g] = h}

\* Whatever goroutines that share a hub do between the two steps of PushScope, a hub
\* has its first layer and one for each PushScope that is not undone.
StackBalanced ==
  \A h \in Hubs :
    Len(stack[h]) = 1 + Cardinality({p \in Inside(h) \X Layer : p[2] <= open[p[1]]})

\* No step of a program takes away the first layer of a hub, so that stackTop finds
\* one always, also after a PopScope too many.
FirstLayerStays ==
  [][\A h \in Hubs : stack'[h] # <<>> /\ Head(stack'[h]) = Head(stack[h])]_vars

\* A clone of a scope has what the scope had then; what is set on either later is not
\* seen in the other, though their slices share an array.
ScopesIndependent ==
  \A l \in 1 .. layers :
    /\ maps[tags[l]] = fresh[l].tag
    /\ Elements(processors[l]) = fresh[l].processors

\* The breadcrumbs of a scope are in the order they were added, and no more than the
\* largest limit, whichever clients the hub has had.
CrumbsInOrder ==
  \A l \in 1 .. layers :
    /\ \A i, j \in 1 .. Len(breadcrumbs[l]) : i < j => breadcrumbs[l][i] < breadcrumbs[l][j]
    /\ \E c \in Client \cup {NoClient} : Len(breadcrumbs[l]) <= MaxBreadcrumbs[c]

\* scope.go:71: AddBreadcrumb "adds new breadcrumb to the current scope and optionally
\* throws the old one if limit is reached": the newest is there.
NewestKept ==
  \A l \in 1 .. layers :
    fresh[l].breadcrumbs # <<>> =>
      /\ breadcrumbs[l] # <<>>
      /\ breadcrumbs[l][Len(breadcrumbs[l])] = fresh[l].breadcrumbs[Len(fresh[l].breadcrumbs)]

===============================================================================
