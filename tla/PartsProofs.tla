----------------------------- MODULE PartsProofs ------------------------------
(***************************************************************************)
(* Theorems about the layers of the web frameworks and about the buffers in*)
(* front of the transport: the ring and the buckets.  Each is for every    *)
(* value of the constants.                                                 *)
(***************************************************************************)
EXTENDS Middleware, RingBuffer, BucketedBuffer, FiniteSetTheorems, TLAPS

(***************************************************************************)
(* Middleware                                                              *)
(***************************************************************************)

\* What the proofs need to know of the frameworks.
FrameworkKind(g) ==
  /\ g.finds \in {"context", "values"} /\ g.context \in {"passed", "set", "restored", "none"}
  /\ g.values \in BOOLEAN /\ g.broken \in BOOLEAN
  /\ g.status \in {"writer", "response", "error", "rpc"}
  /\ g.finds = "values" \/ g.context = "none" => g.values
  /\ g.finds = "context" /\ g.context = "none" => g.status = "response"
  /\ g = Echo <=> g.status = "error"
  /\ g = GRPC <=> g.status = "rpc"
  /\ g = Gin <=> ~g.broken
  /\ g = Fiber <=> g.context = "restored"
  /\ g = Fiber => g.status = "response"

LEMMA FrameworkKinds ==
  ASSUME NEW g \in Framework
  PROVE  FrameworkKind(g)
<1>1. g \in {HTTP, Gin, Echo, FastHTTP, Fiber, Iris, GRPC}
  BY MiddlewareAssumption DEF MiddlewareAssumption
<1>2. HTTP.finds = "context" /\ HTTP.context = "passed" /\ HTTP.values = FALSE /\ HTTP.status = "writer" /\ HTTP.broken = TRUE
  BY DEF HTTP
<1>3. Gin.finds = "context" /\ Gin.context = "set" /\ Gin.values = TRUE /\ Gin.status = "response" /\ Gin.broken = FALSE
  BY DEF Gin
<1>4. Echo.finds = "values" /\ Echo.context = "none" /\ Echo.values = TRUE /\ Echo.status = "error" /\ Echo.broken = TRUE
  BY DEF Echo
<1>5. FastHTTP.finds = "values" /\ FastHTTP.context = "none" /\ FastHTTP.values = TRUE
      /\ FastHTTP.status = "response" /\ FastHTTP.broken = TRUE
  BY DEF FastHTTP
<1>6. Fiber.finds = "values" /\ Fiber.context = "restored" /\ Fiber.values = TRUE
      /\ Fiber.status = "response" /\ Fiber.broken = TRUE
  BY DEF Fiber
<1>7. Iris.finds = "context" /\ Iris.context = "none" /\ Iris.values = TRUE
      /\ Iris.status = "response" /\ Iris.broken = TRUE
  BY DEF Iris
<1>8. GRPC.finds = "context" /\ GRPC.context = "passed" /\ GRPC.values = FALSE
      /\ GRPC.status = "rpc" /\ GRPC.broken = TRUE
  BY DEF GRPC
<1>9. CASE g = HTTP
  BY <1>2, <1>3, <1>4, <1>6, <1>8, <1>9 DEF FrameworkKind
<1>10. CASE g = Gin
  BY <1>3, <1>4, <1>6, <1>8, <1>10 DEF FrameworkKind
<1>11. CASE g = Echo
  BY <1>3, <1>4, <1>6, <1>8, <1>11 DEF FrameworkKind
<1>12. CASE g = FastHTTP
  BY <1>3, <1>4, <1>5, <1>6, <1>8, <1>12 DEF FrameworkKind
<1>13. CASE g = Fiber
  BY <1>3, <1>4, <1>6, <1>8, <1>13 DEF FrameworkKind
<1>14. CASE g = Iris
  BY <1>3, <1>4, <1>6, <1>7, <1>8, <1>14 DEF FrameworkKind
<1>15. CASE g = GRPC
  BY <1>3, <1>4, <1>6, <1>8, <1>15 DEF FrameworkKind
<1> QED
  BY <1>1, <1>9, <1>10, <1>11, <1>12, <1>13, <1>14, <1>15

-----------------------------------------------------------------------------
(* What a request has for itself.                                            *)

Own(r, n) == {r} \X (1 .. n)

NoContext == [hub |-> Nobody, span |-> Nobody]
ContextType == [hub : Hub \cup {Nobody}, span : Span \cup {Nobody}]
Frame == [hub : Hub, span : Span, saved : ContextType]
EventType == [panic : BOOLEAN, kept : BOOLEAN, layer : Nat, request : Request \cup {Nobody},
              span : Span \cup {Nobody}, live : BOOLEAN]
PanicValues == {"none", "panic", "broken pipe"}
LayerPlaces == {"idle", "handler", "recover", "finish", "leave", "done"}
ResponseType ==
  [writer : [code : Nat, wroteHeader : BOOLEAN], code : Nat, sent : Nat, error : Nat, coded : BOOLEAN,
   early : BOOLEAN, hidden : BOOLEAN]
RequestType ==
  [at : LayerPlaces, frames : Seq(Frame), acts : Nat, context : ContextType, values : Hub \cup {Nobody},
   hubs : Nat, spans : Nat, response : ResponseType, panic : PanicValues, first : PanicValues,
   events : Seq(EventType), flushed : Nat, deep : Nat]

MidType ==
  /\ server \in [framework : Framework, repanic : BOOLEAN, wait : BOOLEAN]
  /\ scope \in [Hub -> [request : Request \cup {Nobody}, span : Span \cup {Nobody}]]
  /\ DOMAIN span = Span /\ \A s \in Span : span[s].finished \in BOOLEAN
  /\ req \in [Request -> RequestType]

\* The layers that a request is in, and what it finds on its way to the handler.
Layered(r, q, g) ==
  /\ Len(q.frames) <= q.deep /\ q.deep <= Layers /\ q.hubs <= q.deep /\ q.spans <= q.deep
  /\ \A i \in 1 .. Len(q.frames) : q.frames[i].hub \in Own(r, q.hubs) /\ q.frames[i].span \in Own(r, q.spans)
  /\ q.at \in {"idle", "handler"} => q.deep = Len(q.frames)
  /\ q.at = "idle" => q = NewRequest
  /\ q.at # "idle" => q.deep # 0
  /\ q.at = "done" <=> q.at # "idle" /\ Len(q.frames) = 0
  /\ q.at = "handler" =>
       /\ IF g.context = "none" THEN q.context = NoContext
          ELSE q.context.hub \in Own(r, q.hubs) /\ q.context.span \in Own(r, q.spans)
       /\ g.values => q.values \in Own(r, q.hubs)

\* The scopes of its hubs speak of it, and its events too.
Scoped(r, q, sc) ==
  \A h \in Own(r, q.hubs) : sc[h].request = r /\ sc[h].span \in Own(r, q.spans)

Evented(r, q) ==
  \A i \in 1 .. Len(q.events) : q.events[i].request = r /\ q.events[i].span \in Own(r, q.spans)

MidInv ==
  /\ MidType
  /\ \A r \in Request : Layered(r, req[r], fw) /\ Scoped(r, req[r], scope) /\ Evented(r, req[r])

LEMMA OwnFacts ==
  ASSUME NEW r \in Request, NEW n \in Nat, n <= Layers
  PROVE  /\ Own(r, n) \subseteq Span /\ Own(r, n) \subseteq Hub
         /\ \A h \in Own(r, n) : h # Nobody /\ h # CurrentHub /\ h[1] = r
         /\ \A k \in 1 .. n : <<r, k>> \in Own(r, n)
         /\ \A m \in Nat : n <= m => Own(r, n) \subseteq Own(r, m)
         /\ \A p \in Request, m \in Nat : p # r => Own(r, n) \cap Own(p, m) = {}
<1>0. Layers \in Nat
  BY MiddlewareAssumption DEF MiddlewareAssumption
<1>1. \A h \in Own(r, n) : \E k \in 1 .. n : h = <<r, k>>
  BY DEF Own
<1>2. \A k \in 1 .. n : <<r, k>> # <<>> /\ <<r, k>> # <<"current", 0>> /\ <<r, k>>[1] = r /\ k \in 1 .. Layers
  BY <1>0
<1>3. Own(r, n) \subseteq Span /\ Own(r, n) \subseteq Hub
  BY <1>1, <1>2 DEF Span, Hub
<1>4. \A h \in Own(r, n) : h # Nobody /\ h # CurrentHub /\ h[1] = r
  BY <1>1, <1>2 DEF Nobody, CurrentHub
<1>5. \A k \in 1 .. n : <<r, k>> \in Own(r, n)
  BY DEF Own
<1>6. \A m \in Nat : n <= m => Own(r, n) \subseteq Own(r, m)
  BY DEF Own
<1>7. \A p \in Request, m \in Nat : p # r => Own(r, n) \cap Own(p, m) = {}
  BY DEF Own
<1> QED
  BY <1>3, <1>4, <1>5, <1>6, <1>7

LEMMA MidFacts ==
  ASSUME MidInv, NEW r \in Request
  PROVE  /\ FrameworkKind(fw) /\ fw \in Framework /\ Layers \in Nat
         /\ req[r] \in RequestType /\ Layered(r, req[r], fw) /\ Scoped(r, req[r], scope) /\ Evented(r, req[r])
         /\ Len(req[r].frames) \in Nat /\ Len(req[r].events) \in Nat
         /\ req[r].frames \in Seq(Frame) /\ req[r].events \in Seq(EventType)
         /\ req[r].hubs \in Nat /\ req[r].spans \in Nat /\ req[r].deep \in Nat /\ req[r].acts \in Nat
         /\ req[r].hubs <= Layers /\ req[r].spans <= Layers
         /\ req[r].flushed \in Nat /\ req[r].panic \in PanicValues /\ req[r].first \in PanicValues
         /\ req[r].context \in ContextType /\ req[r].response \in ResponseType
<1>1. fw \in Framework /\ Layers \in Nat
  BY MiddlewareAssumption DEF MidInv, MidType, fw, MiddlewareAssumption
<1>2. req[r] \in RequestType /\ Layered(r, req[r], fw) /\ Scoped(r, req[r], scope) /\ Evented(r, req[r])
  BY DEF MidInv, MidType
<1>3. /\ req[r].frames \in Seq(Frame) /\ req[r].events \in Seq(EventType)
      /\ req[r].hubs \in Nat /\ req[r].spans \in Nat /\ req[r].deep \in Nat /\ req[r].acts \in Nat
      /\ req[r].flushed \in Nat /\ req[r].panic \in PanicValues /\ req[r].first \in PanicValues
      /\ req[r].context \in ContextType /\ req[r].response \in ResponseType
  BY <1>2 DEF RequestType
<1>4. req[r].hubs <= Layers /\ req[r].spans <= Layers
  BY <1>1, <1>2, <1>3 DEF Layered
<1> QED
  BY <1>1, <1>2, <1>3, <1>4, FrameworkKinds


LEMMA StepMid ==
  ASSUME MidInv, NEW r \in Request, NEW q \in RequestType, Become(r, q), UNCHANGED server,
         req[r].hubs <= q.hubs, req[r].spans <= q.spans,
         Layered(r, q, fw), Scoped(r, q, scope'), Evented(r, q),
         scope' \in [Hub -> [request : Request \cup {Nobody}, span : Span \cup {Nobody}]],
         \A h \in Hub : h \notin Own(r, q.hubs) => scope'[h] = scope[h],
         DOMAIN span' = Span, \A s \in Span : span'[s].finished \in BOOLEAN
  PROVE  MidInv'
<1>1. req' \in [Request -> RequestType] /\ req'[r] = q /\ \A p \in Request \ {r} : req'[p] = req[p]
  BY DEF Become, MidInv, MidType
<1>2. fw' = fw /\ server' \in [framework : Framework, repanic : BOOLEAN, wait : BOOLEAN]
  BY DEF fw, MidInv, MidType
<1>3. q.hubs \in Nat /\ q.hubs <= Layers
  BY MiddlewareAssumption DEF Layered, RequestType, MiddlewareAssumption
<1>4. ASSUME NEW p \in Request, p # r
      PROVE  Layered(p, req[p], fw) /\ Scoped(p, req[p], scope') /\ Evented(p, req[p])
  <2>1. \A h \in Own(p, req[p].hubs) : h \in Hub /\ h \notin Own(r, q.hubs)
    BY <1>3, <1>4, MidFacts, OwnFacts
  <2> QED
    BY <2>1, MidFacts DEF Scoped
<1>5. ASSUME NEW p \in Request
      PROVE  Layered(p, req'[p], fw') /\ Scoped(p, req'[p], scope') /\ Evented(p, req'[p])
  BY <1>1, <1>2, <1>4
<1>6. MidType'
  BY <1>1, <1>2 DEF MidType
<1> QED
  BY <1>5, <1>6 DEF MidInv

\* A step after which the request has the hubs and the spans it had.
LEMMA QuietMid ==
  ASSUME MidInv, NEW r \in Request, NEW q \in RequestType, Become(r, q), UNCHANGED <<server, scope>>,
         q.hubs = req[r].hubs, q.spans = req[r].spans, Layered(r, q, fw), Evented(r, q),
         DOMAIN span' = Span, \A s \in Span : span'[s].finished \in BOOLEAN
  PROVE  MidInv'
<1>1. Scoped(r, q, scope')
  BY MidFacts DEF Scoped
<1>2. req[r].hubs <= q.hubs /\ req[r].spans <= q.spans
  BY MidFacts
<1>3. scope' \in [Hub -> [request : Request \cup {Nobody}, span : Span \cup {Nobody}]]
  BY DEF MidInv, MidType
<1> QED
  BY <1>1, <1>2, <1>3, StepMid

\* The record of the request after Enter.
Entered(r) ==
  LET q == req[r]
      new == q.context.span = Nobody
      hub == HubForRequest(r)
      transaction == StartTransaction(r)
  IN [q EXCEPT !.at = "handler",
               !.frames = Append(@, [hub |-> hub, span |-> transaction, saved |-> q.context]),
               !.context = IF fw.context = "none" THEN @ ELSE [hub |-> hub, span |-> transaction],
               !.values = IF fw.values THEN hub ELSE @,
               !.hubs = IF FoundHub(r) = Nobody THEN @ + 1 ELSE @,
               !.spans = IF new THEN @ + 1 ELSE @,
               !.deep = @ + 1]

LEMMA EnterAlone ==
  ASSUME MidInv, NEW r \in Request, Enter(r)
  PROVE  Become(r, Entered(r))
<1>1. req \in [Request -> RequestType]
  BY DEF MidInv, MidType
<1> QED
  BY <1>1 DEF Enter, Become, Entered, RequestType

\* Where a layer is entered, and what it finds there.
LEMMA EnterFinds ==
  ASSUME MidInv, NEW r \in Request, Enter(r)
  PROVE  /\ Len(req[r].frames) < Layers /\ req[r].deep = Len(req[r].frames)
         /\ fw.context = "none" => req[r].context = NoContext
         /\ FoundHub(r) # Nobody => FoundHub(r) \in Own(r, req[r].hubs)
         /\ req[r].context.span # Nobody =>
              req[r].context.span \in Own(r, req[r].spans) /\ FoundHub(r) # Nobody
<1>1. req[r].at \in {"idle", "handler"} /\ Len(req[r].frames) < Layers
  BY DEF Enter, Does, Depth
<1>2. Layered(r, req[r], fw) /\ FrameworkKind(fw) /\ req[r].hubs \in Nat /\ req[r].hubs <= Layers
  BY MidFacts
<1>3. req[r].deep = Len(req[r].frames)
  BY <1>1, <1>2 DEF Layered
<1>4. Nobody \notin Own(r, req[r].hubs)
  BY <1>2, OwnFacts
<1>5. CASE req[r].at = "idle"
  <2>1. req[r] = NewRequest
    BY <1>2, <1>5 DEF Layered
  <2>2. req[r].context = NoContext /\ req[r].context.span = Nobody /\ FoundHub(r) = Nobody
    BY <2>1 DEF NewRequest, NoContext, FoundHub
  <2> QED
    BY <1>1, <1>3, <2>2
<1>6. CASE req[r].at = "handler"
  <2>1. /\ IF fw.context = "none" THEN req[r].context = NoContext
           ELSE req[r].context.hub \in Own(r, req[r].hubs) /\ req[r].context.span \in Own(r, req[r].spans)
        /\ fw.values => req[r].values \in Own(r, req[r].hubs)
    BY <1>2, <1>6 DEF Layered
  <2>2. NoContext.span = Nobody /\ NoContext.hub = Nobody
    BY DEF NoContext
  <2>3. CASE fw.finds = "values"
    BY <1>1, <1>2, <1>3, <1>4, <2>1, <2>2, <2>3 DEF FoundHub, FrameworkKind
  <2>4. CASE fw.finds = "context"
    BY <1>1, <1>2, <1>3, <1>4, <2>1, <2>2, <2>4 DEF FoundHub
  <2> QED
    BY <1>2, <2>3, <2>4 DEF FrameworkKind
<1> QED
  BY <1>1, <1>5, <1>6

LEMMA MidEnter ==
  ASSUME MidInv, NEW r \in Request, Enter(r)
  PROVE  MidInv'
<1> DEFINE q == req[r]  q2 == Entered(r)  hub == HubForRequest(r)  tr == StartTransaction(r)
           frame == [hub |-> hub, span |-> tr, saved |-> q.context]
           context2 == IF fw.context = "none" THEN q.context ELSE [hub |-> hub, span |-> tr]
           said == [request |-> r, span |-> IF q.context.span = Nobody THEN tr
                      ELSE (IF FoundHub(r) = Nobody THEN scope[CurrentHub] ELSE scope[hub]).span]
<1>1. /\ FrameworkKind(fw) /\ Layers \in Nat /\ q \in RequestType /\ Layered(r, q, fw) /\ Scoped(r, q, scope)
      /\ Evented(r, q) /\ Len(q.frames) \in Nat /\ q.frames \in Seq(Frame)
      /\ q.hubs \in Nat /\ q.spans \in Nat /\ q.deep \in Nat /\ q.hubs <= Layers /\ q.spans <= Layers
      /\ q.context \in ContextType
  BY MidFacts
<1>2. /\ Len(q.frames) < Layers /\ q.deep = Len(q.frames)
      /\ fw.context = "none" => q.context = NoContext
      /\ FoundHub(r) # Nobody => FoundHub(r) \in Own(r, q.hubs)
      /\ q.context.span # Nobody => q.context.span \in Own(r, q.spans) /\ FoundHub(r) # Nobody
  BY EnterFinds
<1>3. Become(r, q2)
  BY EnterAlone
<1>4. scope' = [scope EXCEPT ![hub] = said] /\ UNCHANGED <<server, span>>
  BY DEF Enter
<1>5. /\ q2.at = "handler" /\ q2.frames = Append(q.frames, frame) /\ q2.context = context2
      /\ q2.values = IF fw.values THEN hub ELSE q.values
      /\ q2.hubs = IF FoundHub(r) = Nobody THEN q.hubs + 1 ELSE q.hubs
      /\ q2.spans = IF q.context.span = Nobody THEN q.spans + 1 ELSE q.spans
      /\ q2.deep = q.deep + 1 /\ q2.events = q.events /\ q2.acts = q.acts /\ q2.response = q.response
      /\ q2.panic = q.panic /\ q2.first = q.first /\ q2.flushed = q.flushed
  BY <1>1 DEF Entered, RequestType
<1>6. hub = IF FoundHub(r) = Nobody THEN <<r, q.hubs + 1>> ELSE FoundHub(r)
  BY DEF HubForRequest, Clone
<1>7. tr = IF q.context.span = Nobody THEN <<r, q.spans + 1>> ELSE q.context.span
  BY DEF StartTransaction
<1>8. q2.hubs \in Nat /\ q2.spans \in Nat /\ q2.hubs <= Layers /\ q2.spans <= Layers
      /\ q.hubs <= q2.hubs /\ q.spans <= q2.spans /\ q2.hubs <= q2.deep /\ q2.spans <= q2.deep
  <2>1. q.hubs <= q.deep /\ q.spans <= q.deep /\ q.deep + 1 <= Layers
    BY <1>1, <1>2 DEF Layered
  <2> HIDE DEF q, q2
  <2> QED
    BY <1>1, <1>5, <2>1, SMTT(20)
<1>9. Own(r, q.hubs) \subseteq Own(r, q2.hubs) /\ Own(r, q.spans) \subseteq Own(r, q2.spans)
      /\ Own(r, q2.hubs) \subseteq Hub /\ Own(r, q2.spans) \subseteq Span
      /\ \A h \in Own(r, q2.hubs) : h # Nobody
  BY <1>1, <1>8, OwnFacts
<1>10. hub \in Own(r, q2.hubs)
  <2>1. CASE FoundHub(r) = Nobody
    BY <1>1, <1>5, <1>6, <1>8, <2>1, OwnFacts
  <2>2. CASE FoundHub(r) # Nobody
    BY <1>2, <1>6, <1>9, <2>2
  <2> QED
    BY <2>1, <2>2
<1>11. tr \in Own(r, q2.spans)
  <2>1. CASE q.context.span = Nobody
    BY <1>1, <1>5, <1>7, <1>8, <2>1, OwnFacts
  <2>2. CASE q.context.span # Nobody
    BY <1>2, <1>7, <1>9, <2>2
  <2> QED
    BY <2>1, <2>2
<1>12. said \in [request : Request \cup {Nobody}, span : Span \cup {Nobody}]
       /\ said.request = r /\ said.span \in Own(r, q2.spans)
  <2>1. CASE q.context.span = Nobody
    BY <1>9, <1>11, <2>1
  <2>2. CASE q.context.span # Nobody
    <3>1. hub \in Own(r, q.hubs) /\ FoundHub(r) # Nobody
      BY <1>2, <1>6, <2>2
    <3>2. scope[hub].span \in Own(r, q.spans)
      BY <1>1, <3>1 DEF Scoped
    <3> QED
      BY <1>9, <2>2, <3>1, <3>2
  <2> QED
    BY <2>1, <2>2
<1>13. scope \in [Hub -> [request : Request \cup {Nobody}, span : Span \cup {Nobody}]]
       /\ DOMAIN span = Span /\ \A s \in Span : span[s].finished \in BOOLEAN
  BY DEF MidInv, MidType
<1>14. scope' \in [Hub -> [request : Request \cup {Nobody}, span : Span \cup {Nobody}]]
       /\ scope'[hub] = said /\ \A h \in Hub : h # hub => scope'[h] = scope[h]
  BY <1>4, <1>9, <1>10, <1>12, <1>13
<1>15. Scoped(r, q2, scope')
  <2> SUFFICES ASSUME NEW h \in Own(r, q2.hubs)
               PROVE  scope'[h].request = r /\ scope'[h].span \in Own(r, q2.spans)
    BY DEF Scoped
  <2>1. CASE h = hub
    BY <1>12, <1>14, <2>1
  <2>2. CASE h # hub
    <3>1. h \in Own(r, q.hubs)
      <4>1. CASE FoundHub(r) # Nobody
        BY <1>5, <4>1
      <4>2. CASE FoundHub(r) = Nobody
        <5>1. PICK n \in 1 .. q.hubs + 1 : h = <<r, n>>
          BY <1>5, <4>2 DEF Own
        <5>2. n # q.hubs + 1
          BY <1>6, <2>2, <4>2, <5>1
        <5>3. n \in 1 .. q.hubs
          BY <1>1, <5>1, <5>2
        <5> QED
          BY <5>1, <5>3 DEF Own
      <4> QED
        BY <4>1, <4>2
    <3>2. scope'[h] = scope[h]
      BY <1>9, <1>14, <2>2
    <3> QED
      BY <1>1, <1>9, <3>1, <3>2 DEF Scoped
  <2> QED
    BY <2>1, <2>2
<1>16. Evented(r, q2)
  BY <1>1, <1>5, <1>9 DEF Evented
<1>17. frame \in Frame /\ context2 \in ContextType /\ hub \in Hub
  BY <1>1, <1>9, <1>10, <1>11 DEF Frame, ContextType
<1>18. q2.frames \in Seq(Frame) /\ Len(q2.frames) = Len(q.frames) + 1
       /\ \A i \in 1 .. Len(q2.frames) :
            q2.frames[i] = IF i = Len(q.frames) + 1 THEN frame ELSE q.frames[i]
  <2> HIDE DEF frame
  <2> QED
    BY <1>1, <1>5, <1>17
<1>19. q2 \in RequestType
  <2> HIDE DEF frame, context2, hub, tr, q2
  <2>1. q2 = [q EXCEPT !.at = q2.at, !.frames = q2.frames, !.context = q2.context, !.values = q2.values,
                       !.hubs = q2.hubs, !.spans = q2.spans, !.deep = q2.deep]
    BY <1>1, <1>5 DEF Entered, RequestType, q2
  <2>2. q2.values \in Hub \cup {Nobody} /\ q2.deep \in Nat /\ q2.at \in LayerPlaces
    <3>1. q.values \in Hub \cup {Nobody}
      BY <1>1 DEF RequestType
    <3> QED
      BY <1>1, <1>5, <1>17, <3>1, SMTT(20) DEF LayerPlaces
  <2> QED
    BY <1>1, <1>5, <1>8, <1>17, <1>18, <2>1, <2>2 DEF RequestType
<1>20. Layered(r, q2, fw)
  <2> HIDE DEF q2, hub, tr
  <2>1. Len(q2.frames) <= q2.deep /\ q2.deep <= Layers /\ q2.hubs <= q2.deep /\ q2.spans <= q2.deep
        /\ q2.deep = Len(q2.frames) /\ Len(q2.frames) # 0
    BY <1>1, <1>2, <1>5, <1>8, <1>18
  <2>2. \A i \in 1 .. Len(q2.frames) : q2.frames[i].hub \in Own(r, q2.hubs) /\ q2.frames[i].span \in Own(r, q2.spans)
    <3> TAKE i \in 1 .. Len(q2.frames)
    <3>1. frame.hub = hub /\ frame.span = tr
      OBVIOUS
    <3>2. CASE i = Len(q.frames) + 1
      BY <1>10, <1>11, <1>18, <3>1, <3>2
    <3>3. CASE i # Len(q.frames) + 1
      <4>1. i \in 1 .. Len(q.frames) /\ q2.frames[i] = q.frames[i]
        BY <1>1, <1>18, <3>3
      <4>2. q.frames[i].hub \in Own(r, q.hubs) /\ q.frames[i].span \in Own(r, q.spans)
        BY <1>1, <4>1 DEF Layered
      <4> QED
        BY <1>9, <4>1, <4>2
    <3> QED
      BY <3>2, <3>3
  <2>3. /\ IF fw.context = "none" THEN q2.context = NoContext
           ELSE q2.context.hub \in Own(r, q2.hubs) /\ q2.context.span \in Own(r, q2.spans)
        /\ fw.values => q2.values \in Own(r, q2.hubs)
    BY <1>2, <1>5, <1>10, <1>11
  <2> QED
    BY <1>5, <2>1, <2>2, <2>3 DEF Layered
<1>21. /\ scope' \in [Hub -> [request : Request \cup {Nobody}, span : Span \cup {Nobody}]]
       /\ \A h \in Hub : h \notin Own(r, q2.hubs) => scope'[h] = scope[h]
       /\ DOMAIN span' = Span /\ \A s \in Span : span'[s].finished \in BOOLEAN
       /\ UNCHANGED server
  <2> HIDE DEF q2, hub, said
  <2> QED
    BY <1>4, <1>10, <1>13, <1>14
<1>22. q.hubs <= q2.hubs /\ q.spans <= q2.spans
  BY <1>8
<1> HIDE DEF q2, hub, tr, said, frame, context2
<1> QED
  BY <1>3, <1>15, <1>16, <1>19, <1>20, <1>21, <1>22, StepMid

-----------------------------------------------------------------------------
(* What each of the other steps makes of the request.                        *)

LEMMA Becomes ==
  ASSUME MidInv, NEW r \in Request, NEW q, Become(r, q)
  PROVE  req'[r] = q /\ Become(r, req'[r]) /\ \A p \in Request : p # r => req'[p] = req[p]
<1>1. req \in [Request -> RequestType]
  BY DEF MidInv, MidType
<1> QED
  BY <1>1 DEF Become

\* The layers are as they were.
Kept(q, q2) ==
  /\ q2.frames = q.frames /\ q2.context = q.context /\ q2.values = q.values
  /\ q2.hubs = q.hubs /\ q2.spans = q.spans /\ q2.deep = q.deep

LEMMA CapturesIn ==
  ASSUME MidInv, NEW r \in Request, Capture(r)
  PROVE  /\ Become(r, req'[r]) /\ Kept(req[r], req'[r]) /\ UNCHANGED <<server, scope, span>>
         /\ req[r].at = "handler" /\ req'[r].at = "handler"
         /\ req'[r].events = Append(req[r].events, Event(r, HandlerHub(r), FALSE, TRUE))
         /\ req'[r] = [req[r] EXCEPT !.acts = req[r].acts + 1,
                                     !.events = Append(req[r].events, Event(r, HandlerHub(r), FALSE, TRUE))]
<1> DEFINE q2 == [req[r] EXCEPT !.acts = @ + 1, !.events = Append(@, Event(r, HandlerHub(r), FALSE, TRUE))]
<1>1. req[r] \in RequestType
  BY MidFacts
<1>2. Become(r, q2) /\ UNCHANGED <<server, scope, span>> /\ req[r].at = "handler"
  BY DEF Capture, Act, Does
<1>3. req'[r] = q2 /\ Become(r, req'[r])
  BY <1>2, Becomes
<1> QED
  BY <1>1, <1>2, <1>3 DEF Kept, RequestType

\* What a handler writes, and flushes.
Written(r, code) ==
  LET response == req[r].response
      first == fw.status \in {"writer", "error"} /\ code >= 200 /\ response.sent = 0
  IN [response EXCEPT !.writer = WriteHeader(@, code),
                      !.code = IF fw.status = "response" \/ first THEN code ELSE @,
                      !.sent = IF first THEN code ELSE @,
                      !.early = @ \/ (code < 200 /\ response.sent = 0)]

LEMMA Writes ==
  ASSUME MidInv, NEW r \in Request, NEW code \in Code, Write(r, code)
  PROVE  /\ Become(r, req'[r]) /\ Kept(req[r], req'[r]) /\ UNCHANGED <<server, scope, span>>
         /\ req[r].at = "handler" /\ fw.status # "rpc" /\ (code >= 200 \/ fw.status = "writer")
         /\ req'[r] = [req[r] EXCEPT !.acts = req[r].acts + 1, !.response = Written(r, code)]
         /\ req'[r].at = "handler"
<1> DEFINE q2 == [req[r] EXCEPT !.acts = @ + 1, !.response = Written(r, code)]
<1>1. req[r] \in RequestType
  BY MidFacts
<1>2. Become(r, q2) /\ UNCHANGED <<server, scope, span>> /\ req[r].at = "handler"
      /\ fw.status # "rpc" /\ (code >= 200 \/ fw.status = "writer")
  BY DEF Write, Act, Does, Written
<1>3. req'[r] = q2 /\ Become(r, req'[r])
  BY <1>2, Becomes
<1> QED
  BY <1>1, <1>2, <1>3 DEF Kept, RequestType

Flushed(response) ==
  [response EXCEPT !.writer = FlushWriter(response.writer),
                   !.sent = IF response.sent = 0 THEN 200 ELSE response.sent]

LEMMA Flushes ==
  ASSUME MidInv, NEW r \in Request, Flush(r)
  PROVE  /\ Become(r, req'[r]) /\ Kept(req[r], req'[r]) /\ UNCHANGED <<server, scope, span>>
         /\ req[r].at = "handler" /\ fw.status = "writer"
         /\ req'[r] = [req[r] EXCEPT !.acts = req[r].acts + 1, !.response = Flushed(req[r].response)]
         /\ req'[r].at = "handler"
<1> DEFINE q2 == [req[r] EXCEPT !.acts = @ + 1, !.response.writer = FlushWriter(@),
                                !.response.sent = IF @ = 0 THEN 200 ELSE @]
           q3 == [req[r] EXCEPT !.acts = @ + 1, !.response = Flushed(req[r].response)]
<1>1. req[r] \in RequestType /\ req[r].response \in ResponseType
  BY MidFacts
<1>2. Become(r, q2) /\ UNCHANGED <<server, scope, span>> /\ req[r].at = "handler" /\ fw.status = "writer"
  BY DEF Flush, Act, Does
<1>3. req'[r] = q2 /\ Become(r, req'[r])
  BY <1>2, Becomes
<1>6. q2 = q3
  BY <1>1 DEF RequestType, ResponseType, Flushed
<1>7. Kept(req[r], q3) /\ q3.at = req[r].at
  BY <1>1 DEF Kept, RequestType
<1> QED
  BY <1>2, <1>3, <1>6, <1>7

\* A response that echo does not find.
Hidden(response) == [response EXCEPT !.hidden = TRUE]

LEMMA Hides ==
  ASSUME MidInv, NEW r \in Request, SetResponse(r)
  PROVE  /\ Become(r, req'[r]) /\ Kept(req[r], req'[r]) /\ UNCHANGED <<server, scope, span>>
         /\ req[r].at = "handler" /\ fw = Echo
         /\ req'[r] = [req[r] EXCEPT !.acts = req[r].acts + 1, !.response = Hidden(req[r].response)]
         /\ req'[r].at = "handler"
<1> DEFINE q2 == [req[r] EXCEPT !.acts = @ + 1, !.response.hidden = TRUE]
           q3 == [req[r] EXCEPT !.acts = @ + 1, !.response = Hidden(req[r].response)]
<1>1. req[r] \in RequestType /\ req[r].response \in ResponseType
  BY MidFacts
<1>2. Become(r, q2) /\ UNCHANGED <<server, scope, span>> /\ req[r].at = "handler" /\ fw = Echo
  BY DEF SetResponse, Act, Does
<1>3. req'[r] = q2 /\ Become(r, req'[r])
  BY <1>2, Becomes
<1>4. q2 = q3
  BY <1>1 DEF RequestType, ResponseType, Hidden
<1>5. Kept(req[r], q3) /\ q3.at = req[r].at
  BY <1>1 DEF Kept, RequestType
<1> QED
  BY <1>2, <1>3, <1>4, <1>5

\* What the server makes of an error.
AnswerTo(coded) == IF fw = GRPC THEN IF coded THEN 5 ELSE Unknown ELSE IF coded THEN 404 ELSE 500
Failing(response, coded) == [response EXCEPT !.error = AnswerTo(coded), !.coded = coded]

LEMMA Fails ==
  ASSUME MidInv, NEW r \in Request, NEW coded \in BOOLEAN, Fail(r, coded)
  PROVE  /\ Become(r, req'[r]) /\ Kept(req[r], req'[r]) /\ UNCHANGED <<server, scope, span>>
         /\ req[r].at = "handler" /\ fw \in {Echo, Fiber, GRPC}
         /\ req'[r] = [req[r] EXCEPT !.at = "recover", !.response = Failing(req[r].response, coded)]
         /\ req'[r].at = "recover"
<1> DEFINE q2 == [req[r] EXCEPT !.at = "recover", !.response.error = AnswerTo(coded), !.response.coded = coded]
           q3 == [req[r] EXCEPT !.at = "recover", !.response = Failing(req[r].response, coded)]
<1>1. req[r] \in RequestType /\ req[r].response \in ResponseType
  BY MidFacts
<1>2. Become(r, q2) /\ UNCHANGED <<server, scope, span>> /\ req[r].at = "handler" /\ fw \in {Echo, Fiber, GRPC}
  BY DEF Fail, Act, Does, AnswerTo
<1>3. req'[r] = q2 /\ Become(r, req'[r])
  BY <1>2, Becomes
<1>4. q2 = q3
  BY <1>1 DEF RequestType, ResponseType, Failing
<1>5. Kept(req[r], q3) /\ q3.at = "recover"
  BY <1>1 DEF Kept, RequestType
<1> QED
  BY <1>2, <1>3, <1>4, <1>5

LEMMA PanicsIn ==
  ASSUME MidInv, NEW r \in Request, NEW value \in {"panic", "broken pipe"}, Panic(r, value)
  PROVE  /\ Become(r, req'[r]) /\ Kept(req[r], req'[r]) /\ UNCHANGED <<server, scope, span>>
         /\ req[r].at = "handler"
         /\ req'[r] = [req[r] EXCEPT !.at = "recover", !.panic = value, !.first = value]
         /\ req'[r].at = "recover"
<1> DEFINE q2 == [req[r] EXCEPT !.at = "recover", !.panic = value, !.first = value]
<1>1. req[r] \in RequestType
  BY MidFacts
<1>2. Become(r, q2) /\ UNCHANGED <<server, scope, span>> /\ req[r].at = "handler"
  BY DEF Panic, Act, Does
<1>3. req'[r] = q2 /\ Become(r, req'[r])
  BY <1>2, Becomes
<1> QED
  BY <1>1, <1>2, <1>3 DEF Kept, RequestType

LEMMA Returns ==
  ASSUME MidInv, NEW r \in Request, Return(r)
  PROVE  /\ Become(r, req'[r]) /\ Kept(req[r], req'[r]) /\ UNCHANGED <<server, scope, span>>
         /\ req[r].at = "handler"
         /\ req'[r] = [req[r] EXCEPT !.at = "recover"]
         /\ req'[r].at = "recover"
<1> DEFINE q2 == [req[r] EXCEPT !.at = "recover"]
<1>1. req[r] \in RequestType
  BY MidFacts
<1>2. Become(r, q2) /\ UNCHANGED <<server, scope, span>> /\ req[r].at = "handler"
  BY DEF Return, Does
<1>3. req'[r] = q2 /\ Become(r, req'[r])
  BY <1>2, Becomes
<1> QED
  BY <1>1, <1>2, <1>3 DEF Kept, RequestType

Reported(r, kept) ==
  req[r].events \o (IF Reports(r) THEN <<Event(r, Top(r).hub, TRUE, kept)>> ELSE <<>>)

LEMMA Recovers ==
  ASSUME MidInv, NEW r \in Request, NEW kept \in BOOLEAN, RecoverWithSentry(r, kept)
  PROVE  /\ Become(r, req'[r]) /\ Kept(req[r], req'[r]) /\ UNCHANGED <<server, scope, span>>
         /\ req[r].at = "recover" /\ req'[r].at = "finish"
         /\ req'[r] = [req[r] EXCEPT !.at = "finish", !.events = Reported(r, kept),
              !.flushed = IF Reports(r) /\ kept /\ server.wait THEN Len(Reported(r, kept)) ELSE req[r].flushed,
              !.response = [req[r].response EXCEPT !.error = IF Panics(r) /\ fw = GRPC THEN Internal ELSE @],
              !.panic = IF server.repanic THEN req[r].panic ELSE "none"]
<1> DEFINE all == Reported(r, kept)
           q2 == [req[r] EXCEPT !.at = "finish", !.events = all,
                                !.flushed = IF Reports(r) /\ kept /\ server.wait THEN Len(all) ELSE @,
                                !.response.error = IF Panics(r) /\ fw = GRPC THEN Internal ELSE @,
                                !.panic = IF server.repanic THEN @ ELSE "none"]
<1>1. req[r] \in RequestType
  BY MidFacts
<1>2. Become(r, q2) /\ UNCHANGED <<server, scope, span>> /\ req[r].at = "recover"
  BY DEF RecoverWithSentry, Does, Reported
<1>3. req'[r] = q2 /\ Become(r, req'[r])
  BY <1>2, Becomes
<1> HIDE DEF all
<1>4. q2 = [req[r] EXCEPT !.at = "finish", !.events = all,
              !.flushed = IF Reports(r) /\ kept /\ server.wait THEN Len(all) ELSE req[r].flushed,
              !.response = [req[r].response EXCEPT !.error = IF Panics(r) /\ fw = GRPC THEN Internal ELSE @],
              !.panic = IF server.repanic THEN req[r].panic ELSE "none"]
  BY <1>1 DEF RequestType
<1>5. Kept(req[r], q2) /\ q2.at = "finish"
  BY <1>1 DEF Kept, RequestType
<1> QED
  BY <1>2, <1>3, <1>4, <1>5 DEF all

LEMMA FinishesSpan ==
  ASSUME MidInv, NEW r \in Request, FinishTransaction(r)
  PROVE  /\ Become(r, req'[r]) /\ Kept(req[r], req'[r]) /\ UNCHANGED <<server, scope>>
         /\ req[r].at = "finish" /\ req'[r].at = "leave"
         /\ req'[r] = [req[r] EXCEPT !.at = "leave"]
         /\ Len(req[r].frames) # 0 /\ Top(r) \in Frame /\ Top(r).span \in Own(r, req[r].spans)
         /\ DOMAIN span' = Span /\ \A s \in Span \ {Top(r).span} : span'[s] = span[s]
         /\ span'[Top(r).span] = IF span[Top(r).span].finished THEN span[Top(r).span]
                                 ELSE [status |-> Status(r), finished |-> TRUE]
<1> DEFINE q2 == [req[r] EXCEPT !.at = "leave"]
           s == Top(r).span
<1>1. req[r] \in RequestType /\ Layered(r, req[r], fw) /\ req[r].frames \in Seq(Frame)
      /\ Len(req[r].frames) \in Nat /\ req[r].spans \in Nat /\ req[r].spans <= Layers
  BY MidFacts
<1>2. Become(r, q2) /\ UNCHANGED <<server, scope>> /\ req[r].at = "finish"
  BY DEF FinishTransaction, Does
<1>3. req'[r] = q2 /\ Become(r, req'[r])
  BY <1>2, Becomes
<1>4. Kept(req[r], q2) /\ q2.at = "leave"
  BY <1>1 DEF Kept, RequestType
<1>5. Len(req[r].frames) # 0
  BY <1>1, <1>2 DEF Layered
<1>6. Top(r) \in Frame /\ s \in Own(r, req[r].spans)
  BY <1>1, <1>5 DEF Top, Depth, Layered
<1>7. s \in Span /\ DOMAIN span = Span
  BY <1>1, <1>6, OwnFacts DEF MidInv, MidType
<1>8. span' = [span EXCEPT ![s] = IF span[s].finished THEN span[s] ELSE [status |-> Status(r), finished |-> TRUE]]
  BY DEF FinishTransaction
<1> HIDE DEF s
<1>9. /\ DOMAIN span' = Span /\ \A z \in Span \ {s} : span'[z] = span[z]
      /\ span'[s] = IF span[s].finished THEN span[s] ELSE [status |-> Status(r), finished |-> TRUE]
  BY <1>7, <1>8
<1> QED
  BY <1>2, <1>3, <1>4, <1>5, <1>6, <1>9 DEF s

\* What the server sends with the last layer left.
LeavesWith(r) ==
  LET response == req[r].response IN
  IF response.sent # 0 THEN response.sent
  ELSE IF fw.status = "rpc" \/ response.error # 0 THEN response.error
  ELSE IF response.code # 0 THEN response.code
  ELSE 200

LEMMA Leaves ==
  ASSUME MidInv, NEW r \in Request, Leave(r)
  PROVE  /\ Become(r, req'[r]) /\ UNCHANGED <<server, scope, span>>
         /\ req[r].at = "leave" /\ Len(req[r].frames) # 0
         /\ req'[r] = [req[r] EXCEPT
              !.at = IF Len(req[r].frames) = 1 THEN "done" ELSE "recover",
              !.frames = SubSeq(req[r].frames, 1, Len(req[r].frames) - 1),
              !.context = IF fw.context = "set" THEN req[r].context
                          ELSE req[r].frames[Len(req[r].frames)].saved,
              !.response = [req[r].response EXCEPT !.sent = IF Len(req[r].frames) = 1 THEN LeavesWith(r) ELSE @]]
<1> DEFINE q2 == [req[r] EXCEPT
              !.at = IF Len(req[r].frames) = 1 THEN "done" ELSE "recover",
              !.frames = SubSeq(@, 1, Len(req[r].frames) - 1),
              !.context = IF fw.context = "set" THEN @
                          ELSE req[r].frames[Len(req[r].frames)].saved,
              !.response.sent = IF Len(req[r].frames) = 1 THEN LeavesWith(r) ELSE @]
<1>1. req[r] \in RequestType /\ Layered(r, req[r], fw)
  BY MidFacts
<1>2. Become(r, q2) /\ UNCHANGED <<server, scope, span>> /\ req[r].at = "leave"
  BY DEF Leave, Does, Depth, Top, LeavesWith
<1>3. req'[r] = q2 /\ Become(r, req'[r])
  BY <1>2, Becomes
<1>4. Len(req[r].frames) # 0
  BY <1>1, <1>2 DEF Layered
<1> QED
  BY <1>1, <1>2, <1>3, <1>4 DEF RequestType

-----------------------------------------------------------------------------
(* Each of them keeps the invariant.                                         *)

LEMMA KeptMid ==
  ASSUME MidInv, NEW r \in Request, NEW q \in RequestType, Become(r, q), UNCHANGED <<server, scope>>,
         Kept(req[r], q), req[r].at \notin {"idle", "done"},
         q.at = req[r].at \/ q.at \in {"recover", "finish", "leave"}, Evented(r, q),
         DOMAIN span' = Span, \A s \in Span : span'[s].finished \in BOOLEAN
  PROVE  MidInv'
<1>1. Layered(r, req[r], fw)
  BY MidFacts
<1>2. q.at \notin {"idle", "done"} /\ (q.at = "handler" => req[r].at = "handler")
  OBVIOUS
<1>3. Len(req[r].frames) # 0
  BY <1>1 DEF Layered
<1>4. Layered(r, q, fw)
  BY <1>1, <1>2, <1>3 DEF Layered, Kept
<1> QED
  BY <1>4, QuietMid DEF Kept

LEMMA SpansAsTheyWere ==
  ASSUME MidInv, UNCHANGED span
  PROVE  DOMAIN span' = Span /\ \A s \in Span : span'[s].finished \in BOOLEAN
BY DEF MidInv, MidType

LEMMA OldEvents ==
  ASSUME MidInv, NEW r \in Request, NEW q, q.events = req[r].events, q.spans = req[r].spans
  PROVE  Evented(r, q)
BY MidFacts DEF Evented

\* An event of a hub of the request.
LEMMA OwnEvent ==
  ASSUME MidInv, NEW r \in Request, NEW hub \in Own(r, req[r].hubs), NEW panic \in BOOLEAN, NEW kept \in BOOLEAN
  PROVE  /\ Event(r, hub, panic, kept) \in EventType
         /\ Event(r, hub, panic, kept).request = r
         /\ Event(r, hub, panic, kept).span = scope[hub].span
         /\ scope[hub].span \in Own(r, req[r].spans)
         /\ Event(r, hub, panic, kept).panic = panic /\ Event(r, hub, panic, kept).kept = kept
         /\ Event(r, hub, panic, kept).layer = Len(req[r].frames)
         /\ Event(r, hub, panic, kept).live = ~span[scope[hub].span].finished
<1>1. /\ Scoped(r, req[r], scope) /\ Len(req[r].frames) \in Nat
      /\ req[r].spans \in Nat /\ req[r].spans <= Layers
  BY MidFacts
<1>2. scope[hub].request = r /\ scope[hub].span \in Own(r, req[r].spans)
  BY <1>1 DEF Scoped
<1>3. scope[hub].span \in Span
  BY <1>1, <1>2, OwnFacts
<1>4. (~span[scope[hub].span].finished) \in BOOLEAN
  OBVIOUS
<1> HIDE DEF Own
<1> QED
  BY <1>1, <1>2, <1>3, <1>4 DEF Event, EventType, Depth

LEMMA MoreEvents ==
  ASSUME MidInv, NEW r \in Request, NEW hub \in Own(r, req[r].hubs), NEW panic \in BOOLEAN, NEW kept \in BOOLEAN,
         NEW q, q.events = Append(req[r].events, Event(r, hub, panic, kept)), q.spans = req[r].spans
  PROVE  q.events \in Seq(EventType) /\ Evented(r, q)
<1> DEFINE e == Event(r, hub, panic, kept)
<1>1. e \in EventType /\ e.request = r /\ e.span \in Own(r, req[r].spans)
  BY OwnEvent, SMTT(30)
<1>2. req[r].events \in Seq(EventType) /\ Evented(r, req[r])
  BY MidFacts
<1> HIDE DEF e
<1>3. \A i \in 1 .. Len(q.events) : q.events[i] = e \/ (i \in 1 .. Len(req[r].events) /\ q.events[i] = req[r].events[i])
  BY <1>1, <1>2 DEF e
<1> QED
  BY <1>1, <1>2, <1>3 DEF Evented, e

\* The hub that a handler finds is one of its request.
LEMMA HandlerHubOwn ==
  ASSUME MidInv, NEW r \in Request, req[r].at = "handler"
  PROVE  HandlerHub(r) \in Own(r, req[r].hubs)
BY MidFacts DEF HandlerHub, Layered, FrameworkKind

LEMMA TopHubOwn ==
  ASSUME MidInv, NEW r \in Request, Len(req[r].frames) # 0
  PROVE  /\ Top(r) \in Frame /\ Top(r) = req[r].frames[Len(req[r].frames)]
         /\ Top(r).hub \in Own(r, req[r].hubs) /\ Top(r).span \in Own(r, req[r].spans)
<1>1. req[r].frames \in Seq(Frame) /\ Len(req[r].frames) \in Nat /\ Layered(r, req[r], fw)
  BY MidFacts
<1>2. Len(req[r].frames) \in 1 .. Len(req[r].frames)
  BY <1>1
<1>3. Top(r) = req[r].frames[Len(req[r].frames)]
  BY DEF Top, Depth
<1>4. Top(r) \in Frame
  BY <1>1, <1>2, <1>3
<1>5. Top(r).hub \in Own(r, req[r].hubs) /\ Top(r).span \in Own(r, req[r].spans)
  BY <1>1, <1>2, <1>3 DEF Layered
<1> QED
  BY <1>3, <1>4, <1>5

LEMMA MidCapture ==
  ASSUME MidInv, NEW r \in Request, Capture(r)
  PROVE  MidInv'
<1> DEFINE q2 == req'[r]
<1>1. /\ Become(r, q2) /\ Kept(req[r], q2) /\ UNCHANGED <<server, scope, span>>
      /\ req[r].at = "handler" /\ q2.at = "handler"
      /\ q2.events = Append(req[r].events, Event(r, HandlerHub(r), FALSE, TRUE))
  BY CapturesIn
<1>2. q2 = [req[r] EXCEPT !.acts = req[r].acts + 1, !.events = q2.events]
  BY CapturesIn
<1>3. q2.events \in Seq(EventType) /\ Evented(r, q2)
  BY <1>1, HandlerHubOwn, MoreEvents DEF Kept
<1>4. req[r] \in RequestType /\ req[r].acts + 1 \in Nat
  BY MidFacts
<1> HIDE DEF q2
<1>5. q2 \in RequestType
  BY <1>2, <1>3, <1>4 DEF RequestType
<1> QED
  BY <1>1, <1>3, <1>5, KeptMid, SpansAsTheyWere

LEMMA MidWrite ==
  ASSUME MidInv, NEW r \in Request, NEW code \in Code, Write(r, code)
  PROVE  MidInv'
<1> DEFINE q2 == req'[r]
<1>1. /\ Become(r, q2) /\ Kept(req[r], q2) /\ UNCHANGED <<server, scope, span>>
      /\ req[r].at = "handler" /\ q2.at = "handler"
      /\ q2 = [req[r] EXCEPT !.acts = req[r].acts + 1, !.response = Written(r, code)]
  BY Writes
<1>2. req[r] \in RequestType /\ req[r].response \in ResponseType /\ req[r].acts + 1 \in Nat
  BY MidFacts
<1>3. code \in Nat
  BY MiddlewareAssumption DEF MiddlewareAssumption
<1>4. Written(r, code) \in ResponseType
  BY <1>2, <1>3 DEF Written, ResponseType, WriteHeader
<1> HIDE DEF q2
<1>5. q2 \in RequestType /\ q2.events = req[r].events /\ q2.spans = req[r].spans
  BY <1>1, <1>2, <1>4 DEF RequestType
<1> QED
  BY <1>1, <1>5, OldEvents, KeptMid, SpansAsTheyWere

LEMMA MidFlush ==
  ASSUME MidInv, NEW r \in Request, Flush(r)
  PROVE  MidInv'
<1> DEFINE q2 == req'[r]
<1>1. /\ Become(r, q2) /\ Kept(req[r], q2) /\ UNCHANGED <<server, scope, span>>
      /\ req[r].at = "handler" /\ q2.at = "handler"
      /\ q2 = [req[r] EXCEPT !.acts = req[r].acts + 1, !.response = Flushed(req[r].response)]
  BY Flushes
<1>2. req[r] \in RequestType /\ req[r].response \in ResponseType /\ req[r].acts + 1 \in Nat
  BY MidFacts
<1>3. Flushed(req[r].response) \in ResponseType
  <2>1. FlushWriter(req[r].response.writer) \in [code : Nat, wroteHeader : BOOLEAN]
    BY <1>2 DEF ResponseType, FlushWriter
  <2>2. (IF req[r].response.sent = 0 THEN 200 ELSE req[r].response.sent) \in Nat
    BY <1>2 DEF ResponseType
  <2>3. ASSUME NEW x \in ResponseType, NEW w \in [code : Nat, wroteHeader : BOOLEAN], NEW s \in Nat
        PROVE  [x EXCEPT !.writer = w, !.sent = s] \in ResponseType
    <3> DEFINE W == [code : Nat, wroteHeader : BOOLEAN]
           T == [writer : W, code : Nat, sent : Nat, error : Nat, coded : BOOLEAN, early : BOOLEAN,
                 hidden : BOOLEAN]
    <3>1. x \in T /\ w \in W
      BY DEF ResponseType
    <3> HIDE DEF W
    <3>2. [x EXCEPT !.writer = w] \in T
      BY <3>1
    <3>3. [x EXCEPT !.writer = w, !.sent = s] \in T
      BY <3>2
    <3> QED
      BY <3>3 DEF ResponseType, W
  <2> QED
    BY <1>2, <2>1, <2>2, <2>3, ZenonT(30) DEF Flushed
<1> HIDE DEF q2
<1>4. q2 \in RequestType /\ q2.events = req[r].events /\ q2.spans = req[r].spans
  BY <1>1, <1>2, <1>3 DEF RequestType
<1> QED
  BY <1>1, <1>4, OldEvents, KeptMid, SpansAsTheyWere

LEMMA MidHide ==
  ASSUME MidInv, NEW r \in Request, SetResponse(r)
  PROVE  MidInv'
<1> DEFINE q2 == req'[r]
           response2 == Hidden(req[r].response)
<1>1. /\ Become(r, q2) /\ Kept(req[r], q2) /\ UNCHANGED <<server, scope, span>>
      /\ req[r].at = "handler" /\ q2.at = "handler"
      /\ q2 = [req[r] EXCEPT !.acts = req[r].acts + 1, !.response = response2]
  BY Hides
<1>2. req[r] \in RequestType /\ req[r].response \in ResponseType /\ req[r].acts + 1 \in Nat
  BY MidFacts
<1>3. response2 \in ResponseType
  BY <1>2 DEF Hidden, ResponseType
<1> HIDE DEF q2, response2
<1>4. q2 \in RequestType /\ q2.events = req[r].events /\ q2.spans = req[r].spans
  BY <1>1, <1>2, <1>3 DEF RequestType
<1> QED
  BY <1>1, <1>4, OldEvents, KeptMid, SpansAsTheyWere

LEMMA MidFail ==
  ASSUME MidInv, NEW r \in Request, NEW coded \in BOOLEAN, Fail(r, coded)
  PROVE  MidInv'
<1> DEFINE q2 == req'[r]
           response2 == Failing(req[r].response, coded)
<1>1. /\ Become(r, q2) /\ Kept(req[r], q2) /\ UNCHANGED <<server, scope, span>>
      /\ req[r].at = "handler" /\ q2.at = "recover"
      /\ q2 = [req[r] EXCEPT !.at = "recover", !.response = response2]
  BY Fails
<1>2. req[r] \in RequestType /\ req[r].response \in ResponseType
  BY MidFacts
<1>3. AnswerTo(coded) \in Nat
  BY DEF AnswerTo, Unknown
<1>4. response2 \in ResponseType
  BY <1>2, <1>3 DEF Failing, ResponseType
<1> HIDE DEF q2, response2
<1>5. q2 \in RequestType /\ q2.events = req[r].events /\ q2.spans = req[r].spans
  BY <1>1, <1>2, <1>4 DEF RequestType, LayerPlaces
<1> QED
  BY <1>1, <1>5, OldEvents, KeptMid, SpansAsTheyWere

LEMMA MidPanic ==
  ASSUME MidInv, NEW r \in Request, NEW value \in {"panic", "broken pipe"}, Panic(r, value)
  PROVE  MidInv'
<1> DEFINE q2 == req'[r]
<1>1. /\ Become(r, q2) /\ Kept(req[r], q2) /\ UNCHANGED <<server, scope, span>>
      /\ req[r].at = "handler" /\ q2.at = "recover"
      /\ q2 = [req[r] EXCEPT !.at = "recover", !.panic = value, !.first = value]
  BY PanicsIn
<1>2. req[r] \in RequestType
  BY MidFacts
<1> HIDE DEF q2
<1>3. q2 \in RequestType /\ q2.events = req[r].events /\ q2.spans = req[r].spans
  BY <1>1, <1>2 DEF RequestType, LayerPlaces, PanicValues
<1> QED
  BY <1>1, <1>3, OldEvents, KeptMid, SpansAsTheyWere

LEMMA MidReturn ==
  ASSUME MidInv, NEW r \in Request, Return(r)
  PROVE  MidInv'
<1> DEFINE q2 == req'[r]
<1>1. /\ Become(r, q2) /\ Kept(req[r], q2) /\ UNCHANGED <<server, scope, span>>
      /\ req[r].at = "handler" /\ q2.at = "recover"
      /\ q2 = [req[r] EXCEPT !.at = "recover"]
  BY Returns
<1>2. req[r] \in RequestType
  BY MidFacts
<1> HIDE DEF q2
<1>3. q2 \in RequestType /\ q2.events = req[r].events /\ q2.spans = req[r].spans
  BY <1>1, <1>2 DEF RequestType, LayerPlaces
<1> QED
  BY <1>1, <1>3, OldEvents, KeptMid, SpansAsTheyWere

\* What the recovery makes of the events.
LEMMA ReportedFacts ==
  ASSUME MidInv, NEW r \in Request, NEW kept \in BOOLEAN, req[r].at = "recover"
  PROVE  /\ ~Reports(r) => Reported(r, kept) = req[r].events
         /\ Reports(r) => Reported(r, kept) = Append(req[r].events, Event(r, Top(r).hub, TRUE, kept))
         /\ Reported(r, kept) \in Seq(EventType)
         /\ Top(r).hub \in Own(r, req[r].hubs) /\ Len(req[r].frames) # 0
<1>1. req[r].events \in Seq(EventType) /\ Layered(r, req[r], fw)
  BY MidFacts
<1>2. Len(req[r].frames) # 0
  BY <1>1 DEF Layered
<1>3. Top(r).hub \in Own(r, req[r].hubs)
  BY <1>2, TopHubOwn
<1> DEFINE e == Event(r, Top(r).hub, TRUE, kept)
<1>4. e \in EventType
  BY <1>3, OwnEvent
<1> HIDE DEF e
<1>5. ~Reports(r) => Reported(r, kept) = req[r].events
  BY <1>1 DEF Reported
<1>6. Reports(r) => Reported(r, kept) = Append(req[r].events, e)
  <2>1. req[r].events \o <<e>> = Append(req[r].events, e)
    BY <1>1, <1>4
  <2> QED
    BY <2>1 DEF Reported, e
<1>7. Append(req[r].events, e) \in Seq(EventType)
  BY <1>1, <1>4
<1> QED
  BY <1>1, <1>2, <1>3, <1>5, <1>6, <1>7 DEF e

LEMMA MidRecover ==
  ASSUME MidInv, NEW r \in Request, NEW kept \in BOOLEAN, RecoverWithSentry(r, kept)
  PROVE  MidInv'
<1> DEFINE q2 == req'[r]
           all == Reported(r, kept)
           flushed2 == IF Reports(r) /\ kept /\ server.wait THEN Len(all) ELSE req[r].flushed
           response2 == [req[r].response EXCEPT !.error = IF Panics(r) /\ fw = GRPC THEN Internal ELSE @]
           panic2 == IF server.repanic THEN req[r].panic ELSE "none"
<1>1. /\ Become(r, q2) /\ Kept(req[r], q2) /\ UNCHANGED <<server, scope, span>>
      /\ req[r].at = "recover" /\ q2.at = "finish"
      /\ q2 = [req[r] EXCEPT !.at = "finish", !.events = all, !.flushed = flushed2,
                             !.response = response2, !.panic = panic2]
  BY Recovers
<1>2. /\ req[r] \in RequestType /\ req[r].response \in ResponseType /\ req[r].flushed \in Nat
      /\ req[r].panic \in PanicValues
  BY MidFacts
<1>3. /\ ~Reports(r) => all = req[r].events
      /\ Reports(r) => all = Append(req[r].events, Event(r, Top(r).hub, TRUE, kept))
      /\ all \in Seq(EventType) /\ Top(r).hub \in Own(r, req[r].hubs)
  BY <1>1, ReportedFacts
<1>4. response2 \in ResponseType /\ panic2 \in PanicValues
  BY <1>2 DEF ResponseType, Internal, PanicValues
<1>5. flushed2 \in Nat
  BY <1>2, <1>3
<1> HIDE DEF q2, all, flushed2, response2, panic2
<1>6. q2 \in RequestType /\ q2.events = all /\ q2.spans = req[r].spans
  BY <1>1, <1>2, <1>3, <1>4, <1>5 DEF RequestType, LayerPlaces
<1>7. Evented(r, q2)
  <2>1. CASE Reports(r)
    BY <1>3, <1>6, <2>1, MoreEvents
  <2>2. CASE ~Reports(r)
    BY <1>3, <1>6, <2>2, OldEvents
  <2> QED
    BY <2>1, <2>2
<1> QED
  BY <1>1, <1>6, <1>7, KeptMid, SpansAsTheyWere

LEMMA MidFinish ==
  ASSUME MidInv, NEW r \in Request, FinishTransaction(r)
  PROVE  MidInv'
<1> DEFINE q2 == req'[r]
<1>1. /\ Become(r, q2) /\ Kept(req[r], q2) /\ UNCHANGED <<server, scope>>
      /\ req[r].at = "finish" /\ q2.at = "leave"
      /\ q2 = [req[r] EXCEPT !.at = "leave"]
      /\ DOMAIN span' = Span /\ \A s \in Span \ {Top(r).span} : span'[s] = span[s]
      /\ span'[Top(r).span] = IF span[Top(r).span].finished THEN span[Top(r).span]
                              ELSE [status |-> Status(r), finished |-> TRUE]
  BY FinishesSpan
<1>2. req[r] \in RequestType
  BY MidFacts
<1>3. \A s \in Span : span'[s].finished \in BOOLEAN
  <2>1. \A s \in Span : span[s].finished \in BOOLEAN
    BY DEF MidInv, MidType
  <2>2. [status |-> Status(r), finished |-> TRUE].finished = TRUE
    OBVIOUS
  <2> QED
    BY <1>1, <2>1, <2>2
<1> HIDE DEF q2
<1>4. q2 \in RequestType /\ q2.events = req[r].events /\ q2.spans = req[r].spans
  BY <1>1, <1>2 DEF RequestType, LayerPlaces
<1> QED
  BY <1>1, <1>3, <1>4, OldEvents, KeptMid

LEMMA MidLeave ==
  ASSUME MidInv, NEW r \in Request, Leave(r)
  PROVE  MidInv'
<1> DEFINE q == req[r]  q2 == req'[r]
           context2 == IF fw.context = "set" THEN q.context ELSE q.frames[Len(q.frames)].saved
           frames2 == SubSeq(q.frames, 1, Len(q.frames) - 1)
           response2 == [q.response EXCEPT !.sent = IF Len(q.frames) = 1 THEN LeavesWith(r) ELSE @]
           at2 == IF Len(q.frames) = 1 THEN "done" ELSE "recover"
<1>1. /\ Become(r, q2) /\ UNCHANGED <<server, scope, span>> /\ q.at = "leave" /\ Len(q.frames) # 0
      /\ q2 = [q EXCEPT !.at = at2, !.frames = frames2, !.context = context2, !.response = response2]
  BY Leaves
<1>2. /\ q \in RequestType /\ q.response \in ResponseType /\ q.frames \in Seq(Frame) /\ Len(q.frames) \in Nat
      /\ q.context \in ContextType /\ Layered(r, q, fw) /\ q.deep \in Nat
  BY MidFacts
<1>3. q.frames[Len(q.frames)] \in Frame
  BY <1>1, <1>2
<1>4. context2 \in ContextType
  BY <1>2, <1>3 DEF Frame
<1>5. frames2 \in Seq(Frame) /\ Len(frames2) = Len(q.frames) - 1
      /\ \A i \in 1 .. Len(frames2) : i \in 1 .. Len(q.frames) /\ frames2[i] = q.frames[i]
  BY <1>1, <1>2
<1>6. LeavesWith(r) \in Nat
  BY <1>2 DEF LeavesWith, ResponseType
<1>7. response2 \in ResponseType
  BY <1>2, <1>6 DEF ResponseType
<1>8. at2 \in LayerPlaces
  BY DEF LayerPlaces
<1> HIDE DEF q, q2, context2, frames2, response2, at2
<1>9. /\ q2 \in RequestType /\ q2.at = at2 /\ q2.frames = frames2 /\ q2.events = q.events
      /\ q2.hubs = q.hubs /\ q2.spans = q.spans /\ q2.deep = q.deep
  BY <1>1, <1>2, <1>4, <1>5, <1>7, <1>8 DEF RequestType
<1>10. at2 \notin {"idle", "handler"} /\ (at2 = "done" <=> Len(frames2) = 0)
  BY <1>2, <1>5 DEF at2
<1>11. Len(frames2) <= q.deep /\ q.deep # 0
  BY <1>1, <1>2, <1>5 DEF Layered
<1>12. Layered(r, q2, fw)
  BY <1>2, <1>5, <1>9, <1>10, <1>11 DEF Layered
<1>13. Evented(r, q2)
  BY <1>9, OldEvents DEF q
<1> QED
  BY <1>1, <1>9, <1>12, <1>13, QuietMid, SpansAsTheyWere DEF q

LEMMA MidStarts ==
  ASSUME MidInit
  PROVE  MidInv
<1>1. MidType
  <2>1. Nobody \in Hub \cup {Nobody} /\ Nobody \in Span \cup {Nobody} /\ Nobody \in Request \cup {Nobody}
    OBVIOUS
  <2>2. NoResponse \in ResponseType
    BY DEF NoResponse, ResponseType, NewWrapResponseWriter
  <2>3. NewRequest \in RequestType
    <3> HIDE DEF Hub, Span, Nobody
    <3> QED
      BY <2>1, <2>2 DEF NewRequest, RequestType, LayerPlaces, PanicValues, ContextType
  <2>4. server \in [framework : Framework, repanic : BOOLEAN, wait : BOOLEAN]
    BY DEF MidInit
  <2>5. scope \in [Hub -> [request : Request \cup {Nobody}, span : Span \cup {Nobody}]]
    BY <2>1 DEF MidInit
  <2>6. DOMAIN span = Span /\ \A s \in Span : span[s].finished \in BOOLEAN
    BY DEF MidInit
  <2>7. req \in [Request -> RequestType]
    BY <2>3 DEF MidInit
  <2> QED
    BY <2>4, <2>5, <2>6, <2>7 DEF MidType
<1>2. ASSUME NEW r \in Request
      PROVE  Layered(r, req[r], fw) /\ Scoped(r, req[r], scope) /\ Evented(r, req[r])
  <2>1. req[r] = NewRequest
    BY DEF MidInit
  <2>2. /\ NewRequest.at = "idle" /\ NewRequest.frames = <<>> /\ NewRequest.events = <<>>
        /\ NewRequest.hubs = 0 /\ NewRequest.spans = 0 /\ NewRequest.deep = 0
    BY DEF NewRequest
  <2>3. Own(r, 0) = {}
    BY DEF Own
  <2>4. Layered(r, NewRequest, fw)
    BY <2>2, MiddlewareAssumption DEF Layered, MiddlewareAssumption
  <2>5. Scoped(r, NewRequest, scope) /\ Evented(r, NewRequest)
    BY <2>2, <2>3 DEF Scoped, Evented
  <2> QED
    BY <2>1, <2>4, <2>5
<1> QED
  BY <1>1, <1>2 DEF MidInv

LEMMA MidUnchanged ==
  ASSUME MidInv, UNCHANGED midVars
  PROVE  MidInv'
<1>1. server' = server /\ scope' = scope /\ span' = span /\ req' = req /\ fw' = fw
  BY DEF midVars, fw
<1>2. MidType'
  BY <1>1 DEF MidInv, MidType
<1>3. ASSUME NEW r \in Request
      PROVE  Layered(r, req'[r], fw') /\ Scoped(r, req'[r], scope') /\ Evented(r, req'[r])
  BY <1>1 DEF MidInv
<1> QED
  BY <1>2, <1>3 DEF MidInv

LEMMA MidSteps ==
  ASSUME MidInv, NEW r \in Request, Handle(r)
  PROVE  MidInv'
<1>1. CASE Enter(r)
  BY <1>1, MidEnter
<1>2. CASE Capture(r)
  BY <1>2, MidCapture
<1>3. CASE Flush(r)
  BY <1>3, MidFlush
<1>4. ASSUME NEW coded \in BOOLEAN, Fail(r, coded)
      PROVE  MidInv'
  BY <1>4, MidFail
<1>5. CASE Return(r)
  BY <1>5, MidReturn
<1>6. ASSUME NEW code \in Code, Write(r, code)
      PROVE  MidInv'
  BY <1>6, MidWrite
<1>7. ASSUME NEW value \in {"panic", "broken pipe"}, Panic(r, value)
      PROVE  MidInv'
  BY <1>7, MidPanic
<1>8. ASSUME NEW kept \in BOOLEAN, RecoverWithSentry(r, kept)
      PROVE  MidInv'
  BY <1>8, MidRecover
<1>9. CASE FinishTransaction(r)
  BY <1>9, MidFinish
<1>10. CASE Leave(r)
  BY <1>10, MidLeave
<1>11. CASE SetResponse(r)
  BY <1>11, MidHide
<1> QED
  BY <1>1, <1>2, <1>3, <1>4, <1>5, <1>6, <1>7, <1>8, <1>9, <1>10, <1>11 DEF Handle

\* The invariant of the layers: what a request finds on its way to the handler, and
\* what the scopes of its hubs say, is its own.
THEOREM MidInvariance == MidSpec => []MidInv
<1>1. MidInit => MidInv
  BY MidStarts
<1>2. MidInv /\ [MidNext]_midVars => MidInv'
  BY MidSteps, MidUnchanged DEF MidNext
<1> QED
  BY <1>1, <1>2, PTL DEF MidSpec

\* Every event of a request, its handler's and its panics', carries that request and a
\* transaction of it, whatever else is being handled and however often the layer of
\* whichever framework is installed.
THEOREM EventsOfOwnRequest == MidSpec => []OwnRequest
<1>1. MidInv => OwnRequest
  <2> SUFFICES ASSUME MidInv, NEW r \in Request, NEW i \in DOMAIN req[r].events
               PROVE  req[r].events[i].request = r /\ req[r].events[i].span # Nobody
                      /\ req[r].events[i].span[1] = r
    BY DEF OwnRequest
  <2>1. /\ Evented(r, req[r]) /\ req[r].events \in Seq(EventType)
        /\ req[r].spans \in Nat /\ req[r].spans <= Layers
    BY MidFacts
  <2>2. i \in 1 .. Len(req[r].events)
    BY <2>1
  <2>3. req[r].events[i].request = r /\ req[r].events[i].span \in Own(r, req[r].spans)
    BY <2>1, <2>2 DEF Evented
  <2> QED
    BY <2>1, <2>3, OwnFacts
<1> QED
  BY <1>1, MidInvariance, PTL

-----------------------------------------------------------------------------
(* How a request leaves its layers.                                          *)

\* The status that is taken from a response.
StatusOf(g, response) ==
  CASE g.status = "rpc" -> ToSpanStatus(response.error)
    [] g.status = "writer" -> HTTPtoSpanStatus(response.writer.code)
    [] g.status = "error" /\ response.coded -> HTTPtoSpanStatus(response.error)
    [] g.status = "error" /\ ~response.coded /\ response.hidden -> NoStatus
    [] OTHER -> HTTPtoSpanStatus(response.code)

\* It is that of the response, or none where echo does not find one.
Answers(g, response) ==
  \/ StatusOf(g, response) = IF g.status = "rpc" THEN ToSpanStatus(response.sent)
                             ELSE HTTPtoSpanStatus(response.sent)
  \/ StatusOf(g, response) = NoStatus /\ response.hidden

\* What Misread lists.
Excepted(g, response) ==
  \/ response.early
  \/ g = Fiber /\ response.error # 0
  \/ g = Echo /\ response.error # 0 /\ (response.coded <=> response.code # 0)

\* No layer has recovered yet, and none has finished its transaction yet.
Going(q) == q.at \in {"idle", "handler"} \/ (q.at = "recover" /\ Len(q.frames) = q.deep)
Unfinished(q) == q.at \in {"idle", "handler"} \/ (q.at \in {"recover", "finish"} /\ Len(q.frames) = q.deep)

Recovered(q) == IF q.at \in {"finish", "leave"} THEN q.deep - Len(q.frames) + 1 ELSE q.deep - Len(q.frames)
Left(q) == IF q.at = "leave" THEN Len(q.frames) - 1 ELSE Len(q.frames)

\* What becomes of a panic.
Struck(q, sv) ==
  /\ q.at \in {"idle", "handler"} => q.first = "none"
  /\ q.panic = IF Going(q) \/ sv.repanic THEN q.first ELSE "none"

\* Each layer that has recovered has reported it, or the innermost one alone.
Reportable(q, sv) == q.first # "none" /\ (q.first = "broken pipe" => sv.framework.broken)
PanicsOf(q) == {e \in ToSet(q.events) : e.panic}
CountedPanics(q, sv) ==
  /\ IsFiniteSet(PanicsOf(q))
  /\ Cardinality(PanicsOf(q)) = IF ~Reportable(q, sv) \/ Recovered(q) = 0 THEN 0
                                ELSE IF sv.repanic THEN Recovered(q) ELSE 1
  /\ \A e \in PanicsOf(q) : e.layer > q.deep - Recovered(q)

\* The innermost report finds its transaction open, and is waited for.
Reporting(q, sv) ==
  /\ \A e \in PanicsOf(q) : e.layer = q.deep => e.live
  /\ sv.wait => \A i \in q.flushed + 1 .. Len(q.events) : ~q.events[i].panic \/ ~q.events[i].kept

\* The transactions of a request: none is finished while the handler runs, and then
\* all but those of the layers still to be left.
Spans(r, q, sp) ==
  /\ \A n \in 1 .. Layers : (n > q.spans \/ Unfinished(q)) => ~sp[<<r, n>>].finished
  /\ \A n \in 1 .. q.spans : sp[<<r, n>>].finished \/ \E i \in 1 .. Left(q) : q.frames[i].span = <<r, n>>

\* What was there before the first layer comes back.
Restored(q, g) ==
  /\ Len(q.frames) # 0 => q.frames[1].saved = NoContext
  /\ q.at = "done" /\ g.context # "set" => q.context = NoContext

\* The status of what was finished, and what the response is.
Recorded(r, q, g, sp) ==
  q.panic = "none" => \A n \in 1 .. q.spans : sp[<<r, n>>].finished => sp[<<r, n>>].status = StatusOf(g, q.response)

Responds(q, g) ==
  LET response == q.response IN
  IF q.at = "done"
  THEN ~Excepted(g, response) => Answers(g, response)
  ELSE /\ q.at \in {"idle", "handler"} => response.error = 0
       /\ g.status = "rpc" => response.sent = 0
       /\ g.status = "writer" =>
            /\ response.error = 0
            /\ ~response.early => IF response.sent = 0 THEN response.writer.code = 200 /\ ~response.writer.wroteHeader /\ response.code = 0
                                  ELSE response.writer.code = response.sent /\ response.writer.wroteHeader
       /\ g.status = "error" => response.sent = response.code /\ (response.coded => response.error # 0)
       /\ g.status = "response" => response.sent = 0 /\ (g = Fiber \/ response.error = 0)

Unwinding(r, q, sv, sp) ==
  /\ Struck(q, sv) /\ CountedPanics(q, sv) /\ Reporting(q, sv)
  /\ Spans(r, q, sp) /\ Restored(q, sv.framework) /\ Recorded(r, q, sv.framework, sp)
  /\ Responds(q, sv.framework)

AllUnwinding == \A r \in Request : Unwinding(r, req[r], server, span)

LEMMA StepUnwinding ==
  ASSUME MidInv, AllUnwinding, NEW r \in Request, NEW q, Become(r, q), UNCHANGED server,
         Unwinding(r, q, server, span'),
         \A p \in Request \ {r} : \A n \in 1 .. Layers : span'[<<p, n>>] = span[<<p, n>>]
  PROVE  AllUnwinding'
<1>1. req'[r] = q /\ \A p \in Request : p # r => req'[p] = req[p]
  BY Becomes
<1>2. ASSUME NEW p \in Request, p # r
      PROVE  Unwinding(p, req[p], server, span')
  <2>1. req[p].spans \in Nat /\ req[p].spans <= Layers /\ Layers \in Nat
    BY MidFacts
  <2>2. Unwinding(p, req[p], server, span)
    BY DEF AllUnwinding
  <2>3. \A n \in 1 .. Layers : span'[<<p, n>>] = span[<<p, n>>]
    BY <1>2
  <2>4. Spans(p, req[p], span')
    <3>1. Spans(p, req[p], span)
      BY <2>2 DEF Unwinding
    <3>2. \A n \in 1 .. Layers : (n > req[p].spans \/ Unfinished(req[p])) => ~span'[<<p, n>>].finished
      BY <2>3, <3>1 DEF Spans
    <3>3. ASSUME NEW n \in 1 .. req[p].spans
          PROVE  span'[<<p, n>>].finished \/ \E i \in 1 .. Left(req[p]) : req[p].frames[i].span = <<p, n>>
      <4>1. n \in 1 .. Layers
        BY <2>1
      <4> QED
        BY <2>3, <3>1, <4>1 DEF Spans
    <3> QED
      BY <3>2, <3>3 DEF Spans
  <2>5. Recorded(p, req[p], server.framework, span')
    BY <2>1, <2>2, <2>3 DEF Unwinding, Recorded
  <2> QED
    BY <2>2, <2>4, <2>5 DEF Unwinding
<1>3. ASSUME NEW p \in Request
      PROVE  Unwinding(p, req'[p], server', span')
  BY <1>1, <1>2
<1> QED
  BY <1>3 DEF AllUnwinding

LEMMA SetOfMore ==
  ASSUME NEW s \in Seq(EventType), NEW e \in EventType
  PROVE  ToSet(Append(s, e)) = ToSet(s) \cup {e}
<1> HIDE DEF EventType
<1>1. Append(s, e) \in Seq(EventType) /\ Len(Append(s, e)) = Len(s) + 1 /\ Len(s) \in Nat
      /\ \A i \in 1 .. Len(s) + 1 : Append(s, e)[i] = IF i = Len(s) + 1 THEN e ELSE s[i]
  OBVIOUS
<1>2. DOMAIN Append(s, e) = 1 .. Len(s) + 1 /\ DOMAIN s = 1 .. Len(s)
  BY <1>1
<1>3. \A i \in 1 .. Len(s) : i \in 1 .. Len(s) + 1 /\ Append(s, e)[i] = s[i]
  BY <1>1
<1>4. Len(s) + 1 \in 1 .. Len(s) + 1 /\ Append(s, e)[Len(s) + 1] = e
  BY <1>1
<1>5. \A i \in 1 .. Len(s) + 1 : i = Len(s) + 1 \/ i \in 1 .. Len(s)
  BY <1>1
<1> HIDE <1>1
<1>6. ToSet(Append(s, e)) \subseteq ToSet(s) \cup {e}
  BY <1>2, <1>3, <1>4, <1>5 DEF ToSet
<1>7. ToSet(s) \cup {e} \subseteq ToSet(Append(s, e))
  BY <1>2, <1>3, <1>4 DEF ToSet
<1> QED
  BY <1>6, <1>7

LEMMA OfPanics ==
  ASSUME NEW q, q.events \in Seq(EventType), NEW i \in 1 .. Len(q.events), q.events[i].panic
  PROVE  q.events[i] \in PanicsOf(q)
BY DEF PanicsOf, ToSet

\* Before anything is unwound.
LEMMA NotYet ==
  ASSUME MidInv, AllUnwinding, NEW r \in Request, req[r].at \in {"idle", "handler"}
  PROVE  /\ PanicsOf(req[r]) = {} /\ req[r].panic = "none" /\ req[r].first = "none"
         /\ \A n \in 1 .. Layers : ~span[<<r, n>>].finished
         /\ req[r].deep = Len(req[r].frames) /\ Len(req[r].frames) \in Nat
         /\ Responds(req[r], fw) /\ Restored(req[r], fw) /\ Spans(r, req[r], span)
         /\ req[r].at = "handler" => Len(req[r].frames) # 0
<1>1. Unwinding(r, req[r], server, span)
  BY DEF AllUnwinding
<1>2. Layered(r, req[r], fw) /\ Len(req[r].frames) \in Nat
  BY MidFacts
<1>3. req[r].deep = Len(req[r].frames)
  BY <1>2 DEF Layered
<1>4. Recovered(req[r]) = 0
  BY <1>2, <1>3 DEF Recovered
<1>5. IsFiniteSet(PanicsOf(req[r])) /\ Cardinality(PanicsOf(req[r])) = 0
  BY <1>1, <1>4 DEF Unwinding, CountedPanics
<1>6. PanicsOf(req[r]) = {}
  BY <1>5, FS_EmptySet
<1>7. Going(req[r]) /\ Unfinished(req[r])
  BY DEF Going, Unfinished
<1>8. req[r].first = "none" /\ req[r].panic = "none"
  BY <1>1, <1>7 DEF Unwinding, Struck
<1>9. \A n \in 1 .. Layers : ~span[<<r, n>>].finished
  BY <1>1, <1>7 DEF Unwinding, Spans
<1>10. Responds(req[r], fw) /\ Restored(req[r], fw) /\ Spans(r, req[r], span)
  BY <1>1 DEF Unwinding, fw
<1>11. req[r].at = "handler" => Len(req[r].frames) # 0
  BY <1>2 DEF Layered
<1> QED
  BY <1>2, <1>3, <1>6, <1>8, <1>9, <1>10, <1>11

LEMMA FromHandler ==
  ASSUME MidInv, AllUnwinding, NEW r \in Request, req[r].at = "handler", NEW q \in RequestType, Kept(req[r], q),
         q.at \in {"handler", "recover"}, PanicsOf(q) = {},
         q.at = "handler" => q.first = "none", q.panic = q.first, Responds(q, fw),
         Become(r, q), UNCHANGED <<server, span>>
  PROVE  AllUnwinding'
<1>1. /\ \A n \in 1 .. Layers : ~span[<<r, n>>].finished
      /\ req[r].deep = Len(req[r].frames) /\ Len(req[r].frames) \in Nat
      /\ Restored(req[r], fw) /\ Spans(r, req[r], span)
  BY NotYet
<1>2. q.deep = Len(q.frames) /\ Recovered(q) = 0 /\ Going(q) /\ Left(q) = Left(req[r])
      /\ Len(q.frames) \in Nat /\ q.events \in Seq(EventType)
  BY <1>1 DEF Kept, Recovered, Going, Left, RequestType
<1>3. Struck(q, server)
  BY <1>2 DEF Struck
<1>4. CountedPanics(q, server)
  BY <1>2, FS_EmptySet DEF CountedPanics
<1>5. Reporting(q, server)
  <2>1. q.flushed \in Nat
    BY DEF RequestType
  <2>2. \A i \in q.flushed + 1 .. Len(q.events) : i \in 1 .. Len(q.events)
    BY <1>2, <2>1
  <2>3. \A i \in 1 .. Len(q.events) : ~q.events[i].panic
    BY <1>2, OfPanics
  <2> QED
    BY <2>2, <2>3 DEF Reporting
<1>6. Spans(r, q, span)
  <2>1. req[r].spans \in Nat /\ req[r].spans <= Layers /\ Layers \in Nat
    BY MidFacts
  <2>2. q.spans = req[r].spans /\ q.frames = req[r].frames
    BY DEF Kept
  <2> QED
    BY <1>1, <1>2, <2>1, <2>2 DEF Spans
<1>7. Restored(q, fw)
  BY <1>1 DEF Restored, Kept
<1>8. Recorded(r, q, fw, span)
  <2>1. q.spans \in Nat /\ q.spans <= Layers /\ Layers \in Nat
    BY MidFacts DEF Kept
  <2> QED
    BY <1>1, <2>1 DEF Recorded
<1>9. Unwinding(r, q, server, span')
  BY <1>3, <1>4, <1>5, <1>6, <1>7, <1>8 DEF Unwinding, fw
<1> QED
  BY <1>9, StepUnwinding

-----------------------------------------------------------------------------
(* What the handler does.                                                    *)

\* A response that has been sent is in the wrapper as it was sent.
LEMMA WrittenResponds ==
  ASSUME MidInv, AllUnwinding, NEW r \in Request, NEW code \in Code, Write(r, code),
         NEW q \in RequestType, q.at = "handler", q.response = Written(r, code)
  PROVE  Responds(q, fw)
<1> DEFINE x == req[r].response  y == Written(r, code)
           first == fw.status \in {"writer", "error"} /\ code >= 200 /\ x.sent = 0
<1>1. /\ req[r].at = "handler" /\ fw.status # "rpc" /\ (code >= 200 \/ fw.status = "writer")
  BY Writes
<1>2. x \in ResponseType /\ FrameworkKind(fw)
  BY MidFacts
<1>3. code \in Nat /\ code # 0
  BY MiddlewareAssumption DEF MiddlewareAssumption
<1>4. Responds(req[r], fw)
  BY <1>1, NotYet
<1>5. /\ y.writer = WriteHeader(x.writer, code) /\ y.error = x.error /\ y.coded = x.coded
      /\ y.code = (IF fw.status = "response" \/ first THEN code ELSE x.code)
      /\ y.sent = (IF first THEN code ELSE x.sent)
      /\ y.early <=> x.early \/ (code < 200 /\ x.sent = 0)
  BY <1>2 DEF Written, ResponseType
<1>6. x.sent \in Nat /\ x.code \in Nat /\ x.error \in Nat
  BY <1>2 DEF ResponseType
<1>7. CASE fw.status = "writer"
  <2>1. x.error = 0 /\ (~x.early => IF x.sent = 0 THEN x.writer.code = 200 /\ ~x.writer.wroteHeader /\ x.code = 0
                                    ELSE x.writer.code = x.sent /\ x.writer.wroteHeader)
    BY <1>1, <1>4, <1>7 DEF Responds
  <2>2. ASSUME ~y.early
        PROVE  IF y.sent = 0 THEN y.writer.code = 200 /\ ~y.writer.wroteHeader /\ y.code = 0
               ELSE y.writer.code = y.sent /\ y.writer.wroteHeader
    <3>1. ~x.early /\ (code >= 200 \/ x.sent # 0)
      BY <1>3, <1>5, <2>2
    <3>2. CASE x.sent = 0
      <4>1. first /\ y.sent = code
        BY <1>5, <1>7, <3>1, <3>2
      <4>2. ~x.writer.wroteHeader
        BY <2>1, <3>1, <3>2
      <4>3. y.writer.code = code /\ y.writer.wroteHeader
        BY <1>5, <4>2 DEF WriteHeader
      <4> QED
        BY <1>3, <4>1, <4>3
    <3>3. CASE x.sent # 0
      <4>1. y.sent = x.sent /\ x.writer.code = x.sent /\ x.writer.wroteHeader
        BY <1>5, <2>1, <3>1, <3>3
      <4>2. x.writer.wroteHeader
        BY <4>1
      <4>3. y.writer = x.writer
        BY <1>5, <4>2 DEF WriteHeader
      <4> QED
        BY <3>3, <4>1, <4>3
    <3> QED
      BY <3>2, <3>3
  <2>3. y.error = 0
    BY <1>5, <2>1
  <2> HIDE DEF y, x
  <2> QED
    BY <1>7, <2>2, <2>3 DEF Responds, y
<1>8. CASE fw.status = "error"
  <2>1. x.sent = x.code /\ (x.coded => x.error # 0) /\ code >= 200
    BY <1>1, <1>4, <1>8 DEF Responds
  <2> HIDE DEF y, x
  <2>2. x.error = 0
    BY <1>1, <1>4 DEF Responds, x
  <2>3. y.sent = y.code /\ y.error = 0 /\ ~y.coded
    BY <1>5, <1>8, <2>1, <2>2
  <2> QED
    BY <1>8, <2>3 DEF Responds, y
<1>9. CASE fw.status = "response"
  <2>1. x.sent = 0 /\ (fw = Fiber \/ x.error = 0)
    BY <1>1, <1>4, <1>9 DEF Responds
  <2>2. y.sent = 0 /\ y.error = 0
    BY <1>1, <1>4, <1>5, <1>9, <2>1 DEF Responds
  <2> HIDE DEF y, x
  <2> QED
    BY <1>9, <2>2 DEF Responds, y
<1> QED
  BY <1>1, <1>2, <1>7, <1>8, <1>9 DEF FrameworkKind

LEMMA FlushedResponds ==
  ASSUME MidInv, AllUnwinding, NEW r \in Request, Flush(r),
         NEW q \in RequestType, q.at = "handler", q.response = Flushed(req[r].response)
  PROVE  Responds(q, fw)
<1> DEFINE x == req[r].response  y == Flushed(x)
<1>1. req[r].at = "handler" /\ fw.status = "writer"
  BY Flushes
<1>2. x \in ResponseType
  BY MidFacts
<1>3. Responds(req[r], fw)
  BY <1>1, NotYet
<1>4. /\ y.writer = FlushWriter(x.writer) /\ y.error = x.error /\ y.code = x.code
      /\ y.sent = (IF x.sent = 0 THEN 200 ELSE x.sent) /\ y.early = x.early
  BY <1>2 DEF Flushed, ResponseType
<1>5. x.error = 0 /\ (~x.early => IF x.sent = 0 THEN x.writer.code = 200 /\ ~x.writer.wroteHeader /\ x.code = 0
                                  ELSE x.writer.code = x.sent /\ x.writer.wroteHeader)
  BY <1>1, <1>3 DEF Responds
<1>6. y.sent # 0
  BY <1>4
<1>7. ASSUME ~x.early
      PROVE  y.writer.code = y.sent /\ y.writer.wroteHeader
  <2>1. y.writer.code = x.writer.code /\ y.writer.wroteHeader
    BY <1>2, <1>4 DEF ResponseType, FlushWriter
  <2>2. x.writer.code = y.sent
    BY <1>4, <1>5, <1>7
  <2> QED
    BY <2>1, <2>2
<1> HIDE DEF y, x
<1> QED
  BY <1>1, <1>4, <1>5, <1>6, <1>7 DEF Responds, y, x

\* What was kept of a record's response before it is sent.
LEMMA SameResponds ==
  ASSUME MidInv, AllUnwinding, NEW r \in Request, req[r].at = "handler",
         NEW q \in RequestType, q.at \in {"handler", "recover"}, q.response = req[r].response
  PROVE  Responds(q, fw)
<1>1. Responds(req[r], fw)
  BY NotYet
<1> QED
  BY <1>1 DEF Responds

LEMMA CaptureUnwinding ==
  ASSUME MidInv, AllUnwinding, NEW r \in Request, Capture(r)
  PROVE  AllUnwinding'
<1> DEFINE q2 == req'[r]
           e == Event(r, HandlerHub(r), FALSE, TRUE)
<1>1. /\ Become(r, q2) /\ Kept(req[r], q2) /\ UNCHANGED <<server, scope, span>>
      /\ req[r].at = "handler" /\ q2.at = "handler"
      /\ q2.events = Append(req[r].events, e)
      /\ q2 = [req[r] EXCEPT !.acts = req[r].acts + 1, !.events = Append(req[r].events, e)]
  BY CapturesIn
<1>2. req[r] \in RequestType /\ req[r].events \in Seq(EventType) /\ req[r].acts + 1 \in Nat
  BY MidFacts
<1>3. e \in EventType /\ ~e.panic
  BY <1>1, HandlerHubOwn, OwnEvent
<1> HIDE DEF q2, e
<1>0. Append(req[r].events, e) \in Seq(EventType)
  BY <1>2, <1>3
<1>4. /\ q2 \in RequestType /\ q2.panic = req[r].panic /\ q2.first = req[r].first
      /\ q2.response = req[r].response
  BY <1>0, <1>1, <1>2 DEF RequestType
<1>5. PanicsOf(q2) = {}
  <2>1. PanicsOf(req[r]) = {}
    BY <1>1, NotYet
  <2>2. ToSet(q2.events) = ToSet(req[r].events) \cup {e}
    BY <1>1, <1>2, <1>3, SetOfMore
  <2> QED
    BY <1>3, <2>1, <2>2 DEF PanicsOf
<1>6. q2.first = "none" /\ q2.panic = "none"
  BY <1>1, <1>4, NotYet
<1>7. q2.at \in {"handler", "recover"}
  BY <1>1
<1>8. Responds(q2, fw)
  BY <1>1, <1>4, <1>7, SameResponds
<1> QED
  BY <1>1, <1>4, <1>5, <1>6, <1>7, <1>8, FromHandler

LEMMA SamePanics ==
  ASSUME MidInv, AllUnwinding, NEW r \in Request, req[r].at \in {"idle", "handler"},
         NEW q \in RequestType, q.events = req[r].events
  PROVE  PanicsOf(q) = {}
<1>1. PanicsOf(req[r]) = {}
  BY NotYet
<1> QED
  BY <1>1 DEF PanicsOf

LEMMA WriteUnwinding ==
  ASSUME MidInv, AllUnwinding, NEW r \in Request, NEW code \in Code, Write(r, code)
  PROVE  AllUnwinding'
<1> DEFINE q2 == req'[r]
<1>1. /\ Become(r, q2) /\ Kept(req[r], q2) /\ UNCHANGED <<server, scope, span>>
      /\ req[r].at = "handler" /\ q2.at = "handler"
  BY Writes
<1>0. q2 = [req[r] EXCEPT !.acts = req[r].acts + 1, !.response = Written(r, code)]
  BY Writes
<1>2. req[r] \in RequestType
  BY MidFacts
<1>3. q2 \in RequestType
  BY MidWrite DEF MidInv, MidType
<1> HIDE DEF q2
<1>4. /\ q2.panic = req[r].panic /\ q2.first = req[r].first
      /\ q2.events = req[r].events /\ q2.response = Written(r, code)
  BY <1>0, <1>2 DEF RequestType
<1>5. q2.first = "none" /\ q2.panic = "none"
  BY <1>1, <1>4, NotYet
<1>6. PanicsOf(q2) = {}
  BY <1>1, <1>3, <1>4, SamePanics
<1>7. Responds(q2, fw)
  BY <1>1, <1>3, <1>4, WrittenResponds
<1> QED
  BY <1>1, <1>3, <1>5, <1>6, <1>7, FromHandler

LEMMA FlushUnwinding ==
  ASSUME MidInv, AllUnwinding, NEW r \in Request, Flush(r)
  PROVE  AllUnwinding'
<1> DEFINE q2 == req'[r]
<1>1. /\ Become(r, q2) /\ Kept(req[r], q2) /\ UNCHANGED <<server, scope, span>>
      /\ req[r].at = "handler" /\ q2.at = "handler"
  BY Flushes
<1>0. q2 = [req[r] EXCEPT !.acts = req[r].acts + 1, !.response = Flushed(req[r].response)]
  BY Flushes
<1>2. req[r] \in RequestType
  BY MidFacts
<1>3. q2 \in RequestType
  BY MidFlush DEF MidInv, MidType
<1> HIDE DEF q2
<1>4. /\ q2.panic = req[r].panic /\ q2.first = req[r].first
      /\ q2.events = req[r].events /\ q2.response = Flushed(req[r].response)
  BY <1>0, <1>2 DEF RequestType
<1>5. q2.first = "none" /\ q2.panic = "none"
  BY <1>1, <1>4, NotYet
<1>6. PanicsOf(q2) = {}
  BY <1>1, <1>3, <1>4, SamePanics
<1>7. Responds(q2, fw)
  BY <1>1, <1>3, <1>4, FlushedResponds
<1> QED
  BY <1>1, <1>3, <1>5, <1>6, <1>7, FromHandler

LEMMA HideUnwinding ==
  ASSUME MidInv, AllUnwinding, NEW r \in Request, SetResponse(r)
  PROVE  AllUnwinding'
<1> DEFINE q2 == req'[r]
           response2 == Hidden(req[r].response)
<1>1. /\ Become(r, q2) /\ Kept(req[r], q2) /\ UNCHANGED <<server, scope, span>>
      /\ req[r].at = "handler" /\ q2.at = "handler" /\ fw = Echo
  BY Hides
<1>0. q2 = [req[r] EXCEPT !.acts = req[r].acts + 1, !.response = response2]
  BY Hides
<1>2. req[r] \in RequestType /\ req[r].response \in ResponseType /\ FrameworkKind(fw)
  BY MidFacts
<1>3. q2 \in RequestType
  BY MidHide DEF MidInv, MidType
<1> HIDE DEF q2
<1>4. /\ q2.panic = req[r].panic /\ q2.first = req[r].first
      /\ q2.events = req[r].events /\ q2.response = response2
  BY <1>0, <1>2 DEF RequestType
<1>5. q2.first = "none" /\ q2.panic = "none"
  BY <1>1, <1>4, NotYet
<1>6. PanicsOf(q2) = {}
  BY <1>1, <1>3, <1>4, SamePanics
<1>7. Responds(q2, fw)
  <2>1. Responds(req[r], fw)
    BY <1>1, NotYet
  <2>2. /\ response2.sent = req[r].response.sent /\ response2.code = req[r].response.code
        /\ response2.error = req[r].response.error /\ response2.coded = req[r].response.coded
    BY <1>2 DEF ResponseType, Hidden
  <2>3. fw.status = "error"
    BY <1>1, <1>2 DEF FrameworkKind
  <2> HIDE DEF response2
  <2> QED
    BY <1>1, <1>4, <2>1, <2>2, <2>3 DEF Responds
<1> QED
  BY <1>1, <1>3, <1>5, <1>6, <1>7, FromHandler

LEMMA FailUnwinding ==
  ASSUME MidInv, AllUnwinding, NEW r \in Request, NEW coded \in BOOLEAN, Fail(r, coded)
  PROVE  AllUnwinding'
<1> DEFINE q2 == req'[r]
           response2 == Failing(req[r].response, coded)
<1>1. /\ Become(r, q2) /\ Kept(req[r], q2) /\ UNCHANGED <<server, scope, span>>
      /\ req[r].at = "handler" /\ q2.at = "recover" /\ fw \in {Echo, Fiber, GRPC}
  BY Fails
<1>0. q2 = [req[r] EXCEPT !.at = "recover", !.response = response2]
  BY Fails
<1>2. req[r] \in RequestType /\ req[r].response \in ResponseType /\ FrameworkKind(fw)
  BY MidFacts
<1>3. q2 \in RequestType
  BY MidFail DEF MidInv, MidType
<1> HIDE DEF q2
<1>4. /\ q2.panic = req[r].panic /\ q2.first = req[r].first
      /\ q2.events = req[r].events /\ q2.response = response2
  BY <1>0, <1>2 DEF RequestType
<1>5. q2.first = "none" /\ q2.panic = "none"
  BY <1>1, <1>4, NotYet
<1>6. PanicsOf(q2) = {}
  BY <1>1, <1>3, <1>4, SamePanics
<1>7. Responds(q2, fw)
  <2>1. Responds(req[r], fw)
    BY <1>1, NotYet
  <2>2. /\ response2.sent = req[r].response.sent /\ response2.code = req[r].response.code
        /\ response2.error # 0
    BY <1>2 DEF ResponseType, Failing, AnswerTo, Unknown
  <2>3. fw.status # "writer" /\ (fw.status = "response" => fw = Fiber)
    BY <1>1, <1>2 DEF FrameworkKind
  <2>4. /\ fw.status = "error" => response2.sent = response2.code
        /\ fw.status \in {"rpc", "response"} => response2.sent = 0
    BY <1>1, <2>1, <2>2 DEF Responds
  <2> HIDE DEF response2
  <2> QED
    BY <1>1, <1>4, <2>2, <2>3, <2>4 DEF Responds
<1> QED
  BY <1>1, <1>3, <1>5, <1>6, <1>7, FromHandler

LEMMA PanicUnwinding ==
  ASSUME MidInv, AllUnwinding, NEW r \in Request, NEW value \in {"panic", "broken pipe"}, Panic(r, value)
  PROVE  AllUnwinding'
<1> DEFINE q2 == req'[r]
<1>1. /\ Become(r, q2) /\ Kept(req[r], q2) /\ UNCHANGED <<server, scope, span>>
      /\ req[r].at = "handler" /\ q2.at = "recover"
  BY PanicsIn
<1>0. q2 = [req[r] EXCEPT !.at = "recover", !.panic = value, !.first = value]
  BY PanicsIn
<1>2. req[r] \in RequestType
  BY MidFacts
<1>3. q2 \in RequestType
  BY MidPanic DEF MidInv, MidType
<1> HIDE DEF q2
<1>4. /\ q2.panic = value /\ q2.first = value
      /\ q2.events = req[r].events /\ q2.response = req[r].response
  BY <1>0, <1>2 DEF RequestType
<1>5. q2.at = "handler" => q2.first = "none"
  BY <1>1
<1>6. PanicsOf(q2) = {}
  BY <1>1, <1>3, <1>4, SamePanics
<1>7. Responds(q2, fw)
  BY <1>1, <1>3, <1>4, SameResponds
<1> QED
  BY <1>1, <1>3, <1>4, <1>5, <1>6, <1>7, FromHandler

LEMMA ReturnUnwinding ==
  ASSUME MidInv, AllUnwinding, NEW r \in Request, Return(r)
  PROVE  AllUnwinding'
<1> DEFINE q2 == req'[r]
<1>1. /\ Become(r, q2) /\ Kept(req[r], q2) /\ UNCHANGED <<server, scope, span>>
      /\ req[r].at = "handler" /\ q2.at = "recover"
  BY Returns
<1>0. q2 = [req[r] EXCEPT !.at = "recover"]
  BY Returns
<1>2. req[r] \in RequestType
  BY MidFacts
<1>3. q2 \in RequestType
  BY MidReturn DEF MidInv, MidType
<1> HIDE DEF q2
<1>4. /\ q2.panic = req[r].panic /\ q2.first = req[r].first
      /\ q2.events = req[r].events /\ q2.response = req[r].response
  BY <1>0, <1>2 DEF RequestType
<1>5. q2.first = "none" /\ q2.panic = "none"
  BY <1>1, <1>4, NotYet
<1>6. PanicsOf(q2) = {}
  BY <1>1, <1>3, <1>4, SamePanics
<1>7. Responds(q2, fw)
  BY <1>1, <1>3, <1>4, SameResponds
<1> QED
  BY <1>1, <1>3, <1>5, <1>6, <1>7, FromHandler

-----------------------------------------------------------------------------
(* Going in.                                                                 *)

\* What Enter makes of a request, as far as leaving is concerned.
LEMMA EnterMakes ==
  ASSUME MidInv, NEW r \in Request, Enter(r)
  PROVE  /\ Become(r, req'[r]) /\ UNCHANGED <<server, span>> /\ req'[r] \in RequestType
         /\ req'[r].at = "handler" /\ req'[r].events = req[r].events /\ req'[r].response = req[r].response
         /\ req'[r].panic = req[r].panic /\ req'[r].first = req[r].first
         /\ req'[r].spans = (IF req[r].context.span = Nobody THEN req[r].spans + 1 ELSE req[r].spans)
         /\ Len(req'[r].frames) = Len(req[r].frames) + 1
         /\ \A i \in 1 .. Len(req[r].frames) : req'[r].frames[i] = req[r].frames[i]
         /\ req'[r].frames[Len(req[r].frames) + 1].span = StartTransaction(r)
         /\ req'[r].frames[Len(req[r].frames) + 1].saved = req[r].context
<1> DEFINE q == req[r]  q2 == Entered(r)
           frame == [hub |-> HubForRequest(r), span |-> StartTransaction(r), saved |-> q.context]
<1>1. Become(r, q2)
  BY EnterAlone
<1>2. req'[r] = q2 /\ Become(r, req'[r])
  BY <1>1, Becomes
<1>3. req'[r] \in RequestType
  BY MidEnter DEF MidInv, MidType
<1>4. q \in RequestType /\ q.frames \in Seq(Frame) /\ Len(q.frames) \in Nat
  BY MidFacts
<1>5. /\ q2.at = "handler" /\ q2.events = q.events /\ q2.response = q.response
      /\ q2.panic = q.panic /\ q2.first = q.first
      /\ q2.spans = (IF q.context.span = Nobody THEN q.spans + 1 ELSE q.spans)
      /\ q2.frames = Append(q.frames, frame)
  BY <1>4 DEF Entered, RequestType
<1>6. frame.span = StartTransaction(r) /\ frame.saved = q.context
  OBVIOUS
<1> HIDE DEF q2, q, frame
<1>7. /\ Len(q2.frames) = Len(q.frames) + 1
      /\ \A i \in 1 .. Len(q.frames) : q2.frames[i] = q.frames[i]
      /\ q2.frames[Len(q.frames) + 1] = frame
  BY <1>4, <1>5
<1>8. UNCHANGED <<server, span>>
  BY DEF Enter
<1> QED
  BY <1>2, <1>3, <1>5, <1>6, <1>7, <1>8 DEF q

LEMMA EnterUnwinding ==
  ASSUME MidInv, AllUnwinding, NEW r \in Request, Enter(r)
  PROVE  AllUnwinding'
<1> DEFINE q == req[r]  q2 == req'[r]
<1>1. /\ Become(r, q2) /\ UNCHANGED <<server, span>> /\ q2 \in RequestType
      /\ q2.at = "handler" /\ q2.events = q.events /\ q2.response = q.response
      /\ q2.panic = q.panic /\ q2.first = q.first
      /\ q2.spans = (IF q.context.span = Nobody THEN q.spans + 1 ELSE q.spans)
  BY EnterMakes
<1>2. /\ Len(q2.frames) = Len(q.frames) + 1
      /\ \A i \in 1 .. Len(q.frames) : q2.frames[i] = q.frames[i]
      /\ q2.frames[Len(q.frames) + 1].span = StartTransaction(r)
      /\ q2.frames[Len(q.frames) + 1].saved = q.context
  BY EnterMakes
<1>3. q.at \in {"idle", "handler"}
  BY DEF Enter, Does
<1>4. /\ q.panic = "none" /\ q.first = "none" /\ \A n \in 1 .. Layers : ~span[<<r, n>>].finished
      /\ Len(q.frames) \in Nat /\ Responds(q, fw) /\ Restored(q, fw) /\ Spans(r, q, span)
      /\ q.at = "handler" => Len(q.frames) # 0
  BY <1>3, NotYet
<1>5. q.spans \in Nat /\ q.spans <= Layers /\ Layers \in Nat /\ Layered(r, q, fw)
  BY MidFacts
<1>6. Layered(r, q2, fw) /\ q2.spans \in Nat /\ q2.spans <= Layers /\ q2.events \in Seq(EventType) /\ q2.flushed \in Nat
  <2>1. MidInv'
    BY MidEnter
  <2>2. Layered(r, req'[r], fw') /\ fw' = fw
    BY <1>1, <2>1 DEF MidInv, fw
  <2>3. q2.spans \in Nat /\ q2.events \in Seq(EventType) /\ q2.flushed \in Nat /\ q2.deep \in Nat
    BY <1>1 DEF RequestType
  <2>4. q2.spans <= q2.deep /\ q2.deep <= Layers
    BY <2>2 DEF Layered
  <2> HIDE DEF q2
  <2> QED
    BY <1>5, <2>2, <2>3, <2>4 DEF q2
<1>7. PanicsOf(q2) = {}
  BY <1>1, <1>3, SamePanics
<1> HIDE DEF q2
<1>8. Recovered(q2) = 0 /\ Left(q2) = Len(q.frames) + 1 /\ Going(q2)
  <2>1. q2.deep = Len(q2.frames)
    BY <1>1, <1>6 DEF Layered
  <2> QED
    BY <1>1, <1>2, <1>4, <2>1 DEF Recovered, Left, Going
<1>9. Struck(q2, server)
  BY <1>1, <1>4, <1>8 DEF Struck
<1>10. CountedPanics(q2, server)
  BY <1>7, <1>8, FS_EmptySet DEF CountedPanics
<1>11. Reporting(q2, server)
  <2>1. \A i \in q2.flushed + 1 .. Len(q2.events) : i \in 1 .. Len(q2.events)
    BY <1>6
  <2>2. \A i \in 1 .. Len(q2.events) : ~q2.events[i].panic
    BY <1>6, <1>7, OfPanics
  <2> QED
    BY <1>7, <2>1, <2>2 DEF Reporting
<1>12. Spans(r, q2, span)
  <2>1. ASSUME NEW n \in 1 .. q2.spans
        PROVE  \E i \in 1 .. Left(q2) : q2.frames[i].span = <<r, n>>
    <3>1. CASE n \in 1 .. q.spans
      <4>1. n \in 1 .. Layers
        BY <1>5, <3>1
      <4>2. PICK i \in 1 .. Left(q) : q.frames[i].span = <<r, n>>
        BY <1>4, <3>1, <4>1 DEF Spans
      <4>3. Left(q) = Len(q.frames)
        BY <1>3 DEF Left
      <4>4. i \in 1 .. Left(q2) /\ q2.frames[i] = q.frames[i]
        BY <1>2, <1>4, <1>8, <4>2, <4>3
      <4> QED
        BY <4>2, <4>4
    <3>2. CASE n \notin 1 .. q.spans
      <4>1. n = q.spans + 1 /\ q.context.span = Nobody
        BY <1>1, <1>5, <1>6, <3>2
      <4>2. StartTransaction(r) = <<r, n>>
        BY <4>1 DEF StartTransaction
      <4>3. Len(q.frames) + 1 \in 1 .. Left(q2)
        BY <1>4, <1>8
      <4> QED
        BY <1>2, <4>2, <4>3
    <3> QED
      BY <3>1, <3>2
  <2> QED
    BY <1>4, <2>1 DEF Spans
<1>13. Restored(q2, fw)
  <2>1. q2.frames[1].saved = NoContext
    <3>1. CASE q.at = "idle"
      <4>1. q = NewRequest
        BY <1>5, <3>1 DEF Layered
      <4>2. Len(q.frames) = 0 /\ q.context = NoContext
        BY <4>1 DEF NewRequest, NoContext
      <4> QED
        BY <1>2, <4>2
    <3>2. CASE q.at = "handler"
      <4>1. Len(q.frames) # 0 /\ q.frames[1].saved = NoContext
        BY <1>4, <3>2 DEF Restored
      <4>2. 1 \in 1 .. Len(q.frames)
        BY <1>4, <4>1
      <4> QED
        BY <1>2, <4>1, <4>2
    <3> QED
      BY <1>3, <3>1, <3>2
  <2> QED
    BY <1>1, <2>1 DEF Restored
<1>14. Recorded(r, q2, fw, span)
  <2>1. \A n \in 1 .. q2.spans : n \in 1 .. Layers
    BY <1>5, <1>6
  <2> QED
    BY <1>4, <2>1 DEF Recorded
<1>15. Responds(q2, fw)
  BY <1>1, <1>3, <1>4 DEF Responds
<1>16. Unwinding(r, q2, server, span')
  BY <1>1, <1>9, <1>10, <1>11, <1>12, <1>13, <1>14, <1>15 DEF Unwinding, fw
<1> QED
  BY <1>1, <1>16, StepUnwinding

-----------------------------------------------------------------------------
(* Coming out.                                                               *)

LEMMA UnwindingFacts ==
  ASSUME MidInv, AllUnwinding, NEW r \in Request
  PROVE  /\ Struck(req[r], server) /\ CountedPanics(req[r], server) /\ Reporting(req[r], server)
         /\ Spans(r, req[r], span) /\ Restored(req[r], fw) /\ Recorded(r, req[r], fw, span) /\ Responds(req[r], fw)
         /\ Len(req[r].frames) \in Nat /\ Len(req[r].frames) <= req[r].deep /\ req[r].deep \in Nat
         /\ Recovered(req[r]) \in Nat
<1>1. Unwinding(r, req[r], server, span)
  BY DEF AllUnwinding
<1>2. Len(req[r].frames) \in Nat /\ Len(req[r].frames) <= req[r].deep /\ req[r].deep \in Nat
  BY MidFacts DEF Layered
<1>3. Recovered(req[r]) \in Nat
  BY <1>2 DEF Recovered
<1> QED
  BY <1>1, <1>2, <1>3 DEF Unwinding, fw

LEMMA StatusIs ==
  ASSUME NEW r \in Request
  PROVE  Status(r) = StatusOf(fw, req[r].response)
BY DEF Status, StatusOf

\* The status is the same, of a response of which only other fields differ.
LEMMA SameStatus ==
  ASSUME NEW g, NEW x \in ResponseType, NEW y \in ResponseType,
         y.error = x.error, y.writer = x.writer, y.code = x.code, y.coded = x.coded, y.hidden = x.hidden
  PROVE  StatusOf(g, y) = StatusOf(g, x)
BY DEF StatusOf

LEMMA FinishUnwinding ==
  ASSUME MidInv, AllUnwinding, NEW r \in Request, FinishTransaction(r)
  PROVE  AllUnwinding'
<1> DEFINE q == req[r]  q2 == req'[r]  t == Top(r).span
<1>1. /\ Become(r, q2) /\ Kept(q, q2) /\ UNCHANGED <<server, scope>>
      /\ q.at = "finish" /\ q2.at = "leave" /\ Len(q.frames) # 0
      /\ t \in Own(r, q.spans)
      /\ \A s \in Span \ {t} : span'[s] = span[s]
      /\ span'[t] = IF span[t].finished THEN span[t] ELSE [status |-> Status(r), finished |-> TRUE]
  BY FinishesSpan
<1>2. q2 = [q EXCEPT !.at = "leave"]
  BY FinishesSpan
<1>3. q \in RequestType /\ Layers \in Nat /\ q.spans \in Nat /\ q.spans <= Layers
  BY MidFacts
<1>4. /\ Struck(q, server) /\ CountedPanics(q, server) /\ Reporting(q, server)
      /\ Spans(r, q, span) /\ Restored(q, fw) /\ Recorded(r, q, fw, span) /\ Responds(q, fw)
      /\ Len(q.frames) \in Nat /\ Len(q.frames) <= q.deep /\ q.deep \in Nat
  BY UnwindingFacts
<1>5. t = q.frames[Len(q.frames)].span
  BY DEF Top, Depth
<1> HIDE DEF q2
<1>6. /\ q2.panic = q.panic /\ q2.first = q.first /\ q2.events = q.events /\ q2.flushed = q.flushed
      /\ q2.response = q.response /\ q2.frames = q.frames /\ q2.context = q.context
      /\ q2.spans = q.spans /\ q2.deep = q.deep
  BY <1>2, <1>3 DEF RequestType
<1> HIDE DEF q, t
<1>7. PanicsOf(q2) = PanicsOf(q) /\ Recovered(q2) = Recovered(q) /\ Left(q2) = Len(q.frames) - 1
      /\ Left(q) = Len(q.frames) /\ ~Going(q) /\ ~Going(q2) /\ ~Unfinished(q2)
  BY <1>1, <1>6 DEF PanicsOf, Recovered, Left, Going, Unfinished
<1>8. Struck(q2, server) /\ CountedPanics(q2, server) /\ Reporting(q2, server) /\ Restored(q2, fw)
  BY <1>1, <1>4, <1>6, <1>7 DEF Struck, CountedPanics, Reporting, Restored, Reportable
<1>9. ASSUME NEW p \in Request, NEW n \in 1 .. Layers, <<p, n>> # t
      PROVE  span'[<<p, n>>] = span[<<p, n>>]
  BY <1>1, <1>9 DEF Span
<1>10. span'[t].finished
  BY <1>1
<1>11. PICK m \in 1 .. q.spans : t = <<r, m>>
  BY <1>1 DEF Own
<1>12. Spans(r, q2, span')
  <2>1. ASSUME NEW n \in 1 .. Layers, n > q2.spans \/ Unfinished(q2)
        PROVE  ~span'[<<r, n>>].finished
    <3>1. n > q.spans
      BY <1>6, <1>7, <2>1
    <3>2. <<r, n>> # t
      BY <1>3, <1>11, <3>1
    <3> QED
      BY <1>4, <1>9, <3>1, <3>2 DEF Spans
  <2>2. ASSUME NEW n \in 1 .. q2.spans
        PROVE  span'[<<r, n>>].finished \/ \E i \in 1 .. Left(q2) : q2.frames[i].span = <<r, n>>
    <3>1. CASE <<r, n>> = t
      BY <1>10, <3>1
    <3>2. CASE <<r, n>> # t
      <4>1. n \in 1 .. Layers /\ n \in 1 .. q.spans
        BY <1>3, <1>6
      <4>2. span'[<<r, n>>] = span[<<r, n>>]
        BY <1>9, <3>2, <4>1
      <4>3. CASE span[<<r, n>>].finished
        BY <4>2, <4>3
      <4>4. CASE ~span[<<r, n>>].finished
        <5>1. PICK i \in 1 .. Len(q.frames) : q.frames[i].span = <<r, n>>
          BY <1>4, <1>7, <4>1, <4>4 DEF Spans
        <5>2. i # Len(q.frames)
          BY <1>5, <3>2, <5>1 DEF q, t
        <5>3. i \in 1 .. Left(q2)
          BY <1>4, <1>7, <5>1, <5>2
        <5> QED
          BY <1>6, <5>1, <5>3
      <4> QED
        BY <4>3, <4>4
    <3> QED
      BY <3>1, <3>2
  <2> QED
    BY <2>1, <2>2 DEF Spans
<1>13. Recorded(r, q2, fw, span')
  <2> SUFFICES ASSUME q.panic = "none", NEW n \in 1 .. q.spans, span'[<<r, n>>].finished
               PROVE  span'[<<r, n>>].status = StatusOf(fw, q.response)
    BY <1>6 DEF Recorded
  <2>1. n \in 1 .. Layers
    BY <1>3
  <2>2. span[<<r, n>>].finished => span[<<r, n>>].status = StatusOf(fw, q.response)
    BY <1>4 DEF Recorded
  <2>3. CASE <<r, n>> = t
    <3>1. Status(r) = StatusOf(fw, q.response)
      BY StatusIs DEF q
    <3> QED
      BY <1>1, <2>2, <2>3, <3>1
  <2>4. CASE <<r, n>> # t
    BY <1>9, <2>1, <2>2, <2>4
  <2> QED
    BY <2>3, <2>4
<1>14. Responds(q2, fw)
  BY <1>1, <1>4, <1>6 DEF Responds
<1>15. Unwinding(r, q2, server, span')
  BY <1>8, <1>12, <1>13, <1>14 DEF Unwinding, fw
<1>16. \A p \in Request \ {r} : \A n \in 1 .. Layers : span'[<<p, n>>] = span[<<p, n>>]
  BY <1>9, <1>11
<1> QED
  BY <1>1, <1>15, <1>16, StepUnwinding

\* The report of a layer, among those of the layers inside it.
LEMMA RecoverCounts ==
  ASSUME MidInv, AllUnwinding, NEW r \in Request, NEW kept \in BOOLEAN, req[r].at = "recover",
         NEW q \in RequestType, Kept(req[r], q), q.at = "finish", q.first = req[r].first,
         q.events = Reported(r, kept)
  PROVE  /\ CountedPanics(q, server)
         /\ \A e \in PanicsOf(q) : e.layer = q.deep => e.live
<1> DEFINE p == req[r]
           e == Event(r, Top(r).hub, TRUE, kept)
           n == Len(p.frames)
<1>1. /\ ~Reports(r) => q.events = p.events
      /\ Reports(r) => q.events = Append(p.events, e)
      /\ Top(r).hub \in Own(r, p.hubs) /\ n # 0
  BY ReportedFacts
<1>2. /\ e \in EventType /\ e.panic /\ e.layer = n
      /\ scope[Top(r).hub].span \in Own(r, p.spans)
      /\ e.live = ~span[scope[Top(r).hub].span].finished
  <2>1. e \in EventType /\ scope[Top(r).hub].span \in Own(r, p.spans)
    BY <1>1, OwnEvent
  <2>2. e.live = ~span[scope[Top(r).hub].span].finished
    BY DEF Event
  <2>3. e.panic /\ e.layer = n
    BY DEF Event, Depth
  <2> QED
    BY <2>1, <2>2, <2>3
<1>3. /\ Struck(p, server) /\ CountedPanics(p, server) /\ Reporting(p, server) /\ Spans(r, p, span)
      /\ n \in Nat /\ n <= p.deep /\ p.deep \in Nat
  BY UnwindingFacts
<1>4. q.frames = p.frames /\ q.deep = p.deep
  BY DEF Kept
<1>5. p.events \in Seq(EventType) /\ p.spans \in Nat /\ p.spans <= Layers /\ Layers \in Nat
  BY MidFacts
<1> HIDE DEF e, p
<1>6. Recovered(p) = p.deep - n /\ Recovered(q) = p.deep - n + 1 /\ (Going(p) <=> n = p.deep)
  BY <1>4 DEF Recovered, Going, p
<1>7. Reportable(q, server) <=> Reportable(p, server)
  BY DEF Reportable, p
<1>8. /\ IsFiniteSet(PanicsOf(p))
      /\ Cardinality(PanicsOf(p)) = IF ~Reportable(p, server) \/ Recovered(p) = 0 THEN 0
                                    ELSE IF server.repanic THEN Recovered(p) ELSE 1
      /\ \A x \in PanicsOf(p) : x.layer > p.deep - Recovered(p)
  BY <1>3 DEF CountedPanics
<1>9. p.panic = IF Going(p) \/ server.repanic THEN p.first ELSE "none"
  BY <1>3 DEF Struck
<1>10. Reports(r) <=> p.panic # "none" /\ (p.panic = "broken pipe" => server.framework.broken)
  BY DEF Reports, Panics, fw, p
<1>11. Reports(r) <=> Reportable(p, server) /\ (n = p.deep \/ server.repanic)
  BY <1>6, <1>9, <1>10 DEF Reportable
<1>12. \A x \in PanicsOf(p) : x.layer \in Nat
  <2> TAKE x \in PanicsOf(p)
  <2>1. PICK i \in DOMAIN p.events : x = p.events[i]
    BY DEF PanicsOf, ToSet
  <2>2. x \in EventType
    BY <1>5, <2>1
  <2> QED
    BY <2>2 DEF EventType
<1>13. CASE Reports(r)
  <2>1. PanicsOf(q) = PanicsOf(p) \cup {e}
    <3>1. ToSet(q.events) = ToSet(p.events) \cup {e}
      BY <1>1, <1>2, <1>5, <1>13, SetOfMore
    <3> QED
      BY <1>2, <3>1 DEF PanicsOf
  <2>2. e \notin PanicsOf(p)
    <3>1. \A x \in PanicsOf(p) : x.layer > n
      BY <1>3, <1>6, <1>8
    <3> QED
      BY <1>2, <1>3, <3>1
  <2>3. IsFiniteSet(PanicsOf(q)) /\ Cardinality(PanicsOf(q)) = Cardinality(PanicsOf(p)) + 1
    BY <1>8, <2>1, <2>2, FS_AddElement
  <2>4. Cardinality(PanicsOf(q)) = IF server.repanic THEN Recovered(q) ELSE 1
    BY <1>3, <1>6, <1>8, <1>11, <1>13, <2>3
  <2>5. Recovered(q) # 0 /\ Reportable(q, server)
    BY <1>3, <1>6, <1>7, <1>11, <1>13
  <2>6. \A x \in PanicsOf(q) : x.layer > q.deep - Recovered(q)
    <3>1. q.deep - Recovered(q) = n - 1
      BY <1>3, <1>4, <1>6
    <3>2. \A x \in PanicsOf(p) : x.layer > n
      BY <1>3, <1>6, <1>8
    <3>3. e.layer > n - 1
      BY <1>2, <1>3
    <3>4. \A x \in PanicsOf(p) : x.layer > n - 1
      BY <1>3, <1>12, <3>2
    <3> QED
      BY <2>1, <3>1, <3>3, <3>4
  <2>7. e.layer = q.deep => e.live
    <3> SUFFICES ASSUME n = p.deep
                 PROVE  ~span[scope[Top(r).hub].span].finished
      BY <1>2, <1>4
    <3>1. Unfinished(p)
      BY DEF Unfinished, p
    <3>2. PICK m \in 1 .. p.spans : scope[Top(r).hub].span = <<r, m>>
      BY <1>2 DEF Own
    <3>3. m \in 1 .. Layers
      BY <1>5
    <3> QED
      BY <1>3, <3>1, <3>2, <3>3 DEF Spans
  <2>8. \A x \in PanicsOf(q) : x.layer = q.deep => x.live
    BY <1>3, <1>4, <2>1, <2>7 DEF Reporting
  <2> QED
    BY <2>3, <2>4, <2>5, <2>6, <2>8 DEF CountedPanics
<1>14. CASE ~Reports(r)
  <2>1. PanicsOf(q) = PanicsOf(p)
    BY <1>1, <1>14 DEF PanicsOf
  <2>2. ~Reportable(p, server) \/ (Recovered(p) # 0 /\ ~server.repanic)
    BY <1>3, <1>6, <1>11, <1>14
  <2>3. Recovered(q) # 0
    BY <1>3, <1>6
  <2>4. Cardinality(PanicsOf(q)) = IF ~Reportable(q, server) \/ Recovered(q) = 0 THEN 0
                                   ELSE IF server.repanic THEN Recovered(q) ELSE 1
    BY <1>7, <1>8, <2>1, <2>2, <2>3
  <2>5. \A x \in PanicsOf(q) : x.layer > q.deep - Recovered(q)
    <3>1. \A x \in PanicsOf(p) : x.layer > n
      BY <1>3, <1>6, <1>8
    <3>2. q.deep - Recovered(q) = n - 1
      BY <1>3, <1>4, <1>6
    <3> QED
      BY <1>3, <1>12, <2>1, <3>1, <3>2
  <2>6. \A x \in PanicsOf(q) : x.layer = q.deep => x.live
    BY <1>3, <1>4, <2>1 DEF Reporting
  <2> QED
    BY <1>8, <2>1, <2>4, <2>5, <2>6 DEF CountedPanics
<1> QED
  BY <1>13, <1>14

LEMMA RecoverUnwinding ==
  ASSUME MidInv, AllUnwinding, NEW r \in Request, NEW kept \in BOOLEAN, RecoverWithSentry(r, kept)
  PROVE  AllUnwinding'
<1> DEFINE q == req[r]  q2 == req'[r]
           all == Reported(r, kept)
           flushed2 == IF Reports(r) /\ kept /\ server.wait THEN Len(all) ELSE q.flushed
           response2 == [q.response EXCEPT !.error = IF Panics(r) /\ fw = GRPC THEN Internal ELSE @]
           panic2 == IF server.repanic THEN q.panic ELSE "none"
<1>1. /\ Become(r, q2) /\ Kept(q, q2) /\ UNCHANGED <<server, scope, span>>
      /\ q.at = "recover" /\ q2.at = "finish"
  BY Recovers
<1>2. q2 = [q EXCEPT !.at = "finish", !.events = all, !.flushed = flushed2,
                     !.response = response2, !.panic = panic2]
  BY Recovers
<1>3. q \in RequestType /\ q.response \in ResponseType /\ q.events \in Seq(EventType) /\ q.flushed \in Nat
      /\ FrameworkKind(fw) /\ q.spans \in Nat /\ q.spans <= Layers /\ Layers \in Nat
  BY MidFacts
<1>4. q2 \in RequestType
  BY MidRecover DEF MidInv, MidType
<1>5. /\ Struck(q, server) /\ CountedPanics(q, server) /\ Reporting(q, server)
      /\ Spans(r, q, span) /\ Restored(q, fw) /\ Recorded(r, q, fw, span) /\ Responds(q, fw)
      /\ Len(q.frames) \in Nat /\ Len(q.frames) <= q.deep /\ q.deep \in Nat
  BY UnwindingFacts
<1>6. /\ response2.sent = q.response.sent /\ response2.code = q.response.code
      /\ response2.writer = q.response.writer /\ response2.early = q.response.early
      /\ response2.coded = q.response.coded /\ response2.hidden = q.response.hidden
      /\ response2.error = (IF Panics(r) /\ fw = GRPC THEN Internal ELSE q.response.error)
  BY <1>3 DEF ResponseType
<1>7. Panics(r) <=> q.panic # "none"
  BY DEF Panics
<1> HIDE DEF q2, all, response2, flushed2, panic2
<1>8. /\ q2.panic = panic2 /\ q2.first = q.first /\ q2.events = all /\ q2.flushed = flushed2
      /\ q2.response = response2 /\ q2.frames = q.frames /\ q2.context = q.context
      /\ q2.spans = q.spans /\ q2.deep = q.deep
  BY <1>2, <1>3 DEF RequestType
<1>9. /\ ~Reports(r) => all = q.events
      /\ Reports(r) => all = Append(q.events, Event(r, Top(r).hub, TRUE, kept))
      /\ all \in Seq(EventType) /\ Top(r).hub \in Own(r, q.hubs)
  BY <1>1, ReportedFacts DEF all
<1>10. CountedPanics(q2, server) /\ \A e \in PanicsOf(q2) : e.layer = q2.deep => e.live
  BY <1>1, <1>4, <1>8, RecoverCounts DEF all
<1>11. Struck(q2, server)
  BY <1>1, <1>5, <1>8 DEF Struck, Going, panic2
<1>12. Reporting(q2, server)
  <2> SUFFICES ASSUME server.wait, NEW i \in flushed2 + 1 .. Len(all)
               PROVE  ~all[i].panic \/ ~all[i].kept
    BY <1>8, <1>10 DEF Reporting
  <2>1. ~(Reports(r) /\ kept) /\ flushed2 = q.flushed
    BY <1>9 DEF flushed2
  <2>2. \A j \in q.flushed + 1 .. Len(q.events) : ~q.events[j].panic \/ ~q.events[j].kept
    BY <1>5 DEF Reporting
  <2>3. CASE ~Reports(r)
    BY <1>9, <2>1, <2>2, <2>3
  <2>4. CASE Reports(r)
    <3> DEFINE e == Event(r, Top(r).hub, TRUE, kept)
    <3>0. e \in EventType
      BY <1>9, OwnEvent
    <3>1. e \in EventType /\ e.kept = kept
      BY <3>0 DEF Event
    <3> HIDE DEF e
    <3>2. all = Append(q.events, e)
      BY <1>9, <2>4 DEF e
    <3>3. i = Len(q.events) + 1 \/ i \in q.flushed + 1 .. Len(q.events)
      BY <1>3, <2>1, <3>1, <3>2
    <3>4. CASE i = Len(q.events) + 1
      BY <1>3, <2>1, <2>4, <3>1, <3>2, <3>4
    <3>5. CASE i \in q.flushed + 1 .. Len(q.events)
      <4>1. all[i] = q.events[i]
        BY <1>3, <3>1, <3>2, <3>5
      <4> QED
        BY <2>2, <3>5, <4>1
    <3> QED
      BY <3>3, <3>4, <3>5
  <2> QED
    BY <2>3, <2>4
<1>13. Left(q2) = Left(q) /\ (Unfinished(q2) <=> Unfinished(q))
  BY <1>1, <1>8 DEF Left, Unfinished
<1>14. Spans(r, q2, span)
  BY <1>5, <1>8, <1>13 DEF Spans
<1>15. Restored(q2, fw)
  BY <1>1, <1>5, <1>8 DEF Restored
<1>16. Recorded(r, q2, fw, span)
  <2> SUFFICES ASSUME panic2 = "none", NEW n \in 1 .. q.spans, span[<<r, n>>].finished
               PROVE  span[<<r, n>>].status = StatusOf(fw, response2)
    BY <1>8 DEF Recorded
  <2>1. n \in 1 .. Layers
    BY <1>3
  <2>2. ~Unfinished(q)
    BY <1>5, <2>1 DEF Spans
  <2>3. ~Going(q)
    BY <1>1, <2>2 DEF Going, Unfinished
  <2>4. q.panic = "none"
    BY <1>5, <2>3 DEF Struck, panic2
  <2>5. response2.error = q.response.error
    BY <1>6, <1>7, <2>4
  <2>6. StatusOf(fw, response2) = StatusOf(fw, q.response)
    BY <1>6, <2>5 DEF StatusOf
  <2> QED
    BY <1>5, <2>4, <2>6 DEF Recorded
<1>17. Responds(q2, fw)
  <2>1. fw # GRPC => response2.error = q.response.error
    BY <1>6
  <2>2. fw = GRPC <=> fw.status = "rpc"
    BY <1>3 DEF FrameworkKind
  <2> QED
    BY <1>1, <1>5, <1>6, <1>8, <2>1, <2>2 DEF Responds
<1>18. Unwinding(r, q2, server, span')
  BY <1>1, <1>10, <1>11, <1>12, <1>14, <1>15, <1>16, <1>17 DEF Unwinding, fw
<1> QED
  BY <1>1, <1>18, StepUnwinding

\* What the server sends is what the status was taken from.
LEMMA AnswerResponds ==
  ASSUME MidInv, AllUnwinding, NEW r \in Request, req[r].at = "leave",
         NEW q \in RequestType, q.at = "done",
         q.response = [req[r].response EXCEPT !.sent = LeavesWith(r)]
  PROVE  Responds(q, fw)
<1> DEFINE x == req[r].response  y == q.response
<1>1. x \in ResponseType /\ FrameworkKind(fw) /\ y \in ResponseType
  BY MidFacts DEF RequestType
<1>2. /\ y.sent = LeavesWith(r) /\ y.code = x.code /\ y.error = x.error /\ y.writer = x.writer
      /\ y.early = x.early /\ y.coded = x.coded /\ y.hidden = x.hidden
      /\ x.sent \in Nat /\ x.code \in Nat /\ x.error \in Nat
  BY <1>1 DEF ResponseType
<1>3. Responds(req[r], fw)
  BY UnwindingFacts
<1>4. LeavesWith(r) = IF x.sent # 0 THEN x.sent
                  ELSE IF fw.status = "rpc" \/ x.error # 0 THEN x.error
                  ELSE IF x.code # 0 THEN x.code ELSE 200
  BY DEF LeavesWith
<1> HIDE DEF x, y
<1>5. /\ fw.status = "rpc" => x.sent = 0
      /\ fw.status = "writer" =>
           /\ x.error = 0
           /\ ~x.early => IF x.sent = 0 THEN x.writer.code = 200 /\ ~x.writer.wroteHeader /\ x.code = 0
                          ELSE x.writer.code = x.sent /\ x.writer.wroteHeader
      /\ fw.status = "error" => x.sent = x.code /\ (x.coded => x.error # 0)
      /\ fw.status = "response" => x.sent = 0 /\ (fw = Fiber \/ x.error = 0)
  BY <1>3 DEF Responds, x
<1>6. SUFFICES ASSUME ~x.early, x.error = 0 \/ fw # Fiber,
                      fw = Echo => x.error = 0 \/ ~(x.coded <=> x.code # 0)
               PROVE  Answers(fw, y)
  BY <1>2 DEF Responds, Excepted, y
<1>7. CASE fw.status = "rpc"
  <2>1. StatusOf(fw, y) = ToSpanStatus(x.error)
    BY <1>2, <1>7 DEF StatusOf
  <2>2. y.sent = x.error
    BY <1>2, <1>4, <1>5, <1>7
  <2> QED
    BY <1>7, <2>1, <2>2 DEF Answers
<1>8. CASE fw.status = "writer"
  <2>1. StatusOf(fw, y) = HTTPtoSpanStatus(x.writer.code)
    BY <1>2, <1>8 DEF StatusOf
  <2>2. y.sent = x.writer.code
    BY <1>2, <1>4, <1>5, <1>6, <1>8
  <2> QED
    BY <1>8, <2>1, <2>2 DEF Answers
<1>0. HTTPtoSpanStatus(0) = HTTPtoSpanStatus(200)
  BY DEF HTTPtoSpanStatus
<1>9. CASE fw.status = "error"
  <2>1. fw = Echo
    BY <1>1, <1>9 DEF FrameworkKind
  <2>2. CASE x.coded
    <3>1. StatusOf(fw, y) = HTTPtoSpanStatus(x.error)
      BY <1>2, <1>9, <2>2 DEF StatusOf
    <3>2. x.error # 0 /\ x.code = 0
      BY <1>5, <1>6, <1>9, <2>1, <2>2
    <3>3. y.sent = x.error
      BY <1>2, <1>4, <1>5, <1>9, <3>2
    <3> QED
      BY <1>9, <3>1, <3>3 DEF Answers
  <2>3. CASE ~x.coded /\ x.hidden
    <3>1. StatusOf(fw, y) = NoStatus
      BY <1>2, <1>9, <2>3 DEF StatusOf
    <3> QED
      BY <1>2, <2>3, <3>1 DEF Answers
  <2>4. CASE ~x.coded /\ ~x.hidden
    <3>1. StatusOf(fw, y) = HTTPtoSpanStatus(x.code)
      BY <1>2, <1>9, <2>4 DEF StatusOf
    <3>2. x.error = 0 \/ x.code # 0
      BY <1>6, <2>1, <2>4
    <3>3. y.sent = IF x.code # 0 THEN x.code ELSE 200
      BY <1>2, <1>4, <1>5, <1>9, <3>2
    <3> QED
      BY <1>0, <1>9, <3>1, <3>3 DEF Answers
  <2> QED
    BY <2>2, <2>3, <2>4
<1>10. CASE fw.status = "response"
  <2>1. StatusOf(fw, y) = HTTPtoSpanStatus(x.code)
    BY <1>2, <1>10 DEF StatusOf
  <2>2. y.sent = IF x.code # 0 THEN x.code ELSE 200
    BY <1>2, <1>4, <1>5, <1>6, <1>10
  <2> QED
    BY <1>0, <1>10, <2>1, <2>2 DEF Answers
<1> QED
  BY <1>1, <1>7, <1>8, <1>9, <1>10 DEF FrameworkKind

LEMMA LeaveUnwinding ==
  ASSUME MidInv, AllUnwinding, NEW r \in Request, Leave(r)
  PROVE  AllUnwinding'
<1> DEFINE q == req[r]  q2 == req'[r]  n == Len(q.frames)
           response2 == [q.response EXCEPT !.sent = IF Len(q.frames) = 1 THEN LeavesWith(r) ELSE @]
<1>1. /\ Become(r, q2) /\ UNCHANGED <<server, scope, span>> /\ q.at = "leave" /\ n # 0
  BY Leaves
<1>2. q2 = [q EXCEPT
              !.at = IF Len(q.frames) = 1 THEN "done" ELSE "recover",
              !.frames = SubSeq(q.frames, 1, Len(q.frames) - 1),
              !.context = IF fw.context = "set" THEN q.context ELSE q.frames[Len(q.frames)].saved,
              !.response = response2]
  BY Leaves
<1>3. q \in RequestType /\ q.response \in ResponseType /\ Layers \in Nat /\ q.spans \in Nat /\ q.spans <= Layers
      /\ q.frames \in Seq(Frame)
  BY MidFacts
<1>4. q2 \in RequestType
  BY MidLeave DEF MidInv, MidType
<1>5. /\ Struck(q, server) /\ CountedPanics(q, server) /\ Reporting(q, server)
      /\ Spans(r, q, span) /\ Restored(q, fw) /\ Recorded(r, q, fw, span) /\ Responds(q, fw)
      /\ n \in Nat /\ n <= q.deep /\ q.deep \in Nat
  BY UnwindingFacts
<1>6. /\ response2.code = q.response.code /\ response2.writer = q.response.writer
      /\ response2.error = q.response.error /\ response2.early = q.response.early
      /\ response2.coded = q.response.coded /\ response2.hidden = q.response.hidden
      /\ n # 1 => response2.sent = q.response.sent
  BY <1>3 DEF ResponseType
<1>7. n = 1 => response2 = [q.response EXCEPT !.sent = LeavesWith(r)]
  OBVIOUS
<1> HIDE DEF q2, response2, q
<1>8. /\ q2.panic = q.panic /\ q2.first = q.first /\ q2.events = q.events /\ q2.flushed = q.flushed
      /\ q2.response = response2 /\ q2.spans = q.spans /\ q2.deep = q.deep
      /\ q2.at = (IF n = 1 THEN "done" ELSE "recover")
      /\ q2.context = (IF fw.context = "set" THEN q.context ELSE q.frames[n].saved)
      /\ q2.frames = SubSeq(q.frames, 1, n - 1)
  BY <1>2, <1>3 DEF RequestType
<1>9. Len(q2.frames) = n - 1 /\ \A i \in 1 .. n - 1 : q2.frames[i] = q.frames[i]
  BY <1>1, <1>3, <1>5, <1>8
<1> HIDE DEF n
<1>10. /\ PanicsOf(q2) = PanicsOf(q) /\ Recovered(q) = q.deep - n + 1 /\ Recovered(q2) = Recovered(q)
       /\ Left(q) = n - 1 /\ Left(q2) = n - 1 /\ ~Going(q) /\ ~Going(q2) /\ ~Unfinished(q2)
  <2>1. PanicsOf(q2) = PanicsOf(q)
    BY <1>8 DEF PanicsOf
  <2>2. q2.at \notin {"idle", "handler", "finish", "leave"} /\ q.at = "leave" /\ Len(q2.frames) # q2.deep
    <3>1. n - 1 # q.deep
      BY <1>5
    <3>2. Len(q2.frames) # q2.deep
      BY <1>8, <1>9, <3>1
    <3>3. q2.at = "done" \/ q2.at = "recover"
      BY <1>8
    <3> QED
      BY <1>1, <3>2, <3>3
  <2>3. Recovered(q) = q.deep - n + 1 /\ Left(q) = n - 1 /\ ~Going(q)
    BY <2>2 DEF Recovered, Left, Going, n
  <2>4. Recovered(q2) = q.deep - (n - 1) /\ Left(q2) = n - 1 /\ ~Going(q2) /\ ~Unfinished(q2)
    BY <1>8, <1>9, <2>2 DEF Recovered, Left, Going, Unfinished
  <2> QED
    BY <1>5, <2>1, <2>3, <2>4
<1>11. Struck(q2, server)
  BY <1>5, <1>8, <1>10 DEF Struck
<1>12. CountedPanics(q2, server)
  BY <1>5, <1>8, <1>10 DEF CountedPanics, Reportable
<1>13. Reporting(q2, server)
  BY <1>5, <1>8, <1>10 DEF Reporting
<1>14. Spans(r, q2, span)
  <2>1. \A k \in 1 .. Layers : (k > q2.spans \/ Unfinished(q2)) => ~span[<<r, k>>].finished
    BY <1>5, <1>8, <1>10 DEF Spans
  <2>2. ASSUME NEW k \in 1 .. q2.spans
        PROVE  span[<<r, k>>].finished \/ \E i \in 1 .. Left(q2) : q2.frames[i].span = <<r, k>>
    <3>1. span[<<r, k>>].finished \/ \E i \in 1 .. n - 1 : q.frames[i].span = <<r, k>>
      BY <1>5, <1>8, <1>10 DEF Spans
    <3> QED
      BY <1>9, <1>10, <3>1
  <2> QED
    BY <2>1, <2>2 DEF Spans
<1>15. Restored(q2, fw)
  <2>1. q.frames[1].saved = NoContext
    BY <1>1, <1>5 DEF Restored, n
  <2>2. Len(q2.frames) # 0 => q2.frames[1].saved = NoContext
    BY <1>5, <1>9, <2>1
  <2>3. q2.at = "done" /\ fw.context # "set" => q2.context = NoContext
    BY <1>8, <2>1
  <2> QED
    BY <2>2, <2>3 DEF Restored
<1>16. Recorded(r, q2, fw, span)
  <2>1. StatusOf(fw, response2) = StatusOf(fw, q.response)
    BY <1>6 DEF StatusOf
  <2> QED
    BY <1>5, <1>8, <2>1 DEF Recorded
<1>17. Responds(q2, fw)
  <2>1. CASE n = 1
    BY <1>1, <1>4, <1>7, <1>8, <2>1, AnswerResponds DEF q
  <2>2. CASE n # 1
    BY <1>1, <1>5, <1>6, <1>8, <2>2 DEF Responds
  <2> QED
    BY <2>1, <2>2
<1>18. Unwinding(r, q2, server, span')
  BY <1>1, <1>11, <1>12, <1>13, <1>14, <1>15, <1>16, <1>17 DEF Unwinding, fw
<1> QED
  BY <1>1, <1>18, StepUnwinding

-----------------------------------------------------------------------------

LEMMA UnwindingStarts ==
  ASSUME MidInit
  PROVE  AllUnwinding
<1> SUFFICES ASSUME NEW r \in Request
             PROVE  Unwinding(r, NewRequest, server, span)
  BY DEF AllUnwinding, MidInit
<1>1. /\ NewRequest.at = "idle" /\ NewRequest.frames = <<>> /\ NewRequest.events = <<>>
      /\ NewRequest.spans = 0 /\ NewRequest.deep = 0 /\ NewRequest.panic = "none" /\ NewRequest.first = "none"
      /\ NewRequest.flushed = 0 /\ NewRequest.response = NoResponse
  BY DEF NewRequest
<1> HIDE DEF NewRequest
<1>2. PanicsOf(NewRequest) = {}
  BY <1>1 DEF PanicsOf, ToSet
<1>3. Recovered(NewRequest) = 0 /\ Left(NewRequest) = 0
  <2>1. Len(NewRequest.frames) = 0
    BY <1>1
  <2>2. NewRequest.at # "finish" /\ NewRequest.at # "leave" /\ NewRequest.deep - 0 = 0
    BY <1>1
  <2> QED
    BY <2>1, <2>2 DEF Recovered, Left
<1>4. Struck(NewRequest, server) /\ CountedPanics(NewRequest, server) /\ Reporting(NewRequest, server)
  BY <1>1, <1>2, <1>3, FS_EmptySet DEF Struck, CountedPanics, Reporting
<1>5. \A n \in 1 .. Layers : ~span[<<r, n>>].finished
  BY DEF MidInit, Span
<1>6. Spans(r, NewRequest, span) /\ Restored(NewRequest, fw) /\ Recorded(r, NewRequest, fw, span)
  BY <1>1, <1>3, <1>5 DEF Spans, Restored, Recorded
<1>7. Responds(NewRequest, fw)
  BY <1>1 DEF Responds, NoResponse, NewWrapResponseWriter
<1> QED
  BY <1>4, <1>6, <1>7 DEF Unwinding, fw

LEMMA UnwindingSteps ==
  ASSUME MidInv, AllUnwinding, [MidNext]_midVars
  PROVE  AllUnwinding'
<1>1. CASE UNCHANGED midVars
  BY <1>1 DEF AllUnwinding, midVars
<1>2. ASSUME NEW r \in Request, Handle(r)
      PROVE  AllUnwinding'
  <2>1. CASE Enter(r)
    BY <2>1, EnterUnwinding
  <2>2. CASE Capture(r)
    BY <2>2, CaptureUnwinding
  <2>3. CASE Flush(r)
    BY <2>3, FlushUnwinding
  <2>4. ASSUME NEW coded \in BOOLEAN, Fail(r, coded)
        PROVE  AllUnwinding'
    BY <2>4, FailUnwinding
  <2>5. CASE Return(r)
    BY <2>5, ReturnUnwinding
  <2>6. ASSUME NEW code \in Code, Write(r, code)
        PROVE  AllUnwinding'
    BY <2>6, WriteUnwinding
  <2>7. ASSUME NEW value \in {"panic", "broken pipe"}, Panic(r, value)
        PROVE  AllUnwinding'
    BY <2>7, PanicUnwinding
  <2>8. ASSUME NEW kept \in BOOLEAN, RecoverWithSentry(r, kept)
        PROVE  AllUnwinding'
    BY <2>8, RecoverUnwinding
  <2>9. CASE FinishTransaction(r)
    BY <2>9, FinishUnwinding
  <2>10. CASE Leave(r)
    BY <2>10, LeaveUnwinding
  <2>11. CASE SetResponse(r)
    BY <2>11, HideUnwinding
  <2> QED
    BY <1>2, <2>1, <2>2, <2>3, <2>4, <2>5, <2>6, <2>7, <2>8, <2>9, <2>10, <2>11 DEF Handle
<1> QED
  BY <1>1, <1>2 DEF MidNext

LEMMA AtDone ==
  ASSUME MidInv, AllUnwinding, NEW r \in Request, Done(r)
  PROVE  /\ Cardinality(PanicsOf(req[r])) = IF ~Reportable(req[r], server) THEN 0
                                             ELSE IF server.repanic THEN req[r].deep ELSE 1
         /\ req[r].panic = (IF server.repanic THEN req[r].first ELSE "none")
         /\ \A n \in 1 .. req[r].spans : span[<<r, n>>].finished
         /\ fw = Fiber => req[r].context = NoContext
<1> DEFINE q == req[r]
<1>1. q.at = "done"
  BY DEF Done, Does
<1>2. Layered(r, q, fw) /\ FrameworkKind(fw) /\ q.spans \in Nat /\ q.spans <= Layers /\ Layers \in Nat
  BY MidFacts
<1>3. /\ Struck(q, server) /\ CountedPanics(q, server) /\ Spans(r, q, span) /\ Restored(q, fw)
      /\ q.deep \in Nat
  BY UnwindingFacts
<1>4. Len(q.frames) = 0
  BY <1>1, <1>2 DEF Layered
<1>5. q.deep # 0
  BY <1>1, <1>2 DEF Layered
<1>6. Recovered(q) = q.deep /\ Left(q) = 0 /\ ~Going(q)
  BY <1>1, <1>3, <1>4 DEF Recovered, Left, Going
<1>7. Cardinality(PanicsOf(q)) = IF ~Reportable(q, server) THEN 0
                                 ELSE IF server.repanic THEN q.deep ELSE 1
  BY <1>3, <1>5, <1>6 DEF CountedPanics
<1>8. q.panic = (IF server.repanic THEN q.first ELSE "none")
  BY <1>3, <1>6 DEF Struck
<1>9. ASSUME NEW n \in 1 .. q.spans
      PROVE  span[<<r, n>>].finished
  <2>1. \A i : i \notin 1 .. Left(q)
    BY <1>6
  <2> QED
    BY <1>3, <2>1 DEF Spans
<1>10. fw = Fiber => q.context = NoContext
  <2>1. fw = Fiber => fw.context # "set"
    BY <1>2 DEF FrameworkKind
  <2> QED
    BY <1>1, <1>3, <2>1 DEF Restored
<1> QED
  BY <1>7, <1>8, <1>9, <1>10

\* Every panic is reported by the innermost layer while the transaction that it ended is
\* open, and by every layer when they panic again, but for gin's broken pipes; it leaves
\* the layers exactly then, and after the wait for delivery.  Every transaction that was
\* started is finished, with the status of the response but for what Misread lists, and
\* fiber's context is as it was.
THEOREM LayersUnwind == MidSpec => []Unwound
<1>1. MidInit => AllUnwinding
  BY UnwindingStarts
<1>2. MidInv /\ AllUnwinding /\ [MidNext]_midVars => AllUnwinding'
  BY UnwindingSteps
<1>3. MidInv /\ AllUnwinding => Unwound
  <2> SUFFICES ASSUME MidInv, AllUnwinding
               PROVE  Unwound
    OBVIOUS
  <2>1. StatusTrue
    <3> SUFFICES ASSUME NEW r \in Request, Done(r), ~Panics(r), ~Misread(r), NEW n \in 1 .. req[r].spans
                 PROVE  \/ span[<<r, n>>].status = IF fw.status = "rpc" THEN ToSpanStatus(req[r].response.sent)
                                                   ELSE HTTPtoSpanStatus(req[r].response.sent)
                        \/ span[<<r, n>>].status = NoStatus /\ req[r].response.hidden
      BY DEF StatusTrue
    <3>1. span[<<r, n>>].finished
      BY AtDone
    <3>2. req[r].panic = "none"
      BY DEF Panics
    <3>3. Recorded(r, req[r], fw, span) /\ Responds(req[r], fw)
      BY UnwindingFacts
    <3>4. span[<<r, n>>].status = StatusOf(fw, req[r].response)
      BY <3>1, <3>2, <3>3 DEF Recorded
    <3>5. req[r].at = "done"
      BY DEF Done, Does
    <3>6. ~Excepted(fw, req[r].response)
      BY DEF Misread, Excepted
    <3>7. Answers(fw, req[r].response)
      BY <3>3, <3>5, <3>6 DEF Responds
    <3> QED
      BY <3>4, <3>7 DEF Answers
  <2>2. ASSUME NEW r \in Request
        PROVE  /\ PanicEvents(r) = PanicsOf(req[r])
               /\ \A e \in PanicEvents(r) : e.layer = req[r].deep => e.live
               /\ server.wait => \A i \in req[r].flushed + 1 .. Len(req[r].events) :
                                   ~req[r].events[i].panic \/ ~req[r].events[i].kept
    <3>1. PanicEvents(r) = PanicsOf(req[r])
      BY DEF PanicEvents, PanicsOf
    <3>2. Reporting(req[r], server)
      BY UnwindingFacts
    <3> QED
      BY <3>1, <3>2 DEF Reporting
  <2>3. ASSUME NEW r \in Request, Done(r)
        PROVE  /\ Cardinality(PanicEvents(r)) =
                    IF req[r].first = "none" \/ (req[r].first = "broken pipe" /\ fw = Gin) THEN 0
                    ELSE IF server.repanic THEN req[r].deep ELSE 1
               /\ Panics(r) <=> server.repanic /\ req[r].first # "none"
               /\ \A n \in 1 .. req[r].spans : span[<<r, n>>].finished
               /\ fw = Fiber => req[r].context = NewRequest.context
    <3>1. FrameworkKind(fw)
      BY MidFacts
    <3>2. Reportable(req[r], server) <=> ~(req[r].first = "none" \/ (req[r].first = "broken pipe" /\ fw = Gin))
      BY <3>1 DEF Reportable, FrameworkKind, fw
    <3>3. /\ Cardinality(PanicsOf(req[r])) = IF ~Reportable(req[r], server) THEN 0
                                             ELSE IF server.repanic THEN req[r].deep ELSE 1
          /\ req[r].panic = (IF server.repanic THEN req[r].first ELSE "none")
          /\ \A n \in 1 .. req[r].spans : span[<<r, n>>].finished
          /\ fw = Fiber => req[r].context = NoContext
      BY <2>3, AtDone
    <3>4. PanicEvents(r) = PanicsOf(req[r])
      BY <2>2
    <3>5. Panics(r) <=> server.repanic /\ req[r].first # "none"
      BY <3>3 DEF Panics
    <3>6. NewRequest.context = NoContext
      BY DEF NewRequest, NoContext
    <3> QED
      BY <3>2, <3>3, <3>4, <3>5, <3>6
  <2> HIDE DEF NewRequest
  <2> QED
    BY <2>1, <2>2, <2>3 DEF Unwound
<1> QED
  BY <1>1, <1>2, <1>3, MidInvariance, PTL DEF MidSpec

(***************************************************************************)
(* The arithmetic of the indices                                           *)
(***************************************************************************)

\* What the remainder is for the only sums the code forms: an index plus at
\* most the capacity.
LEMMA ModLemma ==
  ASSUME NEW c \in Nat \ {0}, NEW x \in 0 .. 2 * c - 1
  PROVE  x % c = IF x < c THEN x ELSE x - c
<1>1. CASE x < c
  BY <1>1, SMT
<1>2. CASE x >= c
  <2>1. x = 1 * c + (x - c) /\ x - c \in 0 .. c - 1
    BY <1>2, SMT
  <2> QED
    BY <1>2, <2>1, SMT
<1> QED
  BY <1>1, <1>2, SMT

LEMMA CapacityType == capacity \in Nat \ {0}
  BY ArgsAssumption DEF ArgsAssumption, capacity

\* One slot further round, as every method computes it.
LEMMA SlotAfter ==
  ASSUME NEW h \in Slot, NEW n \in 0 .. capacity
  PROVE  /\ (h + n) % capacity \in Slot
         /\ (h + n) % capacity = IF h + n < capacity THEN h + n
                                                    ELSE h + n - capacity
<1>1. h + n \in 0 .. 2 * capacity - 1
  BY CapacityType, SMT DEF Slot
<1>2. (h + n) % capacity = IF h + n < capacity THEN h + n ELSE h + n - capacity
  <2> DEFINE x == h + n
  <2>1. x \in 0 .. 2 * capacity - 1
    BY <1>1
  <2> HIDE DEF x
  <2>2. x % capacity = IF x < capacity THEN x ELSE x - capacity
    BY <2>1, CapacityType, ModLemma, Zenon
  <2> QED
    BY <2>2, CapacityType, SMT DEF x, Slot
<1>3. (IF h + n < capacity THEN h + n ELSE h + n - capacity) \in Slot
  BY <1>1, CapacityType, SMT DEF Slot
<1> QED
  BY <1>2, <1>3, Zenon

(***************************************************************************)
(* The array and its indices                                               *)
(***************************************************************************)

\* WindowOK with the remainders worked out: what the steps preserve.
Window(hd, tl, sz, arr) ==
  /\ tl = IF hd + sz < capacity THEN hd + sz ELSE hd + sz - capacity
  /\ \A p \in Slot :
       arr[p] # NoItem <=> (IF p >= hd THEN p - hd ELSE p - hd + capacity) < sz

IInv == TypeOK /\ Window(head, tail, size, items)

LEMMA InitInv == Init => IInv
<1> SUFFICES ASSUME Init PROVE IInv
  OBVIOUS
<1>1. TypeOK
  BY CapacityType, ArgsAssumption, SMT
  DEF Init, TypeOK, Slot, ArgsAssumption, timeout, NoItem
<1>2. Window(head, tail, size, items)
  BY CapacityType, SMT DEF Init, Window, Slot, NoItem
<1> QED
  BY <1>1, <1>2 DEF IInv

LEMMA CountOfferInv ==
  ASSUME IInv, policy' = policy, NEW c \in Callers, CountOffer(c)
  PROVE  IInv'
<1>1. TypeOK'
  BY ArgsAssumption, SMT
  DEF IInv, TypeOK, CountOffer, ArgsAssumption, indexVars, history, Item, NoItem
<1>2. Window(head, tail, size, items)'
  BY DEF IInv, CountOffer, Window, indexVars, capacity, Slot
<1> QED
  BY <1>1, <1>2 DEF IInv

LEMMA StoreItemInv ==
  ASSUME IInv, policy' = policy, NEW c \in Callers, OfferLocked(c), StoreItem(offering[c])
  PROVE  IInv'
<1> DEFINE x == offering[c]
<1>1. x \in Item /\ x # NoItem
  BY DEF IInv, TypeOK, OfferLocked
<1>2. /\ size < capacity
      /\ items' = [items EXCEPT ![tail] = x]
      /\ tail' = IF tail + 1 < capacity THEN tail + 1 ELSE tail + 1 - capacity
      /\ size' = size + 1
      /\ head' = head
      /\ UNCHANGED <<dropped, recorded>>
  BY SlotAfter, CapacityType, SMT DEF IInv, TypeOK, StoreItem, Full
<1>3. TypeOK'
  <2>1. items' \in [Slot -> Item \cup {NoItem}] /\ tail' \in Slot /\ size' \in 0 .. capacity
    BY <1>1, <1>2, CapacityType, SMT DEF IInv, TypeOK, Slot
  <2>2. offering' \in [Callers -> Item \cup {NoItem}]
    BY DEF OfferLocked, IInv, TypeOK
  <2> QED
    BY <2>1, <2>2, <1>2 DEF IInv, TypeOK, OfferLocked
<1>4. Window(head, tail, size, items)'
  <2> SUFFICES
        /\ tail' = IF head + size' < capacity THEN head + size' ELSE head + size' - capacity
        /\ \A p \in Slot : items'[p] # NoItem <=>
              (IF p >= head THEN p - head ELSE p - head + capacity) < size'
    BY <1>2 DEF Window
  <2> QED
    BY <1>1, <1>2, CapacityType, SMT DEF IInv, TypeOK, Window, Slot
<1> QED
  BY <1>3, <1>4 DEF IInv

LEMMA DropOldestInv ==
  ASSUME IInv, policy' = policy, NEW c \in Callers, OfferLocked(c), DropOldest(offering[c])
  PROVE  IInv'
<1> DEFINE x == offering[c]
<1>1. x \in Item /\ x # NoItem
  BY DEF IInv, TypeOK, OfferLocked
<1>2. /\ size = capacity
      /\ items' = [items EXCEPT ![head] = x]
      /\ head' = IF head + 1 < capacity THEN head + 1 ELSE head + 1 - capacity
      /\ tail' = IF tail + 1 < capacity THEN tail + 1 ELSE tail + 1 - capacity
      /\ size' = size
      /\ dropped' = dropped + 1
      /\ recorded' = Append(recorded, items[head])
  BY SlotAfter, CapacityType, SMT
  DEF IInv, TypeOK, DropOldest, Full, RecordDropped
<1>3. items[head] \in Item
  BY <1>2, CapacityType, SMT DEF IInv, TypeOK, Window, Slot
<1>4. TypeOK'
  <2>1. items' \in [Slot -> Item \cup {NoItem}] /\ head' \in Slot /\ tail' \in Slot
    BY <1>1, <1>2, CapacityType, SMT DEF IInv, TypeOK, Slot
  <2>2. offering' \in [Callers -> Item \cup {NoItem}]
    BY DEF OfferLocked, IInv, TypeOK
  <2>3. dropped' \in Nat /\ recorded' \in Seq(Item)
    BY <1>2, <1>3 DEF IInv, TypeOK
  <2> QED
    BY <2>1, <2>2, <2>3, <1>2 DEF IInv, TypeOK, OfferLocked
<1>5. Window(head, tail, size, items)'
  <2> SUFFICES
        /\ tail' = IF head' + size < capacity THEN head' + size ELSE head' + size - capacity
        /\ \A p \in Slot : items'[p] # NoItem <=>
              (IF p >= head' THEN p - head' ELSE p - head' + capacity) < size
    BY <1>2 DEF Window
  <2> QED
    BY <1>1, <1>2, CapacityType, SMT DEF IInv, TypeOK, Window, Slot
<1> QED
  BY <1>4, <1>5 DEF IInv

LEMMA DropNewestInv ==
  ASSUME IInv, policy' = policy, NEW c \in Callers, OfferLocked(c), DropNewest(offering[c])
  PROVE  IInv'
<1>1. offering[c] \in Item
  BY DEF IInv, TypeOK, OfferLocked
<1>2. dropped' \in Nat /\ recorded' \in Seq(Item)
  BY <1>1 DEF DropNewest, RecordDropped, IInv, TypeOK
<1>3. offering' \in [Callers -> Item \cup {NoItem}]
  BY DEF OfferLocked, IInv, TypeOK
<1> QED
  BY <1>2, <1>3
  DEF IInv, TypeOK, Window, DropNewest, OfferLocked, indexVars, capacity, Slot

\* The slots Freed(n) names are the first n behind head.
LEMMA FreedSlots ==
  ASSUME IInv, NEW n \in 0 .. size, NEW p \in Slot
  PROVE  p \in Freed(n) <=>
           (IF p >= head THEN p - head ELSE p - head + capacity) < n
<1> DEFINE off == IF p >= head THEN p - head ELSE p - head + capacity
<1>1. /\ head \in Slot /\ size \in 0 .. capacity
      /\ off \in 0 .. capacity - 1
      /\ p = IF head + off < capacity THEN head + off ELSE head + off - capacity
  BY CapacityType, SMT DEF IInv, TypeOK, Slot
<1>2. \A k \in 0 .. capacity - 1 :
        (head + k) % capacity = IF head + k < capacity THEN head + k
                                                       ELSE head + k - capacity
  BY <1>1, SlotAfter, CapacityType, SMT
<1>3. ASSUME p \in Freed(n) PROVE off < n
  <2>1. PICK k \in 0 .. n - 1 : p = (head + k) % capacity
    BY <1>3 DEF Freed
  <2>2. p = IF head + k < capacity THEN head + k ELSE head + k - capacity
    BY <2>1, <1>1, <1>2, CapacityType, SMT
  <2> QED
    BY <2>2, <1>1, CapacityType, SMT DEF Slot
<1>4. ASSUME off < n PROVE p \in Freed(n)
  <2>1. off \in 0 .. n - 1 /\ p = (head + off) % capacity
    BY <1>1, <1>2, <1>4, SMT
  <2> QED
    BY <2>1 DEF Freed
<1> QED
  BY <1>3, <1>4

\* The items handed out are items.
LEMMA OldestType ==
  ASSUME IInv, NEW n \in 0 .. size
  PROVE  Oldest(n) \in Seq(Item) /\ Len(Oldest(n)) = n
<1>1. /\ head \in Slot /\ size \in 0 .. capacity /\ n \in Nat
      /\ items \in [Slot -> Item \cup {NoItem}]
  BY CapacityType, SMT DEF IInv, TypeOK
<1>2. ASSUME NEW i \in 1 .. n
      PROVE  items[(head + (i - 1)) % capacity] \in Item
  <2> DEFINE p == (head + (i - 1)) % capacity
  <2>1. i - 1 \in 0 .. n - 1 /\ i - 1 \in 0 .. capacity
    BY <1>1, CapacityType, SMT
  <2>2. p \in Slot
    BY <2>1, <1>1, SlotAfter
  <2>3. p \in Freed(n)
    BY <2>1 DEF Freed
  <2> HIDE DEF p
  <2>4. (IF p >= head THEN p - head ELSE p - head + capacity) < n
    BY <2>2, <2>3, FreedSlots
  <2>5. items[p] # NoItem
    BY <2>2, <2>4, <1>1, CapacityType, SMT DEF IInv, Window, Slot
  <2> QED
    BY <2>2, <2>5, <1>1 DEF p
<1> QED
  BY <1>1, <1>2 DEF Oldest

LEMMA TakeFrontInv ==
  ASSUME IInv, policy' = policy, NEW n \in 1 .. size, TakeFront(n), elapsed' \in {elapsed, 0}
  PROVE  IInv'
<1>1. /\ head \in Slot /\ size \in 0 .. capacity /\ n \in 0 .. size /\ n \in 0 .. capacity
      /\ items \in [Slot -> Item \cup {NoItem}]
      /\ elapsed \in 0 .. timeout
  BY CapacityType, SMT DEF IInv, TypeOK
<1>2. /\ head' = IF head + n < capacity THEN head + n ELSE head + n - capacity
      /\ head' \in Slot
      /\ size' = size - n
      /\ tail' = tail
  BY <1>1, SlotAfter DEF TakeFront
<1>3. \A p \in Slot : items'[p] # NoItem <=>
         /\ items[p] # NoItem
         /\ ~((IF p >= head THEN p - head ELSE p - head + capacity) < n)
  BY <1>1, FreedSlots, Zenon DEF TakeFront
<1>4. TypeOK'
  <2>1. items' \in [Slot -> Item \cup {NoItem}]
    BY <1>1 DEF TakeFront
  <2>2. size' \in 0 .. capacity
    BY <1>1, <1>2, CapacityType, SMT
  <2>3. taken' \in Seq(Item)
    BY <1>1, OldestType DEF TakeFront, IInv, TypeOK
  <2>4. elapsed' \in 0 .. timeout
    BY <1>1, ArgsAssumption, SMT DEF timeout, ArgsAssumption
  <2> QED
    BY <1>2, <2>1, <2>2, <2>3, <2>4 DEF TakeFront, IInv, TypeOK
<1>5. Window(head, tail, size, items)'
  <2> SUFFICES
        /\ tail = IF head' + size' < capacity THEN head' + size' ELSE head' + size' - capacity
        /\ \A p \in Slot : items'[p] # NoItem <=>
              (IF p >= head' THEN p - head' ELSE p - head' + capacity) < size'
    BY <1>2 DEF Window
  <2>1. tail = IF head' + size' < capacity THEN head' + size' ELSE head' + size' - capacity
    BY <1>1, <1>2, CapacityType, SMT DEF IInv, Window, Slot
  <2>2. ASSUME NEW p \in Slot
        PROVE  items'[p] # NoItem <=>
                 (IF p >= head' THEN p - head' ELSE p - head' + capacity) < size'
    <3>1. items[p] # NoItem <=> (IF p >= head THEN p - head ELSE p - head + capacity) < size
      BY DEF IInv, Window
    <3> QED
      BY <3>1, <1>1, <1>2, <1>3, CapacityType, SMT DEF Slot
  <2> QED
    BY <2>1, <2>2
<1> QED
  BY <1>4, <1>5 DEF IInv

\* Emptying the array and starting again at slot 0, as Drain and Clear do.
LEMMA RestartWindow ==
  ASSUME items' \in [Slot -> {NoItem}], head' = 0, tail' = 0, size' = 0
  PROVE  Window(head, tail, size, items)'
<1>1. \A p \in Slot : items'[p] = NoItem /\ p \in Int /\ p >= 0
  BY CapacityType, SMT DEF Slot
<1> QED
  BY <1>1, CapacityType, SMT DEF Window, capacity, Slot

LEMMA DrainInv ==
  ASSUME IInv, policy' = policy, Drain
  PROVE  IInv'
<1>1. size \in 0 .. size /\ size \in 0 .. capacity
  BY CapacityType, SMT DEF IInv, TypeOK
<1>2. items' \in [Slot -> {NoItem}]
  <2>1. ASSUME NEW p \in Slot, p \notin Freed(size) PROVE items[p] = NoItem
    BY <2>1, <1>1, FreedSlots DEF IInv, Window
  <2> QED
    BY <2>1 DEF Drain
<1>3. taken' \in Seq(Item)
  BY <1>1, OldestType DEF Drain, IInv, TypeOK
<1>4. TypeOK'
  BY <1>2, <1>3, CapacityType, SMT DEF Drain, IInv, TypeOK, Slot
<1> QED
  BY <1>2, <1>4, RestartWindow DEF Drain, IInv

LEMMA ClearInv ==
  ASSUME IInv, policy' = policy, Clear
  PROVE  IInv'
<1>1. items' \in [Slot -> {NoItem}]
  BY DEF Clear
<1>2. cleared' \in Seq(Item)
  <2>1. size \in 0 .. size
    BY CapacityType, SMT DEF IInv, TypeOK
  <2> QED
    BY <2>1, OldestType DEF Clear, IInv, TypeOK
<1>3. TypeOK'
  BY <1>1, <1>2, CapacityType, SMT DEF Clear, IInv, TypeOK, Slot
<1> QED
  BY <1>1, <1>3, RestartWindow DEF Clear, IInv

LEMMA ClockInv ==
  ASSUME IInv, policy' = policy, Tick \/ MarkFlushed \/ UNCHANGED vars
  PROVE  IInv'
<1>1. /\ UNCHANGED <<indexVars, offered, dropped, offering, history>>
      /\ elapsed' \in 0 .. timeout
  BY ArgsAssumption, SMT
  DEF Tick, MarkFlushed, vars, indexVars, history, IInv, TypeOK, timeout, ArgsAssumption
<1> QED
  BY <1>1 DEF IInv, TypeOK, Window, indexVars, history, capacity, Slot, timeout

\* Every step preserves the invariant.
LEMMA StepInv == IInv /\ [Next]_vars => IInv'
<1> SUFFICES ASSUME IInv, [Next]_vars PROVE IInv'
  OBVIOUS
<1>0. policy' = policy
  BY DEF Next, vars
<1>1. CASE \E c \in Callers : CountOffer(c)
  BY <1>0, <1>1, CountOfferInv
<1>2. CASE \E c \in Callers : OfferLocked(c)
  <2>1. PICK c \in Callers : OfferLocked(c)
    BY <1>2
  <2>2. StoreItem(offering[c]) \/ DropOldest(offering[c]) \/ DropNewest(offering[c])
    BY <2>1 DEF OfferLocked
  <2> QED
    BY <1>0, <2>1, <2>2, StoreItemInv, DropOldestInv, DropNewestInv
<1>3. CASE Poll \/ PollBatch \/ PollIfReady
  <2>1. PICK n \in 1 .. size : TakeFront(n) /\ elapsed' \in {elapsed, 0}
    <3>1. size \in Nat /\ batchSize \in Nat \ {0}
      BY CapacityType, ArgsAssumption, SMT
      DEF IInv, TypeOK, ArgsAssumption, batchSize
    <3>2. CASE Poll
      BY <3>1, <3>2, SMT DEF Poll
    <3>3. CASE PollBatch
      BY <3>1, <3>3 DEF PollBatch
    <3>4. CASE PollIfReady
      <4>1. (IF batchSize > size THEN size ELSE batchSize) \in 1 .. size
        BY <3>1, <3>4, SMT DEF PollIfReady, Ready
      <4> QED
        BY <3>4, <4>1 DEF PollIfReady
    <3> QED
      BY <1>3, <3>2, <3>3, <3>4
  <2> QED
    BY <1>0, <2>1, TakeFrontInv
<1>4. CASE Drain
  BY <1>0, <1>4, DrainInv
<1>5. CASE Clear
  BY <1>0, <1>5, ClearInv
<1>6. CASE Tick \/ MarkFlushed \/ UNCHANGED vars
  BY <1>0, <1>6, ClockInv
<1> QED
  BY <1>1, <1>2, <1>3, <1>4, <1>5, <1>6 DEF Next

\* Every reachable state has well-typed fields.
THEOREM TypeCorrect == Spec => []TypeOK
<1>1. IInv => TypeOK
  BY DEF IInv
<1> QED
  BY <1>1, InitInv, StepInv, PTL DEF Spec

\* The indices always describe the array exactly: tail ends the window that
\* starts at head, the window is full of items and nothing is kept outside it.
THEOREM WindowCorrect == Spec => []WindowOK
<1>1. IInv => WindowOK
  <2> SUFFICES ASSUME IInv PROVE WindowOK
    OBVIOUS
  <2>1. head \in Slot /\ size \in 0 .. capacity
    BY DEF IInv, TypeOK
  <2>2. (head + size) % capacity =
          IF head + size < capacity THEN head + size ELSE head + size - capacity
    BY <2>1, SlotAfter
  <2> QED
    BY <2>2 DEF WindowOK, IInv, Window, Offset
<1> QED
  BY <1>1, InitInv, StepInv, PTL DEF Spec

(***************************************************************************)
(* The refinement: the window, read from head onwards, is the queue        *)
(***************************************************************************)

\* What Oldest reads, as a function of the fields, and where it reads the i-th.
Reading(arr, h, n) == [i \in 1 .. n |-> arr[(h + (i - 1)) % capacity]]

Pos(h, i) == IF h + i <= capacity THEN h + i - 1 ELSE h + i - 1 - capacity

LEMMA PosType ==
  ASSUME NEW h \in Slot, NEW i \in 1 .. capacity
  PROVE  Pos(h, i) \in Slot /\ (h + (i - 1)) % capacity = Pos(h, i)
<1> DEFINE k == i - 1
<1>1. k \in 0 .. capacity /\ i = k + 1 /\ k \in Int /\ h \in Int
  BY CapacityType, SMT DEF Slot
<1> HIDE DEF k
<1>2. /\ (h + k) % capacity \in Slot
      /\ (h + k) % capacity = IF h + k < capacity THEN h + k ELSE h + k - capacity
  BY <1>1, SlotAfter
<1>3. Pos(h, i) = IF h + k < capacity THEN h + k ELSE h + k - capacity
  BY <1>1, CapacityType, SMT DEF Pos
<1> QED
  BY <1>2, <1>3 DEF k

LEMMA PosDistinct ==
  ASSUME NEW h \in Slot, NEW i \in 1 .. capacity, NEW j \in 1 .. capacity, i # j
  PROVE  Pos(h, i) # Pos(h, j)
BY CapacityType, SMT DEF Pos, Slot

LEMMA ReadingAt ==
  ASSUME NEW V, NEW arr \in [Slot -> V], NEW h \in Slot, NEW n \in 0 .. capacity
  PROVE  /\ Reading(arr, h, n) \in Seq(V)
         /\ Len(Reading(arr, h, n)) = n
         /\ \A i \in 1 .. n : Reading(arr, h, n)[i] = arr[Pos(h, i)]
<1>1. n \in Nat /\ \A i \in 1 .. n : i \in 1 .. capacity
  BY CapacityType, SMT
<1>2. ASSUME NEW i \in 1 .. n
      PROVE  /\ (h + (i - 1)) % capacity = Pos(h, i)
             /\ Pos(h, i) \in Slot
  BY <1>1, PosType
<1>3. Reading(arr, h, n) = [i \in 1 .. n |-> arr[Pos(h, i)]]
  BY <1>2, Zenon DEF Reading
<1> QED
  BY <1>1, <1>2, <1>3

LEMMA OldestIsReading ==
  /\ Oldest(size) = Reading(items, head, size)
  /\ Oldest(size)' = Reading(items', head', size')
BY DEF Oldest, Reading, capacity

LEMMA AppendAt ==
  ASSUME NEW S, NEW s \in Seq(S), NEW t \in Seq(S), NEW x \in S,
         Len(t) = Len(s) + 1, \A i \in 1 .. Len(s) : t[i] = s[i],
         t[Len(s) + 1] = x
  PROVE  t = Append(s, x)
OBVIOUS

\* Room for an item or for none: the domain of the window's slots.
Cell == Item \cup {NoItem}

\* What is known of the window in a state of the invariant.
LEMMA WindowFacts ==
  ASSUME IInv
  PROVE  /\ head \in Slot /\ tail \in Slot /\ size \in 0 .. capacity
         /\ items \in [Slot -> Cell]
         /\ Oldest(size) \in Seq(Cell) /\ Len(Oldest(size)) = size
         /\ \A i \in 1 .. size : Oldest(size)[i] = items[Pos(head, i)]
         /\ tail = Pos(head, size + 1)
<1>1. /\ head \in Slot /\ tail \in Slot /\ size \in 0 .. capacity
      /\ items \in [Slot -> Cell]
  BY DEF IInv, TypeOK, Cell
<1>2. tail = Pos(head, size + 1)
  BY <1>1, CapacityType, SMT DEF IInv, Window, Pos, Slot
<1>3. /\ Reading(items, head, size) \in Seq(Cell)
      /\ Len(Reading(items, head, size)) = size
      /\ \A i \in 1 .. size : Reading(items, head, size)[i] = items[Pos(head, i)]
  BY <1>1, ReadingAt
<1> QED
  BY <1>1, <1>2, <1>3, OldestIsReading

LEMMA StoreRefines ==
  ASSUME IInv, IInv', NEW c \in Callers, OfferLocked(c), StoreItem(offering[c])
  PROVE  Fifo!Accept(offering[c])
<1> DEFINE x == offering[c]
           q == Oldest(size)
           r == Oldest(size)'
<1>1. /\ x \in Item
      /\ size < capacity
      /\ items' = [items EXCEPT ![tail] = x]
      /\ size' = size + 1
      /\ head' = head
  BY CapacityType, SMT DEF StoreItem, Full, IInv, TypeOK, OfferLocked
<1>2. /\ size + 1 \in 0 .. capacity
      /\ items' \in [Slot -> Cell]
  BY <1>1, WindowFacts, CapacityType, SMT DEF Cell
<1>3. /\ r \in Seq(Cell) /\ Len(r) = size + 1
      /\ \A i \in 1 .. size + 1 : r[i] = items'[Pos(head, i)]
  <2>1. r = Reading(items', head, size + 1)
    BY <1>1, OldestIsReading, Zenon
  <2> HIDE DEF r
  <2>2. head \in Slot
    BY WindowFacts
  <2>3. /\ Reading(items', head, size + 1) \in Seq(Cell)
        /\ Len(Reading(items', head, size + 1)) = size + 1
        /\ \A i \in 1 .. size + 1 : Reading(items', head, size + 1)[i] = items'[Pos(head, i)]
    BY <1>2, <2>2, ReadingAt
  <2> QED
    BY <2>1, <2>3
<1>4. \A i \in 1 .. size : r[i] = q[i]
  <2> SUFFICES ASSUME NEW i \in 1 .. size PROVE r[i] = q[i]
    OBVIOUS
  <2>1. Pos(head, i) \in Slot /\ Pos(head, i) # tail
    <3>1. i \in 1 .. capacity /\ size + 1 \in 1 .. capacity /\ i # size + 1
      BY <1>1, WindowFacts, CapacityType, SMT
    <3> QED
      BY <3>1, PosType, PosDistinct, WindowFacts
  <2>2. i \in 1 .. size + 1
    BY WindowFacts, SMT
  <2>3. q[i] = items[Pos(head, i)] /\ r[i] = items'[Pos(head, i)]
    BY <1>3, <2>2, WindowFacts, Zenon
  <2> QED
    BY <2>1, <2>3, <1>1, WindowFacts
<1>5. r[size + 1] = x
  <2>1. size + 1 \in 1 .. size + 1
    BY WindowFacts, CapacityType, SMT
  <2>2. r[size + 1] = items'[tail]
    BY <1>3, <2>1, WindowFacts, Zenon
  <2> QED
    BY <1>1, <2>2, WindowFacts
<1>6. r = Append(q, x)
  <2>1. x \in Cell /\ q \in Seq(Cell) /\ Len(q) = size
    BY <1>1, WindowFacts DEF Cell
  <2> HIDE DEF x, q, r
  <2> QED
    BY <1>3, <1>4, <1>5, <2>1, AppendAt
<1> QED
  BY <1>1, <1>6, WindowFacts DEF Fifo!Accept, StoreItem, OfferLocked

\* Stepping head forward by n shifts every position by n.
LEMMA PosShift ==
  ASSUME NEW h \in Slot, NEW n \in 0 .. capacity, NEW i \in 1 .. capacity,
         n + i <= capacity
  PROVE  Pos(IF h + n < capacity THEN h + n ELSE h + n - capacity, i) = Pos(h, n + i)
BY CapacityType, SMT DEF Pos, Slot

LEMMA PosWrap ==
  ASSUME NEW h \in Slot
  PROVE  Pos(IF h + 1 < capacity THEN h + 1 ELSE h + 1 - capacity, capacity) = h
BY CapacityType, SMT DEF Pos, Slot

LEMMA DisplaceAt ==
  ASSUME NEW S, NEW s \in Seq(S), s # <<>>, NEW t \in Seq(S), NEW x \in S,
         Len(t) = Len(s), \A i \in 1 .. Len(s) - 1 : t[i] = s[i + 1],
         t[Len(s)] = x
  PROVE  t = Append(Tail(s), x)
OBVIOUS

LEMMA SubSeqAt ==
  ASSUME NEW S, NEW s \in Seq(S), NEW n \in 0 .. Len(s), NEW t \in Seq(S),
         Len(t) = Len(s) - n, \A i \in 1 .. Len(s) - n : t[i] = s[n + i]
  PROVE  t = SubSeq(s, n + 1, Len(s))
OBVIOUS

LEMMA PrefixAt ==
  ASSUME NEW S, NEW s \in Seq(S), NEW n \in 0 .. Len(s), NEW t \in Seq(S),
         Len(t) = n, \A i \in 1 .. n : t[i] = s[i]
  PROVE  t = SubSeq(s, 1, n)
OBVIOUS

LEMMA DropOldestRefines ==
  ASSUME IInv, IInv', NEW c \in Callers, OfferLocked(c), DropOldest(offering[c])
  PROVE  Fifo!Displace(offering[c])
<1> DEFINE x == offering[c]
           q == Oldest(size)
           r == Oldest(size)'
           h == IF head + 1 < capacity THEN head + 1 ELSE head + 1 - capacity
<1>1. /\ x \in Item
      /\ size = capacity /\ size' = capacity
      /\ policy = "drop_oldest"
      /\ items' = [items EXCEPT ![head] = x]
      /\ recorded' = Append(recorded, items[head])
  BY CapacityType, SMT
  DEF DropOldest, Full, RecordDropped, IInv, TypeOK, OfferLocked
<1>2. 1 \in 0 .. capacity /\ 1 \in 1 .. capacity /\ capacity \in 1 .. capacity
      /\ capacity \in 0 .. capacity
  BY CapacityType, SMT
<1>3. head' = h /\ h \in Slot
  BY <1>2, SlotAfter, WindowFacts DEF DropOldest
<1>4. items' \in [Slot -> Cell]
  BY <1>1, WindowFacts DEF Cell
<1>5. /\ r \in Seq(Cell) /\ Len(r) = capacity
      /\ \A i \in 1 .. capacity : r[i] = items'[Pos(h, i)]
  <2>1. r = Reading(items', h, capacity)
    BY <1>1, <1>3, OldestIsReading, Zenon
  <2> HIDE DEF r, h
  <2> QED
    BY <1>2, <1>3, <1>4, <2>1, ReadingAt
<1>6. Pos(head, 1) = head
  BY WindowFacts, CapacityType, SMT DEF Pos, Slot
<1>7. \A i \in 1 .. capacity - 1 : r[i] = q[i + 1]
  <2> SUFFICES ASSUME NEW i \in 1 .. capacity - 1 PROVE r[i] = q[i + 1]
    OBVIOUS
  <2>1. /\ i \in 1 .. capacity /\ i + 1 \in 1 .. capacity /\ 1 + i <= capacity
        /\ 1 + i = i + 1 /\ i + 1 # 1
    BY CapacityType, SMT
  <2>2. Pos(h, i) = Pos(head, i + 1)
    BY <1>2, <2>1, PosShift, WindowFacts
  <2>3. Pos(head, i + 1) \in Slot /\ Pos(head, i + 1) # head
    BY <1>2, <1>6, <2>1, PosType, PosDistinct, WindowFacts
  <2>4. q[i + 1] = items[Pos(head, i + 1)] /\ r[i] = items'[Pos(h, i)]
    BY <1>1, <1>5, <2>1, WindowFacts, Zenon
  <2> HIDE DEF r, q, h
  <2> QED
    BY <2>2, <2>3, <2>4, <1>1, WindowFacts
<1>8. r[capacity] = x
  <2>1. Pos(h, capacity) = head
    BY WindowFacts, PosWrap
  <2> HIDE DEF r, h
  <2> QED
    BY <1>1, <1>2, <1>5, <2>1, WindowFacts
<1>9. r = Append(Tail(q), x) /\ items[head] = Head(q) /\ Len(q) = capacity
  <2>1. x \in Cell /\ q \in Seq(Cell) /\ Len(q) = capacity /\ q[1] = items[head]
    BY <1>1, <1>2, <1>6, WindowFacts DEF Cell
  <2> HIDE DEF x, q, r
  <2>2. q # <<>> /\ Head(q) = q[1]
    BY <2>1, CapacityType
  <2> QED
    BY <1>5, <1>7, <1>8, <2>1, <2>2, DisplaceAt
<1> QED
  BY <1>1, <1>9 DEF Fifo!Displace, OfferLocked

LEMMA DropNewestRefines ==
  ASSUME IInv, NEW c \in Callers, OfferLocked(c), DropNewest(offering[c])
  PROVE  Fifo!Refuse(offering[c])
<1>1. size = capacity
  BY CapacityType, SMT DEF DropNewest, Full, IInv, TypeOK
<1>2. UNCHANGED Oldest(size)
  BY OldestIsReading DEF DropNewest, indexVars, Reading
<1> QED
  BY <1>1, <1>2, WindowFacts
  DEF Fifo!Refuse, DropNewest, RecordDropped, OfferLocked

LEMMA TakeFrontRefines ==
  ASSUME IInv, IInv', NEW n \in 1 .. size, TakeFront(n)
  PROVE  Fifo!Deliver(n)
<1> DEFINE q == Oldest(size)
           r == Oldest(size)'
           h == IF head + n < capacity THEN head + n ELSE head + n - capacity
<1>1. /\ n \in 0 .. capacity /\ n \in 0 .. size /\ size - n \in 0 .. capacity
      /\ size' = size - n
  BY WindowFacts, CapacityType, SMT DEF TakeFront
<1>2. head' = h /\ h \in Slot
  BY <1>1, SlotAfter, WindowFacts DEF TakeFront
<1>3. items' \in [Slot -> Cell]
  BY WindowFacts DEF Cell, TakeFront
<1>4. /\ r \in Seq(Cell) /\ Len(r) = size - n
      /\ \A i \in 1 .. size - n : r[i] = items'[Pos(h, i)]
  <2>1. r = Reading(items', h, size - n)
    BY <1>1, <1>2, OldestIsReading, Zenon
  <2>2. /\ Reading(items', h, size - n) \in Seq(Cell)
        /\ Len(Reading(items', h, size - n)) = size - n
        /\ \A i \in 1 .. size - n : Reading(items', h, size - n)[i] = items'[Pos(h, i)]
    <3> HIDE DEF h
    <3> QED
      BY <1>1, <1>2, <1>3, ReadingAt, ZenonT(30)
  <2> HIDE DEF r, h
  <2> QED
    BY <2>1, <2>2, Zenon
<1>5. \A i \in 1 .. size - n : r[i] = q[n + i]
  <2> SUFFICES ASSUME NEW i \in 1 .. size - n PROVE r[i] = q[n + i]
    OBVIOUS
  <2>1. /\ i \in 1 .. capacity /\ n + i \in 1 .. capacity /\ n + i <= capacity
        /\ n + i \in 1 .. size
    BY <1>1, WindowFacts, CapacityType, SMT
  <2>2. Pos(h, i) = Pos(head, n + i)
    BY <1>1, <2>1, PosShift, WindowFacts
  <2>3. Pos(head, n + i) \in Slot
    BY <2>1, PosType, WindowFacts
  <2>4. Pos(head, n + i) \notin Freed(n)
    <3> DEFINE p == Pos(head, n + i)
    <3>1. ~((IF p >= head THEN p - head ELSE p - head + capacity) < n)
      BY <1>1, <2>1, WindowFacts, CapacityType, SMTT(30) DEF Pos, Slot
    <3> HIDE DEF p
    <3>2. p \notin Freed(n)
      BY <1>1, <2>3, <3>1, FreedSlots DEF p
    <3> QED
      BY <3>2 DEF p
  <2>5. q[n + i] = items[Pos(head, n + i)] /\ r[i] = items'[Pos(h, i)]
    BY <1>4, <2>1, WindowFacts, Zenon
  <2> HIDE DEF r, q, h
  <2> QED
    BY <2>2, <2>3, <2>4, <2>5 DEF TakeFront
<1>6. r = SubSeq(q, n + 1, Len(q))
  <2>1. q \in Seq(Cell) /\ Len(q) = size
    BY WindowFacts
  <2> HIDE DEF q, r
  <2> QED
    BY <1>1, <1>4, <1>5, <2>1, SubSeqAt
<1>7. Oldest(n) = SubSeq(q, 1, n)
  <2>1. q \in Seq(Cell) /\ Len(q) = size
    BY WindowFacts
  <2>2. /\ Oldest(n) \in Seq(Cell) /\ Len(Oldest(n)) = n
    BY <1>1, OldestType DEF Cell
  <2>3. \A i \in 1 .. n : Oldest(n)[i] = q[i]
    <3>1. \A i \in 1 .. n : i \in 1 .. size
      BY <1>1, WindowFacts, SMT
    <3> QED
      BY <3>1, Zenon DEF Oldest
  <2> HIDE DEF q
  <2> QED
    BY <1>1, <2>1, <2>2, <2>3, PrefixAt
<1> QED
  BY <1>6, <1>7 DEF Fifo!Deliver, TakeFront

LEMMA DrainRefines ==
  ASSUME IInv, Drain
  PROVE  Fifo!Deliver(size) /\ size \in 1 .. size
<1> DEFINE q == Oldest(size)
<1>1. size \in 1 .. size /\ size \in Nat
  BY WindowFacts, CapacityType, SMT DEF Drain
<1>2. Oldest(size)' = <<>>
  BY OldestIsReading DEF Drain, Reading
<1>3. q \in Seq(Cell) /\ Len(q) = size
  BY WindowFacts
<1> HIDE DEF q
<1>4. q = SubSeq(q, 1, size) /\ SubSeq(q, size + 1, Len(q)) = <<>>
  BY <1>1, <1>3
<1> QED
  BY <1>1, <1>2, <1>3, <1>4 DEF Fifo!Deliver, Drain, q

LEMMA ClearRefines ==
  ASSUME IInv, Clear
  PROVE  Fifo!Wipe
<1>1. Oldest(size)' = <<>>
  BY OldestIsReading DEF Clear, Reading
<1> QED
  BY <1>1 DEF Fifo!Wipe, Clear

\* Every step is one of three kinds: it counts an offer, settles one, or
\* leaves the offers alone; and each acts on the queue as the abstract one does.
LEMMA StepKinds ==
  ASSUME IInv, IInv', [Next]_vars
  PROVE  \/ \E c \in Callers : CountOffer(c) /\ UNCHANGED Fifo!vars
         \/ \E c \in Callers :
              /\ OfferLocked(c) /\ offering[c] \in Item
              /\ \/ Fifo!Accept(offering[c])
                 \/ Fifo!Displace(offering[c])
                 \/ Fifo!Refuse(offering[c])
         \/ /\ (\E n \in 1 .. size : Fifo!Deliver(n)) \/ Fifo!Wipe \/ UNCHANGED Fifo!vars
            /\ UNCHANGED <<offered, offering, dropped, recorded>>
<1>0. policy' = policy
  BY DEF Next, vars
<1>1. CASE \E c \in Callers : OfferLocked(c)
  <2>1. PICK c \in Callers : OfferLocked(c)
    BY <1>1
  <2>2. offering[c] \in Item
    BY <2>1 DEF IInv, TypeOK, OfferLocked
  <2>3. \/ Fifo!Accept(offering[c])
        \/ Fifo!Displace(offering[c])
        \/ Fifo!Refuse(offering[c])
    BY <2>1, StoreRefines, DropOldestRefines, DropNewestRefines DEF OfferLocked
  <2> QED
    BY <2>1, <2>2, <2>3
<1>2. CASE Poll \/ PollBatch \/ PollIfReady
  <2>1. PICK n \in 1 .. size : TakeFront(n)
    <3>1. size \in Nat /\ batchSize \in Nat \ {0}
      BY CapacityType, ArgsAssumption, SMT
      DEF IInv, TypeOK, ArgsAssumption, batchSize
    <3>2. CASE Poll
      BY <3>1, <3>2, SMT DEF Poll
    <3>3. CASE PollBatch
      BY <3>1, <3>3 DEF PollBatch
    <3>4. CASE PollIfReady
      <4>1. (IF batchSize > size THEN size ELSE batchSize) \in 1 .. size
        BY <3>1, <3>4, SMT DEF PollIfReady, Ready
      <4> QED
        BY <3>4, <4>1 DEF PollIfReady
    <3> QED
      BY <1>2, <3>2, <3>3, <3>4
  <2>2. Fifo!Deliver(n)
    BY <2>1, TakeFrontRefines
  <2> QED
    BY <2>1, <2>2 DEF TakeFront
<1>3. CASE Drain
  BY <1>3, DrainRefines DEF Drain
<1>4. CASE Clear
  BY <1>4, ClearRefines DEF Clear
<1>5. CASE (\E c \in Callers : CountOffer(c)) \/ Tick \/ MarkFlushed \/ UNCHANGED vars
  <2>1. UNCHANGED <<items, head, size, taken, recorded, cleared>>
    BY <1>5 DEF CountOffer, Tick, MarkFlushed, vars, indexVars, history
  <2>2. UNCHANGED Fifo!vars
    BY <1>0, <2>1, OldestIsReading DEF Fifo!vars
  <2>3. CASE \E c \in Callers : CountOffer(c)
    BY <2>2, <2>3
  <2>4. CASE Tick \/ MarkFlushed \/ UNCHANGED vars
    BY <2>2, <2>4 DEF Tick, MarkFlushed, vars, history
  <2> QED
    BY <1>5, <2>3, <2>4
<1> QED
  BY <1>1, <1>2, <1>3, <1>4, <1>5 DEF Next

\* The array implements the abstract queue: whatever the capacity and the
\* policy, its window read from head onwards behaves as a bounded first-in
\* first-out queue, and a full one gives up exactly the item the policy names.
THEOREM FifoImplemented == Spec => ImplementsFifo
<1>1. Init => Fifo!Init
  BY OldestIsReading DEF Init, Fifo!Init, Reading
<1>2. ASSUME IInv, IInv', [Next]_vars PROVE [Fifo!Next]_(Fifo!vars)
  <2>1. 1 .. size = 1 .. Len(Oldest(size))
    BY <1>2, WindowFacts
  <2>2. policy' = policy
    BY <1>2 DEF Next, vars
  <2> QED
    BY <1>2, <2>1, <2>2, StepKinds DEF Fifo!Next
<1> QED
  BY <1>1, <1>2, InitInv, StepInv, PTL DEF Spec, ImplementsFifo, Fifo!Spec

(***************************************************************************)
(* The accounting of items                                                 *)
(***************************************************************************)

\* Everything an Offer has handed over, and how many places it fills.
Settled == Elements(Oldest(size)) \cup Elements(taken)
             \cup Elements(recorded) \cup Elements(cleared)
Places == Len(Oldest(size)) + Len(taken) + Len(recorded) + Len(cleared)

LEMMA AppendElements ==
  ASSUME NEW S, NEW s \in Seq(S), NEW x \in S
  PROVE  /\ Elements(Append(s, x)) = Elements(s) \cup {x}
         /\ Len(Append(s, x)) = Len(s) + 1
<1>1. /\ Len(Append(s, x)) = Len(s) + 1 /\ Len(s) \in Nat
      /\ \A i \in 1 .. Len(s) : Append(s, x)[i] = s[i]
      /\ Append(s, x)[Len(s) + 1] = x
  OBVIOUS
<1>2. 1 .. (Len(s) + 1) = (1 .. Len(s)) \cup {Len(s) + 1}
  BY <1>1, SMT
<1> QED
  BY <1>1, <1>2 DEF Elements

LEMMA TailElements ==
  ASSUME NEW S, NEW s \in Seq(S), s # <<>>
  PROVE  /\ Elements(s) = {Head(s)} \cup Elements(Tail(s))
         /\ Len(Tail(s)) = Len(s) - 1
         /\ Tail(s) \in Seq(S) /\ Head(s) \in S
<1>1. /\ Len(s) \in Nat /\ Len(s) >= 1 /\ Head(s) = s[1]
      /\ Tail(s) \in Seq(S) /\ Len(Tail(s)) = Len(s) - 1
      /\ \A i \in 1 .. Len(s) - 1 : Tail(s)[i] = s[i + 1]
      /\ s[1] \in S
  OBVIOUS
<1>2. ASSUME NEW i \in 1 .. Len(s) PROVE s[i] \in {Head(s)} \cup Elements(Tail(s))
  <2>1. CASE i = 1
    BY <1>1, <2>1
  <2>2. CASE i # 1
    <3>1. i - 1 \in 1 .. Len(s) - 1 /\ (i - 1) + 1 = i
      BY <1>1, <2>2, SMT
    <3> QED
      BY <1>1, <3>1 DEF Elements
  <2> QED
    BY <2>1, <2>2
<1>3. ASSUME NEW i \in 1 .. Len(Tail(s)) PROVE Tail(s)[i] \in Elements(s)
  <2>1. i + 1 \in 1 .. Len(s)
    BY <1>1, SMT
  <2> QED
    BY <1>1, <2>1 DEF Elements
<1>4. s[1] \in Elements(s)
  BY <1>1 DEF Elements
<1> QED
  BY <1>1, <1>2, <1>3, <1>4 DEF Elements

LEMMA ConcatElements ==
  ASSUME NEW S, NEW s \in Seq(S), NEW t \in Seq(S)
  PROVE  /\ Elements(s \o t) = Elements(s) \cup Elements(t)
         /\ Len(s \o t) = Len(s) + Len(t)
<1>1. /\ Len(s \o t) = Len(s) + Len(t) /\ Len(s) \in Nat /\ Len(t) \in Nat
      /\ \A i \in 1 .. Len(s) : (s \o t)[i] = s[i]
      /\ \A i \in 1 .. Len(s) + Len(t) : i > Len(s) => (s \o t)[i] = t[i - Len(s)]
  OBVIOUS
<1>2. \A i \in 1 .. Len(s) : i \in 1 .. Len(s) + Len(t)
  BY <1>1, SMT
<1>3. ASSUME NEW i \in 1 .. Len(t) PROVE t[i] \in Elements(s \o t)
  <2>1. /\ i + Len(s) \in 1 .. Len(s) + Len(t) /\ i + Len(s) > Len(s)
        /\ (i + Len(s)) - Len(s) = i
    BY <1>1, SMT
  <2> QED
    BY <1>1, <2>1 DEF Elements
<1>4. ASSUME NEW i \in 1 .. Len(s) + Len(t)
      PROVE  (s \o t)[i] \in Elements(s) \cup Elements(t)
  <2>1. CASE i <= Len(s)
    <3>1. i \in 1 .. Len(s)
      BY <1>1, <2>1, SMT
    <3> QED
      BY <1>1, <3>1 DEF Elements
  <2>2. CASE i > Len(s)
    <3>1. i - Len(s) \in 1 .. Len(t)
      BY <1>1, <2>2, SMT
    <3> QED
      BY <1>1, <2>2, <3>1 DEF Elements
  <2> QED
    BY <1>1, <2>1, <2>2, SMT
<1>5. Elements(s \o t) \subseteq Elements(s) \cup Elements(t)
  BY <1>1, <1>4 DEF Elements
<1>6. Elements(s) \subseteq Elements(s \o t)
  BY <1>1, <1>2 DEF Elements
<1>7. Elements(t) \subseteq Elements(s \o t)
  BY <1>3 DEF Elements
<1> QED
  BY <1>1, <1>5, <1>6, <1>7

\* What each abstract step does to the items held and reported.
LEMMA StepElements ==
  ASSUME IInv, IInv'
  PROVE  /\ \A x \in Item : Fifo!Accept(x) \/ Fifo!Displace(x) \/ Fifo!Refuse(x) =>
              Settled' = Settled \cup {x} /\ Places' = Places + 1
         /\ \A n \in 1 .. size : Fifo!Deliver(n) =>
              Settled' = Settled /\ Places' = Places
         /\ Fifo!Wipe => Settled' = Settled /\ Places' = Places
<1> DEFINE q == Oldest(size)
<1>1. /\ q \in Seq(Item) /\ taken \in Seq(Item)
      /\ recorded \in Seq(Item) /\ cleared \in Seq(Item)
      /\ Len(q) = size /\ size \in Nat /\ size <= capacity
      /\ Len(taken) \in Nat /\ Len(recorded) \in Nat /\ Len(cleared) \in Nat
  <2>1. size \in 0 .. size /\ size \in Nat /\ size <= capacity
    BY WindowFacts, CapacityType, SMT
  <2>2. taken \in Seq(Item) /\ recorded \in Seq(Item) /\ cleared \in Seq(Item)
    BY DEF IInv, TypeOK
  <2> QED
    BY <2>1, <2>2, OldestType
<1> DEFINE r == Oldest(size)'
<1>2. /\ Settled = Elements(q) \cup Elements(taken) \cup Elements(recorded) \cup Elements(cleared)
      /\ Settled' = Elements(r) \cup Elements(taken') \cup Elements(recorded') \cup Elements(cleared')
  BY DEF Settled, Elements
<1>3. /\ Places = Len(q) + Len(taken) + Len(recorded) + Len(cleared)
      /\ Places' = Len(r) + Len(taken') + Len(recorded') + Len(cleared')
  BY DEF Places
<1>4. ASSUME NEW x \in Item, Fifo!Accept(x)
      PROVE  Settled' = Settled \cup {x} /\ Places' = Places + 1
  <2>1. r = Append(q, x) /\ taken' = taken /\ recorded' = recorded /\ cleared' = cleared
    BY <1>4 DEF Fifo!Accept
  <2> HIDE DEF q, r
  <2>2. Elements(r) = Elements(q) \cup {x} /\ Len(r) = Len(q) + 1
    BY <1>1, <2>1, AppendElements
  <2>3. Settled' = Settled \cup {x}
    BY <1>2, <2>1, <2>2
  <2>4. Places' = Places + 1
    BY <1>1, <1>3, <2>1, <2>2, SMT
  <2> QED
    BY <2>3, <2>4
<1>5. ASSUME NEW x \in Item, Fifo!Displace(x)
      PROVE  Settled' = Settled \cup {x} /\ Places' = Places + 1
  <2>1. /\ r = Append(Tail(q), x) /\ recorded' = Append(recorded, Head(q))
        /\ taken' = taken /\ cleared' = cleared /\ Len(q) = capacity
    BY <1>5 DEF Fifo!Displace
  <2> HIDE DEF q, r
  <2>2. q # <<>>
    BY <1>1, <2>1, CapacityType
  <2>3. /\ Tail(q) \in Seq(Item) /\ Head(q) \in Item
        /\ Elements(q) = {Head(q)} \cup Elements(Tail(q))
        /\ Len(Tail(q)) = Len(q) - 1
    BY <1>1, <2>2, TailElements
  <2>4. /\ Elements(r) = Elements(Tail(q)) \cup {x}
        /\ Len(r) = Len(Tail(q)) + 1
    <3> DEFINE t == Tail(q)
    <3>1. t \in Seq(Item) /\ r = Append(t, x)
      BY <2>1, <2>3
    <3> HIDE DEF t
    <3>2. Elements(r) = Elements(t) \cup {x} /\ Len(r) = Len(t) + 1
      BY <3>1, AppendElements
    <3> QED
      BY <3>2 DEF t
  <2>5. /\ Elements(recorded') = Elements(recorded) \cup {Head(q)}
        /\ Len(recorded') = Len(recorded) + 1
    BY <1>1, <2>1, <2>3, AppendElements
  <2>6. Settled' = Settled \cup {x}
    BY <1>2, <2>1, <2>3, <2>4, <2>5
  <2>7. Places' = Places + 1
    BY <1>1, <1>3, <2>1, <2>3, <2>4, <2>5, SMTT(30)
  <2> QED
    BY <2>6, <2>7
<1>6. ASSUME NEW x \in Item, Fifo!Refuse(x)
      PROVE  Settled' = Settled \cup {x} /\ Places' = Places + 1
  <2>1. r = q /\ recorded' = Append(recorded, x) /\ taken' = taken /\ cleared' = cleared
    BY <1>6 DEF Fifo!Refuse
  <2> HIDE DEF q, r
  <2>2. /\ Elements(recorded') = Elements(recorded) \cup {x}
        /\ Len(recorded') = Len(recorded) + 1
    BY <1>1, <2>1, AppendElements
  <2>3. Settled' = Settled \cup {x}
    BY <1>2, <2>1, <2>2
  <2>4. Places' = Places + 1
    BY <1>1, <1>3, <2>1, <2>2, SMT
  <2> QED
    BY <2>3, <2>4
<1>7. ASSUME NEW n \in 1 .. size, Fifo!Deliver(n)
      PROVE  Settled' = Settled /\ Places' = Places
  <2>1. /\ taken' = taken \o SubSeq(q, 1, n) /\ r = SubSeq(q, n + 1, Len(q))
        /\ recorded' = recorded /\ cleared' = cleared
    BY <1>7 DEF Fifo!Deliver
  <2> HIDE DEF q, r
  <2> DEFINE a == SubSeq(q, 1, n)
             b == SubSeq(q, n + 1, Len(q))
  <2>2. /\ a \in Seq(Item) /\ b \in Seq(Item) /\ q = a \o b
        /\ Len(a) \in Nat /\ Len(b) \in Nat
    BY <1>1
  <2>3. taken' = taken \o a /\ r = b
    BY <2>1
  <2> HIDE DEF a, b
  <2>4. Elements(q) = Elements(a) \cup Elements(b) /\ Len(q) = Len(a) + Len(b)
    BY <2>2, ConcatElements
  <2>5. /\ Elements(taken') = Elements(taken) \cup Elements(a)
        /\ Len(taken') = Len(taken) + Len(a)
    BY <1>1, <2>2, <2>3, ConcatElements
  <2>6. Settled' = Settled
    BY <1>2, <2>1, <2>3, <2>4, <2>5
  <2>7. Places' = Places
    BY <1>1, <1>3, <2>1, <2>2, <2>3, <2>4, <2>5, SMTT(30)
  <2> QED
    BY <2>6, <2>7
<1>8. ASSUME Fifo!Wipe
      PROVE  Settled' = Settled /\ Places' = Places
  <2>1. cleared' = cleared \o q /\ r = <<>> /\ taken' = taken /\ recorded' = recorded
    BY <1>8 DEF Fifo!Wipe
  <2> HIDE DEF q, r
  <2>2. Elements(r) = {} /\ Len(r) = 0
    BY <2>1 DEF Elements
  <2>3. /\ Elements(cleared') = Elements(cleared) \cup Elements(q)
        /\ Len(cleared') = Len(cleared) + Len(q)
    <3>1. cleared \in Seq(Item) /\ q \in Seq(Item)
      BY <1>1
    <3>2. /\ Elements(cleared \o q) = Elements(cleared) \cup Elements(q)
          /\ Len(cleared \o q) = Len(cleared) + Len(q)
      BY <3>1, ConcatElements, ZenonT(30)
    <3> QED
      BY <2>1, <3>2
  <2>4. Settled' = Settled
    BY <1>2, <2>1, <2>2, <2>3
  <2>5. Places' = Places
    BY <1>1, <1>3, <2>1, <2>2, <2>3, SMT
  <2> QED
    BY <2>4, <2>5
<1> QED
  BY <1>4, <1>5, <1>6, <1>7, <1>8

AInv == IInv /\ Accounting

\* Accounting in those terms.
AccountingForm ==
  /\ offered = Cardinality(InFlight) + Places
  /\ 1 .. offered = {offering[c] : c \in InFlight} \cup Settled
  /\ dropped = Len(recorded)

LEMMA AccountingRestated == IInv => (Accounting <=> AccountingForm)
<1> SUFFICES ASSUME IInv PROVE Accounting <=> AccountingForm
  OBVIOUS
<1>1. /\ Len(Oldest(size)) = size /\ size \in Nat
      /\ Len(taken) \in Nat /\ Len(recorded) \in Nat /\ Len(cleared) \in Nat
  BY WindowFacts, CapacityType, SMT DEF IInv, TypeOK
<1>2. IsFiniteSet(InFlight) /\ Cardinality(InFlight) \in Nat
  BY ArgsAssumption, FS_Subset, FS_CardinalityType DEF ArgsAssumption, InFlight
<1>3. Cardinality(InFlight) + size + Len(taken) + Len(recorded) + Len(cleared)
        = Cardinality(InFlight) + Places
  BY <1>1, <1>2, SMT DEF Places
<1> QED
  BY <1>3 DEF Accounting, AccountingForm, Settled

LEMMA AccountingStep == AInv /\ IInv' /\ [Next]_vars => Accounting'
<1> SUFFICES ASSUME AInv, IInv, IInv', [Next]_vars PROVE Accounting'
  BY DEF AInv
<1>1. /\ offered = Cardinality(InFlight) + Places
      /\ 1 .. offered = {offering[c] : c \in InFlight} \cup Settled
      /\ dropped = Len(recorded)
  BY AccountingRestated DEF AInv, AccountingForm
<1>2. /\ IsFiniteSet(InFlight) /\ Cardinality(InFlight) \in Nat
      /\ Places \in Nat /\ offered \in Nat
      /\ recorded \in Seq(Item)
  <2>1. IsFiniteSet(InFlight) /\ Cardinality(InFlight) \in Nat
    BY ArgsAssumption, FS_Subset, FS_CardinalityType DEF ArgsAssumption, InFlight
  <2>2. /\ Len(taken) \in Nat /\ Len(recorded) \in Nat /\ Len(cleared) \in Nat
        /\ Len(Oldest(size)) \in Nat /\ offered \in Nat /\ recorded \in Seq(Item)
    BY WindowFacts, ArgsAssumption, SMT DEF IInv, TypeOK, ArgsAssumption
  <2>3. Places \in Nat
    BY <2>2, SMT DEF Places
  <2> QED
    BY <2>1, <2>2, <2>3
<1> SUFFICES /\ offered' = Cardinality(InFlight)' + Places'
             /\ (1 .. offered)' = {offering'[c] : c \in InFlight'} \cup Settled'
             /\ dropped' = Len(recorded')
  <2>1. Accounting' <=> AccountingForm'
    BY AccountingRestated, PTL
  <2> QED
    BY <2>1 DEF AccountingForm
<1>3. ASSUME NEW c \in Callers, CountOffer(c), UNCHANGED Fifo!vars
      PROVE  /\ offered' = Cardinality(InFlight)' + Places'
             /\ (1 .. offered)' = {offering'[d] : d \in InFlight'} \cup Settled'
             /\ dropped' = Len(recorded')
  <2>1. Places' = Places /\ Settled' = Settled
    BY <1>3 DEF Places, Settled, Elements, Fifo!vars
  <2>2. /\ offering[c] = NoItem /\ offered' = offered + 1 /\ offered' # NoItem
        /\ offering' = [offering EXCEPT ![c] = offered']
        /\ UNCHANGED <<dropped, recorded>>
    BY <1>2, <1>3, SMT DEF CountOffer, history, NoItem
  <2>3. c \notin InFlight /\ InFlight' = InFlight \cup {c}
    BY <2>2 DEF InFlight, IInv, TypeOK
  <2>4. Cardinality(InFlight') = Cardinality(InFlight) + 1
    BY <1>2, <2>3, FS_AddElement
  <2>5. {offering'[d] : d \in InFlight'} = {offering[d] : d \in InFlight} \cup {offered'}
    BY <2>2, <2>3 DEF IInv, TypeOK, InFlight
  <2>6. 1 .. offered' = (1 .. offered) \cup {offered'}
    BY <1>2, <2>2, SMT
  <2>7. offered' = Cardinality(InFlight') + Places'
    BY <1>1, <1>2, <2>1, <2>2, <2>4, SMT
  <2> QED
    BY <1>1, <2>1, <2>2, <2>5, <2>6, <2>7
<1>4. ASSUME NEW c \in Callers, OfferLocked(c), offering[c] \in Item,
             \/ Fifo!Accept(offering[c])
             \/ Fifo!Displace(offering[c])
             \/ Fifo!Refuse(offering[c])
      PROVE  /\ offered' = Cardinality(InFlight)' + Places'
             /\ (1 .. offered)' = {offering'[d] : d \in InFlight'} \cup Settled'
             /\ dropped' = Len(recorded')
  <2>1. Settled' = Settled \cup {offering[c]} /\ Places' = Places + 1
    BY <1>4, StepElements
  <2>2. /\ offering[c] # NoItem /\ offered' = offered
        /\ offering' = [offering EXCEPT ![c] = NoItem]
    BY <1>4 DEF OfferLocked
  <2>3. c \in InFlight /\ InFlight' = InFlight \ {c}
    BY <2>2 DEF InFlight, IInv, TypeOK
  <2>4. Cardinality(InFlight') = Cardinality(InFlight) - 1
    BY <1>2, <2>3, FS_RemoveElement
  <2>5. {offering[d] : d \in InFlight}
          = {offering'[d] : d \in InFlight'} \cup {offering[c]}
    BY <2>2, <2>3 DEF IInv, TypeOK, InFlight
  <2>6. dropped' = Len(recorded')
    <3>1. CASE UNCHANGED <<dropped, recorded>>
      BY <1>1, <3>1
    <3>2. CASE \E x : RecordDropped(x)
      BY <1>1, <1>2, <3>2 DEF RecordDropped
    <3> QED
      BY <1>4, <3>1, <3>2 DEF OfferLocked, StoreItem, DropOldest, DropNewest
  <2>7. offered' = Cardinality(InFlight') + Places'
    BY <1>1, <1>2, <2>1, <2>2, <2>4, SMT
  <2> QED
    BY <1>1, <2>1, <2>2, <2>5, <2>6, <2>7
<1>5. ASSUME (\E n \in 1 .. size : Fifo!Deliver(n)) \/ Fifo!Wipe \/ UNCHANGED Fifo!vars,
             UNCHANGED <<offered, offering, dropped, recorded>>
      PROVE  /\ offered' = Cardinality(InFlight)' + Places'
             /\ (1 .. offered)' = {offering'[d] : d \in InFlight'} \cup Settled'
             /\ dropped' = Len(recorded')
  <2>1. Places' = Places /\ Settled' = Settled
    <3>1. CASE UNCHANGED Fifo!vars
      BY <3>1 DEF Places, Settled, Elements, Fifo!vars
    <3>2. CASE (\E n \in 1 .. size : Fifo!Deliver(n)) \/ Fifo!Wipe
      BY <3>2, StepElements
    <3> QED
      BY <1>5, <3>1, <3>2
  <2>2. InFlight' = InFlight /\ offering' = offering
    BY <1>5 DEF InFlight
  <2> QED
    BY <1>1, <1>5, <2>1, <2>2
<1> QED
  BY <1>3, <1>4, <1>5, StepKinds

\* No item is forgotten or counted twice, for any number of callers: what was
\* offered is in flight, held, delivered, reported or cleared, and each in one
\* place; the drop counter counts the reports.
THEOREM NothingForgotten == Spec => []Accounting
<1>1. Init => Accounting
  <2> SUFFICES ASSUME Init PROVE Accounting
    OBVIOUS
  <2>1. InFlight = {} /\ Cardinality({}) = 0
    BY FS_EmptySet DEF Init, InFlight
  <2>2. /\ Oldest(size) = <<>> /\ Elements(<<>>) = {}
        /\ taken = <<>> /\ recorded = <<>> /\ cleared = <<>>
        /\ offered = 0 /\ dropped = 0 /\ size = 0
    BY DEF Init, Oldest, Elements
  <2>3. 1 .. 0 = {}
    BY SMT
  <2> QED
    BY <2>1, <2>2, <2>3 DEF Accounting
<1> QED
  BY <1>1, InitInv, StepInv, AccountingStep, PTL DEF Spec, AInv


(***************************************************************************)
(* BucketedBuffer: the slots                                               *)
(***************************************************************************)

LEMMA Remainder ==
  ASSUME NEW c \in Nat \ {0}, NEW x \in 0 .. 2 * c - 1
  PROVE  x % c = IF x < c THEN x ELSE x - c
<1>1. CASE x < c
  BY <1>1, SMT
<1>2. CASE x >= c
  <2>1. x = 1 * c + (x - c) /\ x - c \in 0 .. c - 1
    BY <1>2, SMT
  <2> QED
    BY <1>2, <2>1, SMT
<1> QED
  BY <1>1, <1>2, SMT

LEMMA CapacityFacts ==
  ASSUME BucketAssumption
  PROVE  bucketCapacity \in Nat \ {0}
<1>1. itemCapacity \div ItemsPerBucket \in Int
  BY SMT DEF BucketAssumption
<1> QED
  BY <1>1, SMT DEF BucketAssumption, bucketCapacity

\* The slot that is k further than h.
Wrap(h, k) == (h + k) % bucketCapacity

LEMMA WrapFacts ==
  ASSUME BucketAssumption, NEW h \in BucketSlot, NEW k \in 0 .. bucketCapacity
  PROVE  /\ Wrap(h, k) \in BucketSlot
         /\ Wrap(h, k) = IF h + k < bucketCapacity THEN h + k ELSE h + k - bucketCapacity
<1> DEFINE x == h + k
<1>1. bucketCapacity \in Nat \ {0}
  BY CapacityFacts
<1>2. x \in 0 .. 2 * bucketCapacity - 1
  BY <1>1, SMT DEF BucketSlot
<1>3. x % bucketCapacity = IF x < bucketCapacity THEN x ELSE x - bucketCapacity
  <2> HIDE DEF x
  <2> QED
    BY <1>1, <1>2, Remainder
<1>4. Wrap(h, k) = x % bucketCapacity
  BY DEF Wrap
<1>5. h \in 0 .. bucketCapacity - 1
  BY DEF BucketSlot
<1>6. (IF x < bucketCapacity THEN x ELSE x - bucketCapacity) \in 0 .. bucketCapacity - 1
  BY <1>1, <1>2, SMT
<1> HIDE DEF x
<1>7. Wrap(h, k) \in BucketSlot /\ Wrap(h, k) = IF x < bucketCapacity THEN x ELSE x - bucketCapacity
  BY <1>3, <1>4, <1>6 DEF BucketSlot
<1> QED
  BY <1>1, <1>5, <1>7 DEF x

LEMMA WrapDistinct ==
  ASSUME BucketAssumption, NEW h \in BucketSlot, NEW j \in 0 .. bucketCapacity - 1,
         NEW k \in 0 .. bucketCapacity - 1, Wrap(h, j) = Wrap(h, k)
  PROVE  j = k
<1>1. bucketCapacity \in Nat \ {0} /\ j \in 0 .. bucketCapacity /\ k \in 0 .. bucketCapacity
  BY CapacityFacts, SMT
<1>2. /\ Wrap(h, j) = IF h + j < bucketCapacity THEN h + j ELSE h + j - bucketCapacity
      /\ Wrap(h, k) = IF h + k < bucketCapacity THEN h + k ELSE h + k - bucketCapacity
  BY <1>1, WrapFacts
<1>3. h \in 0 .. bucketCapacity - 1
  BY DEF BucketSlot
<1>4. (IF h + j < bucketCapacity THEN h + j ELSE h + j - bucketCapacity) =
        IF h + k < bucketCapacity THEN h + k ELSE h + k - bucketCapacity
  BY <1>2, Zenon
<1> QED
  BY <1>1, <1>3, <1>4, SMT

LEMMA WrapTwice ==
  ASSUME BucketAssumption, NEW h \in BucketSlot, NEW j \in 0 .. bucketCapacity, NEW k \in 0 .. bucketCapacity
  PROVE  /\ Wrap(Wrap(h, j), k) = Wrap(Wrap(h, k), j)
         /\ j + k <= bucketCapacity => Wrap(Wrap(h, j), k) = Wrap(h, j + k)
<1>1. bucketCapacity \in Nat \ {0}
  BY CapacityFacts
<1> DEFINE hj == Wrap(h, j)
           hk == Wrap(h, k)
<1>2. /\ hj \in BucketSlot /\ hj = IF h + j < bucketCapacity THEN h + j ELSE h + j - bucketCapacity
      /\ hk \in BucketSlot /\ hk = IF h + k < bucketCapacity THEN h + k ELSE h + k - bucketCapacity
  BY WrapFacts
<1>3. j + k <= bucketCapacity => j + k \in 0 .. bucketCapacity
  BY <1>1, SMT
<1>4. j + k <= bucketCapacity =>
        Wrap(h, j + k) = IF h + (j + k) < bucketCapacity THEN h + (j + k) ELSE h + (j + k) - bucketCapacity
  BY <1>3, WrapFacts
<1> HIDE DEF hj, hk
<1>5. /\ Wrap(hj, k) = IF hj + k < bucketCapacity THEN hj + k ELSE hj + k - bucketCapacity
      /\ Wrap(hk, j) = IF hk + j < bucketCapacity THEN hk + j ELSE hk + j - bucketCapacity
  BY <1>2, WrapFacts
<1>6. Wrap(hj, k) = Wrap(hk, j)
  BY <1>1, <1>2, <1>5, SMT DEF BucketSlot
<1>7. j + k <= bucketCapacity => Wrap(hj, k) = Wrap(h, j + k)
  BY <1>1, <1>2, <1>4, <1>5, SMT DEF BucketSlot
<1> QED
  BY <1>6, <1>7 DEF hj, hk

(***************************************************************************)
(* The live buckets, from the oldest on, without their slots.  b has the   *)
(* n of them, ft and of are what became of the items and their traces.     *)
(***************************************************************************)

\* A bucket has items, which are held and of its trace.
Filled(b, n, ft, of) ==
  \A k \in 0 .. n - 1 :
    /\ b[k].items # <<>>
    /\ \A m \in 1 .. Len(b[k].items) :
         LET x == b[k].items[m] IN x \in DOMAIN ft /\ ft[x] = "held" /\ of[x] = b[k].trace

\* The items of a bucket are in the order they came.
Rising(b, n) ==
  \A k \in 0 .. n - 1 : \A l, m \in 1 .. Len(b[k].items) :
    l < m => b[k].items[l] < b[k].items[m]

\* No item is in two buckets, and those of one trace are in order.
Apart(b, n) ==
  \A j, k \in 0 .. n - 1 : j < k =>
    \A l \in 1 .. Len(b[j].items), m \in 1 .. Len(b[k].items) :
      /\ b[j].items[l] # b[k].items[m]
      /\ b[j].trace = b[k].trace /\ b[j].trace # NoTrace => b[j].items[l] < b[k].items[m]

Found(b, n, ft) ==
  \A x \in DOMAIN ft : ft[x] = "held" =>
    \E k \in 0 .. n - 1 : \E m \in 1 .. Len(b[k].items) : b[k].items[m] = x

Sound(b, n, ft, of) == Filled(b, n, ft, of) /\ Rising(b, n) /\ Apart(b, n) /\ Found(b, n, ft)

Fits(b, n, ft, of) ==
  /\ n \in Nat /\ b \in [0 .. n - 1 -> Bucket]
  /\ ft \in Seq(Fates) /\ of \in Seq(Trace \cup {NoTrace}) /\ Len(of) = Len(ft)

\* One more item, of which nothing is known but its fate.
LEMMA NewItem ==
  ASSUME NEW ft \in Seq(Fates), NEW of \in Seq(Trace \cup {NoTrace}), Len(of) = Len(ft),
         NEW c \in Fates, NEW t \in Trace \cup {NoTrace}, NEW x, x = Len(ft) + 1
  PROVE  /\ Append(ft, c) \in Seq(Fates) /\ Append(of, t) \in Seq(Trace \cup {NoTrace})
         /\ Len(Append(of, t)) = Len(Append(ft, c))
         /\ Len(ft) \in Nat /\ DOMAIN ft = 1 .. Len(ft) /\ DOMAIN Append(ft, c) = DOMAIN ft \cup {x}
         /\ x \notin DOMAIN ft /\ x \in Nat
         /\ Append(ft, c)[x] = c /\ Append(of, t)[x] = t
         /\ \A y \in DOMAIN ft : /\ Append(ft, c)[y] = ft[y] /\ Append(of, t)[y] = of[y]
                                 /\ y \in Nat /\ y < x /\ y # x
<1>1. /\ Append(ft, c) \in Seq(Fates) /\ Append(of, t) \in Seq(Trace \cup {NoTrace})
      /\ Len(Append(ft, c)) = Len(ft) + 1 /\ Len(Append(of, t)) = Len(of) + 1
      /\ Len(ft) \in Nat /\ DOMAIN ft = 1 .. Len(ft) /\ DOMAIN Append(ft, c) = 1 .. Len(ft) + 1
      /\ Append(ft, c)[Len(ft) + 1] = c /\ Append(of, t)[Len(of) + 1] = t
      /\ \A y \in 1 .. Len(ft) : Append(ft, c)[y] = ft[y]
      /\ \A y \in 1 .. Len(of) : Append(of, t)[y] = of[y]
  OBVIOUS
<1>2. \A y : y \in 1 .. Len(ft) + 1 <=> y \in 1 .. Len(ft) \/ y = Len(ft) + 1
  BY <1>1
<1> QED
  BY <1>1, <1>2

\* What a bucket with one more item has.
LEMMA MoreItems ==
  ASSUME NEW s \in Seq(BucketItem), NEW x \in BucketItem
  PROVE  /\ Append(s, x) \in Seq(BucketItem) /\ Append(s, x) # <<>> /\ Len(s) \in Nat
         /\ Len(Append(s, x)) = Len(s) + 1 /\ Append(s, x)[Len(s) + 1] = x
         /\ \A m \in 1 .. Len(s) : Append(s, x)[m] = s[m] /\ m \in 1 .. Len(s) + 1
         /\ \A m \in 1 .. Len(s) + 1 : m \in 1 .. Len(s) \/ m = Len(s) + 1
         /\ Len(s) + 1 \in 1 .. Len(s) + 1
  OBVIOUS

LEMMA SoundAppend ==
  ASSUME NEW b, NEW n, NEW ft, NEW of, Fits(b, n, ft, of), Sound(b, n, ft, of),
         NEW p \in 0 .. n - 1, NEW x \in BucketItem, x = Len(ft) + 1, NEW t \in Trace, b[p].trace = t,
         \A j \in 0 .. n - 1 : p < j => b[j].trace # t,
         NEW d, d \in [0 .. n - 1 -> Bucket],
         d[p].trace = t, d[p].items = Append(b[p].items, x),
         \A k \in 0 .. n - 1 : k # p => d[k] = b[k]
  PROVE  Sound(d, n, Append(ft, "held"), Append(of, t))
<1> DEFINE gt == Append(ft, "held")
           og == Append(of, t)
<1>1. /\ n \in Nat /\ b \in [0 .. n - 1 -> Bucket] /\ ft \in Seq(Fates)
      /\ of \in Seq(Trace \cup {NoTrace}) /\ Len(of) = Len(ft)
  BY DEF Fits
<1>2. /\ DOMAIN gt = DOMAIN ft \cup {x} /\ x \notin DOMAIN ft /\ x \in Nat
      /\ gt[x] = "held" /\ og[x] = t
      /\ \A y \in DOMAIN ft : gt[y] = ft[y] /\ og[y] = of[y] /\ y \in Nat /\ y < x /\ y # x
  <2>1. "held" \in Fates
    BY DEF Fates
  <2> QED
    BY <1>1, <2>1, NewItem
<1> HIDE DEF gt, og
<1>3. PICK last : last = Len(b[p].items) + 1
  OBVIOUS
<1>4. \A k \in 0 .. n - 1 : b[k].items \in Seq(BucketItem)
  BY <1>1 DEF Bucket
<1>5. /\ d[p].items # <<>> /\ Len(b[p].items) \in Nat /\ Len(d[p].items) = last /\ d[p].items[last] = x
      /\ \A m \in 1 .. Len(b[p].items) : d[p].items[m] = b[p].items[m] /\ m \in 1 .. last /\ m < last
      /\ \A m \in 1 .. last : m \in 1 .. Len(b[p].items) \/ m = last
      /\ last \in 1 .. last
  BY <1>3, <1>4, MoreItems
<1>6. \A k \in 0 .. n - 1 : d[k].trace = b[k].trace
  OBVIOUS
<1>7. \A k \in 0 .. n - 1 : \A m \in 1 .. Len(d[k].items) :
        \/ k = p /\ m = last /\ d[k].items[m] = x
        \/ m \in 1 .. Len(b[k].items) /\ d[k].items[m] = b[k].items[m]
  BY <1>5
<1>8. \A k \in 0 .. n - 1 : \A m \in 1 .. Len(b[k].items) :
        m \in 1 .. Len(d[k].items) /\ d[k].items[m] = b[k].items[m]
  BY <1>5
<1>9. /\ \A k \in 0 .. n - 1 : b[k].items # <<>>
      /\ \A k \in 0 .. n - 1 : \A m \in 1 .. Len(b[k].items) :
           /\ b[k].items[m] \in DOMAIN ft /\ ft[b[k].items[m]] = "held"
           /\ of[b[k].items[m]] = b[k].trace
  BY DEF Sound, Filled
<1>10. Filled(d, n, gt, og)
  <2>1. ASSUME NEW k \in 0 .. n - 1
        PROVE  d[k].items # <<>>
    <3>1. CASE k = p
      BY <1>5, <3>1
    <3>2. CASE k # p
      BY <1>9, <3>2
    <3> QED
      BY <3>1, <3>2
  <2>2. ASSUME NEW k \in 0 .. n - 1, NEW m \in 1 .. Len(d[k].items)
        PROVE  LET y == d[k].items[m] IN y \in DOMAIN gt /\ gt[y] = "held" /\ og[y] = d[k].trace
    <3>1. CASE k = p /\ m = last /\ d[k].items[m] = x
      BY <1>2, <3>1
    <3>2. CASE m \in 1 .. Len(b[k].items) /\ d[k].items[m] = b[k].items[m]
      <4> DEFINE y == b[k].items[m]
      <4>1. y \in DOMAIN ft /\ ft[y] = "held" /\ of[y] = b[k].trace
        BY <1>9, <3>2
      <4>2. d[k].items[m] = y /\ d[k].trace = b[k].trace
        BY <1>6, <3>2
      <4> HIDE DEF y
      <4> QED
        BY <1>2, <4>1, <4>2
    <3> QED
      BY <1>7, <3>1, <3>2
  <2> QED
    BY <2>1, <2>2 DEF Filled
<1>11. Rising(d, n)
  <2>1. ASSUME NEW k \in 0 .. n - 1, NEW l \in 1 .. Len(d[k].items), NEW m \in 1 .. Len(d[k].items), l < m
        PROVE  d[k].items[l] < d[k].items[m]
    <3>1. CASE m \in 1 .. Len(b[k].items) /\ d[k].items[m] = b[k].items[m]
      <4>1. ~(k = p /\ l = last)
        BY <1>5, <2>1, <3>1
      <4> QED
        BY <1>7, <2>1, <3>1, <4>1 DEF Sound, Rising
    <3>2. CASE k = p /\ m = last /\ d[k].items[m] = x
      <4>1. l \in 1 .. Len(b[k].items) /\ d[k].items[l] = b[k].items[l]
        BY <1>5, <1>7, <2>1, <3>2
      <4> QED
        BY <1>2, <1>9, <3>2, <4>1
    <3> QED
      BY <1>7, <3>1, <3>2
  <2> QED
    BY <2>1 DEF Rising
<1>12. Apart(d, n)
  <2>1. ASSUME NEW j \in 0 .. n - 1, NEW k \in 0 .. n - 1, j < k,
               NEW l \in 1 .. Len(d[j].items), NEW m \in 1 .. Len(d[k].items)
        PROVE  /\ d[j].items[l] # d[k].items[m]
               /\ d[j].trace = d[k].trace /\ d[j].trace # NoTrace => d[j].items[l] < d[k].items[m]
    <3>1. j # k
      BY <1>1, <2>1
    <3>2. CASE l \in 1 .. Len(b[j].items) /\ d[j].items[l] = b[j].items[l]
      <4>1. CASE m \in 1 .. Len(b[k].items) /\ d[k].items[m] = b[k].items[m]
        <5>1. /\ b[j].items[l] # b[k].items[m]
              /\ b[j].trace = b[k].trace /\ b[j].trace # NoTrace => b[j].items[l] < b[k].items[m]
          BY <2>1, <3>2, <4>1 DEF Sound, Apart
        <5>2. d[j].trace = b[j].trace /\ d[k].trace = b[k].trace
          BY <1>6
        <5> QED
          BY <3>2, <4>1, <5>1, <5>2
      <4>2. CASE d[k].items[m] = x
        <5>1. d[j].items[l] \in DOMAIN ft
          BY <1>9, <3>2
        <5>2. d[j].items[l] < x /\ d[j].items[l] # x
          BY <1>2, <5>1
        <5> QED
          BY <4>2, <5>2
      <4> QED
        BY <1>7, <4>1, <4>2
    <3>3. CASE j = p /\ d[j].items[l] = x
      <4>1. m \in 1 .. Len(b[k].items) /\ d[k].items[m] = b[k].items[m]
        BY <1>7, <3>1, <3>3
      <4>2. d[k].trace # d[j].trace
        BY <1>6, <2>1, <3>3
      <4> QED
        BY <1>2, <1>9, <3>3, <4>1, <4>2
    <3> QED
      BY <1>7, <3>2, <3>3
  <2> QED
    BY <2>1 DEF Apart
<1>13. Found(d, n, gt)
  <2>1. ASSUME NEW y \in DOMAIN gt, gt[y] = "held"
        PROVE  \E k \in 0 .. n - 1 : \E m \in 1 .. Len(d[k].items) : d[k].items[m] = y
    <3>1. CASE y = x
      BY <1>5, <3>1
    <3>2. CASE y \in DOMAIN ft
      BY <1>2, <1>8, <2>1, <3>2, SMTT(20) DEF Sound, Found
    <3> QED
      BY <1>2, <3>1, <3>2
  <2> QED
    BY <2>1 DEF Found
<1> QED
  BY <1>10, <1>11, <1>12, <1>13 DEF Sound, gt, og

LEMMA SoundPush ==
  ASSUME NEW b, NEW n, NEW ft, NEW of, Fits(b, n, ft, of), Sound(b, n, ft, of),
         NEW x \in BucketItem, x = Len(ft) + 1, NEW t \in Trace \cup {NoTrace},
         NEW d, d[n] = [trace |-> t, items |-> <<x>>],
         \A k \in 0 .. n - 1 : d[k] = b[k]
  PROVE  Sound(d, n + 1, Append(ft, "held"), Append(of, t))
<1> DEFINE gt == Append(ft, "held")
           og == Append(of, t)
<1>1. /\ n \in Nat /\ ft \in Seq(Fates)
      /\ of \in Seq(Trace \cup {NoTrace}) /\ Len(of) = Len(ft)
  BY DEF Fits
<1>2. /\ DOMAIN gt = DOMAIN ft \cup {x} /\ x \notin DOMAIN ft /\ x \in Nat
      /\ gt[x] = "held" /\ og[x] = t
      /\ \A y \in DOMAIN ft : gt[y] = ft[y] /\ og[y] = of[y] /\ y \in Nat /\ y < x /\ y # x
  <2>1. "held" \in Fates
    BY DEF Fates
  <2> QED
    BY <1>1, <2>1, NewItem
<1> HIDE DEF gt, og
<1>3. \A k : k \in 0 .. (n + 1) - 1 <=> k \in 0 .. n - 1 \/ k = n
  BY <1>1
<1>4. \A k \in 0 .. n - 1 : k < n
  BY <1>1
<1>5. /\ d[n].items # <<>> /\ Len(d[n].items) = 1 /\ d[n].items[1] = x /\ d[n].trace = t
      /\ \A m \in 1 .. Len(d[n].items) : m = 1
      /\ 1 \in 1 .. Len(d[n].items)
  OBVIOUS
<1>9. /\ \A k \in 0 .. n - 1 : b[k].items # <<>>
      /\ \A k \in 0 .. n - 1 : \A m \in 1 .. Len(b[k].items) :
           /\ b[k].items[m] \in DOMAIN ft /\ ft[b[k].items[m]] = "held"
           /\ of[b[k].items[m]] = b[k].trace
  BY DEF Sound, Filled
<1>10. Filled(d, n + 1, gt, og)
  <2>1. ASSUME NEW k \in 0 .. n - 1
        PROVE  /\ d[k].items # <<>>
               /\ \A m \in 1 .. Len(d[k].items) :
                    /\ d[k].items[m] \in DOMAIN gt /\ gt[d[k].items[m]] = "held"
                    /\ og[d[k].items[m]] = d[k].trace
    BY <1>2, <1>9, SMTT(20)
  <2>2. \A m \in 1 .. Len(d[n].items) :
           d[n].items[m] \in DOMAIN gt /\ gt[d[n].items[m]] = "held" /\ og[d[n].items[m]] = d[n].trace
    BY <1>2, <1>5
  <2> QED
    BY <1>3, <1>5, <2>1, <2>2 DEF Filled
<1>11. Rising(d, n + 1)
  <2>1. ASSUME NEW l \in 1 .. Len(d[n].items), NEW m \in 1 .. Len(d[n].items), l < m
        PROVE  d[n].items[l] < d[n].items[m]
    BY <1>5, <2>1
  <2> QED
    BY <1>3, <2>1 DEF Rising, Sound
<1>12. Apart(d, n + 1)
  <2>1. ASSUME NEW j \in 0 .. n - 1, NEW l \in 1 .. Len(d[j].items), NEW m \in 1 .. Len(d[n].items)
        PROVE  /\ d[j].items[l] # d[n].items[m]
               /\ d[j].items[l] < d[n].items[m]
    BY <1>2, <1>5, <1>9
  <2>2. \A j, k \in 0 .. (n + 1) - 1 : j < k => j \in 0 .. n - 1 /\ (k \in 0 .. n - 1 \/ k = n)
    BY <1>1
  <2>3. ASSUME NEW j \in 0 .. n - 1, NEW k \in 0 .. n - 1, j < k,
               NEW l \in 1 .. Len(d[j].items), NEW m \in 1 .. Len(d[k].items)
        PROVE  /\ d[j].items[l] # d[k].items[m]
               /\ d[j].trace = d[k].trace /\ d[j].trace # NoTrace => d[j].items[l] < d[k].items[m]
    <3>1. d[j] = b[j] /\ d[k] = b[k]
      OBVIOUS
    <3> QED
      BY <2>3, <3>1 DEF Sound, Apart
  <2>4. ASSUME NEW j \in 0 .. (n + 1) - 1, NEW k \in 0 .. (n + 1) - 1, j < k,
               NEW l \in 1 .. Len(d[j].items), NEW m \in 1 .. Len(d[k].items)
        PROVE  /\ d[j].items[l] # d[k].items[m]
               /\ d[j].trace = d[k].trace /\ d[j].trace # NoTrace => d[j].items[l] < d[k].items[m]
    <3>1. j \in 0 .. n - 1 /\ (k \in 0 .. n - 1 \/ k = n)
      BY <2>2, <2>4
    <3>2. CASE k \in 0 .. n - 1
      BY <2>3, <2>4, <3>1, <3>2
    <3>3. CASE k = n
      BY <2>1, <3>1, <3>3
    <3> QED
      BY <3>1, <3>2, <3>3
  <2> QED
    BY <2>4 DEF Apart
<1>13. Found(d, n + 1, gt)
  <2>1. ASSUME NEW y \in DOMAIN gt, gt[y] = "held"
        PROVE  \E k \in 0 .. (n + 1) - 1 : \E m \in 1 .. Len(d[k].items) : d[k].items[m] = y
    <3>1. CASE y = x
      BY <1>3, <1>5, <3>1
    <3>2. CASE y \in DOMAIN ft
      BY <1>2, <1>3, <2>1, <3>2 DEF Sound, Found
    <3> QED
      BY <1>2, <3>1, <3>2
  <2> QED
    BY <2>1 DEF Found
<1> QED
  BY <1>10, <1>11, <1>12, <1>13 DEF Sound, gt, og

\* The items in the k oldest buckets and the first r of the next one.
FrontItems(b, k, r) ==
  {x \in BucketItem : \/ \E j \in 0 .. k - 1 : \E m \in 1 .. Len(b[j].items) : b[j].items[m] = x
                \/ \E m \in 1 .. r : b[k].items[m] = x}

\* r items are cut off a bucket only when others remain in it.
Cuts(b, n, k, r) == k \in 0 .. n /\ r \in Nat /\ (r > 0 => k < n /\ r < Len(b[k].items))

\* What is left when they are gone.
Rest(d, b, n, k, r) ==
  \A i \in 0 .. n - k - 1 :
    /\ d[i].trace = b[i + k].trace
    /\ d[i].items \in Seq(BucketItem)
    /\ i > 0 => d[i].items = b[i + k].items
    /\ i = 0 => /\ Len(d[i].items) = Len(b[k].items) - r
                /\ \A m \in 1 .. Len(d[i].items) : d[i].items[m] = b[k].items[m + r]

\* Where an item of the rest was.
LEMMA RestFrom ==
  ASSUME NEW b, NEW n, NEW ft, NEW of, Fits(b, n, ft, of), Sound(b, n, ft, of),
         NEW k, NEW r, Cuts(b, n, k, r), NEW d, Rest(d, b, n, k, r),
         NEW i \in 0 .. n - k - 1
  PROVE  /\ i + k \in 0 .. n - 1 /\ d[i].items # <<>>
         /\ \A m \in 1 .. Len(d[i].items) :
              \E q \in 1 .. Len(b[i + k].items) :
                /\ b[i + k].items[q] = d[i].items[m]
                /\ q = IF i = 0 THEN m + r ELSE m
<1>1. /\ n \in Nat /\ k \in 0 .. n /\ r \in Nat /\ i \in Nat /\ i + k \in 0 .. n - 1
      /\ \A j \in 0 .. n - 1 : b[j].items \in Seq(BucketItem) /\ b[j].items # <<>>
  BY DEF Fits, Cuts, Bucket, Sound, Filled
<1>2. b[i + k].items \in Seq(BucketItem) /\ b[i + k].items # <<>> /\ Len(b[i + k].items) \in Nat
      /\ Len(b[i + k].items) > 0
  BY <1>1
<1>3. CASE i > 0
  <2>1. d[i].items = b[i + k].items
    BY <1>3 DEF Rest
  <2> QED
    BY <1>1, <1>2, <1>3, <2>1
<1>4. CASE i = 0
  <2>1. k \in 0 .. n - 1 /\ i + k = k
    BY <1>1, <1>4
  <2>2. r < Len(b[k].items)
    BY <1>1, <1>2, <2>1 DEF Cuts
  <2>3. /\ Len(d[i].items) = Len(b[k].items) - r /\ d[i].items \in Seq(BucketItem)
        /\ \A m \in 1 .. Len(d[i].items) : d[i].items[m] = b[k].items[m + r]
    BY <1>4 DEF Rest
  <2>4. d[i].items # <<>>
    BY <1>1, <1>2, <2>1, <2>2, <2>3
  <2>5. \A m \in 1 .. Len(d[i].items) : m + r \in 1 .. Len(b[k].items)
    BY <1>1, <1>2, <2>1, <2>3
  <2> QED
    BY <1>1, <1>4, <2>1, <2>3, <2>4, <2>5
<1> QED
  BY <1>1, <1>3, <1>4

\* And where an item that is not in the front is now.
LEMMA RestTo ==
  ASSUME NEW b, NEW n, NEW ft, NEW of, Fits(b, n, ft, of), Sound(b, n, ft, of),
         NEW k, NEW r, Cuts(b, n, k, r), NEW d, Rest(d, b, n, k, r),
         NEW j \in 0 .. n - 1, NEW q \in 1 .. Len(b[j].items), b[j].items[q] \notin FrontItems(b, k, r)
  PROVE  \E i \in 0 .. n - k - 1 : \E m \in 1 .. Len(d[i].items) : d[i].items[m] = b[j].items[q]
<1>1. /\ n \in Nat /\ k \in 0 .. n /\ r \in Nat
      /\ b[j].items \in Seq(BucketItem) /\ Len(b[j].items) \in Nat /\ b[j].items[q] \in BucketItem
  BY DEF Fits, Cuts, Bucket
<1>2. j >= k
  BY <1>1 DEF FrontItems
<1> DEFINE i == j - k
<1>3. i \in 0 .. n - k - 1 /\ i + k = j
  BY <1>1, <1>2
<1>4. CASE i > 0
  <2>1. d[i].items = b[j].items
    BY <1>3, <1>4 DEF Rest
  <2> QED
    BY <1>3, <2>1
<1>5. CASE i = 0
  <2>1. j = k
    BY <1>1, <1>3, <1>5
  <2>2. ~(q \in 1 .. r)
    BY <1>1, <2>1 DEF FrontItems
  <2>3. /\ Len(d[i].items) = Len(b[k].items) - r
        /\ \A m \in 1 .. Len(d[i].items) : d[i].items[m] = b[k].items[m + r]
    BY <1>3, <1>5 DEF Rest
  <2>4. q - r \in 1 .. Len(d[i].items) /\ (q - r) + r = q
    BY <1>1, <2>1, <2>2, <2>3
  <2> QED
    BY <1>3, <2>1, <2>3, <2>4
<1> QED
  BY <1>1, <1>3, <1>4, <1>5

\* The rest has nothing of the front.
LEMMA RestApart ==
  ASSUME NEW b, NEW n, NEW ft, NEW of, Fits(b, n, ft, of), Sound(b, n, ft, of),
         NEW k, NEW r, Cuts(b, n, k, r), NEW d, Rest(d, b, n, k, r),
         NEW i \in 0 .. n - k - 1, NEW m \in 1 .. Len(d[i].items)
  PROVE  d[i].items[m] \notin FrontItems(b, k, r)
<1>1. /\ n \in Nat /\ k \in 0 .. n /\ r \in Nat /\ i \in Nat
      /\ \A j \in 0 .. n - 1 : b[j].items \in Seq(BucketItem) /\ Len(b[j].items) \in Nat
  BY DEF Fits, Cuts, Bucket
<1>2. i + k \in 0 .. n - 1
  BY RestFrom
<1>3. PICK q \in 1 .. Len(b[i + k].items) :
        b[i + k].items[q] = d[i].items[m] /\ q = IF i = 0 THEN m + r ELSE m
  BY RestFrom
<1> DEFINE x == d[i].items[m]
           p == i + k
<1>4. p \in 0 .. n - 1 /\ b[p].items[q] = x /\ q \in 1 .. Len(b[p].items)
  BY <1>2, <1>3
<1>5. m \in Nat /\ m >= 1 /\ (i = 0 => q = m + r /\ p = k)
  <2>1. m \in Nat /\ m >= 1
    BY <1>1, <1>2, RestFrom DEF Rest
  <2> QED
    BY <1>1, <1>3, <2>1
<1> HIDE DEF x
<1>6. ASSUME NEW j \in 0 .. k - 1, NEW l \in 1 .. Len(b[j].items)
      PROVE  b[j].items[l] # x
  <2>1. j \in 0 .. n - 1 /\ j < p
    BY <1>1, <1>4, SMTT(20)
  <2> QED
    BY <1>4, <2>1 DEF Sound, Apart
<1>7. ASSUME NEW l \in 1 .. r
      PROVE  b[k].items[l] # x
  <2>1. k \in 0 .. n - 1 /\ l \in 1 .. Len(b[k].items)
    BY <1>1, <1>7 DEF Cuts
  <2>2. CASE i = 0
    <3>1. p = k /\ l < q
      BY <1>1, <1>5, <2>2
    <3>2. b[k].items[l] < b[k].items[q]
      BY <1>4, <2>1, <3>1 DEF Sound, Rising
    <3>3. b[k].items[l] \in BucketItem
      BY <1>1, <2>1
    <3>4. b[k].items[l] \in Int
      BY <3>3, SMT DEF BucketItem
    <3> QED
      BY <1>4, <3>1, <3>2, <3>4
  <2>3. CASE i > 0
    <3>1. k < p
      BY <1>1, <2>3
    <3> QED
      BY <1>4, <2>1, <3>1 DEF Sound, Apart
  <2> QED
    BY <1>1, <2>2, <2>3
<1>8. x \notin FrontItems(b, k, r)
  BY <1>6, <1>7 DEF FrontItems
<1> QED
  BY <1>8 DEF x

LEMMA SoundRest ==
  ASSUME NEW b, NEW n, NEW ft, NEW of, Fits(b, n, ft, of), Sound(b, n, ft, of),
         NEW k, NEW r, Cuts(b, n, k, r), NEW d, Rest(d, b, n, k, r),
         NEW gt, DOMAIN gt = DOMAIN ft,
         \A x \in DOMAIN ft : IF x \in FrontItems(b, k, r) THEN gt[x] # "held" ELSE gt[x] = ft[x]
  PROVE  Sound(d, n - k, gt, of)
<1>1. n \in Nat /\ k \in 0 .. n /\ r \in Nat
  BY DEF Fits, Cuts
<1>2. \A j \in 0 .. n - 1 : \A q \in 1 .. Len(b[j].items) :
        LET x == b[j].items[q] IN x \in DOMAIN ft /\ ft[x] = "held" /\ of[x] = b[j].trace
  BY DEF Sound, Filled
<1>3. ASSUME NEW i \in 0 .. n - k - 1
      PROVE  i + k \in 0 .. n - 1 /\ d[i].items # <<>> /\ d[i].trace = b[i + k].trace
  BY RestFrom DEF Rest
<1>r. ASSUME NEW i \in 0 .. n - k - 1, NEW m \in 1 .. Len(d[i].items)
      PROVE  \E q \in 1 .. Len(b[i + k].items) :
               b[i + k].items[q] = d[i].items[m] /\ q = IF i = 0 THEN m + r ELSE m
  BY RestFrom
<1>4. Filled(d, n - k, gt, of)
  <2>1. ASSUME NEW i \in 0 .. n - k - 1, NEW m \in 1 .. Len(d[i].items)
        PROVE  LET x == d[i].items[m] IN x \in DOMAIN gt /\ gt[x] = "held" /\ of[x] = d[i].trace
    <3>1. PICK q \in 1 .. Len(b[i + k].items) : b[i + k].items[q] = d[i].items[m]
      BY <1>r
    <3>2. d[i].items[m] \notin FrontItems(b, k, r)
      BY RestApart
    <3> DEFINE x == d[i].items[m]
    <3>3. x \in DOMAIN ft /\ ft[x] = "held" /\ of[x] = b[i + k].trace
      BY <1>2, <1>3, <3>1, SMTT(20)
    <3> QED
      BY <1>3, <3>2, <3>3
  <2> QED
    BY <1>3, <2>1 DEF Filled
<1>5. Rising(d, n - k)
  <2>1. ASSUME NEW i \in 0 .. n - k - 1, NEW l \in 1 .. Len(d[i].items), NEW m \in 1 .. Len(d[i].items), l < m
        PROVE  d[i].items[l] < d[i].items[m]
    <3>1. PICK p \in 1 .. Len(b[i + k].items) :
            b[i + k].items[p] = d[i].items[l] /\ p = IF i = 0 THEN l + r ELSE l
      BY <1>r
    <3>2. PICK q \in 1 .. Len(b[i + k].items) :
            b[i + k].items[q] = d[i].items[m] /\ q = IF i = 0 THEN m + r ELSE m
      BY <1>r
    <3>3. p < q
      <4>1. Len(d[i].items) \in Nat
        BY DEF Rest
      <4>2. l \in Nat /\ m \in Nat /\ l < m
        BY <2>1, <4>1
      <4> QED
        BY <1>1, <3>1, <3>2, <4>2
    <3>4. b[i + k].items[p] < b[i + k].items[q]
      BY <1>3, <3>3 DEF Sound, Rising
    <3> QED
      BY <3>1, <3>2, <3>4
  <2> QED
    BY <2>1 DEF Rising
<1>6. Apart(d, n - k)
  <2>1. ASSUME NEW i \in 0 .. n - k - 1, NEW j \in 0 .. n - k - 1, i < j,
               NEW l \in 1 .. Len(d[i].items), NEW m \in 1 .. Len(d[j].items)
        PROVE  /\ d[i].items[l] # d[j].items[m]
               /\ d[i].trace = d[j].trace /\ d[i].trace # NoTrace => d[i].items[l] < d[j].items[m]
    <3>1. PICK p \in 1 .. Len(b[i + k].items) : b[i + k].items[p] = d[i].items[l]
      BY <1>r, ZenonT(40)
    <3>2. PICK q \in 1 .. Len(b[j + k].items) : b[j + k].items[q] = d[j].items[m]
      BY <1>r, ZenonT(40)
    <3>3. /\ i + k \in 0 .. n - 1 /\ j + k \in 0 .. n - 1 /\ i + k < j + k
          /\ d[i].trace = b[i + k].trace /\ d[j].trace = b[j + k].trace
      BY <1>1, <1>3, <2>1
    <3>4. /\ b[i + k].items[p] # b[j + k].items[q]
          /\ b[i + k].trace = b[j + k].trace /\ b[i + k].trace # NoTrace
               => b[i + k].items[p] < b[j + k].items[q]
      BY <3>3 DEF Sound, Apart
    <3> QED
      BY <3>1, <3>2, <3>3, <3>4
  <2> QED
    BY <2>1 DEF Apart
<1>7. Found(d, n - k, gt)
  <2>1. ASSUME NEW x \in DOMAIN gt, gt[x] = "held"
        PROVE  \E i \in 0 .. n - k - 1 : \E m \in 1 .. Len(d[i].items) : d[i].items[m] = x
    <3>1. x \in DOMAIN ft /\ x \notin FrontItems(b, k, r) /\ ft[x] = "held"
      BY <2>1
    <3>2. PICK j \in 0 .. n - 1 : \E q \in 1 .. Len(b[j].items) : b[j].items[q] = x
      BY <3>1 DEF Sound, Found
    <3>3. PICK q \in 1 .. Len(b[j].items) : b[j].items[q] = x
      BY <3>2
    <3> QED
      BY <3>1, <3>3, RestTo, SMTT(20)
  <2> QED
    BY <2>1 DEF Found
<1> QED
  BY <1>4, <1>5, <1>6, <1>7 DEF Sound

\* An item that is not taken in changes nothing here.
LEMMA SoundRefuse ==
  ASSUME NEW b, NEW n, NEW ft, NEW of, Fits(b, n, ft, of), Sound(b, n, ft, of),
         NEW c \in Fates, c # "held", NEW t \in Trace \cup {NoTrace}
  PROVE  Sound(b, n, Append(ft, c), Append(of, t))
<1> DEFINE gt == Append(ft, c)
           og == Append(of, t)
           x == Len(ft) + 1
<1>1. /\ ft \in Seq(Fates) /\ of \in Seq(Trace \cup {NoTrace}) /\ Len(of) = Len(ft)
  BY DEF Fits
<1>2. /\ DOMAIN gt = DOMAIN ft \cup {x} /\ gt[x] = c
      /\ \A y \in DOMAIN ft : gt[y] = ft[y] /\ og[y] = of[y]
  BY <1>1, NewItem
<1> HIDE DEF gt, og, x
<1>3. Filled(b, n, gt, og)
  <2>1. \A k \in 0 .. n - 1 : b[k].items # <<>>
    BY DEF Sound, Filled
  <2>2. ASSUME NEW k \in 0 .. n - 1, NEW m \in 1 .. Len(b[k].items)
        PROVE  LET y == b[k].items[m] IN y \in DOMAIN gt /\ gt[y] = "held" /\ og[y] = b[k].trace
    <3> DEFINE y == b[k].items[m]
    <3>1. y \in DOMAIN ft /\ ft[y] = "held" /\ of[y] = b[k].trace
      BY DEF Sound, Filled
    <3> HIDE DEF y
    <3>2. y \in DOMAIN gt /\ gt[y] = "held" /\ og[y] = b[k].trace
      BY <1>2, <3>1
    <3> QED
      BY <3>2 DEF y
  <2> QED
    BY <2>1, <2>2 DEF Filled
<1>4. Found(b, n, gt)
  <2>1. ASSUME NEW y \in DOMAIN gt, gt[y] = "held"
        PROVE  y \in DOMAIN ft /\ ft[y] = "held"
    BY <1>2, <2>1
  <2> QED
    BY <2>1 DEF Sound, Found
<1> QED
  BY <1>3, <1>4 DEF Sound, gt, og

\* The same buckets, under other names.
LEMMA SoundSame ==
  ASSUME NEW b, NEW n, NEW ft, NEW of, Sound(b, n, ft, of), NEW d,
         \A k \in 0 .. n - 1 : d[k] = b[k]
  PROVE  Sound(d, n, ft, of)
<1>1. Filled(d, n, ft, of)
  BY DEF Sound, Filled
<1>2. Rising(d, n)
  BY DEF Sound, Rising
<1>3. Apart(d, n)
  <2>1. ASSUME NEW j \in 0 .. n - 1, NEW k \in 0 .. n - 1, j < k,
               NEW l \in 1 .. Len(d[j].items), NEW m \in 1 .. Len(d[k].items)
        PROVE  /\ d[j].items[l] # d[k].items[m]
               /\ d[j].trace = d[k].trace /\ d[j].trace # NoTrace => d[j].items[l] < d[k].items[m]
    <3>1. d[j] = b[j] /\ d[k] = b[k]
      OBVIOUS
    <3> QED
      BY <2>1, <3>1 DEF Sound, Apart
  <2> QED
    BY <2>1 DEF Apart
<1>4. Found(d, n, ft)
  <2>1. ASSUME NEW x \in DOMAIN ft, ft[x] = "held"
        PROVE  \E k \in 0 .. n - 1 : \E m \in 1 .. Len(d[k].items) : d[k].items[m] = x
    <3>1. PICK k \in 0 .. n - 1 : \E m \in 1 .. Len(b[k].items) : b[k].items[m] = x
      BY <2>1 DEF Sound, Found
    <3>2. d[k] = b[k]
      OBVIOUS
    <3> QED
      BY <3>1, <3>2
  <2> QED
    BY <2>1 DEF Found
<1> QED
  BY <1>1, <1>2, <1>3, <1>4 DEF Sound

HeldIn(ft) == {x \in DOMAIN ft : ft[x] = "held"}

LEMMA HeldFinite ==
  ASSUME NEW ft \in Seq(Fates)
  PROVE  IsFiniteSet(HeldIn(ft)) /\ Cardinality(HeldIn(ft)) \in Nat
<1>1. DOMAIN ft = 1 .. Len(ft) /\ Len(ft) \in Nat
  OBVIOUS
<1>2. IsFiniteSet(1 .. Len(ft))
  BY <1>1, FS_Interval
<1>3. HeldIn(ft) \subseteq 1 .. Len(ft)
  BY <1>1 DEF HeldIn
<1>4. IsFiniteSet(HeldIn(ft))
  BY <1>2, <1>3, FS_Subset
<1> QED
  BY <1>4, FS_CardinalityType

LEMMA HeldMore ==
  ASSUME NEW ft \in Seq(Fates), NEW c \in Fates
  PROVE  Cardinality(HeldIn(Append(ft, c))) =
           IF c = "held" THEN Cardinality(HeldIn(ft)) + 1 ELSE Cardinality(HeldIn(ft))
<1> DEFINE gt == Append(ft, c)
           x == Len(ft) + 1
<1>1. DOMAIN gt = DOMAIN ft \cup {x} /\ x \notin DOMAIN ft /\ gt[x] = c
      /\ \A y \in DOMAIN ft : gt[y] = ft[y]
  <2>1. Len(ft) \in Nat /\ DOMAIN ft = 1 .. Len(ft) /\ DOMAIN gt = 1 .. x
        /\ gt[x] = c /\ \A y \in 1 .. Len(ft) : gt[y] = ft[y]
    OBVIOUS
  <2> QED
    BY <2>1
<1> HIDE DEF gt, x
<1>2. CASE c = "held"
  <2>1. HeldIn(gt) = HeldIn(ft) \cup {x} /\ x \notin HeldIn(ft)
    BY <1>1, <1>2 DEF HeldIn
  <2> QED
    BY <1>2, <2>1, HeldFinite, FS_AddElement DEF gt
<1>3. CASE c # "held"
  <2>1. HeldIn(gt) = HeldIn(ft)
    BY <1>1, <1>3 DEF HeldIn
  <2> QED
    BY <1>3, <2>1 DEF gt
<1> QED
  BY <1>2, <1>3

LEMMA HeldLess ==
  ASSUME NEW ft \in Seq(Fates), NEW gone, gone \subseteq HeldIn(ft),
         NEW gt, DOMAIN gt = DOMAIN ft,
         \A x \in DOMAIN ft : IF x \in gone THEN gt[x] # "held" ELSE gt[x] = ft[x]
  PROVE  Cardinality(HeldIn(gt)) = Cardinality(HeldIn(ft)) - Cardinality(gone)
<1>1. HeldIn(gt) = HeldIn(ft) \ gone /\ HeldIn(ft) \cap gone = gone
  BY DEF HeldIn
<1> QED
  BY <1>1, HeldFinite, FS_Difference

\* What the front has is held, and all buckets have all of it.
LEMMA FrontHeld ==
  ASSUME NEW b, NEW n, NEW ft, NEW of, Fits(b, n, ft, of), Sound(b, n, ft, of),
         NEW k, NEW r, Cuts(b, n, k, r)
  PROVE  FrontItems(b, k, r) \subseteq HeldIn(ft)
<1>1. /\ n \in Nat /\ k \in 0 .. n /\ r \in Nat
      /\ \A j \in 0 .. n - 1 : Len(b[j].items) \in Nat
  BY DEF Fits, Cuts, Bucket
<1>2. \A j \in 0 .. n - 1 : \A q \in 1 .. Len(b[j].items) : b[j].items[q] \in HeldIn(ft)
  BY DEF Sound, Filled, HeldIn
<1>3. \A j \in 0 .. k - 1 : j \in 0 .. n - 1
  BY <1>1
<1>4. \A m \in 1 .. r : k \in 0 .. n - 1 /\ m \in 1 .. Len(b[k].items)
  BY <1>1 DEF Cuts
<1> QED
  BY <1>2, <1>3, <1>4 DEF FrontItems

LEMMA FrontAll ==
  ASSUME NEW b, NEW n, NEW ft, NEW of, Fits(b, n, ft, of), Sound(b, n, ft, of)
  PROVE  FrontItems(b, n, 0) = HeldIn(ft)
<1>1. n \in Nat /\ Cuts(b, n, n, 0)
  BY DEF Fits, Cuts
<1>2. FrontItems(b, n, 0) \subseteq HeldIn(ft)
  BY <1>1, FrontHeld
<1>3. ASSUME NEW x \in HeldIn(ft)
      PROVE  x \in FrontItems(b, n, 0)
  <2>1. PICK j \in 0 .. n - 1 : \E m \in 1 .. Len(b[j].items) : b[j].items[m] = x
    BY DEF Sound, Found, HeldIn
  <2>2. b[j].items \in Seq(BucketItem)
    BY DEF Fits, Bucket
  <2>3. x \in BucketItem
    BY <2>1, <2>2
  <2> QED
    BY <2>1, <2>3 DEF FrontItems
<1> QED
  BY <1>2, <1>3

\* The oldest bucket has as many items as its list is long.
LEMMA FrontOne ==
  ASSUME NEW b, NEW n, NEW ft, NEW of, Fits(b, n, ft, of), Sound(b, n, ft, of), n > 0
  PROVE  Cardinality(FrontItems(b, 1, 0)) = Len(b[0].items)
<1> DEFINE s == b[0].items
           listed == [m \in 1 .. Len(s) |-> s[m]]
<1>1. n \in Nat /\ 0 \in 0 .. n - 1 /\ s \in Seq(BucketItem) /\ Len(s) \in Nat
  BY DEF Fits, Bucket
<1>2. \A l, m \in 1 .. Len(s) : l < m => s[l] < s[m]
  BY <1>1 DEF Sound, Rising
<1>3. \A m \in 1 .. Len(s) : s[m] \in BucketItem
  BY <1>1
<1>4. \A x : x \in FrontItems(b, 1, 0) <=> \E m \in 1 .. Len(s) : s[m] = x
  <2>1. \A j : j \in 0 .. 1 - 1 <=> j = 0
    BY SMT
  <2>2. ~ \E m \in 1 .. 0 : TRUE
    BY SMT
  <2> HIDE DEF s
  <2>3. b[0].items = s
    BY DEF s
  <2> QED
    BY <1>3, <2>1, <2>2, <2>3 DEF FrontItems
<1> HIDE DEF s
<1>5. listed \in Bijection(1 .. Len(s), FrontItems(b, 1, 0))
  <2>1. ASSUME NEW l \in 1 .. Len(s), NEW m \in 1 .. Len(s), s[l] = s[m]
        PROVE  l = m
    <3>1. s[l] \in Int /\ s[m] \in Int
      BY <1>3 DEF BucketItem
    <3> QED
      BY <1>1, <1>2, <2>1, <3>1
  <2> QED
    BY <1>4, <2>1 DEF Bijection, Injection, Surjection, IsInjective
<1> QED
  <2>1. ExistsBijection(1 .. Len(s), FrontItems(b, 1, 0))
    BY <1>5 DEF ExistsBijection
  <2>2. Cardinality(FrontItems(b, 1, 0)) = Len(s)
    BY <1>1, <2>1, FS_CountingElements
  <2> QED
    BY <2>2 DEF s

\* Of one trace, what came before an item of the front is in the front too, if it is held.
LEMMA FrontOrdered ==
  ASSUME NEW b, NEW n, NEW ft, NEW of, Fits(b, n, ft, of), Sound(b, n, ft, of),
         NEW k, NEW r, Cuts(b, n, k, r),
         NEW x \in DOMAIN ft, NEW y \in FrontItems(b, k, r), x < y, of[x] = of[y], of[x] # NoTrace,
         ft[x] = "held"
  PROVE  x \in FrontItems(b, k, r)
<1>1. /\ n \in Nat /\ k \in 0 .. n /\ r \in Nat
      /\ \A i \in 0 .. n - 1 : b[i].items \in Seq(BucketItem) /\ Len(b[i].items) \in Nat
  BY DEF Fits, Cuts, Bucket
<1>2. PICK i \in 0 .. n - 1 : \E m \in 1 .. Len(b[i].items) : b[i].items[m] = x
  BY DEF Sound, Found
<1>3. PICK l \in 1 .. Len(b[i].items) : b[i].items[l] = x
  BY <1>2
<1>4. PICK j \in 0 .. n - 1 : \E m \in 1 .. Len(b[j].items) :
        b[j].items[m] = y /\ (j < k \/ (j = k /\ m \in 1 .. r))
  <2>1. CASE \E q \in 0 .. k - 1 : \E m \in 1 .. Len(b[q].items) : b[q].items[m] = y
    <3>1. PICK q \in 0 .. k - 1 : \E m \in 1 .. Len(b[q].items) : b[q].items[m] = y
      BY <2>1
    <3>2. q \in 0 .. n - 1 /\ q < k
      BY <1>1
    <3> QED
      BY <3>1, <3>2
  <2>2. CASE \E m \in 1 .. r : b[k].items[m] = y
    <3>1. PICK m \in 1 .. r : b[k].items[m] = y
      BY <2>2
    <3>2. k \in 0 .. n - 1 /\ m \in 1 .. Len(b[k].items)
      BY <1>1, <3>1 DEF Cuts
    <3> QED
      BY <3>1, <3>2
  <2> QED
    BY <2>1, <2>2 DEF FrontItems
<1>5. PICK m \in 1 .. Len(b[j].items) :
        b[j].items[m] = y /\ (j < k \/ (j = k /\ m \in 1 .. r))
  BY <1>4
<1>6. x \in BucketItem /\ y \in BucketItem /\ x \in Int /\ y \in Int
  <2>1. x \in BucketItem
    BY <1>1, <1>3
  <2>2. y \in BucketItem
    BY DEF FrontItems
  <2> QED
    BY <2>1, <2>2 DEF BucketItem
<1>7. b[i].trace = of[x] /\ b[j].trace = of[y]
  BY <1>3, <1>5 DEF Sound, Filled
<1>8. ~(j < i)
  <2>1. j < i => y < x
    BY <1>3, <1>5, <1>7 DEF Sound, Apart
  <2> QED
    BY <1>6, <2>1
<1>9. j = i => l < m
  <2>1. SUFFICES ASSUME j = i, ~(l < m)
                 PROVE  FALSE
    OBVIOUS
  <2>2. m \in 1 .. Len(b[i].items) /\ b[i].items[m] = y
    BY <1>5, <2>1
  <2>3. l = m \/ m < l
    BY <1>1, <2>1, <2>2
  <2>4. m < l => y < x
    BY <1>3, <2>2 DEF Sound, Rising
  <2> QED
    BY <1>3, <1>6, <2>2, <2>3, <2>4
<1>10. CASE i < k
  BY <1>1, <1>3, <1>6, <1>10 DEF FrontItems
<1>11. CASE ~(i < k)
  <2>1. i = j /\ j = k /\ m \in 1 .. r
    BY <1>1, <1>5, <1>8, <1>11
  <2>2. l \in 1 .. r
    BY <1>1, <1>9, <2>1
  <2> QED
    BY <1>3, <1>6, <2>1, <2>2 DEF FrontItems
<1> QED
  BY <1>10, <1>11

LEMMA SoundEmpty ==
  ASSUME NEW ft, NEW of, NEW d, \A x \in DOMAIN ft : ft[x] # "held"
  PROVE  Sound(d, 0, ft, of)
<1>1. \A k : k \notin 0 .. 0 - 1
  BY SMT
<1> QED
  BY <1>1 DEF Sound, Filled, Rising, Apart, Found

(***************************************************************************)
(* The ring holds the live buckets, and the index leads to them.           *)
(***************************************************************************)

Live(bs, h, n) == [k \in 0 .. n - 1 |-> bs[Wrap(h, k)]]
Ring == Live(buckets, bucketHead, bucketCount)

\* A trace in the index leads to the newest bucket that has it.
Leads(index, h, b, n) ==
  \A t \in Trace : index[t] # NoSlot =>
    \E k \in 0 .. n - 1 :
      /\ index[t] = Wrap(h, k) /\ b[k].trace = t
      /\ \A j \in 0 .. n - 1 : k < j => b[j].trace # t

RingInv ==
  /\ Len(traceOf) = Len(fate)
  /\ bucketTail = Wrap(bucketHead, bucketCount)
  /\ Sound(Ring, bucketCount, fate, traceOf)
  /\ Leads(traceIndex, bucketHead, Ring, bucketCount)
  /\ totalItems = Cardinality(HeldIn(fate))
  /\ \A x \in DOMAIN fate : fate[x] # "invalid"

BufferInv == BucketTypeOK /\ RingInv

LEMMA LiveFacts ==
  ASSUME BucketAssumption, NEW bs \in [BucketSlot -> Bucket], NEW h \in BucketSlot, NEW n \in 0 .. bucketCapacity
  PROVE  /\ Live(bs, h, n) \in [0 .. n - 1 -> Bucket] /\ n \in Nat
         /\ \A k \in 0 .. n - 1 : /\ Live(bs, h, n)[k] = bs[Wrap(h, k)] /\ Wrap(h, k) \in BucketSlot
                                  /\ k \in 0 .. bucketCapacity - 1 /\ k \in 0 .. bucketCapacity
<1>1. bucketCapacity \in Nat \ {0}
  BY CapacityFacts
<1>2. n \in Nat /\ \A k \in 0 .. n - 1 : k \in 0 .. bucketCapacity - 1 /\ k \in 0 .. bucketCapacity
  BY <1>1
<1>3. \A k \in 0 .. n - 1 : Wrap(h, k) \in BucketSlot
  BY <1>2, WrapFacts
<1> QED
  BY <1>2, <1>3 DEF Live

\* What the proofs of the steps start from.
LEMMA RingFacts ==
  ASSUME BucketAssumption, BufferInv
  PROVE  /\ Fits(Ring, bucketCount, fate, traceOf) /\ Sound(Ring, bucketCount, fate, traceOf)
         /\ bucketCapacity \in Nat \ {0} /\ bucketCount \in 0 .. bucketCapacity /\ bucketCount \in Nat
         /\ bucketHead \in BucketSlot /\ buckets \in [BucketSlot -> Bucket] /\ traceIndex \in [Trace -> BucketSlot \cup {NoSlot}]
         /\ fate \in Seq(Fates) /\ traceOf \in Seq(Trace \cup {NoTrace}) /\ Len(traceOf) = Len(fate)
         /\ \A k \in 0 .. bucketCount - 1 :
              /\ Ring[k] = buckets[Wrap(bucketHead, k)] /\ Wrap(bucketHead, k) \in BucketSlot
              /\ k \in 0 .. bucketCapacity - 1 /\ k \in 0 .. bucketCapacity
<1>1. bucketCapacity \in Nat \ {0}
  BY CapacityFacts
<1>2. /\ bucketCount \in 0 .. bucketCapacity
      /\ bucketHead \in BucketSlot /\ buckets \in [BucketSlot -> Bucket] /\ traceIndex \in [Trace -> BucketSlot \cup {NoSlot}]
      /\ fate \in Seq(Fates) /\ traceOf \in Seq(Trace \cup {NoTrace})
      /\ Len(traceOf) = Len(fate) /\ Sound(Ring, bucketCount, fate, traceOf)
  BY DEF BufferInv, RingInv, BucketTypeOK
<1>3. /\ Ring \in [0 .. bucketCount - 1 -> Bucket] /\ bucketCount \in Nat
      /\ \A k \in 0 .. bucketCount - 1 :
           /\ Ring[k] = buckets[Wrap(bucketHead, k)] /\ Wrap(bucketHead, k) \in BucketSlot
           /\ k \in 0 .. bucketCapacity - 1 /\ k \in 0 .. bucketCapacity
  BY <1>2, LiveFacts DEF Ring
<1> QED
  BY <1>1, <1>2, <1>3 DEF Fits

KeptEntries(h, n, k, r, b, d, index, index2) ==
  /\ h \in BucketSlot /\ n \in 0 .. bucketCapacity /\ k \in 0 .. n
  /\ Rest(d, b, n, k, r) /\ Leads(index, h, b, n)
  /\ \A t \in Trace : index2[t] # NoSlot =>
       index2[t] = index[t] /\ \A i \in 0 .. k - 1 : b[i].trace # t

\* An index from which traces of the front are gone leads into the rest.
LEMMA LeadsRest ==
  ASSUME BucketAssumption, NEW h, NEW n, NEW k, NEW r, NEW b, NEW d, NEW index, NEW index2,
         KeptEntries(h, n, k, r, b, d, index, index2)
  PROVE  Leads(index2, Wrap(h, k), d, n - k)
<1>0. /\ h \in BucketSlot /\ n \in 0 .. bucketCapacity /\ k \in 0 .. n
      /\ Rest(d, b, n, k, r) /\ Leads(index, h, b, n)
      /\ \A t \in Trace : index2[t] # NoSlot =>
           index2[t] = index[t] /\ \A i \in 0 .. k - 1 : b[i].trace # t
  BY DEF KeptEntries
<1> SUFFICES ASSUME NEW t \in Trace, index2[t] # NoSlot
             PROVE  \E i \in 0 .. n - k - 1 :
                      /\ index2[t] = Wrap(Wrap(h, k), i) /\ d[i].trace = t
                      /\ \A j \in 0 .. n - k - 1 : i < j => d[j].trace # t
  BY DEF Leads
<1>1. bucketCapacity \in Nat \ {0} /\ n \in Nat /\ k \in Nat
  BY <1>0, CapacityFacts
<1>2. PICK p \in 0 .. n - 1 : /\ index[t] = Wrap(h, p) /\ b[p].trace = t
                              /\ \A j \in 0 .. n - 1 : p < j => b[j].trace # t
  BY <1>0 DEF Leads
<1>3. p >= k
  BY <1>0, <1>1, <1>2
<1>4. PICK i : i = p - k
  OBVIOUS
<1>5. /\ i \in 0 .. n - k - 1 /\ i + k = p /\ k + i = p
      /\ k \in 0 .. bucketCapacity /\ i \in 0 .. bucketCapacity /\ k + i <= bucketCapacity
  BY <1>0, <1>1, <1>3, <1>4
<1>6. Wrap(Wrap(h, k), i) = Wrap(h, p)
  BY <1>0, <1>5, WrapTwice
<1>7. d[i].trace = t
  BY <1>0, <1>2, <1>5 DEF Rest
<1>8. ASSUME NEW j \in 0 .. n - k - 1, i < j
      PROVE  d[j].trace # t
  <2>1. j + k \in 0 .. n - 1 /\ p < j + k
    BY <1>0, <1>1, <1>5, <1>8
  <2> QED
    BY <1>0, <1>2, <2>1, SMTT(20) DEF Rest
<1> QED
  BY <1>0, <1>2, <1>5, <1>6, <1>7, <1>8

NewEntry(h, n, b, d, index, index2, t) ==
  /\ h \in BucketSlot /\ n \in 0 .. bucketCapacity - 1
  /\ \A k \in 0 .. n - 1 : d[k] = b[k]
  /\ Leads(index, h, b, n) /\ d[n].trace = t
  /\ \A u \in Trace : IF u = t THEN index2[u] = Wrap(h, n)
                        ELSE index2[u] # NoSlot => index2[u] = index[u]

\* An entry for a new bucket leads to it, and it is the newest.
LEMMA LeadsPush ==
  ASSUME BucketAssumption, NEW h, NEW n, NEW b, NEW d, NEW index, NEW index2, NEW t,
         NewEntry(h, n, b, d, index, index2, t)
  PROVE  Leads(index2, h, d, n + 1)
<1>0. /\ h \in BucketSlot /\ n \in 0 .. bucketCapacity - 1
      /\ \A k \in 0 .. n - 1 : d[k] = b[k]
      /\ Leads(index, h, b, n) /\ d[n].trace = t
      /\ \A u \in Trace : IF u = t THEN index2[u] = Wrap(h, n)
                            ELSE index2[u] # NoSlot => index2[u] = index[u]
  BY DEF NewEntry
<1> SUFFICES ASSUME NEW u \in Trace, index2[u] # NoSlot
             PROVE  \E k \in 0 .. (n + 1) - 1 :
                      /\ index2[u] = Wrap(h, k) /\ d[k].trace = u
                      /\ \A j \in 0 .. (n + 1) - 1 : k < j => d[j].trace # u
  BY DEF Leads
<1>1. n \in Nat /\ \A k : k \in 0 .. (n + 1) - 1 <=> k \in 0 .. n - 1 \/ k = n
  BY <1>0, CapacityFacts
<1>2. \A k \in 0 .. n - 1 : ~(n < k)
  BY <1>0, <1>1
<1>3. CASE u = t
  <2>1. ~(n < n)
    BY <1>1
  <2> QED
    BY <1>0, <1>1, <1>2, <1>3, <2>1
<1>4. CASE u # t
  <2>1. PICK k \in 0 .. n - 1 : /\ index[u] = Wrap(h, k) /\ b[k].trace = u
                                /\ \A j \in 0 .. n - 1 : k < j => b[j].trace # u
    BY <1>0, <1>4 DEF Leads
  <2>2. index2[u] = Wrap(h, k) /\ d[k].trace = u
    BY <1>0, <1>4, <2>1
  <2>3. \A j \in 0 .. (n + 1) - 1 : k < j => d[j].trace # u
    BY <1>0, <1>1, <1>4, <2>1
  <2> QED
    BY <1>1, <2>1, <2>2, <2>3
<1> QED
  BY <1>3, <1>4

-----------------------------------------------------------------------------
(* The steps of the buffer *)

LEMMA ItemLemma ==
  ASSUME BucketAssumption, NEW n \in Nat, n + 1 <= MaxBucketed
  PROVE  n + 1 \in BucketItem
BY DEF BucketAssumption, BucketItem

LEMMA AppendStep ==
  ASSUME BucketAssumption, BufferInv, NEW t \in Trace \cup {NoTrace}, NEW x, x = Len(fate) + 1,
         x <= MaxBucketed, AppendToBucket(t, x), traceOf' = Append(traceOf, t),
         UNCHANGED <<bucketPolicy, bucketElapsed>>
  PROVE  BufferInv'
<1> DEFINE n == bucketCount
           b == Ring
           s == traceIndex[t]
           d == Ring'
<1>1. /\ Fits(b, n, fate, traceOf) /\ Sound(b, n, fate, traceOf) /\ n \in 0 .. bucketCapacity
      /\ bucketHead \in BucketSlot /\ buckets \in [BucketSlot -> Bucket] /\ n \in Nat
      /\ fate \in Seq(Fates) /\ traceOf \in Seq(Trace \cup {NoTrace}) /\ Len(traceOf) = Len(fate)
      /\ \A k \in 0 .. n - 1 :
           /\ b[k] = buckets[Wrap(bucketHead, k)] /\ Wrap(bucketHead, k) \in BucketSlot
           /\ k \in 0 .. bucketCapacity - 1
  BY RingFacts
<1>2. /\ t \in Trace /\ s # NoSlot
      /\ buckets' = [buckets EXCEPT ![s].items = Append(@, x)]
      /\ totalItems' = totalItems + 1 /\ fate' = Append(fate, "held")
      /\ UNCHANGED <<traceIndex, bucketHead, bucketTail, bucketCount>>
  BY DEF AppendToBucket, HasOpenBucket
<1>3. x \in BucketItem /\ "held" \in Fates
  BY <1>1, ItemLemma DEF Fates
<1>4. Leads(traceIndex, bucketHead, b, n)
  BY DEF BufferInv, RingInv
<1>5. PICK p \in 0 .. n - 1 : /\ s = Wrap(bucketHead, p) /\ b[p].trace = t
                              /\ \A j \in 0 .. n - 1 : p < j => b[j].trace # t
  BY <1>2, <1>4 DEF Leads
<1>6. s \in BucketSlot /\ b[p] = buckets[s]
  BY <1>1, <1>5
<1>7. /\ buckets'[s].trace = buckets[s].trace
      /\ buckets'[s].items = Append(buckets[s].items, x)
      /\ \A q \in BucketSlot : q # s => buckets'[q] = buckets[q]
      /\ buckets' \in [BucketSlot -> Bucket]
  <2>1. buckets[s] \in Bucket /\ Append(buckets[s].items, x) \in Seq(BucketItem)
    BY <1>1, <1>3, <1>6 DEF Bucket
  <2>2. [buckets[s] EXCEPT !.items = Append(@, x)] \in Bucket
    BY <2>1 DEF Bucket
  <2>3. buckets' = [buckets EXCEPT ![s] = [buckets[s] EXCEPT !.items = Append(@, x)]]
    BY <1>2
  <2>4. /\ [buckets[s] EXCEPT !.items = Append(@, x)].trace = buckets[s].trace
        /\ [buckets[s] EXCEPT !.items = Append(@, x)].items = Append(buckets[s].items, x)
    BY <2>1 DEF Bucket
  <2> HIDE DEF s
  <2> QED
    BY <1>1, <1>6, <2>2, <2>3, <2>4
<1>8. d = Live(buckets', bucketHead, n)
  BY <1>2 DEF Ring
<1>9. /\ d \in [0 .. n - 1 -> Bucket]
      /\ \A k \in 0 .. n - 1 : d[k] = buckets'[Wrap(bucketHead, k)]
  BY <1>1, <1>7, <1>8, LiveFacts
<1>10. /\ d[p].trace = t /\ d[p].items = Append(b[p].items, x)
       /\ \A k \in 0 .. n - 1 : k # p => d[k] = b[k]
  <2>1. ASSUME NEW k \in 0 .. n - 1, k # p
        PROVE  Wrap(bucketHead, k) # s
    BY <1>1, <1>5, <2>1, WrapDistinct
  <2> QED
    BY <1>1, <1>5, <1>6, <1>7, <1>9, <2>1
<1> HIDE DEF b, d, s, n
<1>11. Sound(d, n, Append(fate, "held"), Append(traceOf, t))
  <2>1. Fits(b, n, fate, traceOf) /\ Sound(b, n, fate, traceOf)
    BY <1>1
  <2>2. t \in Trace /\ p \in 0 .. n - 1 /\ b[p].trace = t /\ x \in BucketItem /\ x = Len(fate) + 1
        /\ \A j \in 0 .. n - 1 : p < j => b[j].trace # t
    BY <1>2, <1>3, <1>5
  <2>3. d \in [0 .. n - 1 -> Bucket]
    BY <1>9
  <2> QED
    BY <1>10, <2>1, <2>2, <2>3, SoundAppend, ZenonT(30)
<1>12. Leads(traceIndex, bucketHead, d, n)
  <2>1. \A k \in 0 .. n - 1 : d[k].trace = b[k].trace
    BY <1>5, <1>10
  <2> QED
    BY <1>4, <2>1 DEF Leads
<1>13. /\ Append(fate, "held") \in Seq(Fates) /\ Append(traceOf, t) \in Seq(Trace \cup {NoTrace})
       /\ Len(Append(traceOf, t)) = Len(Append(fate, "held"))
       /\ Cardinality(HeldIn(Append(fate, "held"))) = Cardinality(HeldIn(fate)) + 1
  BY <1>1, <1>2, <1>3, HeldMore
<1>14. \A y \in DOMAIN Append(fate, "held") : Append(fate, "held")[y] # "invalid"
  <2>1. \A y \in DOMAIN fate : fate[y] # "invalid"
    BY DEF BufferInv, RingInv
  <2> QED
    BY <1>1, <2>1
<1>15. RingInv'
  <2>1. totalItems = Cardinality(HeldIn(fate)) /\ bucketTail = Wrap(bucketHead, bucketCount)
    BY DEF BufferInv, RingInv
  <2>2. bucketTail' = Wrap(bucketHead', bucketCount') /\ totalItems' = Cardinality(HeldIn(fate'))
    BY <1>2, <1>13, <2>1
  <2>3. Sound(Ring', bucketCount', fate', traceOf') /\ Leads(traceIndex', bucketHead', Ring', bucketCount')
    BY <1>2, <1>11, <1>12 DEF n, d
  <2> QED
    BY <1>2, <1>13, <1>14, <2>2, <2>3 DEF RingInv
<1>16. BucketTypeOK'
  BY <1>2, <1>7, <1>13 DEF BucketTypeOK, BufferInv
<1> QED
  BY <1>15, <1>16 DEF BufferInv

\* A bucket is added at the end of the ring.
PushArgs(h, n, bs, ft, of, index, index2, t, x) ==
  /\ h \in BucketSlot /\ n \in 0 .. bucketCapacity - 1 /\ bs \in [BucketSlot -> Bucket]
  /\ Fits(Live(bs, h, n), n, ft, of) /\ Sound(Live(bs, h, n), n, ft, of)
  /\ Leads(index, h, Live(bs, h, n), n)
  /\ t \in Trace \cup {NoTrace} /\ x \in BucketItem /\ x = Len(ft) + 1
  /\ \A u \in Trace : IF u = t THEN index2[u] = Wrap(h, n)
                        ELSE index2[u] # NoSlot => index2[u] = index[u]

Added(bs, s, t, x) == [bs EXCEPT ![s] = [trace |-> t, items |-> <<x>>]]

PushDone(h, n, bs2, ft, of, index2, t) ==
  /\ n + 1 \in 0 .. bucketCapacity /\ bs2 \in [BucketSlot -> Bucket]
  /\ Sound(Live(bs2, h, n + 1), n + 1, Append(ft, "held"), Append(of, t))
  /\ Leads(index2, h, Live(bs2, h, n + 1), n + 1)
  /\ Wrap(Wrap(h, n), 1) = Wrap(h, n + 1)

LEMMA PushLemma ==
  ASSUME BucketAssumption, NEW h, NEW n, NEW bs, NEW ft, NEW of, NEW index, NEW index2, NEW t, NEW x,
         PushArgs(h, n, bs, ft, of, index, index2, t, x)
  PROVE  PushDone(h, n, Added(bs, Wrap(h, n), t, x), ft, of, index2, t)
<1>0. /\ h \in BucketSlot /\ n \in 0 .. bucketCapacity - 1 /\ bs \in [BucketSlot -> Bucket]
      /\ t \in Trace \cup {NoTrace} /\ x \in BucketItem /\ x = Len(ft) + 1
  BY DEF PushArgs
<1>p. PICK m, s, bs2, b, d : /\ m = n + 1 /\ s = Wrap(h, n) /\ bs2 = Added(bs, s, t, x)
                             /\ b = Live(bs, h, n) /\ d = Live(bs2, h, m)
  OBVIOUS
<1>1. bucketCapacity \in Nat \ {0}
  BY CapacityFacts
<1>2. /\ n \in 0 .. bucketCapacity /\ m \in 0 .. bucketCapacity /\ n \in Nat /\ n \in 0 .. m - 1
      /\ 1 \in 0 .. bucketCapacity /\ n + 1 <= bucketCapacity
      /\ \A k \in 0 .. n - 1 : k \in 0 .. m - 1 /\ k # n /\ k \in 0 .. bucketCapacity - 1
                              /\ k \in 0 .. bucketCapacity
  BY <1>0, <1>1, <1>p
<1>3. s \in BucketSlot /\ Wrap(s, 1) = Wrap(h, m)
  BY <1>0, <1>1, <1>2, <1>p, WrapFacts, WrapTwice
<1>4. [trace |-> t, items |-> <<x>>] \in Bucket
  BY <1>0 DEF Bucket
<1>5. bs2 \in [BucketSlot -> Bucket] /\ bs2[s] = [trace |-> t, items |-> <<x>>]
      /\ \A q \in BucketSlot : q # s => bs2[q] = bs[q]
  BY <1>0, <1>3, <1>4, <1>p DEF Added
<1>6. d[n] = [trace |-> t, items |-> <<x>>]
  BY <1>2, <1>5, <1>p DEF Live
<1>7. ASSUME NEW k \in 0 .. n - 1
      PROVE  d[k] = b[k]
  <2>1. Wrap(h, k) # s
    BY <1>0, <1>2, <1>p, WrapDistinct
  <2>2. d[k] = bs2[Wrap(h, k)] /\ b[k] = bs[Wrap(h, k)] /\ Wrap(h, k) \in BucketSlot
    <3>1. k \in 0 .. m - 1 /\ k \in 0 .. bucketCapacity
      BY <1>2
    <3>2. Wrap(h, k) \in BucketSlot
      BY <1>0, <3>1, WrapFacts
    <3> QED
      BY <1>p, <3>1, <3>2 DEF Live
  <2> QED
    BY <1>5, <2>1, <2>2
<1>a. Fits(b, n, ft, of) /\ Sound(b, n, ft, of) /\ Leads(index, h, b, n)
  BY <1>p DEF PushArgs
<1>8. Sound(d, n + 1, Append(ft, "held"), Append(of, t))
  BY <1>0, <1>6, <1>7, <1>a, SoundPush, ZenonT(30)
<1>9. Leads(index2, h, d, n + 1)
  <2>1. d[n].trace = t
    BY <1>6
  <2>2. \A u \in Trace : IF u = t THEN index2[u] = Wrap(h, n)
                         ELSE index2[u] # NoSlot => index2[u] = index[u]
    BY DEF PushArgs
  <2> QED
    <3>1. NewEntry(h, n, b, d, index, index2, t)
      BY <1>0, <1>7, <1>a, <2>1, <2>2 DEF NewEntry
    <3> QED
      BY <3>1, LeadsPush
<1> QED
  BY <1>2, <1>3, <1>5, <1>8, <1>9, <1>p DEF PushDone

LEMMA AddStep ==
  ASSUME BucketAssumption, BufferInv, NEW t \in Trace \cup {NoTrace}, NEW x, x = Len(fate) + 1,
         x <= MaxBucketed, AddBucket(t, x), traceOf' = Append(traceOf, t),
         UNCHANGED <<bucketPolicy, bucketElapsed>>
  PROVE  BufferInv'
<1>1. /\ Fits(Ring, bucketCount, fate, traceOf) /\ Sound(Ring, bucketCount, fate, traceOf)
      /\ bucketCount \in 0 .. bucketCapacity
      /\ bucketHead \in BucketSlot /\ buckets \in [BucketSlot -> Bucket]
      /\ fate \in Seq(Fates) /\ traceOf \in Seq(Trace \cup {NoTrace}) /\ Len(traceOf) = Len(fate)
      /\ bucketCapacity \in Nat \ {0}
  BY RingFacts
<1>2. /\ bucketTail = Wrap(bucketHead, bucketCount) /\ Leads(traceIndex, bucketHead, Ring, bucketCount)
      /\ totalItems = Cardinality(HeldIn(fate)) /\ \A y \in DOMAIN fate : fate[y] # "invalid"
  BY DEF BufferInv, RingInv
<1>3. /\ ~BucketsFull /\ UNCHANGED bucketHead /\ fate' = Append(fate, "held")
      /\ buckets' = [buckets EXCEPT ![bucketTail] = [trace |-> t, items |-> <<x>>]]
      /\ traceIndex' = [u \in Trace |-> IF u = t THEN bucketTail ELSE IndexWithout(t)[u]]
      /\ bucketTail' = Wrap(bucketTail, 1)
      /\ totalItems' = totalItems + 1 /\ bucketCount' = bucketCount + 1
  BY DEF AddBucket, PutBucket, IndexWith, Wrap
<1>4. bucketCount \in 0 .. bucketCapacity - 1
  BY <1>1, <1>3 DEF BucketsFull
<1>5. x \in BucketItem /\ "held" \in Fates
  BY <1>1, ItemLemma DEF Fates
<1>6. PushArgs(bucketHead, bucketCount, buckets, fate, traceOf, traceIndex, traceIndex', t, x)
  <2>1. \A u \in Trace : IF u = t THEN traceIndex'[u] = bucketTail
                         ELSE traceIndex'[u] # NoSlot => traceIndex'[u] = traceIndex[u]
    BY <1>3 DEF IndexWithout
  <2> QED
    BY <1>1, <1>2, <1>4, <1>5, <2>1 DEF PushArgs, Ring
<1>7. buckets' = Added(buckets, Wrap(bucketHead, bucketCount), t, x)
  BY <1>2, <1>3 DEF Added
<1>8. PushDone(bucketHead, bucketCount, buckets', fate, traceOf, traceIndex', t)
  BY <1>6, <1>7, PushLemma
<1>9. /\ bucketCount' \in 0 .. bucketCapacity /\ buckets' \in [BucketSlot -> Bucket]
      /\ Sound(Ring', bucketCount', Append(fate, "held"), Append(traceOf, t))
      /\ Leads(traceIndex', bucketHead', Ring', bucketCount')
      /\ bucketTail' = Wrap(bucketHead', bucketCount')
  BY <1>2, <1>3, <1>8 DEF PushDone, Ring
<1>10. /\ Append(fate, "held") \in Seq(Fates) /\ Append(traceOf, t) \in Seq(Trace \cup {NoTrace})
       /\ Len(Append(traceOf, t)) = Len(Append(fate, "held"))
       /\ Cardinality(HeldIn(Append(fate, "held"))) = Cardinality(HeldIn(fate)) + 1
  BY <1>1, <1>5, HeldMore
<1>11. \A y \in DOMAIN Append(fate, "held") : Append(fate, "held")[y] # "invalid"
  BY <1>1, <1>2
<1>12. bucketTail \in BucketSlot /\ bucketTail' \in BucketSlot
  <2>1. bucketCount \in 0 .. bucketCapacity /\ bucketCount' \in 0 .. bucketCapacity /\ bucketHead \in BucketSlot
    BY <1>1, <1>9
  <2> QED
    BY <1>2, <1>3, <1>9, <2>1, WrapFacts
<1>13. traceIndex' \in [Trace -> BucketSlot \cup {NoSlot}]
  BY <1>3, <1>12 DEF IndexWithout, BufferInv, BucketTypeOK
<1>14. RingInv'
  <2>1. bucketTail' = Wrap(bucketHead', bucketCount') /\ totalItems' = Cardinality(HeldIn(fate'))
    BY <1>2, <1>3, <1>9, <1>10
  <2>2. Sound(Ring', bucketCount', fate', traceOf') /\ Leads(traceIndex', bucketHead', Ring', bucketCount')
    BY <1>3, <1>9
  <2> QED
    BY <1>3, <1>10, <1>11, <2>1, <2>2 DEF RingInv
<1>15. BucketTypeOK'
  BY <1>3, <1>9, <1>10, <1>12, <1>13 DEF BucketTypeOK, BufferInv
<1> QED
  BY <1>14, <1>15 DEF BufferInv

\* The slots bs2 hold what remains when k buckets and r items of the next are gone.
Remains(h, n, k, r, bs, bs2) ==
  /\ h \in BucketSlot /\ n \in 0 .. bucketCapacity /\ k \in 0 .. n
  /\ bs \in [BucketSlot -> Bucket] /\ bs2 \in [BucketSlot -> Bucket]
  /\ Cuts(Live(bs, h, n), n, k, r)
  /\ \A i \in k .. n - 1 : i > k \/ r = 0 => bs2[Wrap(h, i)] = bs[Wrap(h, i)]
  /\ r > 0 => LET s == bs[Wrap(h, k)].items IN
       /\ bs2[Wrap(h, k)].trace = bs[Wrap(h, k)].trace
       /\ bs2[Wrap(h, k)].items = SubSeq(s, r + 1, Len(s))

LEMMA SuffixFacts ==
  ASSUME NEW s \in Seq(BucketItem), NEW r \in Nat, r <= Len(s)
  PROVE  /\ SubSeq(s, r + 1, Len(s)) \in Seq(BucketItem) /\ Len(SubSeq(s, r + 1, Len(s))) = Len(s) - r
         /\ \A m \in 1 .. Len(s) - r : SubSeq(s, r + 1, Len(s))[m] = s[m + r]
<1>1. Len(s) \in Nat
  OBVIOUS
<1>2. \A m \in r + 1 .. Len(s) : s[m] \in BucketItem
  BY <1>1
<1>3. SubSeq(s, r + 1, Len(s)) = [m \in 1 .. (Len(s) - (r + 1) + 1) |-> s[m + (r + 1) - 1]]
  BY <1>1
<1>4. Len(s) - (r + 1) + 1 = Len(s) - r /\ Len(s) - r \in Nat
      /\ \A m \in 1 .. Len(s) - r : m + (r + 1) - 1 = m + r /\ m + r \in r + 1 .. Len(s)
  BY <1>1
<1> DEFINE q == [m \in 1 .. Len(s) - r |-> s[m + r]]
<1>5. SubSeq(s, r + 1, Len(s)) = q
  BY <1>3, <1>4
<1>6. q \in Seq(BucketItem) /\ Len(q) = Len(s) - r
  BY <1>2, <1>4
<1> QED
  BY <1>5, <1>6

LEMMA RestRing ==
  ASSUME BucketAssumption, NEW h, NEW n, NEW k, NEW r, NEW bs, NEW bs2, Remains(h, n, k, r, bs, bs2)
  PROVE  Rest(Live(bs2, Wrap(h, k), n - k), Live(bs, h, n), n, k, r)
<1>0. /\ h \in BucketSlot /\ n \in 0 .. bucketCapacity /\ k \in 0 .. n
      /\ bs \in [BucketSlot -> Bucket] /\ bs2 \in [BucketSlot -> Bucket]
      /\ Cuts(Live(bs, h, n), n, k, r)
  BY DEF Remains
<1>1. bucketCapacity \in Nat \ {0} /\ r \in Nat
  BY <1>0, CapacityFacts DEF Cuts
<1> SUFFICES ASSUME NEW i \in 0 .. n - k - 1
             PROVE  LET new == Live(bs2, Wrap(h, k), n - k)[i]
                        old == Live(bs, h, n)
                    IN
                    /\ new.trace = old[i + k].trace
                    /\ new.items \in Seq(BucketItem)
                    /\ i > 0 => new.items = old[i + k].items
                    /\ i = 0 => /\ Len(new.items) = Len(old[k].items) - r
                                /\ \A m \in 1 .. Len(new.items) : new.items[m] = old[k].items[m + r]
  BY DEF Rest
<1>2. /\ i + k \in 0 .. n - 1 /\ k + i \in k .. n - 1 /\ i + k = k + i
      /\ i \in 0 .. bucketCapacity /\ k \in 0 .. bucketCapacity /\ i + k \in 0 .. bucketCapacity
      /\ k + i <= bucketCapacity
  BY <1>0, <1>1
<1> DEFINE s == Wrap(h, i + k)
           new == Live(bs2, Wrap(h, k), n - k)[i]
<1>3. Wrap(Wrap(h, k), i) = s /\ s \in BucketSlot
  BY <1>0, <1>2, WrapFacts, WrapTwice
<1>4. new = bs2[s] /\ Live(bs, h, n)[i + k] = bs[s]
  BY <1>2, <1>3 DEF Live
<1> HIDE DEF s, new
<1>5. /\ bs[s] \in Bucket /\ bs2[s] \in Bucket
      /\ bs[s].items \in Seq(BucketItem) /\ bs2[s].items \in Seq(BucketItem) /\ Len(bs[s].items) \in Nat
  BY <1>0, <1>3 DEF Bucket
<1>6. CASE i > 0 \/ r = 0
  <2>1. bs2[s] = bs[s]
    BY <1>2, <1>6 DEF Remains, s
  <2>2. i = 0 => i + k = k
    BY <1>0, <1>2
  <2>3. \A m \in 1 .. Len(bs[s].items) : m + 0 = m
    BY <1>5
  <2>4. Len(bs[s].items) - 0 = Len(bs[s].items)
    BY <1>5
  <2>5. i = 0 => r = 0
    BY <1>0, <1>2, <1>6
  <2> QED
    BY <1>4, <1>5, <2>1, <2>2, <2>3, <2>4, <2>5 DEF new
<1>7. CASE i = 0 /\ r > 0
  <2>1. i + k = k /\ s = Wrap(h, k)
    BY <1>0, <1>7 DEF s
  <2>2. /\ bs2[s].trace = bs[s].trace
        /\ bs2[s].items = SubSeq(bs[s].items, r + 1, Len(bs[s].items))
    BY <1>7, <2>1 DEF Remains
  <2>3. Live(bs, h, n)[k] = bs[s]
    BY <1>4, <2>1
  <2>4. r <= Len(bs[s].items)
    BY <1>0, <1>1, <1>5, <1>7, <2>3 DEF Cuts
  <2>5. /\ Len(bs2[s].items) = Len(bs[s].items) - r
        /\ \A m \in 1 .. Len(bs[s].items) - r : bs2[s].items[m] = bs[s].items[m + r]
    BY <1>1, <1>5, <2>2, <2>4, SuffixFacts
  <2>6. ~(i > 0)
    BY <1>7
  <2> QED
    BY <1>4, <1>5, <2>1, <2>2, <2>3, <2>5, <2>6 DEF new
<1>8. i > 0 \/ r = 0 \/ (i = 0 /\ r > 0)
  BY <1>0, <1>1, SMT
<1> QED
  BY <1>6, <1>7, <1>8, Zenon

LEMMA ItemsInFront ==
  ASSUME BucketAssumption, BufferInv, NEW k, NEW r, Cuts(Ring, bucketCount, k, r)
  PROVE  ItemsIn(k, r) = FrontItems(Ring, k, r)
<1>1. /\ bucketCount \in Nat /\ k \in 0 .. bucketCount /\ r \in Nat
      /\ \A i \in 0 .. bucketCount - 1 : /\ Ring[i] = buckets[Wrap(bucketHead, i)]
                                         /\ Ring[i].items \in Seq(BucketItem)
  BY RingFacts DEF Cuts, Fits, Bucket
<1>2. \A i \in 0 .. k - 1 : i \in 0 .. bucketCount - 1 /\ buckets[At(i)] = Ring[i]
  BY <1>1 DEF At, Wrap
<1>3. r > 0 => k \in 0 .. bucketCount - 1 /\ buckets[At(k)] = Ring[k] /\ r <= Len(Ring[k].items)
  BY <1>1 DEF At, Wrap, Cuts
<1>4. ASSUME NEW x
      PROVE  x \in ItemsIn(k, r) <=>
               \/ \E i \in 0 .. k - 1 : \E m \in 1 .. Len(Ring[i].items) : Ring[i].items[m] = x
               \/ \E m \in 1 .. r : Ring[k].items[m] = x
  <2>1. (\E m \in 1 .. r : buckets[At(k)].items[m] = x) <=> (\E m \in 1 .. r : Ring[k].items[m] = x)
    <3>1. CASE r > 0
      BY <1>3, <3>1
    <3>2. CASE r = 0
      BY <3>2
    <3>3. r > 0 \/ r = 0
      BY <1>1
    <3> QED
      BY <3>1, <3>2, <3>3
  <2>2. ASSUME NEW i \in 0 .. k - 1
        PROVE  x \in BucketElements(buckets[At(i)].items) <=>
                 \E m \in 1 .. Len(Ring[i].items) : Ring[i].items[m] = x
    BY <1>2 DEF BucketElements
  <2>3. x \in ItemsIn(k, r) <=> \/ \E i \in 0 .. k - 1 : x \in BucketElements(buckets[At(i)].items)
                                \/ \E m \in 1 .. r : buckets[At(k)].items[m] = x
    <3> DEFINE A == UNION {BucketElements(buckets[At(i)].items) : i \in 0 .. k - 1}
               B == {buckets[At(k)].items[i] : i \in 1 .. r}
    <3>1. x \in A <=> \E i \in 0 .. k - 1 : x \in BucketElements(buckets[At(i)].items)
      BY Zenon
    <3>2. x \in B <=> \E m \in 1 .. r : buckets[At(k)].items[m] = x
      BY Zenon
    <3>3. ItemsIn(k, r) = A \cup B
      BY DEF ItemsIn
    <3> HIDE DEF A, B
    <3> QED
      BY <3>1, <3>2, <3>3
  <2> QED
    BY <2>1, <2>2, <2>3
<1>5. ASSUME NEW x, \/ \E i \in 0 .. k - 1 : \E m \in 1 .. Len(Ring[i].items) : Ring[i].items[m] = x
                    \/ \E m \in 1 .. r : Ring[k].items[m] = x
      PROVE  x \in BucketItem
  <2>1. CASE \E i \in 0 .. k - 1 : \E m \in 1 .. Len(Ring[i].items) : Ring[i].items[m] = x
    BY <1>1, <1>2, <2>1
  <2>2. CASE \E m \in 1 .. r : Ring[k].items[m] = x
    <3>1. PICK m \in 1 .. r : Ring[k].items[m] = x
      BY <2>2
    <3>2. k \in 0 .. bucketCount - 1 /\ m \in 1 .. Len(Ring[k].items)
      BY <1>1, <1>3, <3>1
    <3> QED
      BY <1>1, <3>1, <3>2
  <2> QED
    BY <1>5, <2>1, <2>2
<1> QED
  BY <1>4, <1>5 DEF FrontItems

\* The fates of what the front had change.
LEMMA FatesAfter ==
  ASSUME NEW ft \in Seq(Fates), NEW gone, NEW c \in Fates, NEW gt,
         gt = [x \in DOMAIN ft |-> IF x \in gone THEN c ELSE ft[x]]
  PROVE  gt \in Seq(Fates) /\ Len(gt) = Len(ft) /\ DOMAIN gt = DOMAIN ft
<1>1. Len(ft) \in Nat /\ DOMAIN ft = 1 .. Len(ft) /\ \A x \in 1 .. Len(ft) : ft[x] \in Fates
  OBVIOUS
<1>2. gt \in [1 .. Len(ft) -> Fates]
  BY <1>1
<1> QED
  BY <1>1, <1>2

LEMMA TakeStep ==
  ASSUME BucketAssumption, BufferInv, NEW k, NEW r, Cuts(Ring, bucketCount, k, r),
         TakeBuckets(k, r), bucketElapsed' \in 0 .. bucketTimeout, UNCHANGED bucketPolicy
  PROVE  BufferInv'
<1> DEFINE gone == FrontItems(Ring, k, r)
           n == bucketCount
<1>1. /\ Fits(Ring, n, fate, traceOf) /\ Sound(Ring, n, fate, traceOf)
      /\ n \in 0 .. bucketCapacity /\ n \in Nat
      /\ bucketHead \in BucketSlot /\ buckets \in [BucketSlot -> Bucket]
      /\ fate \in Seq(Fates) /\ traceOf \in Seq(Trace \cup {NoTrace}) /\ Len(traceOf) = Len(fate)
      /\ bucketCapacity \in Nat \ {0} /\ traceIndex \in [Trace -> BucketSlot \cup {NoSlot}]
      /\ \A i \in 0 .. n - 1 : /\ Ring[i] = buckets[Wrap(bucketHead, i)] /\ Wrap(bucketHead, i) \in BucketSlot
                               /\ i \in 0 .. bucketCapacity - 1
  BY RingFacts
<1>2. /\ bucketTail = Wrap(bucketHead, n) /\ Leads(traceIndex, bucketHead, Ring, n)
      /\ totalItems = Cardinality(HeldIn(fate)) /\ \A y \in DOMAIN fate : fate[y] # "invalid"
  BY DEF BufferInv, RingInv
<1>3. /\ fate' = [x \in DOMAIN fate |-> IF x \in gone THEN "taken" ELSE fate[x]]
      /\ buckets' = [s \in BucketSlot |->
           IF s \in {Wrap(bucketHead, i) : i \in 0 .. k - 1} THEN Nil
           ELSE IF r > 0 /\ s = Wrap(bucketHead, k)
             THEN [buckets[s] EXCEPT !.items = SubSeq(@, r + 1, Len(@))]
             ELSE buckets[s]]
      /\ traceIndex' = IndexAfter(k)
      /\ bucketHead' = Wrap(bucketHead, k)
      /\ totalItems' = totalItems - Cardinality(gone)
      /\ bucketCount' = n - k
      /\ UNCHANGED <<bucketTail, traceOf>>
  BY ItemsInFront DEF TakeBuckets, At, Wrap
<1>4. k \in 0 .. n /\ r \in Nat /\ k \in 0 .. bucketCapacity /\ k \in Nat
      /\ n - k \in 0 .. bucketCapacity /\ k + (n - k) = n
  BY <1>1 DEF Cuts
<1>5. bucketHead' \in BucketSlot
  BY <1>1, <1>3, <1>4, WrapFacts
<1>6. buckets' \in [BucketSlot -> Bucket]
  <2>1. ASSUME NEW s \in BucketSlot
        PROVE  [buckets[s] EXCEPT !.items = SubSeq(@, r + 1, Len(@))] \in Bucket
    <3>1. buckets[s] \in Bucket
      BY <1>1
    <3>2. SubSeq(buckets[s].items, r + 1, Len(buckets[s].items)) \in Seq(BucketItem)
      BY <1>4, <3>1 DEF Bucket
    <3> QED
      BY <3>1, <3>2 DEF Bucket
  <2>2. Nil \in Bucket
    BY DEF Nil, Bucket
  <2> QED
    BY <1>1, <1>3, <2>1, <2>2
<1>7. Remains(bucketHead, n, k, r, buckets, buckets')
  <2>1. ASSUME NEW i \in k .. n - 1
        PROVE  /\ Wrap(bucketHead, i) \notin {Wrap(bucketHead, j) : j \in 0 .. k - 1}
               /\ Wrap(bucketHead, i) = Wrap(bucketHead, k) => i = k
               /\ i \in 0 .. n - 1
    <3>1. i \in 0 .. n - 1 /\ i \in 0 .. bucketCapacity - 1 /\ k \in 0 .. bucketCapacity - 1
      BY <1>1, <1>4
    <3>2. ASSUME NEW j \in 0 .. k - 1
          PROVE  Wrap(bucketHead, i) # Wrap(bucketHead, j)
      <4>1. j \in 0 .. bucketCapacity - 1 /\ i # j
        BY <1>1, <1>4
      <4> QED
        BY <1>1, <3>1, <4>1, WrapDistinct
    <3> QED
      BY <1>1, <3>1, <3>2, WrapDistinct
  <2>2. ASSUME NEW i \in k .. n - 1, i > k \/ r = 0
        PROVE  buckets'[Wrap(bucketHead, i)] = buckets[Wrap(bucketHead, i)]
    <3>1. /\ Wrap(bucketHead, i) \in BucketSlot /\ Wrap(bucketHead, i) \notin {Wrap(bucketHead, j) : j \in 0 .. k - 1}
          /\ ~(r > 0 /\ Wrap(bucketHead, i) = Wrap(bucketHead, k))
      BY <1>1, <1>4, <2>1, <2>2
    <3> QED
      BY <1>3, <3>1
  <2>3. ASSUME r > 0
        PROVE  /\ buckets'[Wrap(bucketHead, k)].trace = buckets[Wrap(bucketHead, k)].trace
               /\ buckets'[Wrap(bucketHead, k)].items =
                    SubSeq(buckets[Wrap(bucketHead, k)].items, r + 1, Len(buckets[Wrap(bucketHead, k)].items))
    <3>1. k \in k .. n - 1
      BY <1>1, <1>4, <2>3 DEF Cuts
    <3>2. Wrap(bucketHead, k) \in BucketSlot /\ Wrap(bucketHead, k) \notin {Wrap(bucketHead, j) : j \in 0 .. k - 1}
      BY <1>1, <2>1, <3>1
    <3> DEFINE s == Wrap(bucketHead, k)
    <3>3. buckets'[s] = [buckets[s] EXCEPT !.items = SubSeq(@, r + 1, Len(@))]
      BY <1>3, <2>3, <3>2
    <3>4. buckets[s] \in Bucket
      BY <1>1, <3>2
    <3> HIDE DEF s
    <3>5. /\ buckets'[s].trace = buckets[s].trace
          /\ buckets'[s].items = SubSeq(buckets[s].items, r + 1, Len(buckets[s].items))
      BY <3>3, <3>4 DEF Bucket
    <3> QED
      BY <3>5 DEF s
  <2> QED
    BY <1>1, <1>4, <1>6, <2>2, <2>3 DEF Remains, Ring
<1>8. /\ Ring' = Live(buckets', Wrap(bucketHead, k), n - k)
      /\ Rest(Ring', Ring, n, k, r)
  <2>1. Ring' = Live(buckets', Wrap(bucketHead, k), n - k)
    BY <1>3 DEF Ring
  <2>2. Rest(Live(buckets', Wrap(bucketHead, k), n - k), Live(buckets, bucketHead, n), n, k, r)
    BY <1>7, RestRing
  <2> QED
    BY <2>1, <2>2 DEF Ring
<1>9. "taken" \in Fates /\ fate' \in Seq(Fates) /\ Len(fate') = Len(fate) /\ DOMAIN fate' = DOMAIN fate
  BY <1>1, <1>3, FatesAfter DEF Fates
<1>10. \A x \in DOMAIN fate : IF x \in gone THEN fate'[x] # "held" ELSE fate'[x] = fate[x]
  BY <1>3
<1> HIDE DEF gone, n
<1>11. Sound(Ring', n - k, fate', traceOf)
  BY <1>1, <1>8, <1>9, <1>10, SoundRest, ZenonT(30) DEF gone, n
<1>12. Leads(traceIndex', bucketHead', Ring', n - k)
  <2>1. ASSUME NEW t \in Trace, traceIndex'[t] # NoSlot
        PROVE  traceIndex'[t] = traceIndex[t] /\ \A i \in 0 .. k - 1 : Ring[i].trace # t
    <3>1. \A i \in 0 .. k - 1 : buckets[At(i)] = Ring[i]
      BY <1>1, <1>4 DEF At, Wrap
    <3> QED
      BY <1>3, <2>1, <3>1 DEF IndexAfter
  <2> QED
    <3>1. KeptEntries(bucketHead, n, k, r, Ring, Ring', traceIndex, traceIndex')
      BY <1>1, <1>2, <1>4, <1>8, <2>1 DEF KeptEntries, n
    <3> QED
      BY <1>3, <3>1, LeadsRest
<1>13. bucketTail' = Wrap(bucketHead', bucketCount')
  <2>1. Wrap(Wrap(bucketHead, k), n - k) = Wrap(bucketHead, k + (n - k))
    BY <1>1, <1>4, WrapTwice
  <2> QED
    BY <1>2, <1>3, <1>4, <2>1
<1>14. totalItems' = Cardinality(HeldIn(fate'))
  <2>1. gone \subseteq HeldIn(fate)
    BY <1>1, FrontHeld DEF gone, n
  <2>2. Cardinality(HeldIn(fate')) = Cardinality(HeldIn(fate)) - Cardinality(gone)
    BY <1>1, <1>9, <1>10, <2>1, HeldLess
  <2> QED
    BY <1>2, <1>3, <2>2
<1>15. RingInv'
  <2>1. \A y \in DOMAIN fate' : fate'[y] # "invalid"
    BY <1>2, <1>3, <1>9
  <2> QED
    BY <1>1, <1>3, <1>9, <1>11, <1>12, <1>13, <1>14, <2>1 DEF RingInv
<1>16. BucketTypeOK'
  <2>1. traceIndex' \in [Trace -> BucketSlot \cup {NoSlot}]
    BY <1>1, <1>3 DEF IndexAfter
  <2>2. totalItems' \in Int
    BY <1>9, <1>14, HeldFinite
  <2> QED
    BY <1>1, <1>3, <1>4, <1>5, <1>6, <1>9, <2>1, <2>2 DEF BucketTypeOK, BufferInv
<1> QED
  BY <1>15, <1>16 DEF BufferInv

\* A buffer that is full has a bucket, and so has an oldest one.
LEMMA FullHas ==
  ASSUME BucketAssumption, BufferInv, BucketsFull
  PROVE  bucketCount > 0 /\ 0 \in 0 .. bucketCount - 1 /\ Wrap(bucketHead, 0) = bucketHead
         /\ Ring[0] = buckets[bucketHead] /\ buckets[bucketHead] # Nil
<1>1. /\ bucketCount \in Nat /\ bucketCapacity \in Nat \ {0} /\ bucketHead \in BucketSlot
      /\ fate \in Seq(Fates) /\ Sound(Ring, bucketCount, fate, traceOf)
      /\ \A k \in 0 .. bucketCount - 1 : Ring[k] = buckets[Wrap(bucketHead, k)]
  BY RingFacts
<1>2. totalItems = Cardinality(HeldIn(fate))
  BY DEF BufferInv, RingInv
<1>3. bucketCount > 0
  <2>1. SUFFICES ASSUME bucketCount = 0 PROVE FALSE
    BY <1>1
  <2>2. HeldIn(fate) = {}
    <3>1. \A k : k \notin 0 .. bucketCount - 1
      BY <2>1
    <3> QED
      BY <1>1, <3>1 DEF Sound, Found, HeldIn
  <2>3. totalItems = 0
    BY <1>2, <2>2, FS_EmptySet
  <2> QED
    BY <1>1, <2>1, <2>3 DEF BucketsFull, BucketAssumption
<1>4. 0 \in 0 .. bucketCount - 1 /\ 0 \in 0 .. bucketCapacity
  BY <1>1, <1>3
<1>5. Wrap(bucketHead, 0) = bucketHead
  <2>1. Wrap(bucketHead, 0) = IF bucketHead + 0 < bucketCapacity THEN bucketHead + 0 ELSE bucketHead + 0 - bucketCapacity
    BY <1>1, <1>4, WrapFacts
  <2>2. bucketHead \in Nat /\ bucketHead < bucketCapacity
    BY <1>1 DEF BucketSlot
  <2> QED
    BY <1>1, <2>1, <2>2
<1>6. Ring[0].items # <<>>
  BY <1>1, <1>4 DEF Sound, Filled
<1> QED
  BY <1>1, <1>3, <1>4, <1>5, <1>6 DEF Nil

LEMMA DropOldestStep ==
  ASSUME BucketAssumption, BufferInv, NEW t \in Trace \cup {NoTrace}, NEW x, x = Len(fate) + 1,
         x <= MaxBucketed, DropOldestBucket(t, x), traceOf' = Append(traceOf, t),
         UNCHANGED <<bucketPolicy, bucketElapsed>>
  PROVE  BufferInv'
<1> DEFINE n == bucketCount
           oldest == buckets[bucketHead]
           lost == BucketElements(oldest.items)
           h1 == Wrap(bucketHead, 1)
           d1 == Live(buckets, h1, n - 1)
           ft1 == [y \in DOMAIN fate |-> IF y \in lost THEN "recorded" ELSE fate[y]]
           index1 == IndexWith(IndexWithout(t), oldest.trace, NoSlot)
<1>1. /\ Fits(Ring, n, fate, traceOf) /\ Sound(Ring, n, fate, traceOf)
      /\ n \in 0 .. bucketCapacity /\ n \in Nat
      /\ bucketHead \in BucketSlot /\ buckets \in [BucketSlot -> Bucket]
      /\ fate \in Seq(Fates) /\ traceOf \in Seq(Trace \cup {NoTrace}) /\ Len(traceOf) = Len(fate)
      /\ bucketCapacity \in Nat \ {0} /\ traceIndex \in [Trace -> BucketSlot \cup {NoSlot}]
  BY RingFacts
<1>2. /\ bucketTail = Wrap(bucketHead, n) /\ Leads(traceIndex, bucketHead, Ring, n)
      /\ totalItems = Cardinality(HeldIn(fate)) /\ \A y \in DOMAIN fate : fate[y] # "invalid"
  BY DEF BufferInv, RingInv
<1>3. /\ BucketsFull
      /\ buckets' = [buckets EXCEPT ![bucketTail] = [trace |-> t, items |-> <<x>>]]
      /\ traceIndex' = [u \in Trace |-> IF u = t THEN bucketTail ELSE index1[u]]
      /\ bucketTail' = Wrap(bucketTail, 1) /\ bucketHead' = h1
      /\ totalItems' = totalItems - Len(oldest.items) + 1
      /\ fate' = Append(ft1, "held")
      /\ UNCHANGED bucketCount
  BY DEF DropOldestBucket, PutBucket, IndexWith, Wrap
<1>4. n > 0 /\ 0 \in 0 .. n - 1 /\ Ring[0] = oldest
  BY <1>3, FullHas
<1>5. /\ n - 1 \in 0 .. bucketCapacity - 1 /\ n - 1 \in 0 .. bucketCapacity /\ (n - 1) + 1 = n
      /\ 1 \in 0 .. n /\ 1 \in 0 .. bucketCapacity /\ 1 + (n - 1) = n /\ n <= bucketCapacity
  BY <1>1, <1>4
<1>6. h1 \in BucketSlot /\ Wrap(h1, n - 1) = bucketTail
  <2>1. Wrap(Wrap(bucketHead, 1), n - 1) = Wrap(bucketHead, 1 + (n - 1))
    BY <1>1, <1>5, WrapTwice
  <2> QED
    BY <1>1, <1>2, <1>5, <2>1, WrapFacts
<1>7. Cuts(Ring, n, 1, 0)
  BY <1>5 DEF Cuts
<1>8. lost = FrontItems(Ring, 1, 0) /\ lost \subseteq HeldIn(fate) /\ Cardinality(lost) = Len(oldest.items)
  <2>1. ItemsIn(1, 0) = FrontItems(Ring, 1, 0)
    BY <1>7, ItemsInFront
  <2>2. ItemsIn(1, 0) = lost
    <3>1. 0 .. 1 - 1 = {0} /\ 1 .. 0 = {}
      BY SMT
    <3>2. At(0) = bucketHead
      BY <1>3, FullHas DEF At, Wrap
    <3> QED
      BY <3>1, <3>2 DEF ItemsIn
  <2>3. FrontItems(Ring, 1, 0) \subseteq HeldIn(fate)
    BY <1>1, <1>7, FrontHeld
  <2>4. Cardinality(FrontItems(Ring, 1, 0)) = Len(Ring[0].items)
    BY <1>1, <1>4, FrontOne
  <2> QED
    BY <1>4, <2>1, <2>2, <2>3, <2>4
<1>9. "recorded" \in Fates /\ "held" \in Fates /\ ft1 \in Seq(Fates) /\ Len(ft1) = Len(fate)
      /\ DOMAIN ft1 = DOMAIN fate
  BY <1>1, FatesAfter DEF Fates
<1>10. \A y \in DOMAIN fate : IF y \in lost THEN ft1[y] # "held" /\ ft1[y] # "invalid"
                              ELSE ft1[y] = fate[y]
  OBVIOUS
<1>11. Rest(d1, Ring, n, 1, 0)
  <2>1. Remains(bucketHead, n, 1, 0, buckets, buckets)
    BY <1>1, <1>5, <1>7 DEF Remains, Ring
  <2> QED
    BY <2>1, RestRing DEF Ring
<1> HIDE DEF n, lost, ft1, d1, h1, index1, oldest
<1>12. Sound(d1, n - 1, ft1, traceOf)
  <2>1. \A y \in DOMAIN fate : IF y \in FrontItems(Ring, 1, 0) THEN ft1[y] # "held" ELSE ft1[y] = fate[y]
    BY <1>8, <1>10
  <2> QED
    BY <1>1, <1>7, <1>9, <1>11, <2>1, SoundRest, ZenonT(30)
<1>13. Fits(d1, n - 1, ft1, traceOf)
  <2>1. d1 \in [0 .. (n - 1) - 1 -> Bucket] /\ n - 1 \in Nat
    BY <1>1, <1>5, <1>6, LiveFacts DEF d1
  <2> QED
    BY <1>1, <1>9, <2>1 DEF Fits
<1>14. Leads(index1, h1, d1, n - 1)
  <2>1. ASSUME NEW u \in Trace, index1[u] # NoSlot
        PROVE  index1[u] = traceIndex[u] /\ \A i \in 0 .. 1 - 1 : Ring[i].trace # u
    <3>1. index1[u] = traceIndex[u] /\ u # oldest.trace
      BY <2>1 DEF index1, IndexWith, IndexWithout
    <3>2. \A i \in 0 .. 1 - 1 : i = 0
      BY SMT
    <3> QED
      BY <1>4, <3>1, <3>2
  <2>2. KeptEntries(bucketHead, n, 1, 0, Ring, d1, traceIndex, index1)
    BY <1>1, <1>2, <1>5, <1>11, <2>1 DEF KeptEntries, n
  <2> QED
    BY <2>2, LeadsRest DEF h1
<1>15. x \in BucketItem
  BY <1>1, ItemLemma
<1>16. PushArgs(h1, n - 1, buckets, ft1, traceOf, index1, traceIndex', t, x)
  <2>1. \A u \in Trace : IF u = t THEN traceIndex'[u] = Wrap(h1, n - 1)
                         ELSE traceIndex'[u] # NoSlot => traceIndex'[u] = index1[u]
    BY <1>3, <1>6
  <2>2. x = Len(ft1) + 1
    BY <1>9
  <2> QED
    BY <1>1, <1>5, <1>6, <1>12, <1>13, <1>14, <1>15, <2>1, <2>2 DEF PushArgs, d1
<1>17. buckets' = Added(buckets, Wrap(h1, n - 1), t, x)
  BY <1>3, <1>6 DEF Added
<1>18. PushDone(h1, n - 1, buckets', ft1, traceOf, traceIndex', t)
  BY <1>16, <1>17, PushLemma
<1>19. /\ buckets' \in [BucketSlot -> Bucket]
       /\ Sound(Ring', bucketCount', fate', traceOf')
       /\ Leads(traceIndex', bucketHead', Ring', bucketCount')
       /\ bucketTail' = Wrap(bucketHead', bucketCount')
  <2>1. (n - 1) + 1 = n /\ Ring' = Live(buckets', bucketHead', bucketCount') /\ bucketCount' = n
    BY <1>3, <1>5 DEF Ring, n
  <2> QED
    BY <1>3, <1>6, <1>18, <2>1 DEF PushDone
<1>20. /\ fate' \in Seq(Fates) /\ traceOf' \in Seq(Trace \cup {NoTrace}) /\ Len(traceOf') = Len(fate')
       /\ \A y \in DOMAIN fate' : fate'[y] # "invalid"
  <2>1. \A y \in DOMAIN ft1 : ft1[y] # "invalid"
    BY <1>2, <1>9, <1>10
  <2> QED
    BY <1>1, <1>3, <1>9, <2>1
<1>21. totalItems' = Cardinality(HeldIn(fate'))
  <2>1. Cardinality(HeldIn(ft1)) = Cardinality(HeldIn(fate)) - Cardinality(lost)
    BY <1>1, <1>8, <1>9, <1>10, HeldLess
  <2>2. Cardinality(HeldIn(fate')) = Cardinality(HeldIn(ft1)) + 1
    BY <1>3, <1>9, HeldMore
  <2> QED
    BY <1>2, <1>3, <1>8, <2>1, <2>2
<1>22. RingInv'
  BY <1>19, <1>20, <1>21 DEF RingInv
<1>23. BucketTypeOK'
  <2>1. bucketTail \in BucketSlot /\ bucketTail' \in BucketSlot /\ bucketHead' \in BucketSlot
    BY <1>1, <1>2, <1>3, <1>5, <1>6, WrapFacts
  <2>2. traceIndex' \in [Trace -> BucketSlot \cup {NoSlot}]
    <3>1. \A u \in Trace : index1[u] \in BucketSlot \cup {NoSlot}
      BY <1>1 DEF index1, IndexWith, IndexWithout
    <3> QED
      BY <1>3, <2>1, <3>1
  <2>3. totalItems' \in Int
    BY <1>20, <1>21, HeldFinite
  <2> QED
    BY <1>3, <1>19, <1>20, <2>1, <2>2, <2>3 DEF BucketTypeOK, BufferInv
<1> QED
  BY <1>22, <1>23 DEF BufferInv

LEMMA DropItemStep ==
  ASSUME BucketAssumption, BufferInv, NEW t \in Trace \cup {NoTrace}, DropItem(t),
         traceOf' = Append(traceOf, t), UNCHANGED <<bucketPolicy, bucketElapsed>>
  PROVE  BufferInv'
<1>1. /\ Fits(Ring, bucketCount, fate, traceOf) /\ Sound(Ring, bucketCount, fate, traceOf)
      /\ fate \in Seq(Fates) /\ traceOf \in Seq(Trace \cup {NoTrace}) /\ Len(traceOf) = Len(fate)
      /\ traceIndex \in [Trace -> BucketSlot \cup {NoSlot}]
  BY RingFacts
<1>2. /\ bucketTail = Wrap(bucketHead, bucketCount) /\ Leads(traceIndex, bucketHead, Ring, bucketCount)
      /\ totalItems = Cardinality(HeldIn(fate)) /\ \A y \in DOMAIN fate : fate[y] # "invalid"
  BY DEF BufferInv, RingInv
<1>3. /\ fate' = Append(fate, "recorded") /\ traceIndex' = IndexWithout(t)
      /\ UNCHANGED <<buckets, bucketHead, bucketTail, totalItems, bucketCount>>
  BY FullHas DEF DropItem
<1>4. "recorded" \in Fates /\ "recorded" # "held"
  BY DEF Fates
<1>5. Sound(Ring, bucketCount, fate', traceOf')
  BY <1>1, <1>3, <1>4, SoundRefuse
<1>6. Leads(traceIndex', bucketHead, Ring, bucketCount)
  <2>1. \A u \in Trace : traceIndex'[u] # NoSlot => traceIndex'[u] = traceIndex[u]
    BY <1>3 DEF IndexWithout
  <2> QED
    BY <1>2, <2>1 DEF Leads
<1>7. /\ fate' \in Seq(Fates) /\ traceOf' \in Seq(Trace \cup {NoTrace}) /\ Len(traceOf') = Len(fate')
      /\ \A y \in DOMAIN fate' : fate'[y] # "invalid"
      /\ totalItems' = Cardinality(HeldIn(fate'))
  <2>1. Cardinality(HeldIn(Append(fate, "recorded"))) = Cardinality(HeldIn(fate))
    BY <1>1, <1>4, HeldMore
  <2> QED
    BY <1>1, <1>2, <1>3, <1>4, <2>1
<1>8. Ring' = Ring
  BY <1>3 DEF Ring
<1>9. RingInv'
  BY <1>2, <1>3, <1>5, <1>6, <1>7, <1>8 DEF RingInv
<1>10. BucketTypeOK'
  <2>1. traceIndex' \in [Trace -> BucketSlot \cup {NoSlot}]
    BY <1>1, <1>3 DEF IndexWithout
  <2> QED
    BY <1>3, <1>7, <2>1 DEF BucketTypeOK, BufferInv
<1> QED
  BY <1>9, <1>10 DEF BufferInv

\* The buffer begins again, with nothing that it holds.
LEMMA RestartStep ==
  ASSUME BucketAssumption, BufferInv, Restart, UNCHANGED bucketPolicy, buckets' \in [BucketSlot -> Bucket],
         NEW gone, NEW c \in Fates \ {"held", "invalid"}, HeldIn(fate) \subseteq gone,
         fate' = [x \in DOMAIN fate |-> IF x \in gone THEN c ELSE fate[x]]
  PROVE  BufferInv'
<1>1. /\ fate \in Seq(Fates) /\ traceOf \in Seq(Trace \cup {NoTrace}) /\ Len(traceOf) = Len(fate)
      /\ bucketCapacity \in Nat \ {0}
  BY RingFacts
<1>2. \A y \in DOMAIN fate : fate[y] # "invalid"
  BY DEF BufferInv, RingInv
<1>3. /\ traceIndex' = [t \in Trace |-> NoSlot]
      /\ bucketHead' = 0 /\ bucketTail' = 0 /\ totalItems' = 0 /\ bucketCount' = 0
      /\ UNCHANGED <<bucketElapsed, traceOf>>
  BY DEF Restart
<1>4. fate' \in Seq(Fates) /\ Len(fate') = Len(fate) /\ DOMAIN fate' = DOMAIN fate
  BY <1>1, FatesAfter
<1>5. \A y \in DOMAIN fate' : fate'[y] # "held" /\ fate'[y] # "invalid"
  BY <1>2, <1>4 DEF HeldIn
<1>6. Sound(Ring', bucketCount', fate', traceOf')
  BY <1>3, <1>5, SoundEmpty
<1>7. Leads(traceIndex', bucketHead', Ring', bucketCount')
  BY <1>3 DEF Leads
<1>8. totalItems' = Cardinality(HeldIn(fate'))
  <2>1. HeldIn(fate') = {}
    BY <1>5 DEF HeldIn
  <2> QED
    BY <1>3, <2>1, FS_EmptySet
<1>9. 0 \in BucketSlot /\ 0 \in 0 .. bucketCapacity /\ Wrap(0, 0) = 0
  <2>1. 0 \in BucketSlot /\ 0 \in 0 .. bucketCapacity /\ 0 + 0 < bucketCapacity /\ 0 + 0 = 0
    BY <1>1 DEF BucketSlot
  <2> QED
    BY <2>1, WrapFacts
<1>10. RingInv'
  BY <1>1, <1>3, <1>4, <1>5, <1>6, <1>7, <1>8, <1>9 DEF RingInv
<1>11. BucketTypeOK'
  BY <1>1, <1>3, <1>4, <1>9 DEF BucketTypeOK, BufferInv
<1> QED
  BY <1>10, <1>11 DEF BufferInv

LEMMA DrainStep ==
  ASSUME BucketAssumption, BufferInv, DrainBuckets, UNCHANGED bucketPolicy
  PROVE  BufferInv'
<1>1. Fits(Ring, bucketCount, fate, traceOf) /\ Sound(Ring, bucketCount, fate, traceOf)
      /\ bucketCount \in Nat /\ buckets \in [BucketSlot -> Bucket]
  BY RingFacts
<1>2. HeldIn(fate) \subseteq ItemsIn(bucketCount, 0)
  <2>1. Cuts(Ring, bucketCount, bucketCount, 0)
    BY <1>1 DEF Cuts
  <2> QED
    BY <1>1, <2>1, ItemsInFront, FrontAll
<1>3. buckets' \in [BucketSlot -> Bucket]
  <2>1. Nil \in Bucket
    BY DEF Nil, Bucket
  <2> QED
    BY <1>1, <2>1 DEF DrainBuckets
<1>4. /\ "taken" \in Fates \ {"held", "invalid"} /\ Restart
      /\ fate' = [x \in DOMAIN fate |-> IF x \in ItemsIn(bucketCount, 0) THEN "taken" ELSE fate[x]]
  BY DEF Fates, DrainBuckets
<1> QED
  BY <1>2, <1>3, <1>4, RestartStep

LEMMA ClearStep ==
  ASSUME BucketAssumption, BufferInv, ClearBuckets, UNCHANGED bucketPolicy
  PROVE  BufferInv'
<1>1. fate' = [x \in DOMAIN fate |-> IF x \in HeldIn(fate) THEN "cleared" ELSE fate[x]]
  BY DEF ClearBuckets, HeldIn
<1>2. buckets' \in [BucketSlot -> Bucket]
  <2>1. Nil \in Bucket
    BY DEF Nil, Bucket
  <2> QED
    BY <2>1 DEF ClearBuckets
<1>3. "cleared" \in Fates \ {"held", "invalid"} /\ Restart
  BY DEF Fates, ClearBuckets
<1> QED
  BY <1>1, <1>2, <1>3, RestartStep

\* What the polls take, they can take; what they take of a bucket leaves some of it.
Takes(k, r) == Cuts(Ring, bucketCount, k, r) /\ TakeBuckets(k, r)

LEMMA PollsTake ==
  ASSUME BucketAssumption, BufferInv, PollBucket \/ PollBuckets \/ PollBucketsIfReady
  PROVE  bucketElapsed' \in 0 .. bucketTimeout /\ \E k, r \in Nat : Takes(k, r)
<1>1. /\ bucketCount \in Nat /\ bucketCapacity \in Nat \ {0} /\ bucketHead \in BucketSlot
      /\ Sound(Ring, bucketCount, fate, traceOf)
      /\ \A k \in 0 .. bucketCount - 1 : /\ Ring[k] = buckets[Wrap(bucketHead, k)]
                                         /\ Ring[k].items \in Seq(BucketItem)
  BY RingFacts DEF Fits, Bucket
<1>2. bucketElapsed \in 0 .. bucketTimeout /\ 0 \in 0 .. bucketTimeout
  BY DEF BufferInv, BucketTypeOK, BucketAssumption
<1>3. CASE PollBucket
  <2>1. bucketCount > 0 /\ 0 \in 0 .. bucketCount - 1
    BY <1>1, <1>3 DEF PollBucket
  <2>2. Ring[0] = buckets[bucketHead]
    <3>1. Wrap(bucketHead, 0) = bucketHead
      <4>1. 0 \in 0 .. bucketCapacity
        BY <1>1
      <4>2. Wrap(bucketHead, 0) = IF bucketHead + 0 < bucketCapacity THEN bucketHead + 0 ELSE bucketHead + 0 - bucketCapacity
        BY <1>1, <4>1, WrapFacts
      <4>3. bucketHead \in Nat /\ bucketHead < bucketCapacity
        BY <1>1 DEF BucketSlot
      <4> QED
        BY <1>1, <4>2, <4>3
    <3> QED
      BY <1>1, <2>1, <3>1
  <2>3. CASE Len(buckets[bucketHead].items) = 1
    <3>1. TakeBuckets(1, 0) /\ Cuts(Ring, bucketCount, 1, 0)
      BY <1>1, <1>3, <2>1, <2>3 DEF PollBucket, Cuts
    <3>2. Takes(1, 0) /\ 1 \in Nat /\ 0 \in Nat
      BY <3>1 DEF Takes
    <3> QED
      BY <1>2, <1>3, <3>2 DEF PollBucket
  <2>4. CASE Len(buckets[bucketHead].items) # 1
    <3>1. TakeBuckets(0, 1) /\ buckets[bucketHead].items # <<>>
      BY <1>3, <2>4 DEF PollBucket
    <3>2. Ring[0].items \in Seq(BucketItem) /\ Ring[0].items # <<>> /\ Len(Ring[0].items) # 1
      BY <1>1, <2>1, <2>2, <2>4, <3>1
    <3>3. 1 < Len(Ring[0].items)
      <4>1. ASSUME NEW s \in Seq(BucketItem), s # <<>>, Len(s) # 1
            PROVE  1 < Len(s)
        <5>1. Len(s) \in Nat
          OBVIOUS
        <5>2. Len(s) # 0
          BY <4>1
        <5>3. ASSUME NEW n \in Nat, n # 0, n # 1
              PROVE  1 < n
          BY <5>3
        <5> QED
          BY <4>1, <5>1, <5>2, <5>3, Zenon
      <4> QED
        BY <3>2, <4>1
    <3>4. Takes(0, 1) /\ 1 \in Nat /\ 0 \in Nat
      BY <1>1, <2>1, <3>1, <3>3 DEF Cuts, Takes
    <3> QED
      BY <1>2, <1>3, <3>4 DEF PollBucket
  <2> QED
    BY <2>3, <2>4
<1>4. CASE PollBuckets
  <2>1. PICK k \in 0 .. bucketCount :
          \E r \in 0 .. (IF k < bucketCount THEN Len(buckets[At(k)].items) - 1 ELSE 0) : TakeBuckets(k, r)
    BY <1>4 DEF PollBuckets
  <2>2. PICK r \in 0 .. (IF k < bucketCount THEN Len(buckets[At(k)].items) - 1 ELSE 0) : TakeBuckets(k, r)
    BY <2>1
  <2>3. k \in Nat /\ (k < bucketCount => k \in 0 .. bucketCount - 1)
    BY <1>1
  <2>4. r \in Nat /\ (r > 0 => k < bucketCount /\ r < Len(Ring[k].items))
    <3>1. CASE k < bucketCount
      <4>1. Len(Ring[k].items) \in Nat /\ buckets[At(k)] = Ring[k]
        BY <1>1, <2>3, <3>1 DEF At, Wrap
      <4> QED
        BY <2>2, <3>1, <4>1
    <3>2. CASE ~(k < bucketCount)
      BY <2>2, <3>2
    <3> QED
      BY <3>1, <3>2
  <2>5. Takes(k, r)
    BY <2>2, <2>4 DEF Cuts, Takes
  <2> QED
    BY <1>2, <1>4, <2>3, <2>4, <2>5 DEF PollBuckets
<1>5. CASE PollBucketsIfReady
  <2>1. TakeBuckets(1, 0) /\ bucketCount > 0 /\ bucketElapsed' = 0
    BY <1>5 DEF PollBucketsIfReady, BucketsReady
  <2>2. Takes(1, 0) /\ 1 \in Nat /\ 0 \in Nat
    BY <1>1, <2>1 DEF Cuts, Takes
  <2> QED
    BY <1>2, <2>1, <2>2
<1> QED
  BY <1>3, <1>4, <1>5

LEMMA BufferInit ==
  ASSUME BucketAssumption, BucketInit
  PROVE  BufferInv
<1>1. bucketCapacity \in Nat \ {0}
  BY CapacityFacts
<1>2. 0 \in BucketSlot /\ 0 \in 0 .. bucketCapacity /\ Wrap(0, 0) = 0
  <2>1. 0 \in BucketSlot /\ 0 \in 0 .. bucketCapacity /\ 0 + 0 < bucketCapacity /\ 0 + 0 = 0
    BY <1>1 DEF BucketSlot
  <2> QED
    BY <2>1, WrapFacts
<1>3. Nil \in Bucket /\ 0 \in 0 .. bucketTimeout
  BY DEF Nil, Bucket, BucketAssumption
<1>4. fate = <<>> /\ traceOf = <<>> /\ DOMAIN fate = {} /\ Len(traceOf) = Len(fate)
      /\ fate \in Seq(Fates) /\ traceOf \in Seq(Trace \cup {NoTrace})
  BY DEF BucketInit
<1>5. Sound(Ring, bucketCount, fate, traceOf)
  BY <1>4, SoundEmpty DEF BucketInit
<1>6. Leads(traceIndex, bucketHead, Ring, bucketCount)
  BY DEF Leads, BucketInit
<1>7. totalItems = Cardinality(HeldIn(fate))
  <2>1. HeldIn(fate) = {}
    BY <1>4 DEF HeldIn
  <2> QED
    BY <2>1, FS_EmptySet DEF BucketInit
<1>8. RingInv
  BY <1>2, <1>4, <1>5, <1>6, <1>7 DEF RingInv, BucketInit
<1>9. BucketTypeOK
  BY <1>2, <1>3, <1>4, <1>7 DEF BucketTypeOK, BucketInit
<1> QED
  BY <1>8, <1>9 DEF BufferInv

LEMMA BufferNext ==
  ASSUME BucketAssumption, BufferInv, [BucketNext]_bucketVars
  PROVE  BufferInv'
<1>1. ASSUME NEW t \in Trace \cup {NoTrace}, Offer(t), UNCHANGED bucketPolicy
      PROVE  BufferInv'
  <2> DEFINE x == Len(fate) + 1
  <2>1. x <= MaxBucketed /\ traceOf' = Append(traceOf, t) /\ UNCHANGED <<bucketPolicy, bucketElapsed>>
        /\ (AppendToBucket(t, x) \/ AddBucket(t, x) \/ DropOldestBucket(t, x) \/ DropItem(t))
    BY <1>1 DEF Offer
  <2> QED
    BY <2>1, AppendStep, AddStep, DropOldestStep, DropItemStep
<1>2. ASSUME PollBucket \/ PollBuckets \/ PollBucketsIfReady, UNCHANGED bucketPolicy
      PROVE  BufferInv'
  BY <1>2, PollsTake, TakeStep DEF Takes
<1>3. ASSUME MarkBucketsFlushed \/ BucketTick \/ UNCHANGED bucketVars, UNCHANGED bucketPolicy
      PROVE  BufferInv'
  <2>1. UNCHANGED <<buckets, traceIndex, bucketHead, bucketTail, totalItems, bucketCount, bucketPolicy, fate, traceOf>>
    BY <1>3 DEF MarkBucketsFlushed, BucketTick, bucketVars, ringVars
  <2>2. bucketElapsed' \in 0 .. bucketTimeout
    BY <1>3 DEF MarkBucketsFlushed, BucketTick, bucketVars, BufferInv, BucketTypeOK, BucketAssumption
  <2>3. RingInv'
    BY <2>1 DEF BufferInv, RingInv, Ring, Live, Wrap, Leads
  <2>4. BucketTypeOK'
    BY <2>1, <2>2 DEF BufferInv, BucketTypeOK
  <2> QED
    BY <2>3, <2>4 DEF BufferInv
<1> QED
  BY <1>1, <1>2, <1>3, DrainStep, ClearStep DEF BucketNext, bucketVars

LEMMA BufferInvariance ==
  ASSUME BucketAssumption
  PROVE  BucketSpec => []BufferInv
<1>1. BucketInit => BufferInv
  BY BufferInit
<1>2. BufferInv /\ [BucketNext]_bucketVars => BufferInv'
  BY BufferNext
<1> QED
  BY <1>1, <1>2, PTL DEF BucketSpec

LEMMA BufferHolds ==
  ASSUME BucketAssumption, BufferInv
  PROVE  HeldExactly
<1>1. /\ Fits(Ring, bucketCount, fate, traceOf) /\ Sound(Ring, bucketCount, fate, traceOf)
      /\ bucketCount \in Nat
      /\ \A k \in 0 .. bucketCount - 1 : Ring[k] = buckets[At(k)]
  BY RingFacts DEF At, Wrap
<1>2. BucketTypeOK /\ bucketTail = Wrap(bucketHead, bucketCount) /\ Leads(traceIndex, bucketHead, Ring, bucketCount)
      /\ totalItems = Cardinality(HeldIn(fate)) /\ \A y \in DOMAIN fate : fate[y] # "invalid"
  BY DEF BufferInv, RingInv
<1>3. ItemsIn(bucketCount, 0) = HeldIn(fate)
  <2>1. Cuts(Ring, bucketCount, bucketCount, 0)
    BY <1>1 DEF Cuts
  <2> QED
    BY <1>1, <2>1, ItemsInFront, FrontAll
<1>4. RingOK
  BY <1>1, <1>2 DEF RingOK, Sound, Filled, Wrap
<1>5. IndexSound
  <2>1. ASSUME NEW t \in Trace, traceIndex[t] # NoSlot
        PROVE  /\ \E k \in 0 .. bucketCount - 1 : traceIndex[t] = At(k)
               /\ buckets[traceIndex[t]].trace = t
    <3>1. PICK k \in 0 .. bucketCount - 1 : traceIndex[t] = Wrap(bucketHead, k) /\ Ring[k].trace = t
      BY <1>2, <2>1 DEF Leads
    <3> QED
      BY <1>1, <3>1 DEF At, Wrap
  <2> QED
    BY <2>1 DEF IndexSound
<1> QED
  BY <1>2, <1>3, <1>4, <1>5 DEF HeldExactly, HeldIn

\* BucketedBuffer: what the live buckets of the ring hold is exactly what was offered and
\* neither delivered nor reported, each item once, and totalItems is its number; the ring and
\* the index always describe the buckets, and no offer finds the buffer in an invalid state.
THEOREM BufferHeldExactly ==
  ASSUME BucketAssumption
  PROVE  BucketSpec => []HeldExactly
<1>1. BufferInv => HeldExactly
  BY BufferHolds
<1> QED
  BY <1>1, BufferInvariance, PTL

LEMMA OrderStep ==
  ASSUME BucketAssumption, BufferInv, [BucketNext]_bucketVars,
         NEW y \in DOMAIN fate, NEW x \in 1 .. y - 1, traceOf[x] = traceOf[y], traceOf[x] # NoTrace,
         fate[x] = "held", fate[y] = "held", fate'[y] = "taken"
  PROVE  fate'[x] = "taken"
<1>1. /\ Fits(Ring, bucketCount, fate, traceOf) /\ Sound(Ring, bucketCount, fate, traceOf)
      /\ bucketCount \in Nat /\ fate \in Seq(Fates)
  BY RingFacts
<1>2. x \in DOMAIN fate /\ x < y /\ y # Len(fate) + 1
  <2>1. Len(fate) \in Nat /\ DOMAIN fate = 1 .. Len(fate)
    BY <1>1
  <2> QED
    BY <2>1
<1>3. ASSUME NEW k, NEW r, Cuts(Ring, bucketCount, k, r),
             fate' = [z \in DOMAIN fate |-> IF z \in FrontItems(Ring, k, r) THEN "taken" ELSE fate[z]]
      PROVE  fate'[x] = "taken"
  <2>1. y \in FrontItems(Ring, k, r)
    BY <1>3
  <2>2. x \in FrontItems(Ring, k, r)
    BY <1>1, <1>2, <1>3, <2>1, FrontOrdered
  <2> QED
    BY <1>2, <1>3, <2>2
<1>4. CASE PollBucket \/ PollBuckets \/ PollBucketsIfReady
  <2>1. PICK k, r \in Nat : Takes(k, r)
    BY <1>4, PollsTake
  <2>2. Cuts(Ring, bucketCount, k, r) /\ TakeBuckets(k, r)
    BY <2>1 DEF Takes
  <2>3. fate' = [z \in DOMAIN fate |-> IF z \in FrontItems(Ring, k, r) THEN "taken" ELSE fate[z]]
    BY <2>2, ItemsInFront DEF TakeBuckets
  <2> QED
    BY <1>3, <2>2, <2>3
<1>5. CASE DrainBuckets
  <2>1. Cuts(Ring, bucketCount, bucketCount, 0)
    BY <1>1 DEF Cuts
  <2>2. fate' = [z \in DOMAIN fate |-> IF z \in FrontItems(Ring, bucketCount, 0) THEN "taken" ELSE fate[z]]
    BY <1>5, <2>1, ItemsInFront DEF DrainBuckets
  <2> QED
    BY <1>3, <2>1, <2>2
<1>6. CASE ClearBuckets
  BY <1>6 DEF ClearBuckets
<1>7. CASE \E t \in Trace \cup {NoTrace} : Offer(t)
  <2>1. PICK ft1, c : /\ fate' = Append(ft1, c) /\ DOMAIN ft1 = DOMAIN fate /\ ft1 \in Seq(Fates)
                      /\ ft1[y] # "taken"
    <3>1. CASE fate' = Append(fate, "held") \/ fate' = Append(fate, "invalid")
                 \/ fate' = Append(fate, "recorded")
      BY <1>1, <3>1
    <3>2. CASE \E lost : fate' = Append([z \in DOMAIN fate |->
                           IF z \in lost THEN "recorded" ELSE fate[z]], "held")
      <4>1. PICK lost : fate' = Append([z \in DOMAIN fate |->
                           IF z \in lost THEN "recorded" ELSE fate[z]], "held")
        BY <3>2
      <4>2. PICK ft1 : ft1 = [z \in DOMAIN fate |-> IF z \in lost THEN "recorded" ELSE fate[z]]
        OBVIOUS
      <4>3. DOMAIN ft1 = DOMAIN fate /\ ft1 \in Seq(Fates)
        BY <1>1, <4>2, FatesAfter DEF Fates
      <4> QED
        BY <4>1, <4>2, <4>3
    <3> QED
      BY <1>7, <3>1, <3>2 DEF Offer, AppendToBucket, AddBucket, DropOldestBucket, DropItem
  <2>2. fate'[y] = ft1[y]
    BY <2>1
  <2> QED
    BY <2>1, <2>2
<1>8. CASE MarkBucketsFlushed \/ BucketTick \/ UNCHANGED bucketVars
  BY <1>8 DEF MarkBucketsFlushed, BucketTick, bucketVars
<1> QED
  BY <1>4, <1>5, <1>6, <1>7, <1>8 DEF BucketNext

\* BucketedBuffer: the items of one trace leave the buffer in the order they came.
THEOREM BufferKeepsTraceOrder ==
  ASSUME BucketAssumption
  PROVE  BucketSpec => TraceOrder
<1> DEFINE Order == \A y \in DOMAIN fate : \A x \in 1 .. y - 1 :
       (traceOf[x] = traceOf[y] /\ traceOf[x] # NoTrace
          /\ fate[x] = "held" /\ fate[y] = "held" /\ fate'[y] = "taken")
       => fate'[x] = "taken"
<1>1. BufferInv /\ [BucketNext]_bucketVars => [Order]_bucketVars
  BY OrderStep
<1> QED
  BY <1>1, BufferInvariance, PTL DEF BucketSpec, TraceOrder

===============================================================================
