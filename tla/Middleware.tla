------------------------------ MODULE Middleware ------------------------------
(***************************************************************************)
(* Middleware: the layer that each integration with a server framework     *)
(* puts around the handling of a request (http, gin, echo, fasthttp, fiber,*)
(* fiberv3, iris, negroni, grpc/server.go).                                *)
(*                                                                         *)
(* A layer finds the hub of the request or clones the current one, starts  *)
(* a transaction or joins the one in the context, tells the scope of the   *)
(* request, and leaves hub and transaction where the handler and further   *)
(* layers find them.  On the way out its deferred functions recover and    *)
(* report a panic, perhaps flush, perhaps panic again; then record the     *)
(* status and finish the transaction; then put back what they replaced.    *)
(* Requests are handled at the same time; a layer may be installed more    *)
(* than once.                                                              *)
(*                                                                         *)
(* The frameworks differ in where they look and leave, and in what they    *)
(* take for the status: each is a record here, and the actions are common. *)
(* Names of transactions, headers and bodies are left out.                 *)
(***************************************************************************)
EXTENDS Integers, Sequences, SequencesExt

CONSTANTS
  Request,    \* requests that are handled at the same time
  Framework,  \* the frameworks, of those below
  Layers,     \* bound: how often the layer is installed
  Code,       \* status codes that a handler writes
  NumActs     \* bound: what one handler does

VARIABLES
  server,     \* the framework and the options of its layers
  scope,      \* what the scope of each hub says: request and span
  span,       \* the transactions
  req         \* each request: where it stands, its layers, response and events

midVars == <<server, scope, span, req>>

-----------------------------------------------------------------------------
(* The frameworks.  finds: where a layer looks for the hub.  context: what  *)
(* becomes of the request's context: the layer passes one on with hub and   *)
(* transaction, sets it, sets and restores it, or leaves it alone.  values: *)
(* whether the hub is put into the values of the framework, from where the  *)
(* handler takes it.  status: from what the status is taken: a wrapper of   *)
(* the writer, the framework's response, the error, or the call's error.    *)

HTTP == [finds |-> "context", context |-> "passed", values |-> FALSE, status |-> "writer",
         broken |-> TRUE]
Negroni == HTTP
\* Gin leaves a broken connection unreported.
Gin == [finds |-> "context", context |-> "set", values |-> TRUE, status |-> "response",
        broken |-> FALSE]
Echo == [finds |-> "values", context |-> "none", values |-> TRUE, status |-> "error",
         broken |-> TRUE]
FastHTTP == [finds |-> "values", context |-> "none", values |-> TRUE, status |-> "response",
             broken |-> TRUE]
Fiber == [finds |-> "values", context |-> "restored", values |-> TRUE, status |-> "response",
          broken |-> TRUE]
FiberV3 == Fiber
\* Iris looks where no layer of its own ever puts a hub.
Iris == [finds |-> "context", context |-> "none", values |-> TRUE, status |-> "response",
         broken |-> TRUE]
GRPC == [finds |-> "context", context |-> "passed", values |-> FALSE, status |-> "rpc",
         broken |-> TRUE]

ASSUME MiddlewareAssumption ==
  /\ Framework \subseteq {HTTP, Gin, Echo, FastHTTP, Fiber, Iris, GRPC}
  /\ Layers \in Nat
  /\ Code \subseteq Nat \ {0}

-----------------------------------------------------------------------------
(* Status.                                                                  *)

NoStatus == "undefined"

HTTPtoSpanStatus(code) ==
  CASE code < 400 -> "ok"
    [] code = 404 -> "not_found"
    [] code = 503 -> "unavailable"
    [] code \in 500 .. 599 \ {503} -> "internal_error"
    [] OTHER -> "invalid_argument"

\* Of gRPC's codes: OK, Unknown, NotFound, Internal.
ToSpanStatus(code) ==
  CASE code = 0 -> "ok" [] code = 2 -> "unknown" [] code = 5 -> "not_found"
    [] code = 13 -> "internal_error" [] OTHER -> NoStatus
Unknown == 2
Internal == 13

\* The wrapper of net/http's writer.
NewWrapResponseWriter == [code |-> 200, wroteHeader |-> FALSE]
\* A fault: a second header counts, though the server ignores it.
WriteHeaderAgain(w, code) == [code |-> code, wroteHeader |-> TRUE]

WriteHeader(w, code) == IF w.wroteHeader THEN w ELSE [code |-> code, wroteHeader |-> TRUE]
FlushWriter(w) == [w EXCEPT !.wroteHeader = TRUE]

-----------------------------------------------------------------------------
Nobody == <<>>
CurrentHub == <<"current", 0>>
Hub == {CurrentHub} \cup (Request \X (1 .. Layers))
Span == Request \X (1 .. Layers)

\* writer: the wrapper; code: what the framework's own response holds, none being
\* as good as 200; sent: what the client got; error: what the server answers for
\* the error that the handler returned, and coded, whether that is the error's own
\* code; early: a 1xx came first; hidden: echo does not find its response.
NoResponse ==
  [writer |-> NewWrapResponseWriter, code |-> 0, sent |-> 0, error |-> 0, coded |-> FALSE,
   early |-> FALSE, hidden |-> FALSE]

NewRequest ==
  [at |-> "idle", frames |-> <<>>, acts |-> 0, context |-> [hub |-> Nobody, span |-> Nobody],
   values |-> Nobody, hubs |-> 0, spans |-> 0, response |-> NoResponse, panic |-> "none",
   first |-> "none", events |-> <<>>, flushed |-> 0, deep |-> 0]

MidInit ==
  /\ server \in [framework : Framework, repanic : BOOLEAN, wait : BOOLEAN]
  /\ scope = [h \in Hub |-> [request |-> Nobody, span |-> Nobody]]
  /\ span = [s \in Span |-> [status |-> NoStatus, finished |-> FALSE]]
  /\ req = [r \in Request |-> NewRequest]

fw == server.framework
Depth(r) == Len(req[r].frames)
Top(r) == req[r].frames[Depth(r)]
Does(r, at) == req[r].at = at
Become(r, request) == req' = [req EXCEPT ![r] = request]

FoundHub(r) == IF fw.finds = "context" THEN req[r].context.hub ELSE req[r].values

Clone(r) == <<r, req[r].hubs + 1>>
\* A fault: the layer uses the current hub itself.
HubFromCurrent(r) == IF FoundHub(r) = Nobody THEN CurrentHub ELSE FoundHub(r)

HubForRequest(r) == IF FoundHub(r) = Nobody THEN Clone(r) ELSE FoundHub(r)

\* StartTransaction gives the span that is in the context, if there is one.
StartTransaction(r) ==
  IF req[r].context.span = Nobody THEN <<r, req[r].spans + 1>> ELSE req[r].context.span

\* A layer, up to the call of what is inside.
Enter(r) ==
  LET hub == HubForRequest(r)
      new == req[r].context.span = Nobody
      transaction == StartTransaction(r)
      old == IF FoundHub(r) = Nobody THEN scope[CurrentHub] ELSE scope[hub]
      context == IF fw.context = "none" THEN req[r].context ELSE [hub |-> hub, span |-> transaction]
      frame == [hub |-> hub, span |-> transaction, saved |-> req[r].context]
  IN /\ Does(r, "idle") \/ Does(r, "handler")
     /\ Depth(r) < Layers /\ req[r].acts = 0
     /\ scope' = [scope EXCEPT ![hub] = [request |-> r, span |-> IF new THEN transaction ELSE old.span]]
     /\ Become(r, [req[r] EXCEPT !.at = "handler", !.frames = Append(@, frame),
                                 !.context = context,
                                 !.values = IF fw.values THEN hub ELSE @,
                                 !.hubs = IF FoundHub(r) = Nobody THEN @ + 1 ELSE @,
                                 !.spans = IF new THEN @ + 1 ELSE @,
                                 !.deep = @ + 1])
     /\ UNCHANGED <<server, span>>

-----------------------------------------------------------------------------
(* The handler, and what the framework makes of it.                         *)

Act(r) == Does(r, "handler") /\ req[r].acts < NumActs

\* The package's GetHubFromContext, or that of the SDK.
HandlerHub(r) == IF fw.values THEN req[r].values ELSE req[r].context.hub

\* An event has what the scope of its hub says; the client may drop it.
Event(r, hub, panic, kept) ==
  [panic |-> panic, kept |-> kept, layer |-> Depth(r), request |-> scope[hub].request,
   span |-> scope[hub].span, live |-> ~span[scope[hub].span].finished]

Capture(r) ==
  /\ Act(r)
  /\ Become(r, [req[r] EXCEPT !.acts = @ + 1,
                              !.events = Append(@, Event(r, HandlerHub(r), FALSE, TRUE))])
  /\ UNCHANGED <<server, scope, span>>

\* net/http and echo send the first final header; the others send at the end
\* what was written last.
Write(r, code) ==
  LET response == req[r].response
      first == fw.status \in {"writer", "error"} /\ code >= 200 /\ response.sent = 0
  IN /\ Act(r) /\ fw.status # "rpc"
     /\ code >= 200 \/ fw.status = "writer"
     /\ Become(r, [req[r] EXCEPT !.acts = @ + 1,
                                 !.response =
                        [response EXCEPT !.writer = WriteHeader(@, code),
                                         !.code = IF fw.status = "response" \/ first THEN code ELSE @,
                                         !.sent = IF first THEN code ELSE @,
                                         !.early = @ \/ (code < 200 /\ response.sent = 0)]])
     /\ UNCHANGED <<server, scope, span>>

Flush(r) ==
  /\ Act(r) /\ fw.status = "writer"
  /\ Become(r, [req[r] EXCEPT !.acts = @ + 1, !.response.writer = FlushWriter(@),
                              !.response.sent = IF @ = 0 THEN 200 ELSE @])
  /\ UNCHANGED <<server, scope, span>>

\* A handler of echo may put in a response of its own, that does not unwrap.
SetResponse(r) ==
  /\ Act(r) /\ fw = Echo
  /\ Become(r, [req[r] EXCEPT !.acts = @ + 1, !.response.hidden = TRUE])
  /\ UNCHANGED <<server, scope, span>>

\* Handlers of echo, fiber and gRPC may return an error, with or without a code,
\* and also after they have sent a response.
Fail(r, coded) ==
  /\ Act(r) /\ fw \in {Echo, Fiber, GRPC}
  /\ Become(r, [req[r] EXCEPT !.at = "recover",
                              !.response.error = IF fw = GRPC THEN IF coded THEN 5 ELSE Unknown
                                                 ELSE IF coded THEN 404 ELSE 500,
                              !.response.coded = coded])
  /\ UNCHANGED <<server, scope, span>>

Panic(r, value) ==
  /\ Act(r)
  /\ Become(r, [req[r] EXCEPT !.at = "recover", !.panic = value, !.first = value])
  /\ UNCHANGED <<server, scope, span>>

Return(r) ==
  /\ Does(r, "handler")
  /\ Become(r, [req[r] EXCEPT !.at = "recover"])
  /\ UNCHANGED <<server, scope, span>>

-----------------------------------------------------------------------------
(* The deferred functions of a layer.                                       *)

Panics(r) == req[r].panic # "none"
Reports(r) == Panics(r) /\ (req[r].panic = "broken pipe" => fw.broken)

\* A fault: the option to panic again is not looked at.
RecoverForGood(r, kept) ==
  LET events == IF Reports(r) THEN <<Event(r, Top(r).hub, TRUE, kept)>> ELSE <<>>
  IN /\ Does(r, "recover")
     /\ Become(r, [req[r] EXCEPT !.at = "finish", !.events = @ \o events,
                                 !.panic = "none"])
     /\ UNCHANGED <<server, scope, span>>

\* recoverWithSentry.  A gRPC call that panicked fails with Internal.
RecoverWithSentry(r, kept) ==
  LET events == IF Reports(r) THEN <<Event(r, Top(r).hub, TRUE, kept)>> ELSE <<>>
      all == req[r].events \o events
  IN /\ Does(r, "recover")
     /\ Reports(r) \/ kept
     /\ Become(r, [req[r] EXCEPT !.at = "finish", !.events = all,
                                 !.flushed = IF Reports(r) /\ kept /\ server.wait THEN Len(all) ELSE @,
                                 !.response.error = IF Panics(r) /\ fw = GRPC THEN Internal ELSE @,
                                 !.panic = IF server.repanic THEN @ ELSE "none"])
     /\ UNCHANGED <<server, scope, span>>

\* What the layer takes for the status.  Echo's prefers the code of an error to
\* that of the response, asks no other error, and may find no response.
Status(r) ==
  LET response == req[r].response IN
  CASE fw.status = "rpc" -> ToSpanStatus(response.error)
    [] fw.status = "writer" -> HTTPtoSpanStatus(response.writer.code)
    [] fw.status = "error" /\ response.coded -> HTTPtoSpanStatus(response.error)
    [] fw.status = "error" /\ ~response.coded /\ response.hidden -> NoStatus
    [] OTHER -> HTTPtoSpanStatus(response.code)

\* Finish counts once, and puts nothing back on the scope for a transaction.
FinishTransaction(r) ==
  LET s == Top(r).span IN
  /\ Does(r, "finish")
  /\ span' = [span EXCEPT ![s] = IF @.finished THEN @ ELSE [status |-> Status(r), finished |-> TRUE]]
  /\ Become(r, [req[r] EXCEPT !.at = "leave"])
  /\ UNCHANGED <<server, scope>>

\* What the layer replaced is put back, by scoping or by a deferred function.
\* With the last layer left, the server sends what it has not sent.
Leave(r) ==
  LET out == Depth(r) = 1
      response == req[r].response
      last == IF response.sent # 0 THEN response.sent
              ELSE IF fw.status = "rpc" \/ response.error # 0 THEN response.error
              ELSE IF response.code # 0 THEN response.code
              ELSE 200
  IN /\ Does(r, "leave")
     /\ Become(r, [req[r] EXCEPT !.at = IF out THEN "done" ELSE "recover",
                                 !.frames = SubSeq(@, 1, Depth(r) - 1),
                                 !.context = IF fw.context = "set" THEN @ ELSE Top(r).saved,
                                 !.response.sent = IF out THEN last ELSE @])
     /\ UNCHANGED <<server, scope, span>>

Handle(r) ==
  \/ Enter(r) \/ Capture(r) \/ Flush(r) \/ SetResponse(r) \/ Return(r)
  \/ \E coded \in BOOLEAN : Fail(r, coded)
  \/ \E code \in Code : Write(r, code)
  \/ \E value \in {"panic", "broken pipe"} : Panic(r, value)
  \/ \E kept \in BOOLEAN : RecoverWithSentry(r, kept)
  \/ FinishTransaction(r) \/ Leave(r)

MidNext == \E r \in Request : Handle(r)

MidSpec == MidInit /\ [][MidNext]_midVars

-----------------------------------------------------------------------------
Done(r) == Does(r, "done")
PanicEvents(r) == {e \in ToSet(req[r].events) : e.panic}

\* Every event of a request, its handler's and its panics', carries that request
\* and a transaction of it, whatever else is being handled.
OwnRequest ==
  \A r \in Request : \A i \in DOMAIN req[r].events :
    LET e == req[r].events[i] IN e.request = r /\ e.span # Nobody /\ e.span[1] = r

\* The statuses that are known not to be recorded: the final one after a 1xx, which
\* stays in the wrapper; what fiber answers for an error once the layer has left;
\* in echo, what was sent before an error that has a code, and the 500 for an error
\* that has none when nothing was sent.
Misread(r) ==
  LET response == req[r].response IN
  \/ response.early
  \/ fw = Fiber /\ response.error # 0
  \/ fw = Echo /\ response.error # 0 /\ (response.coded <=> response.code # 0)

\* But for those, the status recorded of a request that did not panic on is that of
\* the response that the client got, or none where echo does not find its response.
StatusTrue ==
  \A r \in Request : Done(r) /\ ~Panics(r) /\ ~Misread(r) =>
    \A n \in 1 .. req[r].spans :
      \/ span[<<r, n>>].status = IF fw.status = "rpc" THEN ToSpanStatus(req[r].response.sent)
                                 ELSE HTTPtoSpanStatus(req[r].response.sent)
      \/ span[<<r, n>>].status = NoStatus /\ req[r].response.hidden

\* A panic is reported by the innermost layer while the transaction that it ended
\* is open, and by every layer when they panic again, but for gin's broken pipes;
\* it leaves the layers exactly then, and after the wait for delivery.  Every
\* transaction that was started is finished, fiber's context is as it was, and the
\* status of a transaction is that of the response, but for what Misread lists.
Unwound ==
  /\ StatusTrue
  /\ \A r \in Request :
       LET events == PanicEvents(r)
           reports == IF req[r].first = "none" \/ (req[r].first = "broken pipe" /\ fw = Gin) THEN 0
                      ELSE IF server.repanic THEN req[r].deep ELSE 1
       IN /\ \A e \in events : e.layer = req[r].deep => e.live
          /\ Done(r) =>
               /\ Cardinality(events) = reports
               /\ Panics(r) <=> server.repanic /\ req[r].first # "none"
               /\ server.wait => \A i \in req[r].flushed + 1 .. Len(req[r].events) :
                                   ~req[r].events[i].panic \/ ~req[r].events[i].kept
               /\ \A n \in 1 .. req[r].spans : span[<<r, n>>].finished
               /\ fw = Fiber => req[r].context = NewRequest.context

=============================================================================
