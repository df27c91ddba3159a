------------------------------- MODULE Outgoing -------------------------------
(***************************************************************************)
(* Outgoing: the spans that the SDK puts around what a program asks of     *)
(* others: statements to a database (sql), HTTP requests (httpclient) and  *)
(* gRPC calls and streams (grpc/client.go).                                *)
(*                                                                         *)
(* The database/sql package calls one connection's methods one at a time,  *)
(* and puts it back into its pool between uses.  A stream is used by a     *)
(* sender and a receiver, and watched by a function that runs when its     *)
(* context ends: whoever comes first finishes its span, while the others   *)
(* wait for it.                                                            *)
(*                                                                         *)
(* Data of spans other than parent, status and the obfuscated text of a    *)
(* query is left out; what the text of a query is made of are tokens.      *)
(***************************************************************************)
EXTENDS Naturals, Sequences, SequencesExt

CONSTANTS
  Queries,   \* the texts of queries, as tokens
  NumSpans   \* bound: spans, the one around everything included

ASSUME QueriesAssumption == Queries \subseteq Seq(STRING)

VARIABLES
  out,      \* the spans, in the order they were started; the first is the program's
  conn,     \* the connection, its sentryTx and what it is doing
  stream,   \* the gRPC stream, what its users and its monitor are doing
  trip      \* the HTTP request

outVars == <<out, conn, stream, trip>>

NoSpan == 0
Root == 1
Users == {"send", "recv", "monitor"}

NewSpan(op, parent, text) == [op |-> op, parent |-> parent, text |-> text, status |-> "", finished |-> 0]
CanStart == Len(out) < NumSpans

\* startSpan: without a parent there is no span.
StartSpan(op, parent, text) ==
  IF parent = NoSpan THEN UNCHANGED out ELSE out' = Append(out, NewSpan(op, parent, text))
Started(parent) == IF parent = NoSpan THEN NoSpan ELSE Len(out) + 1

Finish(s, status) ==
  IF s = NoSpan THEN UNCHANGED out
  ELSE out' = [out EXCEPT ![s].status = status, ![s].finished = @ + 1]

-----------------------------------------------------------------------------
(* The text of a query.  Names are kept, literals replaced, comments left   *)
(* out; SQLite takes quoted names for strings.                              *)

Literal == {"number", "string"}
Comment == "comment"
Dot == "."
Mark == "?"

NoText == [text |-> <<>>, placeholder |-> FALSE, quoted |-> FALSE, dot |-> FALSE]

FlushSQLiteDot(o) == IF o.dot THEN [o EXCEPT !.text = Append(@, Dot), !.dot = FALSE] ELSE o

WritePlaceholder(o, quoted) ==
  LET p == FlushSQLiteDot(o) IN
  CASE o.dot /\ quoted /\ o.quoted -> [o EXCEPT !.dot = FALSE]
    [] ~(o.dot /\ quoted /\ o.quoted) /\ p.placeholder -> p
    [] OTHER -> [p EXCEPT !.text = Append(@, Mark), !.placeholder = TRUE, !.quoted = quoted]

\* A fault: a dot that was held back is forgotten.
WriteValueOnly(o, token) ==
  [o EXCEPT !.text = Append(@, token), !.placeholder = FALSE, !.quoted = FALSE, !.dot = FALSE]

WriteValue(o, token) ==
  [FlushSQLiteDot(o) EXCEPT !.text = Append(@, token), !.placeholder = FALSE, !.quoted = FALSE]

\* What becomes of the next token.
Scan(o, token, sqlite) ==
  CASE token = Comment -> o
    [] token \in Literal -> WritePlaceholder(o, sqlite /\ token = "string")
    [] token = "quoted" /\ sqlite -> WritePlaceholder(o, TRUE)
    [] token = Dot /\ sqlite /\ o.quoted -> [o EXCEPT !.dot = TRUE]
    [] OTHER -> WriteValue(o, token)

ObfuscateQuery(tokens, sqlite) ==
  LET run[i \in 0 .. Len(tokens)] == IF i = 0 THEN NoText ELSE Scan(run[i - 1], tokens[i], sqlite)
  IN FlushSQLiteDot(run[Len(tokens)]).text

-----------------------------------------------------------------------------
(* sql.  conn.tx is the sentryTx last begun, with the span it holds; open   *)
(* and using are what database/sql knows.                                   *)

SpanOrNil == conn.tx

SpanParent(ctx) == IF SpanOrNil # NoSpan THEN SpanOrNil ELSE ctx

Idle == conn.at = "idle"

\* BeginTx, which may fail, and Begin, which has no context.
BeginTx(ctx) ==
  /\ Idle /\ ~conn.open /\ CanStart
  /\ StartSpan("transaction", ctx, [tokens |-> <<>>, out |-> <<>>, sqlite |-> FALSE])
  /\ conn' = [conn EXCEPT !.tx = Started(ctx), !.open = TRUE, !.began = Started(ctx)]
  /\ UNCHANGED <<stream, trip>>

\* QueryContext and ExecContext of the connection or of a prepared statement,
\* up to the driver's call; a driver without them, arguments it cannot take, or
\* a context that has ended, start no span.
StartQuery(ctx, tokens) ==
  LET parent == SpanParent(ctx)
      text == [tokens |-> tokens, out |-> ObfuscateQuery(tokens, conn.sqlite), sqlite |-> conn.sqlite]
  IN /\ Idle /\ CanStart
     /\ StartSpan("query", parent, text)
     /\ conn' = [conn EXCEPT !.at = "query", !.using = Started(parent)]
     /\ UNCHANGED <<stream, trip>>

\* finishSpan: a driver that skips leaves the span as it is.
EndQuery(outcome) ==
  /\ conn.at = "query"
  /\ IF outcome = "skip" THEN UNCHANGED out
     ELSE Finish(conn.using, IF outcome = "ok" THEN "ok" ELSE "internal_error")
  /\ conn' = [conn EXCEPT !.at = "idle", !.using = NoSpan,
                          !.skipped = IF outcome = "skip" THEN @ \cup {conn.using} ELSE @]
  /\ UNCHANGED <<stream, trip>>

\* A fault: the transaction keeps its span.
EndTxKeeping(status) ==
  /\ Idle /\ conn.open
  /\ Finish(conn.tx, status)
  /\ conn' = [conn EXCEPT !.open = FALSE]
  /\ UNCHANGED <<stream, trip>>

\* Commit or Rollback.
EndTx(status) ==
  /\ Idle /\ conn.open
  /\ Finish(conn.tx, status)
  /\ conn' = [conn EXCEPT !.tx = NoSpan, !.open = FALSE]
  /\ UNCHANGED <<stream, trip>>

Sql ==
  \/ \E ctx \in {NoSpan, Root} : BeginTx(ctx) \/ \E tokens \in Queries : StartQuery(ctx, tokens)
  \/ \E outcome \in {"ok", "error", "skip"} : EndQuery(outcome)
  \/ \E status \in {"ok", "aborted", "internal_error"} : EndTx(status)

-----------------------------------------------------------------------------
(* httpclient.  targets says whether the URL matches a target, or there is  *)
(* none; the parent is the span of the context, if any.  Which headers go   *)
(* along is a matter of Tracing.                                            *)

RoundTrip(ctx, targets) ==
  LET parent == IF targets THEN ctx ELSE NoSpan IN
  /\ trip.at = "idle" /\ CanStart
  /\ StartSpan("http.client", parent, trip.text)
  /\ trip' = [trip EXCEPT !.at = "sent", !.span = Started(parent)]
  /\ UNCHANGED <<conn, stream>>

\* An error, a response, or a response that is nil without one.
Respond(status) ==
  /\ trip.at = "sent"
  /\ Finish(trip.span, status)
  /\ trip' = [trip EXCEPT !.at = "idle", !.span = NoSpan]
  /\ UNCHANGED <<conn, stream>>

Http ==
  \/ \E ctx \in {NoSpan, Root}, targets \in BOOLEAN : RoundTrip(ctx, targets)
  \/ \E status \in {"ok", "internal_error", ""} : Respond(status)

-----------------------------------------------------------------------------
(* grpc/client.go.  once is the stream's finishOnce: nobody, the user that  *)
(* runs it, or done.                                                        *)

\* startClientSpan and the streamer's answer: an error, nothing, or a stream,
\* which gets its monitor; the context may have ended already, and the monitor
\* then runs at once.
StreamClientInterceptor ==
  /\ stream.at = "idle" /\ CanStart
  /\ \/ /\ out' = Append(out, [NewSpan("rpc.client", Root, stream.text)
                                 EXCEPT !.status = "failed", !.finished = 1])
        /\ UNCHANGED stream
     \/ /\ out' = Append(out, NewSpan("rpc.client", Root, stream.text))
        /\ \E serverStreams \in BOOLEAN :
             stream' = [stream EXCEPT !.at = "open", !.span = Len(out) + 1,
                                      !.serverStreams = serverStreams,
                                      !.monitor = IF stream.ended THEN "running" ELSE "armed"]
  /\ UNCHANGED <<conn, trip>>

\* UnaryClientInterceptor, from one end to the other.
UnaryClientInterceptor(status) ==
  /\ CanStart
  /\ out' = Append(out, [NewSpan("rpc.client", Root, stream.text)
                           EXCEPT !.status = status, !.finished = 1])
  /\ UNCHANGED <<conn, stream, trip>>

\* The context ends: a monitor that was not stopped starts to run.
Cancel ==
  /\ ~stream.ended
  /\ stream' = [stream EXCEPT !.ended = TRUE, !.monitor = IF @ = "armed" THEN "running" ELSE @]
  /\ UNCHANGED <<out, conn, trip>>

Wants(u, status) == stream' = [stream EXCEPT !.user[u] = status]

\* What Header, SendMsg and RecvMsg make of the answer: the sender does not
\* finish at io.EOF, the receiver does, and with the only message it expects.
SendMsg(answer) ==
  /\ stream.at = "open" /\ stream.user["send"] = "idle"
  /\ answer = "error"
  /\ Wants("send", "failed")
  /\ UNCHANGED <<out, conn, trip>>

RecvMsg(answer) ==
  /\ stream.at = "open" /\ stream.user["recv"] = "idle"
  /\ CASE answer = "error" -> Wants("recv", "failed")
       [] answer = "EOF" -> Wants("recv", "ok")
       [] OTHER -> ~stream.serverStreams /\ Wants("recv", "ok")
  /\ UNCHANGED <<out, conn, trip>>

Monitor ==
  /\ stream.monitor = "running" /\ stream.user["monitor"] = "idle"
  /\ Wants("monitor", "canceled")
  /\ UNCHANGED <<out, conn, trip>>

Busy(u) == stream.user[u] # "idle"

\* A fault: every caller runs it.
EnterFinishAlways(u) ==
  /\ Busy(u) /\ stream.once # u
  /\ stream' = [stream EXCEPT !.once = u]
  /\ UNCHANGED <<out, conn, trip>>

EnterFinish(u) ==
  /\ Busy(u) /\ stream.once = "nobody"
  /\ stream' = [stream EXCEPT !.once = u]
  /\ UNCHANGED <<out, conn, trip>>

\* A fault: the monitor is left to itself.
RunFinishOnly(u) ==
  /\ Busy(u) /\ stream.once = u
  /\ Finish(stream.span, stream.user[u])
  /\ stream' = [stream EXCEPT !.once = "done", !.user[u] = "idle", !.first = stream.user[u]]
  /\ UNCHANGED <<conn, trip>>

\* The monitor is stopped, unless it is running, and the span finished; the
\* monitor may find no stopMonitor yet, and has nothing to stop.
RunFinish(u) ==
  /\ Busy(u) /\ stream.once = u
  /\ Finish(stream.span, stream.user[u])
  /\ stream' = [stream EXCEPT !.once = "done", !.user[u] = "idle", !.first = stream.user[u],
                              !.monitor = IF u = "monitor" \/ @ = "armed" THEN "stopped" ELSE @]
  /\ UNCHANGED <<conn, trip>>

\* Those who came later return when it is done.
LeaveFinish(u) ==
  /\ Busy(u) /\ stream.once = "done"
  /\ stream' = [stream EXCEPT !.user[u] = "idle",
                              !.monitor = IF u = "monitor" THEN "stopped" ELSE @]
  /\ UNCHANGED <<out, conn, trip>>

Grpc ==
  \/ StreamClientInterceptor \/ Cancel \/ Monitor \/ SendMsg("error")
  \/ \E status \in {"ok", "failed"} : UnaryClientInterceptor(status)
  \/ \E answer \in {"error", "EOF", "message"} : RecvMsg(answer)
  \/ \E u \in Users : EnterFinish(u) \/ RunFinish(u) \/ LeaveFinish(u)

-----------------------------------------------------------------------------
OutInit ==
  LET empty == [tokens |-> <<>>, out |-> <<>>, sqlite |-> FALSE] IN
  /\ out = <<NewSpan("root", NoSpan, empty)>>
  /\ conn \in [at : {"idle"}, tx : {NoSpan}, open : {FALSE}, began : {NoSpan}, using : {NoSpan},
               skipped : {{}}, sqlite : BOOLEAN]
  /\ stream = [at |-> "idle", span |-> NoSpan, serverStreams |-> FALSE, ended |-> FALSE,
               monitor |-> "none", user |-> [u \in Users |-> "idle"], once |-> "nobody",
               first |-> "", text |-> empty]
  /\ trip = [at |-> "idle", span |-> NoSpan, text |-> empty]

OutNext == Sql \/ Http \/ Grpc

OutSpec == OutInit /\ [][OutNext]_outVars

-----------------------------------------------------------------------------
InUse == {conn.tx, conn.using, trip.span} \cup (IF stream.once = "done" THEN {} ELSE {stream.span})

\* No span is finished twice, none that nothing uses any more is left open but
\* for queries that the driver skipped, and a stream's has the status of the
\* first of its users and its monitor to finish it.  Once it is finished, the
\* stream's context no longer holds a function that waits to run.
FinishedOnce ==
  /\ \A s \in 2 .. Len(out) :
       out[s].finished = IF s \in InUse \cup conn.skipped THEN 0 ELSE 1
  /\ stream.once = "done" => out[stream.span].status = stream.first /\ stream.monitor # "armed"

Queried(s) == out[s].op = "query"

\* A query is a child of the transaction that is open on its connection, and of
\* nothing that has been finished: a connection that the pool gives out again
\* brings no transaction along.
QueryHome ==
  [][\A s \in DOMAIN out' \ DOMAIN out : Queried(s)' =>
       /\ out[out'[s].parent].finished = 0
       /\ conn.open /\ conn.began # NoSpan => out'[s].parent = conn.began]_outVars

\* The words without those that are left out.
Without(words, left) ==
  LET rest[i \in 0 .. Len(words)] ==
        IF i = 0 THEN <<>>
        ELSE IF words[i] \in left THEN rest[i - 1] ELSE Append(rest[i - 1], words[i])
  IN rest[Len(words)]

\* The text of a query has no literal, in SQLite no quoted name either, and
\* keeps every other word in its order; of dots it leaves out only those of SQLite
\* that come before a quoted word, or before another dot.
TextKept ==
  \A s \in DOMAIN out : Queried(s) =>
    LET text == out[s].text
        words == Without(text.tokens, {Comment})
        before == IF text.sqlite THEN {"quoted", "string", Dot} ELSE {}
        lost == Literal \cup {Comment} \cup (IF text.sqlite THEN {"quoted"} ELSE {})
        others == lost \cup {Mark, Dot}
        joining == {i \in 1 .. (Len(words) - 1) : words[i] = Dot /\ words[i + 1] \in before}
        dots(w) == {i \in DOMAIN w : w[i] = Dot}
    IN /\ ToSet(text.out) \cap lost = {}
       /\ Without(text.out, others) = Without(text.tokens, others)
       /\ Cardinality(dots(text.out)) >= Cardinality(dots(words) \ joining)

=============================================================================
