------------------------------- MODULE MCParts -------------------------------
(* The parts between a program and the transports, checked one at a time: part  *)
(* is chosen at the start, and the variables of the others stay as they are.    *)
EXTENDS RateLimits, RingBuffer, BucketedBuffer, Middleware, Outgoing, Loggers, Client, TLC

VARIABLE part

ASSUME BucketsAssumption == BucketAssumption

mcVars == <<part, rateVars, midVars, outVars, logVars, clientVars, vars, bucketVars>>

One(S) == CHOOSE x \in S : TRUE

MCInit ==
  /\ part \in {"rates", "middleware", "sql", "http", "grpc", "loggers", "client",
              "ring", "buckets"}
  /\ RateInit /\ MidInit /\ OutInit /\ LogInit /\ ClientInit /\ Init /\ BucketInit
  /\ server.wait = server.repanic
  /\ part # "middleware" => server = [framework |-> One(Framework), repanic |-> FALSE, wait |-> FALSE]
  /\ part # "sql" => ~conn.sqlite
  /\ part # "loggers" => setup = One(Logging)
  /\ part # "client" => client = NewClient(One(Options))
  /\ part # "ring" => policy = One(Policies)
  /\ part # "buckets" => bucketPolicy = One(BucketPolicies)

MCNext ==
  /\ UNCHANGED part
  /\ \/ part = "rates" /\ RateNext
     \/ part # "rates" /\ UNCHANGED rateVars
  /\ \/ part = "middleware" /\ MidNext
     \/ part # "middleware" /\ UNCHANGED midVars
  /\ \/ part = "sql" /\ Sql
     \/ part = "http" /\ Http
     \/ part = "grpc" /\ Grpc
     \/ part \notin {"sql", "http", "grpc"} /\ UNCHANGED outVars
  /\ \/ part = "loggers" /\ LogNext
     \/ part # "loggers" /\ UNCHANGED logVars
  /\ \/ part = "client" /\ ClientNext
     \/ part # "client" /\ UNCHANGED clientVars
  /\ \/ part = "ring" /\ Next
     \/ part # "ring" /\ UNCHANGED vars
  /\ \/ part = "buckets" /\ BucketNext
     \/ part # "buckets" /\ UNCHANGED bucketVars

MCSpec == MCInit /\ [][MCNext]_mcVars

-----------------------------------------------------------------------------
(* Answers: limits of several categories, of unknown and empty ones, without a  *)
(* number, and longer and shorter than those before; and Retry-After.           *)
Limit(number, after, categories) == [number |-> number, after |-> after, categories |-> categories]
Answered(status, header) == [status |-> status, header |-> header, retry |-> [form |-> "none", value |-> 0]]
Retry(form, value) == [status |-> 429, header |-> <<>>, retry |-> [form |-> form, value |-> value]]

MCResponse ==
  {Answered(200, <<>>), Answered(200, <<Limit(TRUE, 3, <<"error", "unknown">>)>>),
   Answered(429, <<Limit(TRUE, 2, <<" Error", "log_item">>), Limit(TRUE, 1, <<"error">>)>>),
   Answered(429, <<Limit(FALSE, 4, <<"error">>), Limit(TRUE, 2, <<>>)>>),
   Answered(429, <<Limit(TRUE, -1, <<"error">>)>>),
   Retry("seconds", 1), Retry("date", 3), Retry("seconds", -1)}

\* With attachments before and after, of two sorts, and of metrics.
MCEnvelope ==
  {<<>>, <<"event", "attachment">>, <<"attachment", "transaction">>, <<"attachment">>,
   <<"log">>, <<"check_in">>, <<"trace_metric">>, <<"attachment", "event", "client_report">>}

MCFramework == {HTTP, Gin, Echo, Fiber, Iris, GRPC}

MCQueries ==
  {<<"select", "quoted", ".", "quoted", "number">>, <<"quoted", ".", ".", "name", "comment", "string">>}

MCValues == <<"first", "second">>

\* Every library, with hooks for events and for logs in either order, for all
\* levels or some, or those by default, with and without a fallback.
Levels == {"low", "error", "odd", "panic", "fatal"}
Hooks ==
  {<<NewEventHook(Levels), NewLogHook(Levels)>>, <<NewLogHook(Levels), NewEventHook(Levels)>>}
Apart == <<NewEventHook({"panic", "fatal"}), NewLogHook({"low"})>>

MCLogging ==
  {NewLogger(b) : b \in BOOLEAN} \cup {NewMeter(FALSE)}
  \cup {AddHooks(h, b) : h \in Hooks, b \in BOOLEAN}
  \cup {AddHooks(Apart, FALSE)} \cup {NewSentryHandler(NilLevels, l) : l \in {{}, NilLevels}}
  \cup {NewSentryHandler({"odd", "fatal"}, {"low", "odd"})}
  \cup {NewSentryCore(l) : l \in {NilLevels, {"odd", "fatal"}}}
  \cup {NewWriter(NilLevels, TRUE), NewWriter({"panic", "fatal", "odd"}, FALSE)}

MCRecords ==
  [level : Levels, hub : {TRUE}, entry : {FALSE}, text : {TRUE}]
  \cup [level : {"fatal"}, hub : {FALSE}, entry : {TRUE}, text : BOOLEAN]

\* Clients of every kind of transport, with and without the telemetry processor,
\* and captures that are dropped at different places.
Opt(transport, noBuffer, rate, off) ==
  [dsn |-> TRUE, transport |-> transport, noBuffer |-> noBuffer, rate |-> rate, off |-> off,
   hooks |-> TRUE, reports |-> TRUE, integrations |-> <<"ignoreErrors", "ignoreErrors">>]

MCOptions ==
  {Opt("nil", FALSE, "zero", {}), Opt("nil", TRUE, "half", {"trace_metric"}),
   Opt("sync", FALSE, "one", {"log"}),
   [Opt("adapter", FALSE, "zero", Batched) EXCEPT !.integrations = <<"ignoreTransactions">>],
   [Opt("nil", TRUE, "half", {}) EXCEPT !.reports = FALSE, !.dsn = FALSE]}

Cap(kind, way, spans, match) == [kind |-> kind, way |-> way, spans |-> spans, match |-> match]

MCCaptures ==
  {Cap("error", "capture", 0, "message"), Cap("error", "recover", 0, "none"),
   Cap("transaction", "capture", 2, "name"), Cap("check_in", "checkin", 0, "none"),
   Cap("log", "log", 0, "none"), Cap("trace_metric", "metric", 0, "none")}

MCRoom == [k \in Kind |-> IF k = "log" THEN 2 ELSE 1]

\* Requests, loggers, goroutines, callers of Offer and traces are the same two values.
MCSymmetry == Permutations(Request)

===============================================================================
