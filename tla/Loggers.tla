------------------------------- MODULE Loggers -------------------------------
(***************************************************************************)
(* Loggers: what becomes of a record that a program logs, or of a metric   *)
(* (log.go, metrics.go, logrus, slog, zap, zerolog).                       *)
(*                                                                         *)
(* A library hands the record to the SDK's hooks, which turn it into an    *)
(* event, a log, a breadcrumb, or an event and a log, by its level.  The   *)
(* SDK's own logger panics or ends the process at some levels, and is what *)
(* the hooks for logs use; the libraries do the same after their hooks.    *)
(* Goroutines log at the same time, with the same hooks.                   *)
(*                                                                         *)
(* Of attributes there is one key, whose value says who gave it, and one   *)
(* that comes from the context.  Groups of attributes, and how fields      *)
(* become attributes, are data.  A level stands for those that are treated *)
(* alike: low ones, error, panic, fatal, and odd ones that are a program's *)
(* own.                                                                    *)
(***************************************************************************)
EXTENDS Naturals, Sequences, SequencesExt

CONSTANTS
  Logging,     \* how programs are set up to log: what the constructors below make
  Logger,      \* goroutines that log
  Records,     \* what they log: level, hub (whether its context has one), entry, text
  Values,      \* the values of the attribute, one for each call that sets it
  NumRecords,  \* bound: records that are logged
  NumSets      \* bound: calls of SetAttributes, WithCtx, WithAttrs and With

Libraries == {"sentry", "meter", "slog", "logrus", "zap", "zerolog"}
Level == {"low", "error", "panic", "fatal", "odd"}

ASSUME LoggingAssumption ==
  /\ Logging \subseteq
       [lib : Libraries, enabled : BOOLEAN, default : BOOLEAN, scoped : SUBSET {"context", "logger"},
        hooks : Seq([kind : {"event", "log"}, levels : SUBSET Level]), fallback : BOOLEAN,
        events : SUBSET Level, logs : SUBSET Level, crumbs : BOOLEAN]
  /\ Records \subseteq [level : Level, hub : BOOLEAN, entry : BOOLEAN, text : BOOLEAN]

ASSUME LoggersAssumption ==
  /\ IsFiniteSet(Logger)
  /\ NumRecords \in Nat /\ NumSets \in Nat
  /\ Values \in Seq(STRING \ {"", "entry", "context", "logger", "default"})
  /\ Len(Values) >= NumSets
  /\ \A i, j \in DOMAIN Values : Values[i] = Values[j] => i = j

VARIABLES
  setup,     \* the library and the hooks' options
  instance,  \* the attributes of the logger, meter, handler or core, and of those
             \* made from it
  changes,   \* the changes of instance: which one's attributes came to be in which
  room,      \* what is behind the attributes of each slog handler in their array
  work,      \* each goroutine: the record and what is still to be done with it
  logged,    \* what was given to clients
  flushed,   \* how much of it was there at the last flush
  fates,     \* ghost: the records that are done with
  process    \* "running" or "exited"

logVars == <<setup, instance, changes, room, work, logged, flushed, fates, process>>

Unset == ""
Nothing == [number |-> 0]

Endings == {"panic", "fatal"}

\* What the goroutine does when its record's turn has come.
Then(stage, condition) == IF condition THEN stage ELSE <<>>

-----------------------------------------------------------------------------
(* What sets the hooks up, and the levels they take unless told.            *)

NilLevels == {"nil"}
OrElse(levels, default) == IF levels = NilLevels THEN default ELSE levels

\* NewLogger and NewMeter give what does nothing when logs or metrics are off.
NewLogger(off) ==
  [lib |-> "sentry", enabled |-> ~off, default |-> TRUE, scoped |-> {"context"},
   hooks |-> <<>>, fallback |-> FALSE, events |-> {}, logs |-> {}, crumbs |-> FALSE]
NewMeter(off) == [NewLogger(off) EXCEPT !.lib = "meter"]

NewEventHook(levels) == [kind |-> "event", levels |-> levels]
NewLogHook(levels) == [kind |-> "log", levels |-> levels]
AddHooks(hooks, fallback) ==
  [NewLogger(FALSE) EXCEPT !.lib = "logrus", !.hooks = hooks, !.fallback = fallback]

NewSentryHandler(eventLevel, logLevel) ==
  [NewLogger(FALSE) EXCEPT !.lib = "slog", !.events = OrElse(eventLevel, {"error", "fatal"}),
                           !.logs = OrElse(logLevel, {"low", "error", "fatal"})]

NewSentryCore(level) ==
  [NewLogger(FALSE) EXCEPT !.lib = "zap", !.logs = OrElse(level, {"low", "error", "panic", "fatal"})]

NewWriter(levels, withBreadcrumbs) ==
  [NewLogger(FALSE) EXCEPT !.lib = "zerolog", !.events = OrElse(levels, {"error", "panic", "fatal"}),
                           !.crumbs = withBreadcrumbs]

-----------------------------------------------------------------------------
(* The hooks, each as the steps it takes with a record.                     *)

\* The SDK's logger reads the scope before its own attributes.
LogStages == <<"gather", "log">>

\* logrus calls its hooks in the order they were added, each with the levels it
\* asked for.  The hook for logs does not know other levels.
LogrusStages(hook, level) ==
  CASE level \notin hook.levels -> <<>>
    [] level \in hook.levels /\ hook.kind = "event" -> <<"event">>
    [] OTHER -> IF level = "odd" THEN <<"invalid">> ELSE LogStages

\* Its Handle: the event first, with the attributes of the context.
SlogStages(level) ==
  Then(<<"extract", "event">>, level \in setup.events) \o Then(LogStages, level \in setup.logs)

\* Write and WriteLevel: a level that has no counterpart, or a record that cannot
\* be read, is nothing; fatal ones wait for delivery.
ZerologStages(level) ==
  CASE level = "odd" -> <<>>
    [] level # "odd" /\ level \in setup.events -> <<"event">> \o Then(<<"flush">>, level \in Endings)
    [] OTHER -> Then(<<"crumb">>, setup.crumbs)

\* What the libraries do after their hooks: logrus runs its exit handlers, where
\* programs flush.
AfterHooks(level) ==
  CASE level = "panic" -> <<"panic">>
    [] level = "fatal" -> Then(<<"flush">>, setup.lib = "logrus") \o <<"exit">>
    [] OTHER -> <<>>

\* The last hooks of logrus, n of them, and what comes after.
HooksLast(level, n) ==
  LET last[k \in 0 .. n] ==
        IF k = 0 THEN AfterHooks(level)
        ELSE LogrusStages(setup.hooks[Len(setup.hooks) - k + 1], level) \o last[k - 1]
  IN last[n]

Stages(level) ==
  CASE setup.lib = "sentry" -> LogStages
    [] setup.lib = "meter" -> <<"gather", "metric">>
    [] setup.lib = "slog" -> SlogStages(level)
    [] setup.lib = "logrus" -> HooksLast(level, Len(setup.hooks))
    [] setup.lib = "zap" -> Then(LogStages, level \in setup.logs) \o AfterHooks(level)
    [] setup.lib = "zerolog" -> ZerologStages(level) \o AfterHooks(level)

\* Fatal and Panic of the SDK's logger, or LFatal, which does neither.  slog has
\* no level to panic at.
EndOfEmit(level) ==
  CASE setup.lib \in {"sentry", "logrus"} /\ level \in Endings -> level
    [] setup.lib = "slog" /\ level = "fatal" -> level
    [] OTHER -> "none"

-----------------------------------------------------------------------------
LogInit ==
  /\ setup \in Logging
  /\ instance = <<Unset>>
  /\ changes = <<>>
  /\ room = <<Nothing>>
  /\ work = [g \in Logger |-> [record |-> Nothing, todo |-> <<>>, scope |-> Unset]]
  /\ logged = <<>>
  /\ flushed = 0
  /\ fates = {}
  /\ process = "running"

Stage(g, stage) == process = "running" /\ work[g].todo # <<>> /\ Head(work[g].todo) = stage

Logged == Cardinality(fates) + Cardinality({g \in Logger : work[g].record # Nothing})

\* failed is a ghost: whether a hook of logrus has failed with the record.
Log(g, record, i) ==
  /\ process = "running" /\ work[g].record = Nothing
  /\ Logged < NumRecords
  /\ setup.lib = "slog" => record.level # "panic"
  /\ setup.lib = "meter" => record.level = "low"
  /\ work' = [work EXCEPT ![g] = [record |-> [number |-> Logged + 1, level |-> record.level,
                                              hub |-> record.hub, entry |-> record.entry,
                                              text |-> record.text, by |-> i, failed |-> FALSE],
                                  todo |-> Stages(record.level), scope |-> Unset]]
  /\ UNCHANGED <<setup, instance, changes, room, logged, flushed, fates, process>>

Proceed(g) == work' = [work EXCEPT ![g].todo = Tail(@)]

\* The goroutine has done with its record: how is how.
End(g, how) ==
  /\ work' = [work EXCEPT ![g] = [record |-> Nothing, todo |-> <<>>, scope |-> Unset]]
  /\ fates' = fates \cup {[record |-> work[g].record, fate |-> how, items |-> Len(logged'), flushed |-> flushed]}
  /\ process' = IF how = "fatal" THEN "exited" ELSE process

ReturnFromLog(g) ==
  /\ process = "running" /\ work[g].record # Nothing /\ work[g].todo = <<>>
  /\ logged' = logged
  /\ End(g, "none")
  /\ UNCHANGED <<setup, instance, changes, room, flushed>>

-----------------------------------------------------------------------------
(* Events.                                                                  *)

\* uniqByLast makes an array for all attributes and fills it up to those that a
\* later one of the same name replaced.
HasRoom(i) ==
  \E n \in DOMAIN changes :
    setup.lib = "slog" /\ changes[n].to = i /\ instance[changes[n].from] # Unset

\* eventHandler appends the attributes of the context to its own: when their
\* array has room, that is where they are put, for whoever appends next too.
Extract(g) ==
  LET record == work[g].record IN
  /\ Stage(g, "extract")
  /\ room' = IF HasRoom(record.by) THEN [room EXCEPT ![record.by] = record] ELSE room
  /\ Proceed(g)
  /\ UNCHANGED <<setup, instance, changes, logged, flushed, fates, process>>

\* The hub of an event: that of the record's context for slog only.
EventHub(record) == IF setup.lib = "slog" /\ record.hub THEN "context" ELSE "hook"

LogItem(kind, record, hub, value, context) ==
  [kind |-> kind, number |-> record.number, by |-> record.by, entry |-> record.entry,
   hub |-> hub, value |-> value, context |-> context.number]

\* appendRecordAttrsToAttrs: the record's own attributes come after the handler's.
OfHandler(record) ==
  CASE setup.lib # "slog" -> Unset
    [] setup.lib = "slog" /\ record.entry -> "entry"
    [] OTHER -> instance[record.by]

\* The client may drop the event.  The hook of logrus has then called a fallback,
\* which was content.
LogEvent(g, kept) ==
  LET record == work[g].record
      context == IF HasRoom(record.by) THEN room[record.by] ELSE record
  IN /\ Stage(g, "event")
     /\ logged' = Append(logged, LogItem(IF kept THEN "event" ELSE "dropped", record,
                                         EventHub(record), OfHandler(record), context))
     /\ Proceed(g)
     /\ UNCHANGED <<setup, instance, changes, room, flushed, fates, process>>

\* What logrus does once a hook has failed; the panic or the exit still comes.
SkipHooks(g) ==
  work' = [work EXCEPT ![g].todo = AfterHooks(work[g].record.level), ![g].record.failed = TRUE]

\* There is no fallback, or it returned an error too.
EventFails(g) ==
  /\ Stage(g, "event") /\ setup.lib = "logrus"
  /\ logged' = Append(logged, LogItem("dropped", work[g].record, "hook", Unset, work[g].record))
  /\ SkipHooks(g)
  /\ UNCHANGED <<setup, instance, changes, room, flushed, fates, process>>

\* A level that the hook for logs does not know: the same two ways.
Invalid(g) ==
  /\ Stage(g, "invalid")
  /\ \/ setup.fallback /\ Proceed(g)
     \/ SkipHooks(g)
  /\ UNCHANGED <<setup, instance, changes, room, logged, flushed, fates, process>>

\* addBreadcrumb of zerolog.
Crumb(g) ==
  /\ Stage(g, "crumb")
  /\ logged' = Append(logged, LogItem("crumb", work[g].record, "hook", Unset, work[g].record))
  /\ Proceed(g)
  /\ UNCHANGED <<setup, instance, changes, room, flushed, fates, process>>

FlushLogs(g) ==
  /\ Stage(g, "flush")
  /\ flushed' = Len(logged)
  /\ Proceed(g)
  /\ UNCHANGED <<setup, instance, changes, room, logged, fates, process>>

-----------------------------------------------------------------------------
(* Logs and metrics.                                                        *)

\* hubFromContexts, or the hub the logger was made with.
LogHub(record) == IF record.hub THEN "context" ELSE "logger"

\* populateAttrs: the attributes of that hub's scope, after the defaults.
Gather(g) ==
  LET hub == LogHub(work[g].record) IN
  /\ Stage(g, "gather")
  /\ work' = [work EXCEPT ![g].todo = Tail(@),
                          ![g].scope = IF hub \in setup.scoped THEN hub
                                       ELSE IF setup.default THEN "default" ELSE Unset]
  /\ UNCHANGED <<setup, instance, changes, room, logged, flushed, fates, process>>

Nearest(g) ==
  LET mine == instance[work[g].record.by] IN
  CASE work[g].record.entry -> "entry"
    [] ~work[g].record.entry /\ mine # Unset -> mine
    [] OTHER -> work[g].scope

\* Without a text or a name, or with a logger that does nothing, there is no item.
Emitted(g, kind) ==
  LET record == work[g].record IN
  IF record.text /\ setup.enabled
  THEN Append(logged, LogItem(kind, record, LogHub(record), Nearest(g), record)) ELSE logged

\* A fault: the process ends before the log is handed over.
EmitAfterEnd(g) ==
  LET end == EndOfEmit(work[g].record.level) IN
  /\ Stage(g, "log")
  /\ logged' = IF end # "none" THEN logged ELSE Emitted(g, "log")
  /\ IF end # "none" THEN End(g, end) ELSE Proceed(g) /\ UNCHANGED <<fates, process>>
  /\ UNCHANGED <<setup, instance, changes, room, flushed>>

\* The panic leaves the hook; os.Exit runs no deferred function and no handler.
Emit(g) ==
  LET end == EndOfEmit(work[g].record.level) IN
  /\ Stage(g, "log")
  /\ logged' = Emitted(g, "log")
  /\ IF end # "none" THEN End(g, end) ELSE Proceed(g) /\ UNCHANGED <<fates, process>>
  /\ UNCHANGED <<setup, instance, changes, room, flushed>>

EmitMetric(g) ==
  /\ Stage(g, "metric")
  /\ logged' = Emitted(g, "metric")
  /\ Proceed(g)
  /\ UNCHANGED <<setup, instance, changes, room, flushed, fates, process>>

\* The library's own panic or exit.
EndProcess(g) ==
  LET how == IF Stage(g, "panic") THEN "panic" ELSE "fatal" IN
  /\ Stage(g, "panic") \/ Stage(g, "exit")
  /\ logged' = logged
  /\ End(g, how)
  /\ UNCHANGED <<setup, instance, changes, room, flushed>>

CanChange(libs) ==
  process = "running" /\ setup.lib \in libs /\ setup.enabled /\ Len(changes) < NumSets

\* A fault: the meters share one map.
SetShared(i, valid) ==
  /\ CanChange({"sentry", "meter"})
  /\ changes' = Append(changes, [from |-> i, to |-> i])
  /\ instance' = IF valid THEN [j \in DOMAIN instance |-> Values[Len(changes) + 1]] ELSE instance
  /\ UNCHANGED <<setup, room, work, logged, flushed, fates, process>>

\* Attributes that are not valid are left out.
SetAttributes(i, valid) ==
  /\ CanChange({"sentry", "meter"})
  /\ changes' = Append(changes, [from |-> i, to |-> i])
  /\ instance' = IF valid THEN [instance EXCEPT ![i] = Values[Len(changes) + 1]] ELSE instance
  /\ UNCHANGED <<setup, room, work, logged, flushed, fates, process>>

\* One of its own, with the attributes so far and what is added.
Derive(i, value) ==
  /\ changes' = Append(changes, [from |-> i, to |-> Len(instance) + 1])
  /\ instance' = Append(instance, value)
  /\ room' = Append(room, Nothing)
  /\ UNCHANGED <<setup, work, logged, flushed, fates, process>>

\* A meter; a log entry keeps its logger.
WithCtx(i) == CanChange({"meter"}) /\ Derive(i, instance[i])

\* A handler of slog.
WithAttrs(i) == CanChange({"slog"}) /\ Derive(i, Values[Len(changes) + 1])

\* A core of zap.
With(i) == CanChange({"zap"}) /\ Derive(i, Values[Len(changes) + 1])

Handled(g) ==
  \/ ReturnFromLog(g) \/ Extract(g) \/ EventFails(g) \/ Invalid(g) \/ Crumb(g) \/ FlushLogs(g) \/ Gather(g)
  \/ Emit(g) \/ EmitMetric(g) \/ EndProcess(g)
  \/ \E kept \in BOOLEAN : (kept \/ setup.lib # "logrus" \/ setup.fallback) /\ LogEvent(g, kept)
  \/ \E record \in Records, i \in DOMAIN instance : Log(g, record, i)

LogNext ==
  \/ \E g \in Logger : Handled(g)
  \/ \E i \in DOMAIN instance :
       WithCtx(i) \/ WithAttrs(i) \/ With(i) \/ \E valid \in BOOLEAN : SetAttributes(i, valid)

LogSpec == LogInit /\ [][LogNext]_logVars

-----------------------------------------------------------------------------
Kinds(record, n) == {logged[i].kind : i \in {j \in 1 .. n : logged[j].number = record.number}}

\* What a record is to become, by its level and what takes it.
IsEvent(level) ==
  CASE setup.lib = "logrus" -> \E h \in ToSet(setup.hooks) : h.kind = "event" /\ level \in h.levels
    [] setup.lib \in {"slog", "zerolog"} -> level \in setup.events /\ ~(setup.lib = "zerolog" /\ level = "odd")
    [] OTHER -> FALSE
IsLog(level) ==
  CASE setup.lib = "logrus" ->
         level # "odd" /\ \E h \in ToSet(setup.hooks) : h.kind = "log" /\ level \in h.levels
    [] setup.lib \in {"slog", "zap"} -> level \in setup.logs
    [] OTHER -> setup.lib = "sentry"

\* A hook of logrus keeps a record from the hooks after it when it has failed, for
\* want of a fallback or with the fallback's own error, or is one for logs and the
\* record ends the goroutine or the process.
Cut(record, kind) ==
  /\ setup.lib = "logrus"
  /\ \E i, j \in DOMAIN setup.hooks :
       /\ i < j /\ setup.hooks[j].kind = kind /\ record.level \in setup.hooks[i].levels
       /\ \/ setup.hooks[i].kind = "log" /\ record.level \in Endings
          \/ record.failed /\ (setup.hooks[i].kind = "event" \/ record.level = "odd")

\* A line of changes: each but the first has come from one before it.
Descent(line) ==
  \A m \in line : \/ \A n \in line : n >= m
                  \/ \E n \in line : n < m /\ changes[n].to = changes[m].from

\* An attribute of the entry hides all others; one of a logger, meter, handler or
\* core hides those of the scope, and is found in no other but those made from it
\* later.  An event has the attributes of its own context, but for handlers of slog
\* with room behind theirs, where goroutines that log at the same time overwrite.
Attributed ==
  \A i \in DOMAIN logged :
    LET one == logged[i] IN
    /\ ~HasRoom(one.by) => one.context = one.number
    /\ one.kind \in {"log", "metric"} => (one.value = "entry" <=> one.entry)
    /\ \A n \in DOMAIN changes : one.value = Values[n] =>
         \E line \in SUBSET (n .. Len(changes)) :
           n \in line /\ Descent(line) /\ \E m \in line : changes[m].to = one.by

\* When a goroutine has done with a record, or the record has ended it or the
\* process, every hook that its level and the hooks before it let it come to has
\* captured it: none is passed over because another captures the same record, or
\* because the record ends what captures it.  The hooks of logrus that come after
\* one that failed are not come to: that is what logrus does, and why Cut asks
\* whether one did.
AsLogged ==
  /\ Attributed
  /\ \A end \in fates :
       LET record == end.record
           kinds == Kinds(record, end.items)
       IN /\ kinds \cap {"event", "dropped"} # {} => IsEvent(record.level)
          /\ IsEvent(record.level) => kinds \cap {"event", "dropped"} # {} \/ Cut(record, "event")
          /\ "log" \in kinds => IsLog(record.level)
          /\ IsLog(record.level) /\ record.text /\ setup.enabled => "log" \in kinds \/ Cut(record, "log")
          /\ end.fate # "none"
               <=> /\ record.level \in Endings /\ setup.lib # "meter"
                   /\ setup.lib = "slog" => "fatal" \in setup.logs
          /\ setup.lib = "zerolog" /\ end.fate # "none" =>
               \A i \in 1 .. end.items :
                 logged[i].number = record.number /\ logged[i].kind = "event" => i <= end.flushed

\* A fatal record of logrus ends the process after the exit handlers.
ExitFlushed ==
  \A end \in fates : setup.lib = "logrus" /\ end.fate = "fatal" =>
    \A i \in 1 .. end.items : logged[i].number = end.record.number => i <= end.flushed

=============================================================================
