------------------------------- MODULE Tracing -------------------------------
(***************************************************************************)
(* Spans and transactions (tracing.go, span_recorder.go,                   *)
(* dynamic_sampling_context.go): trees of spans that goroutines start and  *)
(* finish, the decision to sample a tree, the recorder that limits it, the *)
(* headers that continue a trace from upstream and lead it downstream, and *)
(* the event a transaction becomes.                                        *)
(*                                                                         *)
(* A span is a number, given in the order of StartSpan; a span without a   *)
(* parent is a transaction, and stands for its recorder too.  Ids of       *)
(* traces are the transactions that drew them, or Upstream.  A goroutine   *)
(* takes the steps of one StartSpan or Finish at a time.                   *)
(***************************************************************************)
EXTENDS Naturals, FiniteSetsExt, SequencesExt

CONSTANTS Goroutines,     \* that start and finish spans
          Hubs,           \* each transaction is started with one in its context
          NumSpans,       \* bound: the spans of a behaviour
          NumTransactions,\* bound: those of them that are transactions
          MaxSpans,       \* ClientOptions.MaxSpans
          Configs,        \* the ClientOptions to try, of type Config
          Starts,         \* the headers that come in and the WithSpanSampled
                          \* given with them, of type [header : Header, explicit : Sampled]
          Explicit        \* the WithSpanSampled to try on children

Spans == 1..NumSpans
None == 0
Upstream == NumSpans + 1

\* A rate stands for those that decide alike: out of [0, 1], 0, between, 1.
Rates == {"outside", "zero", "some", "one"}
Sampled == {"true", "false", "undefined"}
Config == [tracing : BOOLEAN, sampler : Rates \cup {"none"}, rate : Rates,
           strict : BOOLEAN, org : 0..2, ignore : BOOLEAN]

\* trace: the sentry-trace header, absent, not matched by the pattern, or with
\* its flag.  baggage: no entry of Sentry's (or no header, or one that does not
\* parse), or entries with an organisation, 0 for none.
Header == [trace : {"absent", "malformed", "true", "false", "undefined"},
           baggage : {"none", "entries"}, org : 0..2]

ASSUME TracingAssumption ==
    /\ NumSpans \in Nat
    /\ MaxSpans \in Nat \ {0}
    /\ Configs \subseteq Config
    /\ Starts \subseteq [header : Header, explicit : Sampled]
    /\ Explicit \subseteq Sampled

VARIABLES cfg,        \* the options of the client
          span,       \* what has been set on each span
          recorder,   \* the recorded spans of each transaction
          scopeSpan,  \* Scope.span of each hub
          pctx,       \* Scope.propagationContext of each hub
          pc,         \* what each goroutine is doing, and with which span
          sent,       \* the events given to Client.CaptureEvent, in order
          lost        \* what was recorded as lost to the sample rate

vars == <<cfg, span, recorder, scopeSpan, pctx, pc, sent, lost>>

(***************************************************************************)
(* The dynamic sampling context: who made it, and the entries that can     *)
(* differ.                                                                 *)
(***************************************************************************)
NoDsc == [frozen |-> FALSE, by |-> "nobody", trace |-> None,
          rate |-> "zero", sampled |-> "undefined"]
FrozenEmpty == [NoDsc EXCEPT !.frozen = TRUE]
HasEntries(dsc) == dsc.by # "nobody"

\* The rate and the decision upstream wrote are not those of this program.
DscFromHeader(h) ==
    IF h.baggage = "none" THEN NoDsc
    ELSE [frozen |-> TRUE, by |-> "upstream", trace |-> Upstream,
          rate |-> "zero", sampled |-> "undefined"]

DscFromTransaction(s) ==
    [frozen |-> TRUE, by |-> "client", trace |-> s.trace,
     rate |-> s.rate, sampled |-> s.sampled]

\* Each end may name its organisation; two that differ part the traces, and a
\* strict client wants both or neither.
ShouldContinueTrace(h) ==
    LET org == IF h.baggage = "none" THEN 0 ELSE h.org
    IN /\ ~(cfg.org # 0 /\ org # 0 /\ cfg.org # org)
       /\ cfg.strict => cfg.org = org

\* The pattern matches.
Parsed(h) == h.trace \notin {"absent", "malformed"}

\* A fault: the span keeps the id it drew.
UpdateDecisionOnly(s, h) ==
    IF Parsed(h)
    THEN [s EXCEPT !.remote = TRUE, !.sampled = IF h.trace = "undefined" THEN @ ELSE h.trace]
    ELSE s

UpdateFromSentryTrace(s, h) ==
    IF Parsed(h)
    THEN [s EXCEPT !.trace = Upstream, !.remote = TRUE,
                   !.sampled = IF h.trace = "undefined" THEN @ ELSE h.trace]
    ELSE s

UpdateFromBaggage(s, h) ==
    IF s.parent = None /\ HasEntries(DscFromHeader(h)) THEN [s EXCEPT !.dsc = DscFromHeader(h)] ELSE s

\* Without entries the sampling context is empty, and frozen.
ContinueFromHeaders(s, h) ==
    LET updated == UpdateFromBaggage(UpdateFromSentryTrace(s, h), h)
    IN IF h.trace = "absent" \/ ~ShouldContinueTrace(h) THEN s
       ELSE [updated EXCEPT !.dsc = IF HasEntries(@) THEN @ ELSE FrozenEmpty]

\* The propagation context drew its trace id under the number of the span that
\* is started next.
NewPropagationContext(s) == [trace |-> s, dsc |-> NoDsc]
PropagationContextFromHeaders(s, h) ==
    [trace |-> IF Parsed(h) THEN Upstream ELSE s,
     dsc |-> IF Parsed(h) /\ ~HasEntries(DscFromHeader(h)) THEN FrozenEmpty
             ELSE DscFromHeader(h)]

NoHeader == [trace |-> "absent", baggage |-> "none", org |-> 0]

(***************************************************************************)
(* Span.sample: the first rule that applies decides.  The results are a    *)
(* set, for a rate leaves the decision to a random number.                 *)
(***************************************************************************)
Draw(rate) == CASE rate = "one"  -> {"true"}
                [] rate = "some" -> {"true", "false"}
                [] OTHER         -> {"false"}

Fixed(s, sampled) ==
    [s EXCEPT !.sampled = sampled,
              !.rate = IF sampled = "true" THEN "one" ELSE "zero"]

WithRate(s, rate) ==
    {[s EXCEPT !.sampled = d, !.rate = rate,
               !.dsc.rate = IF HasEntries(s.dsc) THEN rate ELSE @] : d \in Draw(rate)}

\* A fault: the sampler is asked before the parent's decision is looked at.
SampleEach(s) ==
    IF ~cfg.tracing                   THEN {Fixed(s, "false")}
    ELSE IF s.explicit # "undefined"  THEN {Fixed(s, s.explicit)}
    ELSE IF cfg.sampler # "none"      THEN WithRate(s, cfg.sampler)
    ELSE IF s.sampled # "undefined"   THEN {Fixed(s, s.sampled)}
    ELSE WithRate(s, cfg.rate)

Sample(s) ==
    IF ~cfg.tracing                   THEN {Fixed(s, "false")}
    ELSE IF s.explicit # "undefined"  THEN {Fixed(s, s.explicit)}
    ELSE IF s.parent # None           THEN {[s EXCEPT !.sampled = span[s.parent].sampled]}
    ELSE IF cfg.sampler # "none"      THEN WithRate(s, cfg.sampler)
    ELSE IF s.sampled # "undefined"   THEN {Fixed(s, s.sampled)}
    ELSE WithRate(s, cfg.rate)
-----------------------------------------------------------------------------
\* at: a span is "unused" until StartSpan, "open" until Finish, then "ended";
\* "finished" once the one Finish that does something has returned.
Unused == [at |-> "unused", parent |-> None, root |-> None, hub |-> None,
           trace |-> None, remote |-> FALSE, sampled |-> "undefined", rate |-> "zero",
           dsc |-> NoDsc, explicit |-> "undefined", code |-> FALSE, header |-> NoHeader,
           ignored |-> FALSE, early |-> FALSE, inTime |-> FALSE]

Idle == [at |-> "idle", span |-> None, event |-> <<>>]

Init ==
    /\ cfg \in Configs
    /\ span = [s \in Spans |-> Unused]
    /\ recorder = [s \in Spans |-> <<>>]
    /\ scopeSpan = [h \in Hubs |-> None]
    /\ pctx = [h \in Hubs |-> NewPropagationContext(None)]
    /\ pc = [g \in Goroutines |-> Idle]
    /\ sent = <<>>
    /\ lost = [transaction |-> 0, span |-> 0]

Started == {s \in Spans : span[s].at # "unused"}
Transactions == {s \in Started : span[s].parent = None}
Root(s) == span[s].root
Recorded(s) == s \in ToSet(recorder[Root(s)])
Children(r) == {s \in ToSet(recorder[r]) : s # r}

Busy(g, at, s) == pc' = [pc EXCEPT ![g] = [Idle EXCEPT !.at = at, !.span = s]]
Free(g) == pc' = [pc EXCEPT ![g] = Idle]

\* StartSpan to the decision: what the options set is on the span by then.
Create(g, fresh, s) ==
    /\ pc[g] = Idle
    /\ s = Cardinality(Started) + 1
    /\ s \in Spans
    /\ \E decided \in Sample(fresh) : span' = [span EXCEPT ![s] = decided]
    /\ Busy(g, "record", s)
    /\ UNCHANGED <<cfg, recorder, scopeSpan, sent, lost>>

\* A transaction, as the integrations start it: ContinueTrace sets the
\* propagation context and yields the option that continues the trace.
StartTransaction(g, h, header, explicit) ==
    LET s == Cardinality(Started) + 1
        used == IF ShouldContinueTrace(header) THEN header ELSE NoHeader
        fresh == [Unused EXCEPT !.at = "open", !.root = s, !.hub = h, !.trace = s,
                                !.explicit = explicit, !.header = used]
    IN /\ Cardinality(Transactions) < NumTransactions
       /\ Create(g, ContinueFromHeaders(fresh, used), s)
       /\ pctx' = [pctx EXCEPT ![h] = PropagationContextFromHeaders(s, used)]

StartChild(g, p, explicit) ==
    LET s == Cardinality(Started) + 1
    IN /\ p \in Started /\ \A o \in Goroutines : ~(pc[o].at \in {"record", "attach"} /\ pc[o].span = p)
       /\ Create(g, [Unused EXCEPT !.at = "open", !.parent = p, !.root = Root(p),
                                   !.hub = span[p].hub, !.trace = span[p].trace,
                                   !.explicit = explicit], s)
       /\ UNCHANGED pctx

\* A fault: one more than the limit.
KeepOneMore(spans, s) == IF Len(spans) > MaxSpans THEN spans ELSE Append(spans, s)

\* spanRecorder.record: beyond the limit a span goes on, unrecorded.
Keep(spans, s) == IF Len(spans) >= MaxSpans THEN spans ELSE Append(spans, s)

Record(g) ==
    LET s == pc[g].span IN
    /\ pc[g].at = "record"
    /\ recorder' = [recorder EXCEPT ![Root(s)] = Keep(@, s)]
    /\ span' = [span EXCEPT ![s].early = span[Root(s)].at = "open"]
    /\ IF cfg.tracing THEN Busy(g, "attach", s) ELSE Free(g)
    /\ UNCHANGED <<cfg, scopeSpan, pctx, sent, lost>>

Attach(g) ==
    LET s == pc[g].span IN
    /\ pc[g].at = "attach"
    /\ scopeSpan' = [scopeSpan EXCEPT ![span[s].hub] = s]
    /\ Free(g)
    /\ UNCHANGED <<cfg, span, recorder, pctx, sent, lost>>

(***************************************************************************)
(* Finish.  finishOnce lets the first call in, at which the span is open.  *)
(* code: the status in the span's data is one of TraceIgnoreStatusCodes.   *)
(***************************************************************************)
Finish(g, s, code) ==
    /\ pc[g] = Idle
    /\ code => cfg.ignore /\ span[s].parent = None
    /\ span[s].at = "open"
    /\ \A o \in Goroutines : pc[o].span # s
    /\ span' = [span EXCEPT ![s].at = "ended", ![s].code = code,
                            ![s].inTime = span[Root(s)].at = "open"]
    /\ Busy(g, IF span[s].parent = None THEN "decide" ELSE "restore", s)
    /\ UNCHANGED <<cfg, recorder, scopeSpan, pctx, sent, lost>>

\* A child gives the scope back to its parent; it is no event, and no loss.
Restore(g) ==
    LET s == pc[g].span IN
    /\ pc[g].at = "restore"
    /\ scopeSpan' = [scopeSpan EXCEPT ![span[s].hub] = span[s].parent]
    /\ span' = [span EXCEPT ![s].at = "finished"]
    /\ Free(g)
    /\ UNCHANGED <<cfg, recorder, pctx, sent, lost>>

Ignore(g) ==
    LET s == pc[g].span IN
    /\ pc[g].at = "decide" /\ span[s].code
    /\ span' = [span EXCEPT ![s].sampled = "false", ![s].ignored = TRUE, ![s].at = "finished"]
    /\ Free(g)
    /\ UNCHANGED <<cfg, recorder, scopeSpan, pctx, sent, lost>>

\* A fault: the spans are those below the transaction only.
LossOfChildren(s) == [transaction |-> lost.transaction + 1,
                      span |-> lost.span + Cardinality(Children(s))]

Loss(s) == [transaction |-> lost.transaction + 1,
            span |-> lost.span + Cardinality(Children(s)) + 1]

CountLoss(g) ==
    LET s == pc[g].span IN
    /\ pc[g].at = "decide" /\ ~span[s].code
    /\ span[s].sampled # "true"
    /\ lost' = Loss(s)
    /\ span' = [span EXCEPT ![s].at = "finished"]
    /\ Free(g)
    /\ UNCHANGED <<cfg, recorder, scopeSpan, pctx, sent>>

\* A fault: all recorded children.
AllChildren(s) == Children(s)

\* toEvent: the recorded children that have ended, and the sampling context,
\* frozen now unless it was.
FinishedChildren(s) == {c \in Children(s) : span[c].at # "open"}

ToEvent(g) ==
    LET s == pc[g].span
        dsc == IF span[s].dsc.frozen THEN span[s].dsc ELSE DscFromTransaction(span[s])
    IN /\ pc[g].at = "decide" /\ ~span[s].code
       /\ span[s].sampled = "true"
       /\ span' = [span EXCEPT ![s].dsc = dsc]
       /\ pc' = [pc EXCEPT ![g] = [at |-> "capture", span |-> s,
                    event |-> <<[root |-> s, spans |-> FinishedChildren(s), dsc |-> dsc]>>]]
       /\ UNCHANGED <<cfg, recorder, scopeSpan, pctx, sent, lost>>

DscFromScope(h) == [frozen |-> TRUE, by |-> "client", trace |-> pctx[h].trace,
                    rate |-> cfg.rate, sampled |-> "undefined"]

\* Scope.ApplyToEvent puts on the event the sampling context of the transaction
\* the scope's span is in, or that of the propagation context.
ScopeDsc(h) ==
    IF scopeSpan[h] # None THEN DscFromTransaction(span[Root(scopeSpan[h])])
    ELSE IF HasEntries(pctx[h].dsc) THEN pctx[h].dsc
    ELSE DscFromScope(h)

Capture(g) ==
    LET s == pc[g].span IN
    /\ pc[g].at = "capture"
    /\ sent' = Append(sent, [pc[g].event[1] EXCEPT !.dsc = ScopeDsc(span[s].hub)])
    /\ span' = [span EXCEPT ![s].at = "finished"]
    /\ Free(g)
    /\ UNCHANGED <<cfg, recorder, scopeSpan, pctx, lost>>

(***************************************************************************)
(* The headers that go out with a span, and with a hub.                    *)
(***************************************************************************)
\* ToBaggage asks whether the span's own context is frozen; only that of a
\* transaction ever is.
BaggageDsc(s) == IF span[s].dsc.frozen THEN span[Root(s)].dsc
                 ELSE DscFromTransaction(span[Root(s)])

ToBaggage(g, s) ==
    /\ pc[g] = Idle
    /\ s \in Started /\ Recorded(Root(s))
    /\ \A o \in Goroutines : ~(pc[o].at \in {"record", "attach"} /\ pc[o].span = s)
    /\ BaggageDsc(s) # span[Root(s)].dsc
    /\ span' = [span EXCEPT ![Root(s)].dsc = BaggageDsc(s)]
    /\ UNCHANGED <<cfg, recorder, scopeSpan, pctx, pc, sent, lost>>

\* The header of a span: its trace, and the decision.
ToSentryTrace(s) == [trace |-> span[s].trace, sampled |-> span[s].sampled]

\* The trace of a log or metric: that of the span in the context, if there is one,
\* else that of the scope's.
ResolveTrace(h, s) ==
    IF s # None THEN span[s].trace
    ELSE IF scopeSpan[h] # None THEN span[scopeSpan[h]].trace
    ELSE pctx[h].trace

\* GetTraceparent and GetBaggage.
HubTrace(h) == IF scopeSpan[h] # None THEN ToSentryTrace(scopeSpan[h]).trace ELSE pctx[h].trace
HubBaggage(h) == IF scopeSpan[h] # None THEN BaggageDsc(scopeSpan[h]) ELSE pctx[h].dsc
-----------------------------------------------------------------------------
Next ==
    \E g \in Goroutines :
        \/ \E h \in Hubs, start \in Starts :
              StartTransaction(g, h, start.header, start.explicit)
        \/ \E p \in Spans, explicit \in Explicit : StartChild(g, p, explicit)
        \/ \E s \in Spans : ToBaggage(g, s) \/ \E code \in BOOLEAN : Finish(g, s, code)
        \/ Record(g) \/ Attach(g) \/ Restore(g)
        \/ Ignore(g) \/ CountLoss(g) \/ ToEvent(g) \/ Capture(g)

Spec == Init /\ [][Next]_vars
-----------------------------------------------------------------------------
DscType == [frozen : BOOLEAN, by : {"nobody", "upstream", "client"}, trace : 0..Upstream,
            rate : Rates, sampled : Sampled]

TypeOK ==
    /\ cfg \in Config
    /\ \A s \in Spans :
          /\ span[s].at \in {"unused", "open", "ended", "finished"}
          /\ span[s].parent \in 0..NumSpans /\ span[s].root \in 0..NumSpans
          /\ span[s].trace \in 0..Upstream /\ span[s].dsc \in DscType
          /\ span[s].sampled \in Sampled /\ span[s].rate \in Rates
    /\ \A g \in Goroutines :
          pc[g].at \in {"idle", "record", "attach", "decide", "restore", "capture"}
    /\ scopeSpan \in [Hubs -> 0..NumSpans]
    /\ lost \in [transaction : Nat, span : Nat]

\* A recorder holds a transaction first, then spans below it, each once and no
\* more than MaxSpans, whichever goroutines record them; what is recorded under
\* a transaction shares its trace (StartSpan, spanRecorder.record).
TreeSound ==
    /\ TypeOK
    /\ \A r \in Spans : LET spans == recorder[r] IN
          /\ Len(spans) <= MaxSpans
          /\ spans # <<>> => Head(spans) = r
          /\ Cardinality(ToSet(spans)) = Len(spans)
          /\ \A s \in ToSet(spans) : Root(s) = r /\ span[s].trace = span[r].trace
    /\ \A s \in Started : span[s].parent # None => Root(span[s].parent) = Root(s)

SentRoots == {sent[i].root : i \in DOMAIN sent}

\* A transaction is sent at most once, when it is finished and sampled.  The
\* event has every recorded span that was finished before the transaction and
\* none that is still open, whatever ends or is started meanwhile (Finish,
\* toEvent).
SentSound ==
    /\ \A i, j \in DOMAIN sent : sent[i].root = sent[j].root => i = j
    /\ \A r \in Transactions : r \in SentRoots <=> span[r].at = "finished" /\ span[r].sampled = "true"
    /\ \A i \in DOMAIN sent : LET r == sent[i].root IN
          /\ {c \in Children(r) : span[c].inTime} \subseteq sent[i].spans
          /\ sent[i].spans \subseteq {c \in Children(r) : span[c].at # "open"}

Unsampled == {r \in Transactions : span[r].at = "finished" /\ span[r].sampled # "true"
                                     /\ ~span[r].ignored}

\* The spans that were lost with them: the transactions, and what was recorded below.
LostSpans == {s \in Started : Root(s) \in Unsampled /\ (s = Root(s) \/ Recorded(s))}

\* Each transaction that finished unsampled is counted once, with its spans: all
\* that were recorded before its Finish, and none that never was (doFinish).
Accounted ==
    /\ lost.transaction = Cardinality(Unsampled)
    /\ lost.span >= Cardinality({s \in LostSpans : s = Root(s) \/ span[s].early})
    /\ lost.span <= Cardinality(LostSpans)

\* Spans that were to follow their transaction's decision: there is a chain of
\* parents up to it, none of which was decided for itself.
Follows(s) ==
    \E chain \in SUBSET Started : s \in chain /\ \A c \in chain :
       span[c].parent # None => span[c].explicit = "undefined" /\ span[c].parent \in chain

\* What a span tells downstream of the decision is what becomes of its
\* transaction, whenever it was started: "sampled" for one that is sent, "not
\* sampled" for one that is lost (Span.sample, ToSentryTrace).
DecisionKept ==
    \A s \in Started : Follows(s) =>
       /\ Root(s) \in SentRoots => ToSentryTrace(s).sampled = "true"
       /\ Root(s) \in Unsampled => ToSentryTrace(s).sampled = "false"

WellFormed(h) == h.trace # "malformed" /\ (h.baggage = "none" \/ Parsed(h))
On(h) == {r \in Transactions : span[r].hub = h}

\* One trace: the event of a transaction that has its hub for itself carries the
\* sampling context of its own trace, and the two headers that leave a hub name
\* the same trace, if those that came in did; what is logged with a span of such
\* a transaction is of the trace that events captured on the hub then name
\* (ContinueTrace, ApplyToEvent, GetTraceparent, GetBaggage, resolveTrace).
OneTrace ==
    /\ \A i \in DOMAIN sent : LET r == sent[i].root IN
          On(span[r].hub) = {r} => sent[i].dsc.trace = span[r].trace
    /\ \A h \in Hubs : (\A r \in On(h) : WellFormed(span[r].header)) =>
          /\ HubBaggage(h).trace \in {None, HubTrace(h)}
          /\ \A s \in Started \cup {None} : Cardinality(On(h)) = 1 /\ (s = None \/ span[s].hub = h)
               => ScopeDsc(h).trace = ResolveTrace(h, s)

\* tracing_test.go:1137, "Calling ToBaggage() on a child span should return the
\* same result": it does not when the transaction continues a trace.
SameBaggage == \A s \in Started : BaggageDsc(s) = BaggageDsc(Root(s))
=============================================================================
