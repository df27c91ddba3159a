---------------------------- MODULE TracingProofs ----------------------------
(***************************************************************************)
(* Theorems about Tracing, for any goroutines, hubs, clients and headers,  *)
(* and any limits.                                                         *)
(***************************************************************************)
EXTENDS Tracing, FiniteSetTheorems, SequenceTheorems, TLAPS

Event == [root : Spans, spans : SUBSET Spans, dsc : DscType]
SpanType ==
    [at : {"unused", "open", "ended", "finished"}, parent : 0..NumSpans, root : 0..NumSpans,
     hub : Hubs \cup {None}, trace : 0..Upstream, remote : BOOLEAN, sampled : Sampled,
     rate : Rates, dsc : DscType, explicit : Sampled, code : BOOLEAN, header : Header,
     ignored : BOOLEAN, early : BOOLEAN, inTime : BOOLEAN]

Places == {"idle", "record", "attach", "decide", "restore", "capture"}
Work == [at : Places, span : 0..NumSpans, event : Seq(Event)]

Types ==
    /\ cfg \in Config
    /\ span \in [Spans -> SpanType]
    /\ recorder \in [Spans -> Seq(Spans)]
    /\ scopeSpan \in [Hubs -> 0..NumSpans]
    /\ pctx \in [Hubs -> [trace : 0..Upstream, dsc : DscType]]
    /\ pc \in [Goroutines -> Work]
    /\ sent \in Seq(Event)
    /\ lost \in [transaction : Nat, span : Nat]

\* Where a goroutine has its span, no other has; what is being started is open, what is
\* being finished has ended.
At(g, places, s) == pc[g].at \in places /\ pc[g].span = s
Starting(s) == \E g \in Goroutines : At(g, {"record", "attach"}, s)

WorkInv ==
    /\ \A g \in Goroutines :
          IF pc[g].at = "idle" THEN pc[g].span = None
          ELSE LET s == pc[g].span IN
               /\ s \in Started
               /\ \A o \in Goroutines : pc[o].span = s => o = g
               /\ pc[g].at \in {"record", "attach"} => span[s].at = "open" /\ ~span[s].inTime
               /\ pc[g].at \notin {"record", "attach"} => span[s].at = "ended"
               /\ pc[g].at \in {"decide", "capture"} => span[s].parent = None
               /\ pc[g].at = "restore" => span[s].parent # None
    /\ \A s \in Started : span[s].inTime => span[s].at # "open"

\* Spans are numbered as they are started, and form trees of one hub and one trace.
TreeInv ==
    /\ Started = 1..Cardinality(Started)
    /\ \A s \in Started : LET r == Root(s) IN
          /\ r \in Started /\ span[r].parent = None /\ Root(r) = r
          /\ IF span[s].parent = None THEN r = s
             ELSE span[s].parent \in Started /\ Root(span[s].parent) = r
          /\ span[s].hub \in Hubs /\ span[s].hub = span[r].hub
          /\ span[s].trace = span[r].trace

\* A transaction is recorded before it can have children, and a span once.
RecorderInv ==
    /\ \A r \in Spans : LET spans == recorder[r] IN
          /\ Len(spans) <= MaxSpans
          /\ spans # <<>> => Head(spans) = r
          /\ Cardinality(ToSet(spans)) = Len(spans)
          /\ \A s \in ToSet(spans) : s \in Started /\ Root(s) = r
    /\ \A g \in Goroutines : pc[g].at = "record" => ~Recorded(pc[g].span)
    /\ \A s \in Started :
          recorder[Root(s)] = <<>> => s = Root(s) /\ \E g \in Goroutines : At(g, {"record"}, s)

Complete(event) ==
    LET r == event.root IN
    /\ {c \in Children(r) : span[c].inTime} \subseteq event.spans
    /\ event.spans \subseteq {c \in Children(r) : span[c].at # "open"}

\* An event is made of a transaction that has ended, and sent as that finishes.
EventInv ==
    /\ \A g \in Goroutines : pc[g].at = "capture" =>
          /\ Len(pc[g].event) = 1
          /\ pc[g].event[1].root = pc[g].span /\ span[pc[g].span].sampled = "true"
          /\ Complete(pc[g].event[1])
    /\ \A i \in DOMAIN sent :
          /\ sent[i].root \in Transactions
          /\ span[sent[i].root].at = "finished" /\ span[sent[i].root].sampled = "true"
          /\ Complete(sent[i])
    /\ \A i, j \in DOMAIN sent : sent[i].root = sent[j].root => i = j
    /\ \A r \in Transactions :
          span[r].at = "finished" /\ span[r].sampled = "true" => r \in SentRoots

\* A decision is taken at the start and followed; an ignored transaction is not sampled.
DecisionInv ==
    /\ \A s \in Started :
          /\ span[s].sampled \in {"true", "false"}
          /\ span[s].sampled = "true" => cfg.tracing
          /\ span[s].ignored => span[s].sampled = "false"
          /\ Follows(s) /\ ~span[Root(s)].ignored => span[s].sampled = span[Root(s)].sampled

\* A transaction's trace is what its header says, and no child has a sampling context.
SpanTraces ==
    \A s \in Started :
       IF span[s].parent = None
       THEN /\ span[s].trace = IF Parsed(span[s].header) THEN Upstream ELSE s
            /\ WellFormed(span[s].header) => span[s].dsc.trace \in {None, span[s].trace}
       ELSE span[s].dsc = NoDsc

\* The propagation context of a hub is of one of its transactions, and so is the span of
\* its scope.
HubTraces ==
    \A h \in Hubs :
       /\ \/ On(h) = {} /\ pctx[h] = NewPropagationContext(None)
          \/ \E r \in On(h) : pctx[h] = PropagationContextFromHeaders(r, span[r].header)
       /\ scopeSpan[h] # None => scopeSpan[h] \in Started /\ span[scopeSpan[h]].hub = h

\* When the client traces, the scope has a span from the first on.
Attached == cfg.tracing => \A s \in Started : scopeSpan[span[s].hub] # None \/ Starting(s)

SentTraces ==
    \A i \in DOMAIN sent : LET r == sent[i].root IN
       On(span[r].hub) = {r} => sent[i].dsc.trace = span[r].trace

TraceInv == SpanTraces /\ HubTraces /\ Attached /\ SentTraces

IInv == Types /\ WorkInv /\ TreeInv /\ RecorderInv /\ EventInv /\ DecisionInv /\ TraceInv

-----------------------------------------------------------------------------
(* Records and sequences *)

\* What is said of a span when it is started, and stays.
Kept(q) ==
    /\ span'[q].parent = span[q].parent /\ span'[q].root = span[q].root
    /\ span'[q].hub = span[q].hub /\ span'[q].trace = span[q].trace
    /\ span'[q].explicit = span[q].explicit /\ span'[q].header = span[q].header
    /\ span'[q].at = "unused" <=> span[q].at = "unused"

\* Nothing changes but the span s, and that neither in its place in the tree nor in
\* its trace.
Changed(s) ==
    /\ span' \in [Spans -> SpanType] /\ s \in Spans /\ Kept(s)
    /\ \A q \in Spans : q # s => span'[q] = span[q]

LEMMA NumberFacts ==
  /\ NumSpans \in Nat /\ MaxSpans \in Nat /\ 1 <= MaxSpans
  /\ Spans \subseteq 0..NumSpans /\ 0..NumSpans \subseteq 0..Upstream
  /\ None \in 0..NumSpans /\ None \notin Spans /\ Upstream \in 0..Upstream /\ None \in 0..Upstream
  /\ IsFiniteSet(Spans)
<1>1. IsFiniteSet(1..NumSpans)
  BY FS_Interval, TracingAssumption
<1> QED
  BY <1>1, TracingAssumption DEF Spans, None, Upstream

LEMMA ElementsFacts ==
  ASSUME NEW S, NEW s \in Seq(S)
  PROVE  /\ Len(s) \in Nat /\ DOMAIN s = 1..Len(s) /\ \A i \in 1..Len(s) : s[i] \in S
         /\ \A x : x \in ToSet(s) <=> \E i \in 1..Len(s) : s[i] = x
         /\ s = <<>> <=> Len(s) = 0
         /\ s # <<>> => Head(s) = s[1] /\ Head(s) \in ToSet(s)
<1>1. Len(s) \in Nat /\ DOMAIN s = 1..Len(s) /\ (\A i \in 1..Len(s) : s[i] \in S)
  OBVIOUS
<1>2. s = <<>> <=> Len(s) = 0
  OBVIOUS
<1>3. \A x : x \in ToSet(s) <=> \E i \in 1..Len(s) : s[i] = x
  BY <1>1 DEF ToSet
<1>4. s # <<>> => Head(s) = s[1] /\ 1 \in 1..Len(s)
  BY <1>1, <1>2
<1> QED
  BY <1>1, <1>2, <1>3, <1>4

LEMMA AppendElements ==
  ASSUME NEW S, NEW s \in Seq(S), NEW x \in S
  PROVE  /\ Append(s, x) \in Seq(S) /\ Len(Append(s, x)) = Len(s) + 1
         /\ DOMAIN Append(s, x) = 1..Len(s) + 1
         /\ \A i \in 1..Len(s) : Append(s, x)[i] = s[i]
         /\ Append(s, x)[Len(s) + 1] = x
         /\ ToSet(Append(s, x)) = ToSet(s) \cup {x}
         /\ Append(s, x) # <<>>
         /\ Head(Append(s, x)) = IF s = <<>> THEN x ELSE Head(s)
<1> DEFINE t == Append(s, x)
           n == Len(s)
<1>1. /\ t \in Seq(S) /\ Len(t) = n + 1 /\ DOMAIN t = 1..n + 1 /\ n \in Nat
      /\ \A i \in 1..n : t[i] = s[i]
      /\ t[n + 1] = x
  OBVIOUS
<1>2. /\ \A y : y \in ToSet(s) <=> \E i \in 1..n : s[i] = y
      /\ (s = <<>> <=> n = 0) /\ (s # <<>> => Head(s) = s[1])
  BY ElementsFacts
<1>6. /\ \A y : y \in ToSet(t) <=> \E i \in 1..n + 1 : t[i] = y
      /\ (t = <<>> <=> n + 1 = 0) /\ (t # <<>> => Head(t) = t[1])
  <2> HIDE DEF t, n
  <2> QED
    BY <1>1, ElementsFacts
<1> HIDE DEF t, n
<1>3. /\ \A i \in 1..n + 1 : i \in 1..n \/ i = n + 1
      /\ \A i \in 1..n : i \in 1..n + 1
      /\ n + 1 \in 1..n + 1 /\ n + 1 # 0
      /\ n # 0 => 1 \in 1..n
      /\ n = 0 => n + 1 = 1
  BY <1>1
<1>4. \A y : y \in ToSet(t) <=> y \in ToSet(s) \/ y = x
  BY <1>1, <1>2, <1>6, <1>3
<1>5. t # <<>> /\ Head(t) = IF s = <<>> THEN x ELSE Head(s)
  BY <1>1, <1>2, <1>6, <1>3
<1> QED
  BY <1>1, <1>4, <1>5 DEF t, n

\* A sequence without repetitions that is given one more element stays one.
LEMMA AppendDistinct ==
  ASSUME NEW S, IsFiniteSet(S), NEW s \in Seq(S), NEW x \in S, x \notin ToSet(s),
         Cardinality(ToSet(s)) = Len(s)
  PROVE  Cardinality(ToSet(Append(s, x))) = Len(Append(s, x))
<1>1. ToSet(s) \subseteq S
  BY ElementsFacts
<1>2. IsFiniteSet(ToSet(s))
  BY <1>1, FS_Subset
<1>3. Cardinality(ToSet(s) \cup {x}) = Cardinality(ToSet(s)) + 1
  BY <1>2, FS_AddElement
<1> DEFINE t == Append(s, x)
<1>4. Len(t) = Len(s) + 1 /\ ToSet(t) = ToSet(s) \cup {x}
  BY AppendElements
<1> HIDE DEF t
<1>5. Cardinality(ToSet(t)) = Len(t)
  BY <1>3, <1>4
<1> QED
  BY <1>5 DEF t

\* Spans are numbered without gaps.
LEMMA NextNumber ==
  ASSUME NEW n, n = Cardinality(Started), Started = 1..n
  PROVE  n \in Nat /\ n + 1 \notin Started /\ Started \cup {n + 1} = 1..n + 1
         /\ Cardinality(1..n + 1) = n + 1
<1>1. Started \subseteq Spans
  BY DEF Started
<1>2. n \in Nat
  BY <1>1, NumberFacts, FS_Subset, FS_CardinalityType
<1>3. Cardinality(1..n + 1) = (n + 1) - 1 + 1
  <2>1. n + 1 \in Int /\ 1 \in Int /\ ~(1 > n + 1)
    BY <1>2
  <2> QED
    BY <2>1, FS_Interval
<1>4. \A i : i \in 1..n + 1 <=> i \in 1..n \/ i = n + 1
  BY <1>2
<1>5. n + 1 \notin 1..n /\ (n + 1) - 1 + 1 = n + 1
  BY <1>2
<1> QED
  BY <1>2, <1>3, <1>4, <1>5

-----------------------------------------------------------------------------
(* What each action does to the span it is about                           *)

\* Which fields an update sets, one field at a time.
LEMMA SpanFields ==
  ASSUME NEW s \in SpanType
  PROVE  /\ \A x \in {"unused", "open", "ended", "finished"} : [s EXCEPT !.at = x] \in SpanType
         /\ \A x \in Sampled : [s EXCEPT !.sampled = x] \in SpanType
         /\ \A x \in Rates : [s EXCEPT !.rate = x] \in SpanType
         /\ \A x \in DscType : [s EXCEPT !.dsc = x] \in SpanType
         /\ \A x \in 0..Upstream : [s EXCEPT !.trace = x] \in SpanType
         /\ \A x \in BOOLEAN :
              /\ [s EXCEPT !.code = x] \in SpanType /\ [s EXCEPT !.ignored = x] \in SpanType
              /\ [s EXCEPT !.early = x] \in SpanType /\ [s EXCEPT !.inTime = x] \in SpanType
              /\ [s EXCEPT !.remote = x] \in SpanType
  BY DEF SpanType

LEMMA DscFacts ==
  /\ NoDsc \in DscType /\ FrozenEmpty \in DscType
  /\ NoDsc.trace = None /\ FrozenEmpty.trace = None /\ NoDsc.by = "nobody"
  /\ ~NoDsc.frozen /\ FrozenEmpty.frozen /\ FrozenEmpty.by = "nobody"
  BY NumberFacts DEF NoDsc, FrozenEmpty, DscType, Rates, Sampled

LEMMA DscOfTransaction ==
  ASSUME NEW s \in SpanType
  PROVE  DscFromTransaction(s) \in DscType /\ DscFromTransaction(s).trace = s.trace
  BY DEF DscFromTransaction, DscType, SpanType

\* A span that is replaced by one that takes the same place.
LEMMA ReplaceSpan ==
  ASSUME Types, NEW s \in Spans, NEW d \in SpanType, span' = [span EXCEPT ![s] = d],
         d.parent = span[s].parent, d.root = span[s].root, d.hub = span[s].hub,
         d.trace = span[s].trace, d.explicit = span[s].explicit, d.header = span[s].header,
         d.at = "unused" <=> span[s].at = "unused"
  PROVE  Changed(s) /\ span'[s] = d
<1>1. span \in [Spans -> SpanType]
  BY DEF Types
<1>2. span'[s] = d /\ (\A q \in Spans : q # s => span'[q] = span[q]) /\ span' \in [Spans -> SpanType]
  BY <1>1
<1> QED
  BY <1>2 DEF Changed, Kept

LEMMA FinishEffect ==
  ASSUME Types, NEW g \in Goroutines, NEW s \in Spans, NEW code \in BOOLEAN, Finish(g, s, code),
         Root(s) \in Spans
  PROVE  /\ Changed(s) /\ span[s].at = "open" /\ span'[s].at = "ended"
         /\ span'[s].sampled = span[s].sampled /\ span'[s].dsc = span[s].dsc
         /\ span'[s].ignored = span[s].ignored
         /\ span'[s].inTime = (span[Root(s)].at = "open") /\ span'[s].early = span[s].early
         /\ pc[g].at = "idle" /\ \A o \in Goroutines : pc[o].span # s
         /\ Busy(g, IF span[s].parent = None THEN "decide" ELSE "restore", s)
<1> DEFINE x == (span[Root(s)].at = "open")
           d1 == [span[s] EXCEPT !.at = "ended"]
           d2 == [d1 EXCEPT !.code = code]
           d == [d2 EXCEPT !.inTime = x]
<1>1. span \in [Spans -> SpanType] /\ span[s] \in SpanType /\ x \in BOOLEAN
  BY DEF Types
<1>2. d1 \in SpanType
  BY <1>1, SpanFields
<1>3. d2 \in SpanType
  <2> HIDE DEF d1
  <2> QED
    BY <1>2, SpanFields
<1>4. d \in SpanType
  <2> HIDE DEF d2, x
  <2> QED
    BY <1>1, <1>3, SpanFields
<1>5. span' = [span EXCEPT ![s] = d]
  BY <1>1 DEF Finish
<1>6. /\ d.parent = span[s].parent /\ d.root = span[s].root /\ d.hub = span[s].hub
      /\ d.trace = span[s].trace /\ d.explicit = span[s].explicit /\ d.header = span[s].header
      /\ d.at = "ended" /\ d.sampled = span[s].sampled /\ d.dsc = span[s].dsc
      /\ d.ignored = span[s].ignored /\ d.inTime = x /\ d.early = span[s].early
  BY <1>1 DEF SpanType
<1>7. span[s].at = "open"
  BY DEF Finish
<1> HIDE DEF d
<1>8. Changed(s) /\ span'[s] = d
  BY <1>4, <1>5, <1>6, <1>7, ReplaceSpan
<1>9. pc[g].at = "idle" /\ (\A o \in Goroutines : pc[o].span # s)
      /\ Busy(g, IF span[s].parent = None THEN "decide" ELSE "restore", s)
  BY DEF Finish, Idle
<1> QED
  BY <1>6, <1>7, <1>8, <1>9

LEMMA RecordEffect ==
  ASSUME Types, NEW g \in Goroutines, Record(g), NEW s \in Spans, s = pc[g].span
  PROVE  /\ Changed(s) /\ span'[s].at = span[s].at
         /\ span'[s].sampled = span[s].sampled /\ span'[s].dsc = span[s].dsc
         /\ span'[s].ignored = span[s].ignored /\ span'[s].inTime = span[s].inTime
         /\ span'[s].early = (span[Root(s)].at = "open")
<1> DEFINE x == (span[Root(s)].at = "open")
           d == [span[s] EXCEPT !.early = x]
<1>1. span \in [Spans -> SpanType] /\ span[s] \in SpanType /\ x \in BOOLEAN
  BY DEF Types
<1>4. d \in SpanType
  <2> HIDE DEF x
  <2> QED
    BY <1>1, SpanFields
<1>5. span' = [span EXCEPT ![s] = d]
  BY <1>1 DEF Record
<1>6. /\ d.parent = span[s].parent /\ d.root = span[s].root /\ d.hub = span[s].hub
      /\ d.trace = span[s].trace /\ d.explicit = span[s].explicit /\ d.header = span[s].header
      /\ d.at = span[s].at /\ d.sampled = span[s].sampled /\ d.dsc = span[s].dsc
      /\ d.ignored = span[s].ignored /\ d.inTime = span[s].inTime /\ d.early = x
  BY <1>1 DEF SpanType
<1> HIDE DEF d
<1>8. Changed(s) /\ span'[s] = d
  BY <1>4, <1>5, <1>6, ReplaceSpan, ZenonT(40)
<1> QED
  BY <1>6, <1>8

\* Restore, CountLoss and Capture only finish their span.
LEMMA EndEffect ==
  ASSUME Types, NEW s \in Spans, span[s].at = "ended", span' = [span EXCEPT ![s].at = "finished"]
  PROVE  /\ Changed(s) /\ span'[s].at = "finished"
         /\ span'[s].sampled = span[s].sampled /\ span'[s].dsc = span[s].dsc
         /\ span'[s].ignored = span[s].ignored /\ span'[s].inTime = span[s].inTime
         /\ span'[s].early = span[s].early
<1> DEFINE d == [span[s] EXCEPT !.at = "finished"]
<1>1. span \in [Spans -> SpanType] /\ span[s] \in SpanType
  BY DEF Types
<1>4. d \in SpanType
  BY <1>1, SpanFields
<1>5. span' = [span EXCEPT ![s] = d]
  BY <1>1
<1>6. /\ d.parent = span[s].parent /\ d.root = span[s].root /\ d.hub = span[s].hub
      /\ d.trace = span[s].trace /\ d.explicit = span[s].explicit /\ d.header = span[s].header
      /\ d.at = "finished" /\ d.sampled = span[s].sampled /\ d.dsc = span[s].dsc
      /\ d.ignored = span[s].ignored /\ d.inTime = span[s].inTime /\ d.early = span[s].early
  BY <1>1 DEF SpanType
<1> HIDE DEF d
<1>8. Changed(s) /\ span'[s] = d
  BY <1>4, <1>5, <1>6, ReplaceSpan
<1> QED
  BY <1>6, <1>8

LEMMA IgnoreEffect ==
  ASSUME Types, NEW g \in Goroutines, Ignore(g), NEW s \in Spans, s = pc[g].span, span[s].at = "ended"
  PROVE  /\ Changed(s) /\ span'[s].at = "finished"
         /\ span'[s].sampled = "false" /\ span'[s].ignored /\ span'[s].dsc = span[s].dsc
         /\ span'[s].inTime = span[s].inTime
         /\ span'[s].early = span[s].early
<1> DEFINE d1 == [span[s] EXCEPT !.sampled = "false"]
           d2 == [d1 EXCEPT !.ignored = TRUE]
           d == [d2 EXCEPT !.at = "finished"]
<1>1. span \in [Spans -> SpanType] /\ span[s] \in SpanType /\ "false" \in Sampled
  BY DEF Types, Sampled
<1>2. d1 \in SpanType
  BY <1>1, SpanFields
<1>3. d2 \in SpanType
  <2> HIDE DEF d1
  <2> QED
    BY <1>2, SpanFields
<1>4. d \in SpanType
  <2> HIDE DEF d2
  <2> QED
    BY <1>3, SpanFields
<1>5. span' = [span EXCEPT ![s] = d]
  BY <1>1 DEF Ignore
<1>6. /\ d.parent = span[s].parent /\ d.root = span[s].root /\ d.hub = span[s].hub
      /\ d.trace = span[s].trace /\ d.explicit = span[s].explicit /\ d.header = span[s].header
      /\ d.at = "finished" /\ d.sampled = "false" /\ d.dsc = span[s].dsc
      /\ d.ignored /\ d.inTime = span[s].inTime /\ d.early = span[s].early
  BY <1>1 DEF SpanType
<1>7. d.at = "unused" <=> span[s].at = "unused"
  BY <1>6
<1> HIDE DEF d
<1>8. Changed(s) /\ span'[s] = d
  BY <1>4, <1>5, <1>6, <1>7, ReplaceSpan
<1> QED
  BY <1>6, <1>8

\* ToBaggage and ToEvent only set the sampling context of a transaction.
LEMMA DscEffect ==
  ASSUME Types, NEW s \in Spans, NEW dsc \in DscType, span' = [span EXCEPT ![s].dsc = dsc]
  PROVE  /\ Changed(s) /\ span'[s].at = span[s].at
         /\ span'[s].sampled = span[s].sampled /\ span'[s].dsc = dsc
         /\ span'[s].ignored = span[s].ignored /\ span'[s].inTime = span[s].inTime
         /\ span'[s].early = span[s].early
<1> DEFINE d == [span[s] EXCEPT !.dsc = dsc]
<1>1. span \in [Spans -> SpanType] /\ span[s] \in SpanType
  BY DEF Types
<1>4. d \in SpanType
  BY <1>1, SpanFields
<1>5. span' = [span EXCEPT ![s] = d]
  BY <1>1
<1>6. /\ d.parent = span[s].parent /\ d.root = span[s].root /\ d.hub = span[s].hub
      /\ d.trace = span[s].trace /\ d.explicit = span[s].explicit /\ d.header = span[s].header
      /\ d.at = span[s].at /\ d.sampled = span[s].sampled /\ d.dsc = dsc
      /\ d.ignored = span[s].ignored /\ d.inTime = span[s].inTime /\ d.early = span[s].early
  BY <1>1 DEF SpanType
<1>7. d.at = "unused" <=> span[s].at = "unused"
  BY <1>6
<1> HIDE DEF d
<1>8. Changed(s) /\ span'[s] = d
  BY <1>4, <1>5, <1>6, <1>7, ReplaceSpan
<1> QED
  BY <1>6, <1>8

-----------------------------------------------------------------------------
(* What stays when one span changes                                        *)

LEMMA InvParts ==
  IInv => Types /\ WorkInv /\ TreeInv /\ RecorderInv /\ EventInv /\ DecisionInv /\ TraceInv
  BY DEF IInv

LEMMA StartedFacts ==
  ASSUME Types
  PROVE  /\ Started \subseteq Spans /\ Transactions \subseteq Started /\ None \notin Started
         /\ \A q \in Spans : q \in Started <=> span[q].at # "unused"
         /\ \A q \in Started : q \in Transactions <=> span[q].parent = None
  BY NumberFacts DEF Started, Transactions

LEMMA TreeFacts ==
  ASSUME Types, TreeInv, NEW s \in Started
  PROVE  /\ s \in Spans /\ Root(s) \in Spans /\ Root(s) \in Transactions /\ Root(Root(s)) = Root(s)
         /\ span[s].parent = None <=> Root(s) = s
         /\ span[s].parent # None => span[s].parent \in Started /\ Root(span[s].parent) = Root(s)
         /\ span[s].hub \in Hubs /\ span[s].hub = span[Root(s)].hub
         /\ span[s].trace = span[Root(s)].trace
<1>1. /\ Root(s) \in Started /\ span[Root(s)].parent = None /\ Root(Root(s)) = Root(s)
      /\ IF span[s].parent = None THEN Root(s) = s
         ELSE span[s].parent \in Started /\ Root(span[s].parent) = Root(s)
      /\ span[s].hub \in Hubs /\ span[s].hub = span[Root(s)].hub
      /\ span[s].trace = span[Root(s)].trace
  BY DEF TreeInv
<1>2. Root(s) = s => span[s].parent = None
  BY <1>1
<1> QED
  BY <1>1, <1>2, StartedFacts

LEMMA WorkFacts ==
  ASSUME Types, WorkInv, NEW g \in Goroutines, pc[g].at # "idle"
  PROVE  /\ pc[g].span \in Started /\ pc[g].span \in Spans
         /\ \A o \in Goroutines : o # g => pc[o].span # pc[g].span
         /\ pc[g].at \in {"record", "attach"} =>
              span[pc[g].span].at = "open" /\ ~span[pc[g].span].inTime
         /\ pc[g].at \in {"decide", "restore", "capture"} => span[pc[g].span].at = "ended"
         /\ pc[g].at \in {"decide", "capture"} => span[pc[g].span].parent = None
         /\ pc[g].at = "restore" => span[pc[g].span].parent # None
  BY StartedFacts DEF WorkInv

LEMMA TreeKept ==
  ASSUME Types, NEW s, Changed(s)
  PROVE  /\ Started' = Started /\ Transactions' = Transactions
         /\ \A q \in Spans : Kept(q)
         /\ \A q \in Spans : Root(q)' = Root(q)
         /\ \A h : On(h)' = On(h)
         /\ \A q : Follows(q)' <=> Follows(q)
<1>1. \A q \in Spans : Kept(q)
  BY DEF Changed, Kept
<1>2. /\ Started' = Started /\ \A q \in Spans : Root(q)' = Root(q)
  BY <1>1 DEF Kept, Started, Root
<1>3. Started \subseteq Spans
  BY DEF Started
<1>4. Transactions' = Transactions
  BY <1>1, <1>2, <1>3 DEF Kept, Transactions
<1>5. \A h : On(h)' = On(h)
  BY <1>1, <1>3, <1>4 DEF Kept, On, Transactions
<1>6. \A q : Follows(q)' <=> Follows(q)
  <2>1. \A chain \in SUBSET Started : \A c \in chain :
           span'[c].parent = span[c].parent /\ span'[c].explicit = span[c].explicit
    BY <1>1, <1>3 DEF Kept
  <2> QED
    BY <1>2, <2>1 DEF Follows
<1> QED
  BY <1>1, <1>2, <1>4, <1>5, <1>6

LEMMA TreeInvKept ==
  ASSUME Types, TreeInv, NEW s, Changed(s)
  PROVE  TreeInv'
<1>1. Started' = Started /\ Started \subseteq Spans /\ \A q \in Spans : Kept(q)
  BY TreeKept, StartedFacts
<1>2. Cardinality(Started)' = Cardinality(Started)
  BY <1>1
<1>3. ASSUME NEW q \in Started
      PROVE  /\ span'[q].root \in Started /\ span'[span'[q].root].parent = None
             /\ span'[span'[q].root].root = span'[q].root
             /\ IF span'[q].parent = None THEN span'[q].root = q
                ELSE span'[q].parent \in Started /\ span'[span'[q].parent].root = span'[q].root
             /\ span'[q].hub \in Hubs /\ span'[q].hub = span'[span'[q].root].hub
             /\ span'[q].trace = span'[span'[q].root].trace
  BY <1>1, <1>3 DEF TreeInv, Kept, Root
<1> QED
  BY <1>1, <1>2, <1>3 DEF TreeInv, Root

\* A goroutine goes on with the span that only it has, or is done with it.
LEMMA WorkKept ==
  ASSUME Types, WorkInv, NEW g \in Goroutines, NEW s \in Started, Changed(s),
         \A o \in Goroutines : o # g => pc'[o] = pc[o] /\ pc[o].span # s,
         \/ pc'[g].at = "idle" /\ pc'[g].span = None
         \/ /\ pc'[g].at # "idle" /\ pc'[g].span = s
            /\ pc'[g].at \in {"record", "attach"} => span'[s].at = "open" /\ ~span'[s].inTime
            /\ pc'[g].at \notin {"record", "attach"} => span'[s].at = "ended"
            /\ pc'[g].at \in {"decide", "capture"} => span'[s].parent = None
            /\ pc'[g].at = "restore" => span'[s].parent # None,
         span'[s].inTime => span'[s].at # "open"
  PROVE  WorkInv'
<1>1. Started' = Started /\ Started \subseteq Spans /\ None \notin Started
      /\ \A q \in Started : q # s => span'[q] = span[q]
  BY TreeKept, StartedFacts DEF Changed
<1>2. ASSUME NEW o \in Goroutines
      PROVE  IF pc'[o].at = "idle" THEN pc'[o].span = None
             ELSE /\ pc'[o].span \in Started
                  /\ \A x \in Goroutines : pc'[x].span = pc'[o].span => x = o
                  /\ pc'[o].at \in {"record", "attach"} =>
                       span'[pc'[o].span].at = "open" /\ ~span'[pc'[o].span].inTime
                  /\ pc'[o].at \notin {"record", "attach"} => span'[pc'[o].span].at = "ended"
                  /\ pc'[o].at \in {"decide", "capture"} => span'[pc'[o].span].parent = None
                  /\ pc'[o].at = "restore" => span'[pc'[o].span].parent # None
  <2>1. CASE o = g
    BY <1>1, <2>1
  <2>2. CASE o # g /\ pc[o].at = "idle"
    BY <2>2 DEF WorkInv
  <2>3. CASE o # g /\ pc[o].at # "idle"
    <3> DEFINE q == pc[o].span
    <3>1. pc'[o] = pc[o] /\ q # s
      BY <2>3
    <3>2. q \in Started /\ span'[q] = span[q]
      BY <1>1, <2>3, <3>1, WorkFacts
    <3>3. \A x \in Goroutines : pc'[x].span = q => x = o
      BY <1>1, <2>3, <3>1, <3>2, WorkFacts
    <3>4. /\ pc[o].at \in {"record", "attach"} => span[q].at = "open" /\ ~span[q].inTime
          /\ pc[o].at \notin {"record", "attach"} => span[q].at = "ended"
          /\ pc[o].at \in {"decide", "capture"} => span[q].parent = None
          /\ pc[o].at = "restore" => span[q].parent # None
      BY <2>3 DEF WorkInv
    <3> HIDE DEF q
    <3>5. pc'[o].span = q /\ pc'[o].at = pc[o].at /\ pc[o].at # "idle"
      BY <2>3, <3>1 DEF q
    <3> QED
      BY <3>2, <3>3, <3>4, <3>5
  <2> QED
    BY <2>1, <2>2, <2>3
<1>3. \A q \in Started : span'[q].inTime => span'[q].at # "open"
  BY <1>1 DEF WorkInv
<1> QED
  BY <1>1, <1>2, <1>3 DEF WorkInv

LEMMA RecorderKept ==
  ASSUME Types, TreeInv, WorkInv, RecorderInv, NEW s, Changed(s), UNCHANGED recorder,
         \A o \in Goroutines : pc'[o].at = "record" => pc'[o] = pc[o],
         \A o \in Goroutines : pc[o].at = "record" => pc'[o] = pc[o]
  PROVE  RecorderInv'
<1>1. /\ Started' = Started /\ Started \subseteq Spans
      /\ \A q \in Spans : span'[q].root = span[q].root
  BY TreeKept, StartedFacts DEF Kept
<1>2. \A r \in Spans : /\ Len(recorder[r]) <= MaxSpans
                       /\ recorder[r] # <<>> => Head(recorder[r]) = r
                       /\ Cardinality(ToSet(recorder[r])) = Len(recorder[r])
                       /\ \A q \in ToSet(recorder[r]) : q \in Started /\ span'[q].root = r
  BY <1>1 DEF RecorderInv, Root
<1>3. ASSUME NEW g \in Goroutines, pc'[g].at = "record" PROVE ~Recorded(pc[g].span)'
  <2>1. pc'[g] = pc[g] /\ pc[g].at # "idle" /\ ~Recorded(pc[g].span)
    BY <1>3 DEF RecorderInv
  <2>2. PICK q \in Spans : q = pc[g].span
    BY <2>1, WorkFacts
  <2>3. pc'[g].span = q /\ q \notin ToSet(recorder[span[q].root])
    BY <2>1, <2>2 DEF Recorded, Root
  <2> QED
    BY <1>1, <2>3 DEF Recorded, Root
<1>4. \A q \in Started : recorder[span'[q].root] = <<>> =>
        q = span'[q].root /\ \E g \in Goroutines : pc'[g].at \in {"record"} /\ pc'[g].span = q
  <2> SUFFICES ASSUME NEW q \in Started, recorder[span[q].root] = <<>>
               PROVE  q = span[q].root /\ \E g \in Goroutines : pc'[g].at \in {"record"} /\ pc'[g].span = q
    BY <1>1
  <2>1. q = span[q].root /\ \E g \in Goroutines : pc[g].at \in {"record"} /\ pc[g].span = q
    BY DEF RecorderInv, Root, At
  <2>2. PICK g \in Goroutines : pc[g].at \in {"record"} /\ pc[g].span = q
    BY <2>1
  <2>3. pc'[g] = pc[g]
    BY <2>2
  <2> QED
    BY <2>1, <2>2, <2>3
<1>5. \A g \in Goroutines : pc'[g].at = "record" =>
         pc'[g].span \notin ToSet(recorder[span'[pc'[g].span].root])
  <2> SUFFICES ASSUME NEW g \in Goroutines, pc'[g].at = "record"
               PROVE  pc'[g].span \notin ToSet(recorder[span'[pc'[g].span].root])
    OBVIOUS
  <2>1. pc'[g] = pc[g] /\ pc[g].at # "idle" /\ ~Recorded(pc[g].span)
    BY DEF RecorderInv
  <2>2. pc[g].span \in Spans
    BY <2>1, WorkFacts
  <2> QED
    BY <1>1, <2>1, <2>2 DEF Recorded, Root
<1> QED
  BY <1>1, <1>2, <1>4, <1>5 DEF RecorderInv, Recorded, Root, At

\* What was complete stays so: a span that ends now, or is recorded now, was not finished
\* before a transaction that has ended.
LEMMA CompleteKept ==
  ASSUME Types, TreeInv, RecorderInv, NEW event \in Event, event.root \in Transactions, Complete(event),
         span[event.root].at # "open",
         \A q \in Started : span'[q].at = "open" => span[q].at = "open",
         \A q \in Started : span'[q].inTime => span[q].inTime \/ span[Root(q)].at = "open",
         \A q \in Children(event.root) : q \in Children(event.root)',
         \A q \in Children(event.root)' : q \in Children(event.root) \/ ~span'[q].inTime
  PROVE  Complete(event)'
<1> DEFINE r == event.root
<1>1. r \in Spans
  BY DEF Event
<1>2. \A q \in Children(r) : q \in Started /\ Root(q) = r
  BY <1>1 DEF Children, RecorderInv
<1>3. \A c \in Children(r)' : span'[c].inTime => c \in event.spans
  <2> SUFFICES ASSUME NEW c \in Children(r)', span'[c].inTime PROVE c \in event.spans
    OBVIOUS
  <2>1. c \in Children(r)
    OBVIOUS
  <2>2. c \in Started /\ Root(c) = r
    BY <1>2, <2>1
  <2>3. span[c].inTime
    BY <2>2
  <2> QED
    BY <2>1, <2>3 DEF Complete
<1>4. \A c \in event.spans : c \in Children(r)' /\ span'[c].at # "open"
  <2> SUFFICES ASSUME NEW c \in event.spans PROVE c \in Children(r)' /\ span'[c].at # "open"
    OBVIOUS
  <2>1. c \in Children(r) /\ span[c].at # "open"
    BY DEF Complete
  <2> QED
    BY <1>2, <2>1
<1> QED
  BY <1>3, <1>4 DEF Complete

LEMMA EventFacts ==
  ASSUME Types
  PROVE  /\ Len(sent) \in Nat /\ DOMAIN sent = 1..Len(sent)
         /\ \A i \in DOMAIN sent : sent[i] \in Event
         /\ \A g \in Goroutines : pc[g].event \in Seq(Event)
         /\ \A g \in Goroutines : Len(pc[g].event) = 1 => pc[g].event[1] \in Event
         /\ \A g \in Goroutines : pc[g].at \in Places
<1>1. sent \in Seq(Event) /\ \A g \in Goroutines : pc[g].event \in Seq(Event)
  BY DEF Types, Work
<1>2. \A g \in Goroutines : pc[g].at \in Places
  BY DEF Types, Work
<1>3. \A e \in Seq(Event) : Len(e) = 1 => e[1] \in Event
  OBVIOUS
<1>4. Len(sent) \in Nat /\ DOMAIN sent = 1..Len(sent) /\ \A i \in DOMAIN sent : sent[i] \in Event
  BY <1>1
<1> QED
  BY <1>1, <1>2, <1>3, <1>4

\* No span is opened again or was finished before it is recorded, and what is recorded
\* stays.
ChildrenKept ==
    /\ \A q \in Started :
          /\ span'[q].at = "open" => span[q].at = "open"
          /\ span'[q].inTime => span[q].inTime \/ span[Root(q)].at = "open"
    /\ \A r \in Spans : /\ \A q \in Children(r) : q \in Children(r)'
                        /\ \A q \in Children(r)' : q \in Children(r) \/ ~span'[q].inTime

\* A goroutine has made the event of its transaction now.
HasNewEvent(o) ==
    \E e \in Event : /\ pc'[o].event = <<e>> /\ e.root = pc'[o].span
                     /\ span'[e.root].sampled = "true" /\ Complete(e)'

\* Nothing is sent, and what is to be sent stays as it is.
LEMMA EventKept ==
  ASSUME Types, TreeInv, WorkInv, RecorderInv, EventInv, UNCHANGED sent,
         \A o \in Goroutines : pc'[o].at = "capture" =>
            \/ pc'[o] = pc[o] /\ span'[pc[o].span].sampled = span[pc[o].span].sampled
            \/ HasNewEvent(o),
         Transactions \subseteq Transactions',
         \A r \in Transactions' : span'[r].at = "finished" /\ span'[r].sampled = "true" =>
            r \in Transactions /\ span[r].at = "finished" /\ span[r].sampled = "true",
         \A r \in Transactions : span[r].at = "finished" /\ span[r].sampled = "true" =>
            span'[r].at = "finished" /\ span'[r].sampled = "true",
         ChildrenKept
  PROVE  EventInv'
<1>0. ASSUME NEW o \in Goroutines, pc'[o].at = "capture",
             pc'[o] = pc[o] /\ span'[pc[o].span].sampled = span[pc[o].span].sampled
      PROVE  \E e \in Event :
                /\ Len(pc'[o].event) = 1 /\ pc'[o].event[1] = e
                /\ e.root = pc'[o].span /\ span'[pc'[o].span].sampled = "true"
                /\ Complete(e)'
  <2>1. /\ pc'[o] = pc[o] /\ Len(pc[o].event) = 1 /\ pc[o].at = "capture"
        /\ pc[o].event[1].root = pc[o].span /\ span[pc[o].span].sampled = "true"
        /\ Complete(pc[o].event[1])
    BY <1>0 DEF EventInv
  <2>2. pc[o].span \in Started /\ span[pc[o].span].parent = None /\ span[pc[o].span].at = "ended"
    BY <2>1, WorkFacts
  <2>3. PICK e \in Event : e = pc[o].event[1]
    BY <2>1, EventFacts
  <2>4. e.root \in Transactions /\ span[e.root].at # "open" /\ e.root \in Spans
    BY <2>1, <2>2, <2>3, StartedFacts
  <2>5. Complete(e)'
    BY <2>1, <2>3, <2>4, CompleteKept DEF ChildrenKept
  <2> QED
    BY <1>0, <2>1, <2>3, <2>5
<1>6. ASSUME NEW o \in Goroutines, pc'[o].at = "capture"
      PROVE  \E e \in Event :
                /\ Len(pc'[o].event) = 1 /\ pc'[o].event[1] = e
                /\ e.root = pc'[o].span /\ span'[pc'[o].span].sampled = "true"
                /\ Complete(e)'
  <2>1. CASE HasNewEvent(o)
    <3>1. PICK e \in Event : /\ pc'[o].event = <<e>> /\ e.root = pc'[o].span
                            /\ span'[e.root].sampled = "true" /\ Complete(e)'
      BY <2>1 DEF HasNewEvent
    <3>2. Len(<<e>>) = 1 /\ <<e>>[1] = e
      OBVIOUS
    <3> QED
      BY <3>1, <3>2
  <2> QED
    BY <1>0, <1>6, <2>1
<1>1. ASSUME NEW o \in Goroutines, pc'[o].at = "capture"
      PROVE  /\ Len(pc'[o].event) = 1
             /\ pc'[o].event[1].root = pc'[o].span /\ span'[pc'[o].span].sampled = "true"
             /\ Complete(pc[o].event[1])'
  <2>1. PICK e \in Event :
                /\ Len(pc'[o].event) = 1 /\ pc'[o].event[1] = e
                /\ e.root = pc'[o].span /\ span'[pc'[o].span].sampled = "true"
                /\ Complete(e)'
    BY <1>1, <1>6
  <2>2. {c \in ToSet(recorder'[e.root]) : c # e.root /\ span'[c].inTime} \subseteq e.spans
        /\ e.spans \subseteq {c \in ToSet(recorder'[e.root]) : c # e.root /\ span'[c].at # "open"}
    BY <2>1 DEF Complete, Children
  <2> QED
    BY <2>1, <2>2 DEF Complete, Children
<1>2. ASSUME NEW i \in DOMAIN sent
      PROVE  /\ sent[i].root \in Transactions'
             /\ span'[sent[i].root].at = "finished" /\ span'[sent[i].root].sampled = "true"
             /\ Complete(sent[i])'
  <2>1. /\ sent[i].root \in Transactions /\ Complete(sent[i])
        /\ span[sent[i].root].at = "finished" /\ span[sent[i].root].sampled = "true"
    BY DEF EventInv
  <2>2. PICK e \in Event : e = sent[i]
    BY EventFacts
  <2>3. e.root \in Spans
    BY <2>1, <2>2, StartedFacts
  <2>4. Complete(e)'
    BY <2>1, <2>2, <2>3, CompleteKept DEF ChildrenKept
  <2>5. sent'[i] = e
    BY <2>2
  <2> QED
    BY <2>1, <2>2, <2>4, <2>5
<1>3. SentRoots' = SentRoots
  BY DEF SentRoots
<1>4. \A r \in Transactions' : span'[r].at = "finished" /\ span'[r].sampled = "true" => r \in SentRoots'
  BY <1>3 DEF EventInv
<1>5. \A i, j \in DOMAIN sent : sent[i].root = sent[j].root => i = j
  BY DEF EventInv
<1> QED
  BY <1>1, <1>2, <1>4, <1>5 DEF EventInv

LEMMA DecisionKeptOn ==
  ASSUME Types, TreeInv, DecisionInv, NEW s, Changed(s), UNCHANGED cfg,
         span'[s].sampled = span[s].sampled, span'[s].ignored = span[s].ignored
  PROVE  DecisionInv'
<1>1. /\ Started' = Started /\ Started \subseteq Spans
      /\ \A q \in Spans : Root(q)' = Root(q)
      /\ \A q : Follows(q)' <=> Follows(q)
      /\ \A q \in Spans : span'[q].sampled = span[q].sampled /\ span'[q].ignored = span[q].ignored
  BY TreeKept, StartedFacts DEF Changed
<1>2. \A q \in Started : span'[q].root = span[q].root /\ span[q].root \in Spans
  BY <1>1, TreeFacts DEF Root
<1>3. ASSUME NEW q \in Started
      PROVE  /\ span'[q].sampled \in {"true", "false"}
             /\ span'[q].sampled = "true" => cfg.tracing
             /\ span'[q].ignored => span'[q].sampled = "false"
             /\ Follows(q)' /\ ~span'[span'[q].root].ignored =>
                  span'[q].sampled = span'[span'[q].root].sampled
  BY <1>1, <1>2 DEF DecisionInv, Root
<1> QED
  BY <1>1, <1>3 DEF DecisionInv, Root

\* The scope gets a span of the hub, or the span before it goes on to be started.
LEMMA TraceKept ==
  ASSUME Types, TreeInv, EventInv, TraceInv, NEW s, Changed(s), UNCHANGED <<cfg, pctx>>,
         WellFormed(span[s].header) /\ span[s].parent = None =>
            span'[s].dsc.trace \in {None, span[s].trace, span[s].dsc.trace},
         span[s].parent # None => span'[s].dsc = span[s].dsc,
         \A h \in Hubs : scopeSpan'[h] # scopeSpan[h] =>
            scopeSpan'[h] \in Started /\ span[scopeSpan'[h]].hub = h,
         \A q \in Started : Starting(q) => \/ Starting(q)' \/ scopeSpan'[span[q].hub] # None
                                           \/ ~cfg.tracing
  PROVE  SpanTraces' /\ HubTraces' /\ Attached' /\ (UNCHANGED sent => TraceInv')
<1>1. /\ Started' = Started /\ Started \subseteq Spans /\ None \notin Started
      /\ \A q \in Spans : Kept(q)
      /\ \A q \in Spans : q # s => span'[q] = span[q]
      /\ \A h : On(h)' = On(h)
  BY TreeKept, StartedFacts DEF Changed
<1>2. \A q \in Spans : /\ span'[q].parent = span[q].parent /\ span'[q].trace = span[q].trace
                       /\ span'[q].header = span[q].header /\ span'[q].hub = span[q].hub
  BY <1>1 DEF Kept
<1>3. ASSUME NEW q \in Started
      PROVE  IF span'[q].parent = None
             THEN /\ span'[q].trace = IF Parsed(span'[q].header) THEN Upstream ELSE q
                  /\ WellFormed(span'[q].header) => span'[q].dsc.trace \in {None, span'[q].trace}
             ELSE span'[q].dsc = NoDsc
  <2>0. q \in Spans
    BY <1>1
  <2>1. IF span[q].parent = None
        THEN /\ span[q].trace = IF Parsed(span[q].header) THEN Upstream ELSE q
             /\ WellFormed(span[q].header) => span[q].dsc.trace \in {None, span[q].trace}
        ELSE span[q].dsc = NoDsc
    BY DEF TraceInv, SpanTraces, HubTraces
  <2>2. /\ span'[q].parent = span[q].parent /\ span'[q].trace = span[q].trace
        /\ span'[q].header = span[q].header
    BY <1>2, <2>0
  <2>3. WellFormed(span[q].header) /\ span[q].parent = None =>
            span'[q].dsc.trace \in {None, span[q].trace, span[q].dsc.trace}
    BY <1>1, <2>0
  <2>4. span[q].parent # None => span'[q].dsc = span[q].dsc
    BY <1>1, <2>0
  <2> QED
    BY <2>1, <2>2, <2>3, <2>4
<1>4. ASSUME NEW h \in Hubs
      PROVE  /\ \/ On(h)' = {} /\ pctx'[h] = NewPropagationContext(None)
                \/ \E r \in On(h)' : pctx'[h] = PropagationContextFromHeaders(r, span'[r].header)
             /\ scopeSpan'[h] # None => scopeSpan'[h] \in Started /\ span'[scopeSpan'[h]].hub = h
  <2>1. \/ On(h) = {} /\ pctx[h] = NewPropagationContext(None)
        \/ \E r \in On(h) : pctx[h] = PropagationContextFromHeaders(r, span[r].header)
    BY DEF TraceInv, SpanTraces, HubTraces
  <2>2. \A r \in On(h) : r \in Spans /\ span'[r].header = span[r].header
    BY <1>2, StartedFacts DEF On
  <2>3. scopeSpan'[h] # None => scopeSpan'[h] \in Started /\ span[scopeSpan'[h]].hub = h
    BY DEF TraceInv, SpanTraces, HubTraces
  <2> QED
    BY <1>1, <1>2, <2>1, <2>2, <2>3
<1>5. ASSUME cfg.tracing, NEW q \in Started
      PROVE  scopeSpan'[span'[q].hub] # None \/ Starting(q)'
  <2>0. q \in Spans /\ span'[q].hub = span[q].hub /\ span[q].hub \in Hubs
    BY <1>1, <1>2, TreeFacts
  <2>1. scopeSpan[span[q].hub] # None \/ Starting(q)
    BY <1>5 DEF TraceInv, Attached
  <2>2. scopeSpan[span[q].hub] # None => scopeSpan'[span[q].hub] # None
    BY <1>1, <2>0
  <2> QED
    BY <1>5, <2>0, <2>1, <2>2
<1>6. ASSUME NEW i \in DOMAIN sent, NEW k, k = span'[sent[i].root].hub, On(k)' = {sent[i].root}
      PROVE  sent[i].dsc.trace = span'[sent[i].root].trace
  <2> DEFINE r == sent[i].root
  <2>1. r \in Spans
    BY StartedFacts DEF EventInv
  <2>2. span'[r].hub = span[r].hub /\ span'[r].trace = span[r].trace
    BY <1>2, <2>1
  <2>3. On(k) = {r} /\ k = span[r].hub
    BY <1>1, <1>6, <2>2
  <2> QED
    BY <2>2, <2>3 DEF TraceInv, SentTraces
<1>7. \A i \in DOMAIN sent :
        {x \in Transactions' : span'[x].hub = span'[sent[i].root].hub} = {sent[i].root}
          => sent[i].dsc.trace = span'[sent[i].root].trace
  <2> SUFFICES ASSUME NEW i \in DOMAIN sent,
                      {x \in Transactions' : span'[x].hub = span'[sent[i].root].hub} = {sent[i].root}
               PROVE  sent[i].dsc.trace = span'[sent[i].root].trace
    OBVIOUS
  <2>1. PICK k : k = span'[sent[i].root].hub
    OBVIOUS
  <2>2. On(k)' = {sent[i].root}
    BY <2>1 DEF On
  <2> QED
    BY <1>6, <2>1, <2>2
<1>9. SpanTraces'
  BY <1>1, <1>3 DEF SpanTraces
<1>10. HubTraces'
  BY <1>1, <1>4 DEF HubTraces
<1>11. Attached'
  BY <1>1, <1>5 DEF Attached
<1>12. UNCHANGED sent => SentTraces'
  BY <1>7 DEF SentTraces, On
<1> QED
  BY <1>9, <1>10, <1>11, <1>12 DEF TraceInv

-----------------------------------------------------------------------------
(* Each action keeps the invariant                                         *)

LEMMA WorkTypes ==
  ASSUME Types, NEW g \in Goroutines, NEW w \in Work, pc' = [pc EXCEPT ![g] = w]
  PROVE  /\ pc' \in [Goroutines -> Work] /\ pc'[g] = w
         /\ \A o \in Goroutines : o # g => pc'[o] = pc[o]
  BY DEF Types

LEMMA BusyEffect ==
  ASSUME Types, NEW g \in Goroutines, NEW at \in Places, NEW s \in 0..NumSpans, Busy(g, at, s)
  PROVE  /\ pc' \in [Goroutines -> Work] /\ pc'[g].at = at /\ pc'[g].span = s
         /\ \A o \in Goroutines : o # g => pc'[o] = pc[o]
<1> DEFINE w == [Idle EXCEPT !.at = at, !.span = s]
<1>1. <<>> \in Seq(Event)
  OBVIOUS
<1>2. w \in Work /\ w.at = at /\ w.span = s
  <2>1. Idle \in Work
    BY <1>1, NumberFacts DEF Work, Idle, Places
  <2> HIDE DEF Idle
  <2> QED
    BY <2>1 DEF Work
<1>3. pc' = [pc EXCEPT ![g] = w]
  BY DEF Busy
<1> HIDE DEF w
<1> QED
  BY <1>2, <1>3, WorkTypes

LEMMA FreeEffect ==
  ASSUME Types, NEW g \in Goroutines, Free(g)
  PROVE  /\ pc' \in [Goroutines -> Work] /\ pc'[g].at = "idle" /\ pc'[g].span = None
         /\ \A o \in Goroutines : o # g => pc'[o] = pc[o]
<1>1. <<>> \in Seq(Event)
  OBVIOUS
<1>2. Idle \in Work /\ Idle.at = "idle" /\ Idle.span = None
  BY <1>1, NumberFacts DEF Work, Idle, Places
<1>3. pc' = [pc EXCEPT ![g] = Idle]
  BY DEF Free
<1> QED
  BY <1>2, <1>3, WorkTypes

LEMMA TypesKept ==
  ASSUME Types, NEW s, Changed(s), UNCHANGED cfg,
         recorder' \in [Spans -> Seq(Spans)], scopeSpan' \in [Hubs -> 0..NumSpans],
         pctx' \in [Hubs -> [trace : 0..Upstream, dsc : DscType]],
         pc' \in [Goroutines -> Work], sent' \in Seq(Event), lost' \in [transaction : Nat, span : Nat]
  PROVE  Types'
  BY DEF Types, Changed

LEMMA TypesFacts ==
  ASSUME Types
  PROVE  /\ recorder \in [Spans -> Seq(Spans)] /\ scopeSpan \in [Hubs -> 0..NumSpans]
         /\ pctx \in [Hubs -> [trace : 0..Upstream, dsc : DscType]]
         /\ pc \in [Goroutines -> Work] /\ sent \in Seq(Event) /\ lost \in [transaction : Nat, span : Nat]
         /\ cfg \in Config /\ span \in [Spans -> SpanType]
  BY DEF Types

\* What a goroutine is starting, another's step leaves.
LEMMA StartingKept ==
  ASSUME NEW g \in Goroutines, \A o \in Goroutines : o # g => pc'[o] = pc[o],
         pc[g].at \notin {"record", "attach"}, NEW q, Starting(q)
  PROVE  Starting(q)'
<1>1. PICK o \in Goroutines : pc[o].at \in {"record", "attach"} /\ pc[o].span = q
  BY DEF Starting, At
<1>2. pc'[o] = pc[o]
  BY <1>1
<1> QED
  BY <1>1, <1>2 DEF Starting, At

LEMMA FinishStep ==
  ASSUME IInv, NEW g \in Goroutines, NEW s \in Spans, NEW code \in BOOLEAN, Finish(g, s, code)
  PROVE  IInv'
<1>0. Types /\ WorkInv /\ TreeInv /\ RecorderInv /\ EventInv /\ DecisionInv /\ TraceInv
  BY InvParts
<1>1. /\ span[s].at = "open" /\ UNCHANGED <<cfg, recorder, scopeSpan, pctx, sent, lost>>
  BY DEF Finish
<1>2. s \in Started /\ Root(s) \in Spans
  BY <1>0, <1>1, StartedFacts, TreeFacts
<1>3. /\ Changed(s) /\ span'[s].at = "ended"
      /\ span'[s].sampled = span[s].sampled /\ span'[s].dsc = span[s].dsc
      /\ span'[s].ignored = span[s].ignored
      /\ span'[s].inTime = (span[Root(s)].at = "open")
      /\ pc[g].at = "idle" /\ (\A o \in Goroutines : pc[o].span # s)
      /\ Busy(g, IF span[s].parent = None THEN "decide" ELSE "restore", s)
  BY <1>0, <1>2, FinishEffect
<1>4. /\ pc' \in [Goroutines -> Work] /\ pc'[g].span = s
      /\ pc'[g].at = IF span[s].parent = None THEN "decide" ELSE "restore"
      /\ \A o \in Goroutines : o # g => pc'[o] = pc[o]
  <2>1. (IF span[s].parent = None THEN "decide" ELSE "restore") \in Places /\ s \in 0..NumSpans
    BY NumberFacts DEF Places
  <2> QED
    BY <1>0, <1>3, <2>1, BusyEffect
<1>5. span'[s].parent = span[s].parent /\ \A q \in Spans : q # s => span'[q] = span[q]
  BY <1>3 DEF Changed, Kept
<1>6. Types'
  BY <1>0, <1>1, <1>3, <1>4, TypesKept, TypesFacts
<1>7. WorkInv'
  BY <1>0, <1>2, <1>3, <1>4, <1>5, WorkKept
<1>8. TreeInv'
  BY <1>0, <1>3, TreeInvKept
<1>9. RecorderInv'
  BY <1>0, <1>1, <1>3, <1>4, RecorderKept
<1>10. EventInv'
  <2>1. Transactions' = Transactions /\ Transactions \subseteq Spans /\ Started \subseteq Spans
    BY <1>0, <1>3, TreeKept, StartedFacts
  <2>2. \A o \in Goroutines : pc'[o].at = "capture" =>
            pc'[o] = pc[o] /\ span'[pc[o].span].sampled = span[pc[o].span].sampled
    BY <1>0, <1>3, <1>4, <1>5, WorkFacts
  <2>3. \A r \in Spans : Children(r)' = Children(r)
    BY <1>1 DEF Children
  <2>4. \A q \in Started : /\ span'[q].at = "open" => span[q].at = "open"
                           /\ span'[q].inTime => span[q].inTime \/ span[Root(q)].at = "open"
                           /\ span'[q].sampled = span[q].sampled
                           /\ span'[q].at = "finished" <=> span[q].at = "finished"
    BY <1>1, <1>3, <1>5, <2>1
  <2>5. Transactions \subseteq Started
    BY <1>0, StartedFacts
  <2>6. ChildrenKept
    BY <2>3, <2>4 DEF ChildrenKept
  <2> QED
    BY <1>0, <1>1, <2>1, <2>2, <2>4, <2>5, <2>6, EventKept
<1>11. DecisionInv'
  BY <1>0, <1>1, <1>3, DecisionKeptOn
<1>12. TraceInv'
  <2>1. \A q \in Started : Starting(q) => Starting(q)'
    BY <1>3, <1>4, StartingKept
  <2> QED
    BY <1>0, <1>1, <1>3, <2>1, TraceKept
<1> QED
  BY <1>6, <1>7, <1>8, <1>9, <1>10, <1>11, <1>12 DEF IInv

LEMMA RecordStep ==
  ASSUME IInv, NEW g \in Goroutines, Record(g)
  PROVE  IInv'
<1>0. Types /\ WorkInv /\ TreeInv /\ RecorderInv /\ EventInv /\ DecisionInv /\ TraceInv
  BY InvParts
<1> DEFINE s == pc[g].span
           r == Root(s)
           old == recorder[r]
<1>1. /\ pc[g].at = "record" /\ UNCHANGED <<cfg, scopeSpan, pctx, sent, lost>>
      /\ recorder' = [recorder EXCEPT ![r] = Keep(old, s)]
      /\ IF cfg.tracing THEN Busy(g, "attach", s) ELSE Free(g)
  BY DEF Record
<1>2. /\ s \in Started /\ s \in Spans /\ r \in Spans
      /\ span[s].at = "open" /\ ~span[s].inTime
      /\ \A o \in Goroutines : o # g => pc[o].span # s
  BY <1>0, <1>1, WorkFacts, TreeFacts
<1>3. /\ Changed(s) /\ span'[s].at = span[s].at
      /\ span'[s].sampled = span[s].sampled /\ span'[s].dsc = span[s].dsc
      /\ span'[s].ignored = span[s].ignored /\ span'[s].inTime = span[s].inTime
  BY <1>0, <1>2, RecordEffect
<1>4. /\ pc' \in [Goroutines -> Work]
      /\ \/ pc'[g].at = "idle" /\ pc'[g].span = None
         \/ pc'[g].at = "attach" /\ pc'[g].span = s
      /\ \A o \in Goroutines : o # g => pc'[o] = pc[o]
  <2>1. CASE cfg.tracing
    <3>1. "attach" \in Places /\ s \in 0..NumSpans
      BY <1>2, NumberFacts DEF Places
    <3> QED
      BY <1>0, <1>1, <2>1, <3>1, BusyEffect
  <2>2. CASE ~cfg.tracing
    <3>1. Free(g)
      BY <1>1, <2>2
    <3> QED
      BY <1>0, <3>1, FreeEffect
  <2> QED
    BY <2>1, <2>2
<1>5. span'[s].parent = span[s].parent /\ \A q \in Spans : q # s => span'[q] = span[q]
  BY <1>3 DEF Changed, Kept
<1>o. /\ old \in Seq(Spans) /\ Len(old) <= MaxSpans /\ (old # <<>> => Head(old) = r)
      /\ Cardinality(ToSet(old)) = Len(old) /\ s \notin ToSet(old)
      /\ \A q \in ToSet(old) : q \in Started /\ Root(q) = r
      /\ (old = <<>> => s = r)
  <2>1. old \in Seq(Spans)
    BY <1>0, <1>2, TypesFacts
  <2> QED
    BY <1>0, <1>1, <1>2, <2>1 DEF RecorderInv, Recorded
<1> DEFINE new == Keep(old, s)
<1>n. /\ new \in Seq(Spans) /\ Len(new) <= MaxSpans /\ new # <<>> /\ Head(new) = r
      /\ Cardinality(ToSet(new)) = Len(new)
      /\ \A q \in ToSet(new) : q \in ToSet(old) \cup {s}
      /\ \A q \in ToSet(old) : q \in ToSet(new)
  <2>0. Len(old) \in Nat /\ (old = <<>> <=> Len(old) = 0)
    BY <1>o, ElementsFacts
  <2> HIDE DEF old, r, s
  <2>1. CASE Len(old) >= MaxSpans
    <3>1. old # <<>> /\ new = old
      BY <2>0, <2>1, NumberFacts DEF Keep
    <3> QED
      BY <1>o, <3>1
  <2>2. CASE ~(Len(old) >= MaxSpans)
    <3> DEFINE t == Append(old, s)
    <3>1. new = t
      BY <2>2 DEF Keep
    <3>2. /\ t \in Seq(Spans) /\ Len(t) = Len(old) + 1 /\ ToSet(t) = ToSet(old) \cup {s} /\ t # <<>>
          /\ Head(t) = IF old = <<>> THEN s ELSE Head(old)
      BY <1>2, <1>o, AppendElements
    <3>3. Cardinality(ToSet(t)) = Len(t)
      BY <1>2, <1>o, NumberFacts, AppendDistinct
    <3> HIDE DEF t, new
    <3>4. Len(old) + 1 <= MaxSpans
      BY <2>0, <2>2, NumberFacts
    <3> QED
      BY <1>o, <3>1, <3>2, <3>3, <3>4
  <2> QED
    BY <2>1, <2>2
<1>r. /\ recorder' \in [Spans -> Seq(Spans)] /\ recorder'[r] = new
      /\ \A q \in Spans : q # r => recorder'[q] = recorder[q]
  <2>1. recorder \in [Spans -> Seq(Spans)]
    BY <1>0, TypesFacts
  <2> HIDE DEF new, old, r
  <2> QED
    BY <1>1, <1>2, <1>n, <2>1 DEF new
<1>t. /\ Started' = Started /\ Started \subseteq Spans /\ Transactions' = Transactions
      /\ Transactions \subseteq Started
      /\ \A q \in Spans : Root(q)' = Root(q) /\ span'[q].root = span[q].root
  BY <1>0, <1>3, TreeKept, StartedFacts DEF Kept
<1> HIDE DEF s, r, old, new
<1>6. Types'
  BY <1>0, <1>1, <1>3, <1>4, <1>r, TypesKept, TypesFacts
<1>7. WorkInv'
  BY <1>0, <1>2, <1>3, <1>4, <1>5, WorkKept
<1>8. TreeInv'
  BY <1>0, <1>3, TreeInvKept
<1>9. RecorderInv'
  <2>1. ASSUME NEW q \in Spans
        PROVE  /\ Len(recorder'[q]) <= MaxSpans
               /\ recorder'[q] # <<>> => Head(recorder'[q]) = q
               /\ Cardinality(ToSet(recorder'[q])) = Len(recorder'[q])
               /\ \A x \in ToSet(recorder'[q]) : x \in Started /\ span'[x].root = q
    <3>1. CASE q = r
      <4>1. \A x \in ToSet(new) : x \in Started /\ span'[x].root = r
        BY <1>2, <1>o, <1>n, <1>t DEF Root, r
      <4> QED
        BY <1>n, <1>r, <3>1, <4>1
    <3>2. CASE q # r
      <4>1. \A x \in ToSet(recorder[q]) : x \in Started /\ span'[x].root = q
        BY <1>0, <1>t DEF RecorderInv, Root
      <4> QED
        BY <1>0, <1>r, <3>2, <4>1 DEF RecorderInv
    <3> QED
      BY <3>1, <3>2
  <2>2. ASSUME NEW o \in Goroutines, pc'[o].at = "record"
        PROVE  pc'[o].span \notin ToSet(recorder'[span'[pc'[o].span].root])
    <3>1. o # g /\ pc'[o] = pc[o] /\ pc[o].at = "record"
      BY <1>4, <2>2
    <3>2. PICK q \in Spans : q = pc[o].span
      BY <1>0, <3>1, WorkFacts
    <3>3. q # s /\ q \notin ToSet(recorder[span[q].root]) /\ q \in Started
      BY <1>0, <1>2, <3>1, <3>2, WorkFacts DEF RecorderInv, Recorded, Root
    <3>4. span'[q].root = span[q].root /\ span[q].root \in Spans
      BY <1>0, <1>t, <3>3, TreeFacts DEF Root
    <3>5. q \notin ToSet(recorder'[span[q].root])
      <4>1. CASE span[q].root = r
        BY <1>n, <1>r, <3>3, <4>1 DEF old
      <4>2. CASE span[q].root # r
        BY <1>r, <3>3, <3>4, <4>2
      <4> QED
        BY <4>1, <4>2
    <3> QED
      BY <3>1, <3>2, <3>4, <3>5
  <2>3. ASSUME NEW q \in Started, recorder'[span'[q].root] = <<>>
        PROVE  q = span'[q].root /\ \E o \in Goroutines : pc'[o].at \in {"record"} /\ pc'[o].span = q
    <3>1. span'[q].root = span[q].root /\ span[q].root \in Spans /\ q \in Spans
      BY <1>0, <1>t, TreeFacts DEF Root
    <3>2. span[q].root # r /\ recorder[span[q].root] = <<>>
      BY <1>n, <1>r, <2>3, <3>1
    <3>3. PICK o \in Goroutines : q = span[q].root /\ pc[o].at = "record" /\ pc[o].span = q
      BY <1>0, <3>2 DEF RecorderInv, Root, At
    <3>4. q # s
      BY <3>2 DEF r, Root
    <3>5. o # g
      BY <3>3, <3>4 DEF s
    <3> QED
      BY <1>4, <3>1, <3>3, <3>5
  <2> QED
    BY <1>t, <2>1, <2>2, <2>3 DEF RecorderInv, Recorded, Root, At
<1>10. EventInv'
  <2>2. \A o \in Goroutines : pc'[o].at = "capture" =>
            pc'[o] = pc[o] /\ span'[pc[o].span].sampled = span[pc[o].span].sampled
    <3> SUFFICES ASSUME NEW o \in Goroutines, pc'[o].at = "capture"
                 PROVE  pc'[o] = pc[o] /\ span'[pc[o].span].sampled = span[pc[o].span].sampled
      OBVIOUS
    <3>1. o # g /\ pc'[o] = pc[o] /\ pc[o].at # "idle"
      BY <1>4
    <3>2. pc[o].span \in Spans /\ pc[o].span # s
      BY <1>0, <1>2, <3>1, WorkFacts
    <3> QED
      BY <1>5, <3>1, <3>2
  <2>3. \A q \in Spans : /\ \A c \in Children(q) : c \in Children(q)'
                         /\ \A c \in Children(q)' : c \in Children(q) \/ ~span'[c].inTime
    <3> SUFFICES ASSUME NEW q \in Spans
                 PROVE  /\ \A c \in ToSet(recorder[q]) : c \in ToSet(recorder'[q])
                        /\ \A c \in ToSet(recorder'[q]) : c \in ToSet(recorder[q]) \/ ~span'[c].inTime
      BY DEF Children
    <3>1. CASE q = r
      BY <1>2, <1>3, <1>n, <1>r, <3>1 DEF old
    <3>2. CASE q # r
      BY <1>r, <3>2
    <3> QED
      BY <3>1, <3>2
  <2>4. \A q \in Started : /\ span'[q].at = span[q].at /\ span'[q].inTime = span[q].inTime
                           /\ span'[q].sampled = span[q].sampled
    BY <1>3, <1>5, <1>t
  <2>5. \A q \in Started : /\ span'[q].at = "open" => span[q].at = "open"
                           /\ span'[q].inTime => span[q].inTime \/ span[Root(q)].at = "open"
    BY <2>4
  <2>6. \A q \in Transactions : span'[q].at = "finished" /\ span'[q].sampled = "true" <=>
                                span[q].at = "finished" /\ span[q].sampled = "true"
    BY <1>t, <2>4
  <2>7. Transactions' = Transactions /\ UNCHANGED sent
    BY <1>1, <1>t
  <2>8. ChildrenKept
    BY <2>3, <2>5 DEF ChildrenKept
  <2> QED
    BY <1>0, <2>2, <2>6, <2>7, <2>8, EventKept
<1>11. DecisionInv'
  BY <1>0, <1>1, <1>3, DecisionKeptOn
<1>12. TraceInv'
  <2>1. ASSUME NEW q \in Started, Starting(q) PROVE Starting(q)' \/ ~cfg.tracing
    <3>1. PICK o \in Goroutines : pc[o].at \in {"record", "attach"} /\ pc[o].span = q
      BY <2>1 DEF Starting, At
    <3>2. CASE o # g
      BY <1>4, <3>1, <3>2 DEF Starting, At
    <3>3. CASE o = g /\ cfg.tracing
      <4>1. Busy(g, "attach", s) /\ "attach" \in Places /\ s \in 0..NumSpans
        BY <1>1, <1>2, <3>3, NumberFacts DEF Places, s
      <4>2. pc'[g].at = "attach" /\ pc'[g].span = s
        BY <1>0, <4>1, BusyEffect
      <4>3. s = q
        BY <3>1, <3>3 DEF s
      <4> QED
        BY <4>2, <4>3 DEF Starting, At
    <3> QED
      BY <3>2, <3>3
  <2>3. \A q \in Started : Starting(q) => \/ Starting(q)' \/ scopeSpan'[span[q].hub] # None
                                          \/ ~cfg.tracing
    BY <2>1
  <2>2. /\ span'[s].dsc = span[s].dsc
        /\ span'[s].dsc.trace \in {None, span[s].trace, span[s].dsc.trace}
        /\ UNCHANGED <<cfg, pctx, sent>> /\ \A h \in Hubs : scopeSpan'[h] = scopeSpan[h]
    BY <1>1, <1>3
  <2> QED
    BY <1>0, <1>1, <1>3, <2>2, <2>3, TraceKept
<1> QED
  BY <1>6, <1>7, <1>8, <1>9, <1>10, <1>11, <1>12 DEF IInv

LEMMA AttachStep ==
  ASSUME IInv, NEW g \in Goroutines, Attach(g)
  PROVE  IInv'
<1>0. Types /\ WorkInv /\ TreeInv /\ RecorderInv /\ EventInv /\ DecisionInv /\ TraceInv
  BY InvParts
<1> DEFINE s == pc[g].span
           k == span[s].hub
<1>1. /\ pc[g].at = "attach" /\ UNCHANGED <<cfg, span, recorder, pctx, sent, lost>>
      /\ scopeSpan' = [scopeSpan EXCEPT ![k] = s] /\ Free(g)
  BY DEF Attach
<1>2. /\ s \in Started /\ s \in Spans /\ k \in Hubs
      /\ span[s].at = "open" /\ ~span[s].inTime
      /\ \A o \in Goroutines : o # g => pc[o].span # s
  BY <1>0, <1>1, WorkFacts, TreeFacts
<1>3. Changed(s)
  BY <1>0, <1>1, <1>2, TypesFacts DEF Changed, Kept
<1>4. /\ pc' \in [Goroutines -> Work] /\ pc'[g].at = "idle" /\ pc'[g].span = None
      /\ \A o \in Goroutines : o # g => pc'[o] = pc[o]
  BY <1>0, <1>1, FreeEffect
<1>5. /\ scopeSpan' \in [Hubs -> 0..NumSpans] /\ scopeSpan'[k] = s
      /\ \A h \in Hubs : h # k => scopeSpan'[h] = scopeSpan[h]
  <2>1. scopeSpan \in [Hubs -> 0..NumSpans] /\ s \in 0..NumSpans
    BY <1>0, <1>2, TypesFacts, NumberFacts
  <2> HIDE DEF s, k
  <2> QED
    BY <1>1, <1>2, <2>1
<1> HIDE DEF s, k
<1>6. Types'
  BY <1>0, <1>1, <1>3, <1>4, <1>5, TypesKept, TypesFacts
<1>7. WorkInv'
  BY <1>0, <1>1, <1>2, <1>3, <1>4, WorkKept
<1>8. TreeInv'
  BY <1>0, <1>3, TreeInvKept
<1>9. RecorderInv'
  BY <1>0, <1>1, <1>3, <1>4, RecorderKept
<1>10. EventInv'
  <2>1. Transactions' = Transactions
    BY <1>0, <1>3, TreeKept
  <2>2. ChildrenKept
    BY <1>1 DEF ChildrenKept, Children
  <2>3. \A o \in Goroutines : pc'[o].at = "capture" => pc'[o] = pc[o]
    BY <1>4
  <2> QED
    BY <1>0, <1>1, <2>1, <2>2, <2>3, EventKept
<1>11. DecisionInv'
  BY <1>0, <1>1, <1>3, DecisionKeptOn
<1>12. TraceInv'
  <2>1. ASSUME NEW q \in Started, Starting(q) PROVE Starting(q)' \/ scopeSpan'[span[q].hub] # None
    <3>1. PICK o \in Goroutines : pc[o].at \in {"record", "attach"} /\ pc[o].span = q
      BY <2>1 DEF Starting, At
    <3>2. CASE o # g
      BY <1>4, <3>1, <3>2 DEF Starting, At
    <3>3. CASE o = g
      <4>1. q = s /\ s # None
        BY <1>2, <3>1, <3>3, NumberFacts DEF s
      <4> QED
        BY <1>5, <4>1 DEF k
    <3> QED
      BY <3>2, <3>3
  <2>2. \A h \in Hubs : scopeSpan'[h] # scopeSpan[h] =>
            scopeSpan'[h] \in Started /\ span[scopeSpan'[h]].hub = h
    BY <1>2, <1>5 DEF k
  <2>3. \A q \in Started : Starting(q) => \/ Starting(q)' \/ scopeSpan'[span[q].hub] # None
                                          \/ ~cfg.tracing
    BY <2>1
  <2>4. span'[s].dsc = span[s].dsc /\ span'[s].dsc.trace \in {None, span[s].trace, span[s].dsc.trace}
    BY <1>1
  <2> QED
    BY <1>0, <1>1, <1>3, <2>2, <2>3, <2>4, TraceKept
<1> QED
  BY <1>6, <1>7, <1>8, <1>9, <1>10, <1>11, <1>12 DEF IInv

\* Restore, CountLoss and, of an event that is sent, Capture: a span is finished.
LEMMA EndStep ==
  ASSUME IInv, NEW g \in Goroutines, NEW s \in Spans, s = pc[g].span,
         pc[g].at \in {"decide", "restore"}, span' = [span EXCEPT ![s].at = "finished"],
         pc[g].at = "decide" => span[s].sampled # "true" /\ UNCHANGED scopeSpan,
         pc[g].at = "restore" => scopeSpan' = [scopeSpan EXCEPT ![span[s].hub] = span[s].parent],
         UNCHANGED <<cfg, recorder, pctx, sent>>, lost' \in [transaction : Nat, span : Nat], Free(g)
  PROVE  IInv'
<1>0. Types /\ WorkInv /\ TreeInv /\ RecorderInv /\ EventInv /\ DecisionInv /\ TraceInv
  BY InvParts
<1> DEFINE k == span[s].hub
           p == span[s].parent
<1>2. /\ s \in Started /\ s \in Spans /\ k \in Hubs
      /\ span[s].at = "ended"
      /\ \A o \in Goroutines : o # g => pc[o].span # s
  BY <1>0, WorkFacts, TreeFacts
<1>3. /\ Changed(s) /\ span'[s].at = "finished"
      /\ span'[s].sampled = span[s].sampled /\ span'[s].dsc = span[s].dsc
      /\ span'[s].ignored = span[s].ignored /\ span'[s].inTime = span[s].inTime
  BY <1>0, <1>2, EndEffect
<1>4. /\ pc' \in [Goroutines -> Work] /\ pc'[g].at = "idle" /\ pc'[g].span = None
      /\ \A o \in Goroutines : o # g => pc'[o] = pc[o]
  BY <1>0, FreeEffect
<1>5. \A q \in Spans : q # s => span'[q] = span[q]
  BY <1>3 DEF Changed
<1>s. /\ scopeSpan' \in [Hubs -> 0..NumSpans]
      /\ \A h \in Hubs : scopeSpan'[h] # scopeSpan[h] =>
            scopeSpan'[h] \in Started /\ span[scopeSpan'[h]].hub = h
  <2>1. CASE pc[g].at = "decide"
    BY <1>0, <2>1, TypesFacts
  <2>2. CASE pc[g].at = "restore"
    <3>1. p \in Started /\ Root(p) = Root(s)
      BY <1>0, <1>2, <2>2, WorkFacts, TreeFacts
    <3>2. span[p].hub = k /\ p \in 0..NumSpans
      BY <1>0, <1>2, <3>1, TreeFacts, NumberFacts
    <3>3. scopeSpan \in [Hubs -> 0..NumSpans] /\ scopeSpan' = [scopeSpan EXCEPT ![k] = p]
      BY <1>0, <2>2, TypesFacts
    <3> HIDE DEF p, k
    <3> QED
      BY <1>2, <3>1, <3>2, <3>3
  <2> QED
    BY <2>1, <2>2
<1> HIDE DEF p, k
<1>6. Types'
  BY <1>0, <1>3, <1>4, <1>s, TypesKept, TypesFacts
<1>7. WorkInv'
  BY <1>0, <1>2, <1>3, <1>4, WorkKept
<1>8. TreeInv'
  BY <1>0, <1>3, TreeInvKept
<1>9. RecorderInv'
  BY <1>0, <1>3, <1>4, RecorderKept
<1>10. EventInv'
  <2>1. Transactions' = Transactions /\ Transactions \subseteq Spans /\ Started \subseteq Spans
        /\ Transactions \subseteq Started /\ (s \in Transactions => pc[g].at = "decide")
    BY <1>0, <1>2, <1>3, TreeKept, StartedFacts, WorkFacts
  <2>2. ChildrenKept
    BY <1>2, <1>3, <1>5, <2>1 DEF ChildrenKept, Children
  <2>3. \A o \in Goroutines : pc'[o].at = "capture" =>
            pc'[o] = pc[o] /\ span'[pc[o].span].sampled = span[pc[o].span].sampled
    BY <1>0, <1>2, <1>4, <1>5, WorkFacts
  <2>4. \A q \in Transactions : span'[q].at = "finished" /\ span'[q].sampled = "true" <=>
                                span[q].at = "finished" /\ span[q].sampled = "true"
    BY <1>2, <1>3, <1>5, <2>1
  <2> QED
    BY <1>0, <2>1, <2>2, <2>3, <2>4, EventKept
<1>11. DecisionInv'
  BY <1>0, <1>3, DecisionKeptOn
<1>12. TraceInv'
  <2>1. \A q \in Started : Starting(q) => \/ Starting(q)' \/ scopeSpan'[span[q].hub] # None
                                          \/ ~cfg.tracing
    BY <1>4, StartingKept
  <2>2. span'[s].dsc.trace \in {None, span[s].trace, span[s].dsc.trace}
    BY <1>3
  <2> QED
    BY <1>0, <1>3, <1>s, <2>1, <2>2, TraceKept
<1> QED
  BY <1>6, <1>7, <1>8, <1>9, <1>10, <1>11, <1>12 DEF IInv

LEMMA RestoreStep ==
  ASSUME IInv, NEW g \in Goroutines, Restore(g)
  PROVE  IInv'
<1>1. Types /\ WorkInv /\ pc[g].at = "restore"
  BY InvParts DEF Restore
<1>2. PICK s \in Spans : s = pc[g].span
  BY <1>1, WorkFacts
<1>3. lost' \in [transaction : Nat, span : Nat]
  BY <1>1, TypesFacts DEF Restore
<1> QED
  BY <1>1, <1>2, <1>3, EndStep DEF Restore

LEMMA CountLossStep ==
  ASSUME IInv, NEW g \in Goroutines, CountLoss(g)
  PROVE  IInv'
<1>1. Types /\ WorkInv /\ RecorderInv /\ pc[g].at = "decide"
  BY InvParts DEF CountLoss
<1>2. PICK s \in Spans : s = pc[g].span
  BY <1>1, WorkFacts
<1>3. lost' \in [transaction : Nat, span : Nat]
  <2>1. Children(s) \subseteq Spans
    BY <1>1, StartedFacts DEF Children, RecorderInv
  <2>2. Cardinality(Children(s)) \in Nat
    BY <2>1, NumberFacts, FS_Subset, FS_CardinalityType
  <2>3. lost' = Loss(s)
    BY <1>2 DEF CountLoss
  <2> QED
    BY <1>1, <2>2, <2>3, TypesFacts DEF Loss
<1>4. /\ span' = [span EXCEPT ![s].at = "finished"] /\ span[s].sampled # "true"
      /\ UNCHANGED <<cfg, recorder, scopeSpan, pctx, sent>> /\ Free(g)
  BY <1>2 DEF CountLoss
<1> QED
  BY <1>1, <1>2, <1>3, <1>4, EndStep

LEMMA IgnoreStep ==
  ASSUME IInv, NEW g \in Goroutines, Ignore(g)
  PROVE  IInv'
<1>0. Types /\ WorkInv /\ TreeInv /\ RecorderInv /\ EventInv /\ DecisionInv /\ TraceInv
  BY InvParts
<1> DEFINE s == pc[g].span
<1>1. /\ pc[g].at = "decide" /\ UNCHANGED <<cfg, recorder, scopeSpan, pctx, sent, lost>> /\ Free(g)
  BY DEF Ignore
<1>2. /\ s \in Started /\ s \in Spans /\ span[s].at = "ended" /\ span[s].parent = None /\ Root(s) = s
      /\ \A o \in Goroutines : o # g => pc[o].span # s
  BY <1>0, <1>1, WorkFacts, TreeFacts
<1>3. /\ Changed(s) /\ span'[s].at = "finished"
      /\ span'[s].sampled = "false" /\ span'[s].ignored /\ span'[s].dsc = span[s].dsc
      /\ span'[s].inTime = span[s].inTime
  BY <1>0, <1>2, IgnoreEffect
<1>4. /\ pc' \in [Goroutines -> Work] /\ pc'[g].at = "idle" /\ pc'[g].span = None
      /\ \A o \in Goroutines : o # g => pc'[o] = pc[o]
  BY <1>0, <1>1, FreeEffect
<1>5. \A q \in Spans : q # s => span'[q] = span[q]
  BY <1>3 DEF Changed
<1> HIDE DEF s
<1>6. Types'
  BY <1>0, <1>1, <1>3, <1>4, TypesKept, TypesFacts
<1>7. WorkInv'
  BY <1>0, <1>1, <1>2, <1>3, <1>4, WorkKept
<1>8. TreeInv'
  BY <1>0, <1>3, TreeInvKept
<1>9. RecorderInv'
  BY <1>0, <1>1, <1>3, <1>4, RecorderKept
<1>t. /\ Started' = Started /\ Transactions' = Transactions /\ Transactions \subseteq Started
      /\ Started \subseteq Spans
      /\ \A q \in Spans : Root(q)' = Root(q)
      /\ \A q : Follows(q)' <=> Follows(q)
  BY <1>0, <1>3, TreeKept, StartedFacts
<1>10. EventInv'
  <2>2. ChildrenKept
    BY <1>1, <1>2, <1>3, <1>5, <1>t DEF ChildrenKept, Children
  <2>3. \A o \in Goroutines : pc'[o].at = "capture" =>
            pc'[o] = pc[o] /\ span'[pc[o].span].sampled = span[pc[o].span].sampled
    BY <1>0, <1>2, <1>4, <1>5, WorkFacts
  <2>4. \A q \in Transactions : span'[q].at = "finished" /\ span'[q].sampled = "true" <=>
                                span[q].at = "finished" /\ span[q].sampled = "true"
    BY <1>2, <1>3, <1>5, <1>t
  <2> QED
    BY <1>0, <1>1, <1>t, <2>2, <2>3, <2>4, EventKept
<1>11. DecisionInv'
  <2>1. ASSUME NEW q \in Started
        PROVE  /\ span'[q].sampled \in {"true", "false"}
               /\ span'[q].sampled = "true" => cfg.tracing
               /\ span'[q].ignored => span'[q].sampled = "false"
               /\ Follows(q)' /\ ~span'[span'[q].root].ignored =>
                    span'[q].sampled = span'[span'[q].root].sampled
    <3>1. /\ span[q].sampled \in {"true", "false"}
          /\ span[q].sampled = "true" => cfg.tracing
          /\ span[q].ignored => span[q].sampled = "false"
          /\ Follows(q) /\ ~span[span[q].root].ignored => span[q].sampled = span[span[q].root].sampled
      BY <1>0 DEF DecisionInv, Root
    <3>2. q \in Spans /\ span[q].root \in Spans /\ span'[q].root = span[q].root
      BY <1>0, <1>t, TreeFacts DEF Root
    <3>3. CASE span[q].root = s
      <4>1. span'[span'[q].root].ignored
        BY <1>3, <3>2, <3>3
      <4>2. q = s \/ span'[q] = span[q]
        BY <1>5, <3>2
      <4> QED
        BY <1>3, <3>1, <4>1, <4>2
    <3>4. CASE span[q].root # s
      <4>1. q # s
        BY <1>2, <3>4 DEF Root
      <4>2. span'[q] = span[q] /\ span'[span[q].root] = span[span[q].root]
        BY <1>5, <3>2, <3>4, <4>1
      <4> QED
        BY <1>t, <3>1, <3>2, <4>2
    <3> QED
      BY <3>3, <3>4
  <2> QED
    BY <1>1, <1>t, <2>1 DEF DecisionInv, Root
<1>12. TraceInv'
  <2>1. \A q \in Started : Starting(q) => \/ Starting(q)' \/ scopeSpan'[span[q].hub] # None
                                          \/ ~cfg.tracing
    BY <1>1, <1>4, StartingKept
  <2>2. span'[s].dsc.trace \in {None, span[s].trace, span[s].dsc.trace}
    BY <1>3
  <2> QED
    BY <1>0, <1>1, <1>3, <2>1, <2>2, TraceKept
<1> QED
  BY <1>6, <1>7, <1>8, <1>9, <1>10, <1>11, <1>12 DEF IInv

LEMMA ToBaggageStep ==
  ASSUME IInv, NEW g \in Goroutines, NEW q \in Spans, ToBaggage(g, q)
  PROVE  IInv'
<1>0. Types /\ WorkInv /\ TreeInv /\ RecorderInv /\ EventInv /\ DecisionInv /\ TraceInv
  BY InvParts
<1> DEFINE s == Root(q)
           dsc == BaggageDsc(q)
<1>1. /\ q \in Started /\ span' = [span EXCEPT ![s].dsc = dsc]
      /\ UNCHANGED <<cfg, recorder, scopeSpan, pctx, pc, sent, lost>>
  BY DEF ToBaggage
<1>2. s \in Spans /\ s \in Started /\ span[s].parent = None
  BY <1>0, <1>1, TreeFacts, StartedFacts
<1>d. dsc \in DscType /\ dsc.trace \in {span[s].dsc.trace, span[s].trace}
  <2>1. span[s] \in SpanType
    BY <1>0, <1>2, TypesFacts
  <2>2. span[s].dsc \in DscType
    BY <2>1 DEF SpanType
  <2>3. dsc = span[s].dsc \/ dsc = DscFromTransaction(span[s])
    BY DEF BaggageDsc
  <2> QED
    BY <2>1, <2>2, <2>3, DscOfTransaction
<1> HIDE DEF s, dsc
<1>3. /\ Changed(s) /\ span'[s].at = span[s].at
      /\ span'[s].sampled = span[s].sampled /\ span'[s].dsc = dsc
      /\ span'[s].ignored = span[s].ignored /\ span'[s].inTime = span[s].inTime
  BY <1>0, <1>1, <1>2, <1>d, DscEffect
<1>5. /\ \A x \in Spans : x # s => span'[x] = span[x]
      /\ \A x \in Spans : /\ span'[x].at = span[x].at /\ span'[x].inTime = span[x].inTime
                          /\ span'[x].parent = span[x].parent /\ span'[x].sampled = span[x].sampled
  BY <1>3 DEF Changed, Kept
<1>t. /\ Started' = Started /\ Transactions' = Transactions /\ Transactions \subseteq Started
      /\ Started \subseteq Spans
  BY <1>0, <1>3, TreeKept, StartedFacts
<1>6. Types'
  BY <1>0, <1>1, <1>3, TypesKept, TypesFacts
<1>7. WorkInv'
  BY <1>0, <1>1, <1>5, <1>t DEF WorkInv
<1>8. TreeInv'
  BY <1>0, <1>3, TreeInvKept
<1>9. RecorderInv'
  BY <1>0, <1>1, <1>3, RecorderKept
<1>10. EventInv'
  <2>2. ChildrenKept
    BY <1>1, <1>5, <1>t DEF ChildrenKept, Children
  <2>3. \A o \in Goroutines : pc'[o].at = "capture" =>
            pc'[o] = pc[o] /\ span'[pc[o].span].sampled = span[pc[o].span].sampled
    BY <1>0, <1>1, <1>5, WorkFacts
  <2>4. \A x \in Transactions : span'[x].at = "finished" /\ span'[x].sampled = "true" <=>
                                span[x].at = "finished" /\ span[x].sampled = "true"
    BY <1>5, <1>t
  <2> QED
    BY <1>0, <1>1, <1>t, <2>2, <2>3, <2>4, EventKept
<1>11. DecisionInv'
  BY <1>0, <1>1, <1>3, DecisionKeptOn
<1>12. TraceInv'
  <2>1. \A x \in Started : Starting(x) => Starting(x)'
    BY <1>1 DEF Starting, At
  <2>2. span'[s].dsc.trace \in {None, span[s].trace, span[s].dsc.trace}
    BY <1>3, <1>d
  <2> QED
    BY <1>0, <1>1, <1>2, <1>3, <2>1, <2>2, TraceKept
<1> QED
  BY <1>6, <1>7, <1>8, <1>9, <1>10, <1>11, <1>12 DEF IInv

LEMMA ToEventStep ==
  ASSUME IInv, NEW g \in Goroutines, ToEvent(g)
  PROVE  IInv'
<1>0. Types /\ WorkInv /\ TreeInv /\ RecorderInv /\ EventInv /\ DecisionInv /\ TraceInv
  BY InvParts
<1> DEFINE s == pc[g].span
           dsc == IF span[s].dsc.frozen THEN span[s].dsc ELSE DscFromTransaction(span[s])
           e == [root |-> s, spans |-> FinishedChildren(s), dsc |-> dsc]
           w == [at |-> "capture", span |-> s, event |-> <<e>>]
<1>1. /\ pc[g].at = "decide" /\ UNCHANGED <<cfg, recorder, scopeSpan, pctx, sent, lost>>
      /\ span' = [span EXCEPT ![s].dsc = dsc] /\ pc' = [pc EXCEPT ![g] = w]
      /\ span[s].sampled = "true"
  BY DEF ToEvent
<1>2. /\ s \in Started /\ s \in Spans /\ span[s].at = "ended" /\ span[s].parent = None /\ Root(s) = s
      /\ \A o \in Goroutines : o # g => pc[o].span # s
  BY <1>0, <1>1, WorkFacts, TreeFacts
<1>d. dsc \in DscType /\ dsc.trace \in {span[s].dsc.trace, span[s].trace}
  <2>1. span[s] \in SpanType
    BY <1>0, <1>2, TypesFacts
  <2>2. span[s].dsc \in DscType
    BY <2>1 DEF SpanType
  <2> HIDE DEF s
  <2> QED
    BY <2>1, <2>2, DscOfTransaction
<1>c. \A c \in Children(s) : c \in Started /\ c \in Spans /\ Root(c) = s
  BY <1>0, <1>2, StartedFacts DEF Children, RecorderInv
<1>e. /\ e \in Event /\ e.root = s /\ e.spans = FinishedChildren(s)
      /\ w \in Work /\ w.at = "capture" /\ w.span = s /\ w.event = <<e>>
  <2>1. FinishedChildren(s) \in SUBSET Spans
    BY <1>c DEF FinishedChildren
  <2> HIDE DEF dsc, s
  <2>2. e \in Event /\ e.root = s /\ e.spans = FinishedChildren(s)
    BY <1>2, <1>d, <2>1 DEF Event
  <2> HIDE DEF e
  <2>3. <<e>> \in Seq(Event)
    BY <2>2
  <2> QED
    BY <1>2, <2>2, <2>3, NumberFacts DEF Work, Places
<1> HIDE DEF s, dsc, e, w
<1>3. /\ Changed(s) /\ span'[s].at = span[s].at
      /\ span'[s].sampled = span[s].sampled /\ span'[s].dsc = dsc
      /\ span'[s].ignored = span[s].ignored /\ span'[s].inTime = span[s].inTime
  BY <1>0, <1>1, <1>2, <1>d, DscEffect
<1>4. /\ pc' \in [Goroutines -> Work] /\ pc'[g] = w
      /\ \A o \in Goroutines : o # g => pc'[o] = pc[o]
  BY <1>0, <1>1, <1>e, WorkTypes
<1>5. /\ \A x \in Spans : x # s => span'[x] = span[x]
      /\ \A x \in Spans : /\ span'[x].at = span[x].at /\ span'[x].inTime = span[x].inTime
                          /\ span'[x].parent = span[x].parent /\ span'[x].sampled = span[x].sampled
  BY <1>3 DEF Changed, Kept
<1>t. /\ Started' = Started /\ Transactions' = Transactions /\ Transactions \subseteq Started
      /\ Started \subseteq Spans
  BY <1>0, <1>3, TreeKept, StartedFacts
<1>6. Types'
  BY <1>0, <1>1, <1>3, <1>4, TypesKept, TypesFacts
<1>7. WorkInv'
  BY <1>0, <1>1, <1>2, <1>3, <1>4, <1>5, <1>e, WorkKept
<1>8. TreeInv'
  BY <1>0, <1>3, TreeInvKept
<1>9. RecorderInv'
  BY <1>0, <1>1, <1>3, <1>4, <1>e, RecorderKept
<1>10. EventInv'
  <2>2. ChildrenKept
    BY <1>1, <1>5, <1>t DEF ChildrenKept, Children
  <2>0. PICK r \in Spans, x \in Event : r = s /\ x = e
    BY <1>2, <1>e
  <2>1. Complete(x)'
    <3>1. \A c \in Children(r) : span'[c].inTime => span'[c].at # "open"
      BY <1>0, <1>5, <1>c, <2>0 DEF WorkInv
    <3>2. Children(r)' = Children(r)
      BY <1>1 DEF Children
    <3>3. \A c : c \in x.spans <=> c \in Children(r) /\ span'[c].at # "open"
      BY <1>5, <1>c, <1>e, <2>0 DEF FinishedChildren
    <3>4. x.root = r
      BY <1>e, <2>0
    <3> QED
      BY <3>1, <3>2, <3>3, <3>4 DEF Complete
  <2>3. HasNewEvent(g)
    <3>1. pc'[g].event = <<x>> /\ x.root = pc'[g].span /\ span'[x.root].sampled = "true"
      BY <1>1, <1>3, <1>4, <1>e, <2>0
    <3> QED
      BY <2>1, <3>1 DEF HasNewEvent
  <2>4. \A o \in Goroutines : pc'[o].at = "capture" =>
            \/ pc'[o] = pc[o] /\ span'[pc[o].span].sampled = span[pc[o].span].sampled
            \/ HasNewEvent(o)
    <3> SUFFICES ASSUME NEW o \in Goroutines, pc'[o].at = "capture", o # g
                 PROVE  pc'[o] = pc[o] /\ span'[pc[o].span].sampled = span[pc[o].span].sampled
      BY <2>3
    <3> QED
      BY <1>0, <1>4, <1>5, WorkFacts
  <2>5. \A q \in Transactions : span'[q].at = "finished" /\ span'[q].sampled = "true" <=>
                                span[q].at = "finished" /\ span[q].sampled = "true"
    BY <1>5, <1>t
  <2> QED
    BY <1>0, <1>1, <1>t, <2>2, <2>4, <2>5, EventKept
<1>11. DecisionInv'
  BY <1>0, <1>1, <1>3, DecisionKeptOn
<1>12. TraceInv'
  <2>1. \A q \in Started : Starting(q) => \/ Starting(q)' \/ scopeSpan'[span[q].hub] # None
                                          \/ ~cfg.tracing
    BY <1>1, <1>4, StartingKept
  <2>2. span'[s].dsc.trace \in {None, span[s].trace, span[s].dsc.trace}
    BY <1>3, <1>d
  <2> QED
    BY <1>0, <1>1, <1>2, <1>3, <2>1, <2>2, TraceKept
<1> QED
  BY <1>6, <1>7, <1>8, <1>9, <1>10, <1>11, <1>12 DEF IInv

\* The span of a scope is of a transaction on the same hub.
LEMMA ScopeFacts ==
  ASSUME Types, TreeInv, TraceInv, NEW h \in Hubs, scopeSpan[h] # None
  PROVE  /\ scopeSpan[h] \in Started /\ scopeSpan[h] \in Spans /\ span[scopeSpan[h]].hub = h
         /\ Root(scopeSpan[h]) \in On(h) /\ Root(scopeSpan[h]) \in Spans
         /\ span[scopeSpan[h]].trace = span[Root(scopeSpan[h])].trace
<1>1. scopeSpan[h] \in Started /\ span[scopeSpan[h]].hub = h
  BY DEF TraceInv, HubTraces
<1>2. PICK s \in Started : s = scopeSpan[h]
  BY <1>1
<1>3. /\ s \in Spans /\ Root(s) \in Transactions /\ Root(s) \in Spans
      /\ span[s].hub = span[Root(s)].hub /\ span[s].trace = span[Root(s)].trace
  BY <1>2, TreeFacts
<1> QED
  BY <1>1, <1>2, <1>3 DEF On

LEMMA ScopeDscType ==
  ASSUME Types, TreeInv, TraceInv, NEW h \in Hubs
  PROVE  ScopeDsc(h) \in DscType
<1>1. CASE scopeSpan[h] # None
  <2>1. PICK r \in Spans : r = Root(scopeSpan[h])
    BY <1>1, ScopeFacts
  <2>2. span[r] \in SpanType
    BY TypesFacts
  <2> QED
    BY <1>1, <2>1, <2>2, DscOfTransaction DEF ScopeDsc
<1>2. CASE scopeSpan[h] = None
  <2>1. pctx[h].dsc \in DscType /\ pctx[h].trace \in 0..Upstream /\ cfg.rate \in Rates
    BY TypesFacts DEF Config
  <2>2. DscFromScope(h) \in DscType
    BY <2>1 DEF DscFromScope, DscType, Sampled
  <2> QED
    BY <1>2, <2>1, <2>2 DEF ScopeDsc
<1> QED
  BY <1>1, <1>2

LEMMA CaptureStep ==
  ASSUME IInv, NEW g \in Goroutines, Capture(g)
  PROVE  IInv'
<1>0. Types /\ WorkInv /\ TreeInv /\ RecorderInv /\ EventInv /\ DecisionInv /\ TraceInv
  BY InvParts
<1>1. /\ pc[g].at = "capture" /\ UNCHANGED <<cfg, recorder, scopeSpan, pctx, lost>> /\ Free(g)
      /\ Len(pc[g].event) = 1
      /\ pc[g].event[1].root = pc[g].span /\ span[pc[g].span].sampled = "true"
      /\ Complete(pc[g].event[1])
  BY <1>0 DEF Capture, EventInv
<1>w. PICK s \in Spans, e \in Event : s = pc[g].span /\ e = pc[g].event[1]
  BY <1>0, <1>1, WorkFacts, EventFacts
<1> DEFINE k == span[s].hub
           dsc == ScopeDsc(k)
           f == [e EXCEPT !.dsc = dsc]
<1>2. /\ s \in Started /\ span[s].at = "ended" /\ span[s].parent = None
      /\ s \in Transactions /\ k \in Hubs
      /\ \A o \in Goroutines : o # g => pc[o].span # s
  BY <1>0, <1>1, <1>w, WorkFacts, StartedFacts, TreeFacts
<1>e. e.root = s /\ span[s].sampled = "true" /\ Complete(e)
  BY <1>1, <1>w
<1>d. dsc \in DscType
  BY <1>0, <1>2, ScopeDscType
<1>f. f \in Event /\ f.root = s /\ f.spans = e.spans /\ f.dsc = dsc
  <2> HIDE DEF dsc
  <2> QED
    BY <1>d, <1>e DEF Event
<1>m. span' = [span EXCEPT ![s].at = "finished"] /\ sent' = Append(sent, f)
  BY <1>1, <1>w DEF Capture
<1>3. /\ Changed(s) /\ span'[s].at = "finished"
      /\ span'[s].sampled = span[s].sampled /\ span'[s].dsc = span[s].dsc
      /\ span'[s].ignored = span[s].ignored /\ span'[s].inTime = span[s].inTime
  BY <1>0, <1>2, <1>m, EndEffect
<1>4. /\ pc' \in [Goroutines -> Work] /\ pc'[g].at = "idle" /\ pc'[g].span = None
      /\ \A o \in Goroutines : o # g => pc'[o] = pc[o]
  BY <1>0, <1>1, FreeEffect
<1>5. \A q \in Spans : q # s => span'[q] = span[q]
  BY <1>3 DEF Changed
<1> DEFINE n == Len(sent)
<1>a. /\ n \in Nat /\ DOMAIN sent = 1..n /\ sent' \in Seq(Event) /\ DOMAIN sent' = 1..n + 1
      /\ \A i \in 1..n : sent'[i] = sent[i]
      /\ sent'[n + 1] = f
  <2>1. sent \in Seq(Event)
    BY <1>0, TypesFacts
  <2>2. n \in Nat /\ DOMAIN sent = 1..n
    BY <2>1
  <2> HIDE DEF f
  <2> QED
    BY <1>f, <1>m, <2>1, <2>2, AppendElements
<1> HIDE DEF k, dsc, f, n
<1>6. Types'
  BY <1>0, <1>1, <1>3, <1>4, <1>a, TypesKept, TypesFacts
<1>7. WorkInv'
  BY <1>0, <1>1, <1>2, <1>3, <1>4, WorkKept
<1>8. TreeInv'
  BY <1>0, <1>3, TreeInvKept
<1>9. RecorderInv'
  BY <1>0, <1>1, <1>3, <1>4, RecorderKept
<1>t. /\ Started' = Started /\ Transactions' = Transactions /\ Transactions \subseteq Started
      /\ Started \subseteq Spans
  BY <1>0, <1>3, TreeKept, StartedFacts
<1>i. /\ \A i \in 1..n + 1 : i \in 1..n \/ i = n + 1
      /\ \A i \in 1..n : i \in 1..n + 1
      /\ n + 1 \in 1..n + 1
  BY <1>a
<1>o. \A i \in 1..n : sent[i] \in Event /\ sent[i].root # s
  BY <1>0, <1>2, <1>a, EventFacts DEF EventInv
<1>h. ChildrenKept
  BY <1>1, <1>2, <1>3, <1>5, <1>t DEF ChildrenKept, Children
<1>10. EventInv'
  <2>1. ASSUME NEW x \in Event, x.root \in Transactions, Complete(x), span[x.root].at # "open"
        PROVE  Complete(x)'
    BY <1>0, <1>h, <1>t, <2>1, CompleteKept DEF ChildrenKept
  <2>2. ASSUME NEW o \in Goroutines, pc'[o].at = "capture"
        PROVE  \E x \in Event : /\ Len(pc'[o].event) = 1 /\ pc'[o].event[1] = x
                                /\ x.root = pc'[o].span /\ span'[pc'[o].span].sampled = "true"
                                /\ Complete(x)'
    <3>1. o # g /\ pc'[o] = pc[o] /\ pc[o].at = "capture"
      BY <1>4, <2>2
    <3>2. /\ Len(pc[o].event) = 1 /\ pc[o].event[1].root = pc[o].span
          /\ span[pc[o].span].sampled = "true" /\ Complete(pc[o].event[1])
      BY <1>0, <3>1 DEF EventInv
    <3>3. PICK x \in Event : x = pc[o].event[1]
      BY <1>0, <3>2, EventFacts
    <3>4. /\ pc[o].span \in Transactions /\ pc[o].span \in Spans /\ pc[o].span # s
          /\ span[pc[o].span].at = "ended"
      BY <1>0, <1>2, <3>1, WorkFacts, StartedFacts
    <3>5. Complete(x)'
      BY <2>1, <3>2, <3>3, <3>4
    <3> QED
      BY <1>5, <3>1, <3>2, <3>3, <3>4, <3>5
  <2>3. ASSUME NEW o \in Goroutines, pc'[o].at = "capture"
        PROVE  /\ Len(pc'[o].event) = 1
               /\ pc'[o].event[1].root = pc'[o].span /\ span'[pc'[o].span].sampled = "true"
               /\ Complete(pc[o].event[1])'
    <3>1. PICK x \in Event : /\ Len(pc'[o].event) = 1 /\ pc'[o].event[1] = x
                             /\ x.root = pc'[o].span /\ span'[pc'[o].span].sampled = "true"
                             /\ Complete(x)'
      BY <2>2, <2>3
    <3> QED
      BY <3>1 DEF Complete, Children
  <2>4. ASSUME NEW i \in 1..n + 1
        PROVE  \E x \in Event : /\ sent'[i] = x /\ x.root \in Transactions
                                /\ span'[x.root].at = "finished" /\ span'[x.root].sampled = "true"
                                /\ Complete(x)'
    <3>1. CASE i \in 1..n
      <4>1. PICK x \in Event : x = sent[i]
        BY <1>o, <3>1
      <4>2. /\ x.root \in Transactions /\ Complete(x) /\ x.root # s
            /\ span[x.root].at = "finished" /\ span[x.root].sampled = "true"
        BY <1>0, <1>a, <1>o, <3>1, <4>1 DEF EventInv
      <4>3. Complete(x)' /\ span'[x.root] = span[x.root]
        BY <1>5, <1>t, <2>1, <4>2
      <4> QED
        BY <1>a, <3>1, <4>1, <4>2, <4>3
    <3>2. CASE i = n + 1
      <4>1. PICK x \in Event : x = f
        BY <1>f
      <4>2. Complete(x)
        BY <1>e, <1>f, <4>1 DEF Complete
      <4>3. Complete(x)'
        BY <1>2, <1>f, <2>1, <4>1, <4>2
      <4> QED
        BY <1>2, <1>3, <1>a, <1>e, <1>f, <3>2, <4>1, <4>3
    <3> QED
      BY <1>i, <3>1, <3>2
  <2>5. ASSUME NEW i \in DOMAIN sent'
        PROVE  /\ sent'[i].root \in Transactions'
               /\ span'[sent'[i].root].at = "finished" /\ span'[sent'[i].root].sampled = "true"
               /\ {c \in ToSet(recorder'[sent'[i].root]) : c # sent'[i].root /\ span'[c].inTime}
                    \subseteq sent'[i].spans
               /\ sent'[i].spans \subseteq
                    {c \in ToSet(recorder'[sent'[i].root]) : c # sent'[i].root /\ span'[c].at # "open"}
    <3>1. PICK x \in Event : /\ sent'[i] = x /\ x.root \in Transactions
                             /\ span'[x.root].at = "finished" /\ span'[x.root].sampled = "true"
                             /\ Complete(x)'
      BY <1>a, <2>4, <2>5
    <3> QED
      BY <1>t, <3>1 DEF Complete, Children
  <2>6. \A i, j \in 1..n + 1 : sent'[i].root = sent'[j].root => i = j
    <3>1. \A i, j \in 1..n : sent[i].root = sent[j].root => i = j
      BY <1>0, <1>a DEF EventInv
    <3> QED
      BY <1>a, <1>f, <1>i, <1>o, <3>1
  <2>7. \A r \in Transactions : span'[r].at = "finished" /\ span'[r].sampled = "true" =>
          \E i \in 1..n + 1 : sent'[i].root = r
    <3> SUFFICES ASSUME NEW r \in Transactions, span'[r].at = "finished", span'[r].sampled = "true"
                 PROVE  \E i \in 1..n + 1 : sent'[i].root = r
      OBVIOUS
    <3>1. CASE r = s
      BY <1>a, <1>f, <1>i, <3>1
    <3>2. CASE r # s
      <4>1. r \in SentRoots
        BY <1>0, <1>5, <1>t, <3>2 DEF EventInv
      <4>2. PICK i \in 1..n : sent[i].root = r
        BY <1>a, <4>1 DEF SentRoots
      <4> QED
        BY <1>a, <1>i, <4>2
    <3> QED
      BY <3>1, <3>2
  <2> QED
    BY <1>a, <1>t, <2>3, <2>5, <2>6, <2>7 DEF EventInv, Complete, Children, SentRoots
<1>11. DecisionInv'
  BY <1>0, <1>1, <1>3, DecisionKeptOn
<1>12. SpanTraces' /\ HubTraces' /\ Attached'
  <2>1. \A q \in Started : Starting(q) => \/ Starting(q)' \/ scopeSpan'[span[q].hub] # None
                                          \/ ~cfg.tracing
    BY <1>1, <1>4, StartingKept
  <2>2. span'[s].dsc.trace \in {None, span[s].trace, span[s].dsc.trace}
    BY <1>3
  <2> QED
    BY <1>0, <1>1, <1>3, <2>1, <2>2, TraceKept
<1>13. SentTraces'
  <2>1. \A h : On(h)' = On(h)
    BY <1>0, <1>3, TreeKept
  <2>2. \A q \in Spans : span'[q].hub = span[q].hub /\ span'[q].trace = span[q].trace
    BY <1>0, <1>3, TreeKept DEF Kept
  <2>3. On(k) = {s} => dsc.trace = span[s].trace
    <3>1. ~Starting(s) /\ cfg.tracing
      <4>1. cfg.tracing
        BY <1>0, <1>2, <1>e DEF DecisionInv
      <4>2. \A o \in Goroutines : pc[o].span = s => o = g
        BY <1>2
      <4> QED
        BY <1>1, <4>1, <4>2 DEF Starting, At
    <3>2. scopeSpan[k] # None
      BY <1>0, <1>2, <3>1 DEF TraceInv, Attached, k
    <3>3. PICK r \in Spans : r = Root(scopeSpan[k]) /\ r \in On(k)
      BY <1>0, <1>2, <3>2, ScopeFacts
    <3>4. dsc.trace = span[r].trace
      <4>1. span[r] \in SpanType
        BY <1>0, TypesFacts
      <4> QED
        BY <3>2, <3>3, <4>1, DscOfTransaction DEF ScopeDsc, dsc
    <3> QED
      BY <3>3, <3>4
  <2>4. ASSUME NEW i \in 1..n + 1, NEW h, h = span'[sent'[i].root].hub, On(h)' = {sent'[i].root}
        PROVE  sent'[i].dsc.trace = span'[sent'[i].root].trace
    <3>1. CASE i \in 1..n
      <4>1. sent'[i] = sent[i] /\ sent[i].root \in Spans
        BY <1>0, <1>a, <1>t, <3>1 DEF EventInv
      <4>2. h = span[sent[i].root].hub /\ On(h) = {sent[i].root}
        BY <2>1, <2>2, <2>4, <4>1
      <4>3. sent[i].dsc.trace = span[sent[i].root].trace
        BY <1>0, <1>a, <3>1, <4>2 DEF TraceInv, SentTraces
      <4> QED
        BY <2>2, <4>1, <4>3
    <3>2. CASE i = n + 1
      <4>1. sent'[i] = f /\ h = k /\ On(k) = {s}
        BY <1>a, <1>f, <2>1, <2>2, <2>4, <3>2 DEF k
      <4> QED
        BY <1>f, <2>2, <2>3, <4>1
    <3> QED
      BY <1>i, <3>1, <3>2
  <2>5. \A i \in DOMAIN sent' :
          {x \in Transactions' : span'[x].hub = span'[sent'[i].root].hub} = {sent'[i].root}
            => sent'[i].dsc.trace = span'[sent'[i].root].trace
    <3> SUFFICES ASSUME NEW i \in 1..n + 1,
                        {x \in Transactions' : span'[x].hub = span'[sent'[i].root].hub} = {sent'[i].root}
                 PROVE  sent'[i].dsc.trace = span'[sent'[i].root].trace
      BY <1>a
    <3>1. PICK h : h = span'[sent'[i].root].hub
      OBVIOUS
    <3>2. On(h)' = {sent'[i].root}
      BY <3>1 DEF On
    <3> QED
      BY <2>4, <3>1, <3>2
  <2> QED
    BY <2>5 DEF SentTraces, On
<1> QED
  BY <1>6, <1>7, <1>8, <1>9, <1>10, <1>11, <1>12, <1>13 DEF IInv, TraceInv

-----------------------------------------------------------------------------
(* StartSpan                                                               *)

\* What the decision leaves of a new span, and what it decides.
Decided(s, d) ==
    /\ d \in SpanType
    /\ d.at = s.at /\ d.parent = s.parent /\ d.root = s.root /\ d.hub = s.hub /\ d.trace = s.trace
    /\ d.explicit = s.explicit /\ d.header = s.header /\ d.ignored = s.ignored /\ d.inTime = s.inTime
    /\ d.dsc.trace = s.dsc.trace /\ (s.parent # None => d.dsc = s.dsc)
    /\ d.sampled \in {"true", "false"} /\ (d.sampled = "true" => cfg.tracing)

LEMMA FixedFacts ==
  ASSUME Types, NEW s \in SpanType, NEW x \in {"true", "false"}, x = "true" => cfg.tracing
  PROVE  Decided(s, Fixed(s, x)) /\ Fixed(s, x).sampled = x
<1> DEFINE y == IF x = "true" THEN "one" ELSE "zero"
           d1 == [s EXCEPT !.sampled = x]
           d == [d1 EXCEPT !.rate = y]
<1>1. x \in Sampled /\ y \in Rates
  BY DEF Sampled, Rates
<1>2. d1 \in SpanType
  BY <1>1, SpanFields
<1>3. d \in SpanType
  <2> HIDE DEF d1, y
  <2> QED
    BY <1>1, <1>2, SpanFields
<1>4. Fixed(s, x) = d
  BY DEF Fixed
<1>5. /\ d.at = s.at /\ d.parent = s.parent /\ d.root = s.root /\ d.hub = s.hub /\ d.trace = s.trace
      /\ d.explicit = s.explicit /\ d.header = s.header /\ d.ignored = s.ignored
      /\ d.inTime = s.inTime /\ d.dsc = s.dsc /\ d.sampled = x
  BY DEF SpanType
<1> HIDE DEF d
<1> QED
  BY <1>3, <1>4, <1>5 DEF Decided

LEMMA WithRateFacts ==
  ASSUME Types, NEW s \in SpanType, s.parent = None, cfg.tracing, NEW rate \in Rates,
         NEW d \in WithRate(s, rate)
  PROVE  Decided(s, d)
<1> DEFINE y == IF HasEntries(s.dsc) THEN rate ELSE s.dsc.rate
           c == [s.dsc EXCEPT !.rate = y]
<1>1. PICK x \in Draw(rate) : d = [s EXCEPT !.sampled = x, !.rate = rate, !.dsc.rate = y]
  BY DEF WithRate
<1>2. x \in {"true", "false"} /\ x \in Sampled
  BY DEF Draw, Sampled
<1>3. s.dsc \in DscType /\ y \in Rates
  BY DEF SpanType, DscType
<1>4. c \in DscType /\ c.trace = s.dsc.trace
  <2> HIDE DEF y
  <2> QED
    BY <1>3 DEF DscType
<1> DEFINE d1 == [s EXCEPT !.sampled = x]
           d2 == [d1 EXCEPT !.rate = rate]
           d3 == [d2 EXCEPT !.dsc = c]
<1>5. d1 \in SpanType
  BY <1>2, SpanFields
<1>6. d2 \in SpanType
  <2> HIDE DEF d1
  <2> QED
    BY <1>5, SpanFields
<1>7. d3 \in SpanType
  <2> HIDE DEF d2, c
  <2> QED
    BY <1>4, <1>6, SpanFields
<1>8. d = d3
  BY <1>1 DEF SpanType
<1>9. /\ d3.at = s.at /\ d3.parent = s.parent /\ d3.root = s.root /\ d3.hub = s.hub
      /\ d3.trace = s.trace /\ d3.explicit = s.explicit /\ d3.header = s.header
      /\ d3.ignored = s.ignored /\ d3.inTime = s.inTime /\ d3.dsc = c /\ d3.sampled = x
  <2> HIDE DEF c
  <2> QED
    BY DEF SpanType
<1> HIDE DEF d3, c
<1> QED
  BY <1>2, <1>4, <1>7, <1>8, <1>9 DEF Decided

LEMMA SampleFacts ==
  ASSUME Types, NEW s \in SpanType, NEW d \in Sample(s),
         s.parent # None => /\ span[s.parent].sampled \in {"true", "false"}
                            /\ span[s.parent].sampled = "true" => cfg.tracing
  PROVE  /\ Decided(s, d)
         /\ s.parent # None /\ s.explicit = "undefined" => d.sampled = span[s.parent].sampled
<1>0. cfg \in Config /\ s.explicit \in Sampled /\ s.sampled \in Sampled
  BY TypesFacts DEF SpanType
<1>1. CASE ~cfg.tracing
  <2>1. d = Fixed(s, "false")
    BY <1>1 DEF Sample
  <2> QED
    BY <1>1, <2>1, FixedFacts
<1>2. CASE cfg.tracing /\ s.explicit # "undefined"
  <2>1. d = Fixed(s, s.explicit) /\ s.explicit \in {"true", "false"}
    BY <1>0, <1>2 DEF Sample, Sampled
  <2> QED
    BY <1>2, <2>1, FixedFacts
<1>3. CASE cfg.tracing /\ s.explicit = "undefined" /\ s.parent # None
  <2> DEFINE x == span[s.parent].sampled
             e == [s EXCEPT !.sampled = x]
  <2>1. d = e /\ x \in {"true", "false"} /\ x \in Sampled
    BY <1>3 DEF Sample, Sampled
  <2>2. e \in SpanType
    BY <2>1, SpanFields
  <2>3. /\ e.at = s.at /\ e.parent = s.parent /\ e.root = s.root /\ e.hub = s.hub
        /\ e.trace = s.trace /\ e.explicit = s.explicit /\ e.header = s.header
        /\ e.ignored = s.ignored /\ e.inTime = s.inTime /\ e.dsc = s.dsc /\ e.sampled = x
    <3> HIDE DEF x
    <3> QED
      BY DEF SpanType
  <2> HIDE DEF e
  <2> QED
    BY <1>3, <2>1, <2>2, <2>3 DEF Decided
<1>4. CASE cfg.tracing /\ s.explicit = "undefined" /\ s.parent = None
  <2>1. CASE cfg.sampler # "none"
    <3>1. cfg.sampler \in Rates /\ d \in WithRate(s, cfg.sampler)
      BY <1>0, <1>4, <2>1 DEF Sample, Config
    <3> QED
      BY <1>4, <3>1, WithRateFacts
  <2>2. CASE cfg.sampler = "none" /\ s.sampled # "undefined"
    <3>1. d = Fixed(s, s.sampled) /\ s.sampled \in {"true", "false"}
      BY <1>0, <1>4, <2>2 DEF Sample, Sampled
    <3> QED
      BY <1>4, <3>1, FixedFacts
  <2>3. CASE cfg.sampler = "none" /\ s.sampled = "undefined"
    <3>1. cfg.rate \in Rates /\ d \in WithRate(s, cfg.rate)
      BY <1>0, <1>4, <2>3 DEF Sample, Config
    <3> QED
      BY <1>4, <3>1, WithRateFacts
  <2> QED
    BY <2>1, <2>2, <2>3
<1> QED
  BY <1>1, <1>2, <1>3, <1>4

\* A new span, of a transaction or below a span that the recorder's tree knows.
Born(g, s, d) ==
    /\ s = Cardinality(Started) + 1 /\ s \in Spans /\ d \in SpanType
    /\ pc[g].at = "idle" /\ Busy(g, "record", s)
    /\ span' = [span EXCEPT ![s] = d]
    /\ UNCHANGED <<cfg, recorder, scopeSpan, sent, lost>>
    /\ d.at = "open" /\ ~d.inTime /\ ~d.ignored /\ d.hub \in Hubs
    /\ d.sampled \in {"true", "false"} /\ (d.sampled = "true" => cfg.tracing)
    /\ IF d.parent = None THEN d.root = s
       ELSE LET p == d.parent IN
            /\ p \in Started /\ d.root = Root(p) /\ recorder[Root(p)] # <<>>
            /\ d.hub = span[p].hub /\ d.trace = span[p].trace
            /\ d.explicit = "undefined" => d.sampled = span[p].sampled

LEMMA BornFacts ==
  ASSUME Types, TreeInv, NEW g \in Goroutines, NEW s, NEW d, Born(g, s, d)
  PROVE  /\ span' \in [Spans -> SpanType] /\ span'[s] = d
         /\ \A q \in Spans : q # s => span'[q] = span[q]
         /\ s \notin Started /\ Started' = Started \cup {s} /\ Started \subseteq Spans
         /\ Started' = 1..Cardinality(Started')
         /\ Transactions' = Transactions \cup (IF d.parent = None THEN {s} ELSE {})
         /\ pc' \in [Goroutines -> Work] /\ pc'[g].at = "record" /\ pc'[g].span = s
         /\ \A o \in Goroutines : o # g => pc'[o] = pc[o]
<1>1. /\ s \in Spans /\ d \in SpanType /\ span' = [span EXCEPT ![s] = d]
      /\ s = Cardinality(Started) + 1 /\ d.at = "open"
  BY DEF Born
<1>2. /\ span' \in [Spans -> SpanType] /\ span'[s] = d
      /\ \A q \in Spans : q # s => span'[q] = span[q]
  BY <1>1, TypesFacts
<1>3. Started = 1..Cardinality(Started)
  BY DEF TreeInv
<1>4. PICK n : n = Cardinality(Started)
  OBVIOUS
<1>5. n \in Nat /\ n + 1 \notin Started /\ Started \cup {n + 1} = 1..n + 1 /\ Cardinality(1..n + 1) = n + 1
  BY <1>3, <1>4, NextNumber
<1>6. Started' = Started \cup {s}
  BY <1>1, <1>2 DEF Started
<1>7. Started' = 1..s /\ Cardinality(1..s) = s
  BY <1>1, <1>4, <1>5, <1>6
<1>8. Started' = 1..Cardinality(Started')
  BY <1>7
<1>9. s \notin Started /\ Started \subseteq Spans
  BY <1>1, <1>4, <1>5, StartedFacts
<1>10. Transactions' = Transactions \cup (IF d.parent = None THEN {s} ELSE {})
  BY <1>2, <1>6, <1>9 DEF Transactions
<1>11. /\ pc' \in [Goroutines -> Work] /\ pc'[g].at = "record" /\ pc'[g].span = s
       /\ \A o \in Goroutines : o # g => pc'[o] = pc[o]
  <2>1. "record" \in Places /\ s \in 0..NumSpans /\ Busy(g, "record", s)
    BY <1>1, NumberFacts DEF Places, Born
  <2> QED
    BY <2>1, BusyEffect
<1> QED
  BY <1>2, <1>6, <1>8, <1>9, <1>10, <1>11

LEMMA BornKeeps ==
  ASSUME IInv, NEW g \in Goroutines, NEW s, NEW d, Born(g, s, d),
         pctx' \in [Hubs -> [trace : 0..Upstream, dsc : DscType]]
  PROVE  Types' /\ WorkInv' /\ TreeInv' /\ RecorderInv' /\ EventInv' /\ DecisionInv'
<1>0. Types /\ WorkInv /\ TreeInv /\ RecorderInv /\ EventInv /\ DecisionInv /\ TraceInv
  BY InvParts
<1>1. /\ s \in Spans /\ d \in SpanType /\ pc[g].at = "idle"
      /\ UNCHANGED <<cfg, recorder, scopeSpan, sent, lost>>
      /\ d.at = "open" /\ ~d.inTime /\ ~d.ignored /\ d.hub \in Hubs
      /\ d.sampled \in {"true", "false"} /\ (d.sampled = "true" => cfg.tracing)
      /\ d.parent = None => d.root = s
      /\ d.parent # None =>
            /\ d.parent \in Started /\ d.root = Root(d.parent) /\ recorder[Root(d.parent)] # <<>>
            /\ d.hub = span[d.parent].hub /\ d.trace = span[d.parent].trace
            /\ d.explicit = "undefined" => d.sampled = span[d.parent].sampled
  BY DEF Born
<1>2. /\ span' \in [Spans -> SpanType] /\ span'[s] = d
      /\ \A q \in Spans : q # s => span'[q] = span[q]
      /\ s \notin Started /\ Started' = Started \cup {s} /\ Started \subseteq Spans
      /\ Started' = 1..Cardinality(Started')
      /\ Transactions' = Transactions \cup (IF d.parent = None THEN {s} ELSE {})
      /\ pc' \in [Goroutines -> Work] /\ pc'[g].at = "record" /\ pc'[g].span = s
      /\ \A o \in Goroutines : o # g => pc'[o] = pc[o]
  BY <1>0, BornFacts
<1>3. \A q \in Started : q # s /\ q \in Spans /\ span'[q] = span[q]
  BY <1>2
<1>6. Types'
  BY <1>0, <1>1, <1>2, TypesFacts DEF Types
<1>7. WorkInv'
  <2>1. ASSUME NEW o \in Goroutines
        PROVE  IF pc'[o].at = "idle" THEN pc'[o].span = None
               ELSE /\ pc'[o].span \in Started'
                    /\ \A x \in Goroutines : pc'[x].span = pc'[o].span => x = o
                    /\ pc'[o].at \in {"record", "attach"} =>
                         span'[pc'[o].span].at = "open" /\ ~span'[pc'[o].span].inTime
                    /\ pc'[o].at \notin {"record", "attach"} => span'[pc'[o].span].at = "ended"
                    /\ pc'[o].at \in {"decide", "capture"} => span'[pc'[o].span].parent = None
                    /\ pc'[o].at = "restore" => span'[pc'[o].span].parent # None
    <3>1. CASE o = g
      <4>1. \A x \in Goroutines : pc[x].span # s
        BY <1>0, <1>1, <1>2, NumberFacts, WorkFacts DEF WorkInv
      <4>2. \A x \in Goroutines : pc'[x].span = s => x = g
        BY <1>2, <4>1
      <4> QED
        BY <1>1, <1>2, <3>1, <4>2
    <3>2. CASE o # g /\ pc[o].at = "idle"
      BY <1>0, <1>2, <3>2 DEF WorkInv
    <3>3. CASE o # g /\ pc[o].at # "idle"
      <4>1. PICK q \in Started : q = pc[o].span
        BY <1>0, <3>3, WorkFacts
      <4>2. \A x \in Goroutines : pc'[x].span = q => x = o
        BY <1>0, <1>2, <1>3, <3>3, <4>1, WorkFacts
      <4>3. /\ pc[o].at \in {"record", "attach"} => span[q].at = "open" /\ ~span[q].inTime
            /\ pc[o].at \notin {"record", "attach"} => span[q].at = "ended"
            /\ pc[o].at \in {"decide", "capture"} => span[q].parent = None
            /\ pc[o].at = "restore" => span[q].parent # None
        BY <1>0, <3>3, <4>1 DEF WorkInv
      <4>4. pc'[o] = pc[o] /\ span'[q] = span[q] /\ q \in Started'
        BY <1>2, <1>3, <3>3
      <4> QED
        BY <3>3, <4>1, <4>2, <4>3, <4>4
    <3> QED
      BY <3>1, <3>2, <3>3
  <2>2. \A q \in Started' : span'[q].inTime => span'[q].at # "open"
    BY <1>0, <1>1, <1>2, <1>3 DEF WorkInv
  <2> QED
    BY <2>1, <2>2 DEF WorkInv
<1>8. TreeInv'
  <2>1. ASSUME NEW q \in Started'
        PROVE  /\ span'[q].root \in Started' /\ span'[span'[q].root].parent = None
               /\ span'[span'[q].root].root = span'[q].root
               /\ IF span'[q].parent = None THEN span'[q].root = q
                  ELSE span'[q].parent \in Started' /\ span'[span'[q].parent].root = span'[q].root
               /\ span'[q].hub \in Hubs /\ span'[q].hub = span'[span'[q].root].hub
               /\ span'[q].trace = span'[span'[q].root].trace
    <3>1. CASE q \in Started
      <4>1. /\ span[q].root \in Started /\ span[span[q].root].parent = None
            /\ span[span[q].root].root = span[q].root
            /\ IF span[q].parent = None THEN span[q].root = q
               ELSE span[q].parent \in Started /\ span[span[q].parent].root = span[q].root
            /\ span[q].hub \in Hubs /\ span[q].hub = span[span[q].root].hub
            /\ span[q].trace = span[span[q].root].trace
        BY <1>0, <3>1 DEF TreeInv, Root
      <4> QED
        BY <1>2, <1>3, <3>1, <4>1
    <3>2. CASE q = s /\ d.parent = None
      BY <1>1, <1>2, <3>2
    <3>3. CASE q = s /\ d.parent # None
      <4>1. PICK p \in Started : p = d.parent
        BY <1>1, <3>3
      <4>2. /\ span[p].root \in Started /\ span[span[p].root].parent = None
            /\ span[span[p].root].root = span[p].root
            /\ span[p].hub = span[span[p].root].hub /\ span[p].trace = span[span[p].root].trace
        BY <1>0 DEF TreeInv, Root
      <4>3. d.root = span[p].root /\ d.hub = span[p].hub /\ d.trace = span[p].trace
        BY <1>1, <3>3, <4>1 DEF Root
      <4>4. span'[p] = span[p] /\ span'[span[p].root] = span[span[p].root]
        BY <1>3, <4>2
      <4> QED
        BY <1>1, <1>2, <3>3, <4>1, <4>2, <4>3, <4>4
    <3> QED
      BY <1>2, <3>1, <3>2, <3>3
  <2> QED
    BY <1>2, <2>1 DEF TreeInv, Root
<1>9. RecorderInv'
  <2>1. \A r \in Spans : /\ Len(recorder[r]) <= MaxSpans
                         /\ recorder[r] # <<>> => Head(recorder[r]) = r
                         /\ Cardinality(ToSet(recorder[r])) = Len(recorder[r])
                         /\ \A q \in ToSet(recorder[r]) : q \in Started /\ span'[q].root = r
    BY <1>0, <1>3 DEF RecorderInv, Root
  <2>2. ASSUME NEW o \in Goroutines, pc'[o].at = "record"
        PROVE  pc'[o].span \notin ToSet(recorder[span'[pc'[o].span].root])
    <3>1. CASE o = g
      <4>1. d.root \in Spans
        <5>1. CASE d.parent = None
          BY <1>1, <5>1
        <5>2. CASE d.parent # None
          BY <1>0, <1>1, <5>2, TreeFacts
        <5> QED
          BY <5>1, <5>2
      <4> QED
        BY <1>2, <2>1, <3>1, <4>1
    <3>2. CASE o # g
      <4>1. pc'[o] = pc[o] /\ pc[o].at = "record"
        BY <1>2, <2>2, <3>2
      <4>2. PICK q \in Started : q = pc[o].span
        BY <1>0, <4>1, WorkFacts
      <4>3. q \notin ToSet(recorder[span[q].root]) /\ span'[q] = span[q]
        BY <1>0, <1>3, <4>1, <4>2 DEF RecorderInv, Recorded, Root
      <4> QED
        BY <4>1, <4>2, <4>3
    <3> QED
      BY <3>1, <3>2
  <2>3. ASSUME NEW q \in Started', recorder[span'[q].root] = <<>>
        PROVE  q = span'[q].root /\ \E o \in Goroutines : pc'[o].at \in {"record"} /\ pc'[o].span = q
    <3>1. CASE q = s
      BY <1>1, <1>2, <2>3, <3>1
    <3>2. CASE q \in Started
      <4>1. PICK o \in Goroutines : q = span[q].root /\ pc[o].at = "record" /\ pc[o].span = q
        BY <1>0, <1>3, <2>3, <3>2 DEF RecorderInv, Root, At
      <4>2. pc'[o] = pc[o] /\ span'[q] = span[q]
        BY <1>1, <1>2, <1>3, <3>2, <4>1
      <4> QED
        BY <4>1, <4>2
    <3> QED
      BY <1>2, <3>1, <3>2
  <2> QED
    BY <1>1, <1>2, <2>1, <2>2, <2>3 DEF RecorderInv, Recorded, Root, At
<1>10. EventInv'
  <2>1. ChildrenKept
    BY <1>1, <1>3 DEF ChildrenKept, Children
  <2>2. \A o \in Goroutines : pc'[o].at = "capture" =>
            pc'[o] = pc[o] /\ span'[pc[o].span].sampled = span[pc[o].span].sampled
    BY <1>0, <1>2, <1>3, WorkFacts
  <2>3. Transactions \subseteq Started
    BY <1>0, StartedFacts
  <2>4. \A r \in Transactions' : span'[r].at = "finished" /\ span'[r].sampled = "true" =>
            r \in Transactions /\ span[r].at = "finished" /\ span[r].sampled = "true"
    BY <1>1, <1>2, <1>3, <2>3
  <2>5. \A r \in Transactions : span[r].at = "finished" /\ span[r].sampled = "true" =>
            span'[r].at = "finished" /\ span'[r].sampled = "true"
    BY <1>3, <2>3
  <2> QED
    BY <1>0, <1>1, <1>2, <2>1, <2>2, <2>4, <2>5, EventKept
<1>11. DecisionInv'
  <2>f. ASSUME NEW q \in Started', Follows(q)'
        PROVE  IF q = s THEN d.parent # None => d.explicit = "undefined" /\ Follows(d.parent)
               ELSE Follows(q)
    <3>1. PICK chain \in SUBSET Started' : q \in chain /\ \A c \in chain :
             span'[c].parent # None => span'[c].explicit = "undefined" /\ span'[c].parent \in chain
      BY <2>f DEF Follows
    <3> DEFINE old == chain \ {s}
    <3>2. old \subseteq Started
      BY <1>2
    <3>3. ASSUME NEW c \in old, span[c].parent # None
          PROVE  span[c].explicit = "undefined" /\ span[c].parent \in old
      <4>1. c \in Started /\ span'[c] = span[c]
        BY <1>3, <3>2
      <4>2. span[c].parent \in Started
        BY <1>0, <3>3, <4>1, TreeFacts
      <4> QED
        BY <1>3, <3>1, <3>3, <4>1, <4>2
    <3>4. \A x \in old : Follows(x)
      BY <3>2, <3>3 DEF Follows
    <3>5. CASE q = s
      BY <1>1, <1>2, <1>3, <3>1, <3>4, <3>5
    <3>6. CASE q # s
      BY <3>1, <3>4, <3>6
    <3> QED
      BY <3>5, <3>6
  <2>1. ASSUME NEW q \in Started
        PROVE  /\ span[q].sampled \in {"true", "false"}
               /\ span[q].sampled = "true" => cfg.tracing
               /\ span[q].ignored => span[q].sampled = "false"
               /\ Follows(q) /\ ~span[span[q].root].ignored =>
                    span[q].sampled = span[span[q].root].sampled
               /\ span[q].root \in Started /\ span'[q] = span[q]
               /\ span'[span[q].root] = span[span[q].root]
    BY <1>0, <1>3, TreeFacts, StartedFacts DEF DecisionInv, Root
  <2>2. ASSUME NEW q \in Started'
        PROVE  /\ span'[q].sampled \in {"true", "false"}
               /\ span'[q].sampled = "true" => cfg.tracing
               /\ span'[q].ignored => span'[q].sampled = "false"
               /\ Follows(q)' /\ ~span'[span'[q].root].ignored =>
                    span'[q].sampled = span'[span'[q].root].sampled
    <3>1. CASE q \in Started
      BY <1>3, <2>1, <2>f, <3>1
    <3>2. CASE q = s /\ d.parent = None
      BY <1>1, <1>2, <3>2
    <3>3. CASE q = s /\ d.parent # None
      <4>1. PICK p \in Started : p = d.parent
        BY <1>1, <3>3
      <4>2. d.root = span[p].root /\ (d.explicit = "undefined" => d.sampled = span[p].sampled)
        BY <1>1, <3>3, <4>1 DEF Root
      <4>3. Follows(q)' => d.explicit = "undefined" /\ Follows(p)
        BY <2>f, <3>3, <4>1
      <4> QED
        BY <1>1, <1>2, <2>1, <3>3, <4>1, <4>2, <4>3
    <3> QED
      BY <1>2, <3>1, <3>2, <3>3
  <2> QED
    BY <1>1, <2>2 DEF DecisionInv, Root
<1> QED
  BY <1>6, <1>7, <1>8, <1>9, <1>10, <1>11

\* A hub's propagation context is of the transaction that is started on it.
LEMMA BornTraces ==
  ASSUME IInv, NEW g \in Goroutines, NEW s, NEW d, Born(g, s, d),
         IF d.parent = None
         THEN /\ d.trace = IF Parsed(d.header) THEN Upstream ELSE s
              /\ WellFormed(d.header) => d.dsc.trace \in {None, d.trace}
              /\ pctx' = [pctx EXCEPT ![d.hub] = PropagationContextFromHeaders(s, d.header)]
         ELSE d.dsc = NoDsc /\ pctx' = pctx
  PROVE  TraceInv'
<1>0. Types /\ WorkInv /\ TreeInv /\ RecorderInv /\ EventInv /\ DecisionInv /\ TraceInv
  BY InvParts
<1>1. /\ s \in Spans /\ pc[g].at = "idle" /\ d.hub \in Hubs
      /\ UNCHANGED <<cfg, recorder, scopeSpan, sent, lost>>
  BY DEF Born
<1>2. /\ span'[s] = d /\ s \notin Started /\ Started' = Started \cup {s}
      /\ Transactions' = Transactions \cup (IF d.parent = None THEN {s} ELSE {})
      /\ pc'[g].at = "record" /\ pc'[g].span = s
      /\ \A o \in Goroutines : o # g => pc'[o] = pc[o]
      /\ \A q \in Started : q # s /\ q \in Spans /\ span'[q] = span[q]
  BY <1>0, BornFacts
<1>3. Transactions \subseteq Started /\ None \notin Started
  BY <1>0, StartedFacts
<1>4. SpanTraces'
  <2>1. ASSUME NEW q \in Started'
        PROVE  IF span'[q].parent = None
               THEN /\ span'[q].trace = IF Parsed(span'[q].header) THEN Upstream ELSE q
                    /\ WellFormed(span'[q].header) => span'[q].dsc.trace \in {None, span'[q].trace}
               ELSE span'[q].dsc = NoDsc
    <3>1. CASE q = s
      BY <1>2, <3>1
    <3>2. CASE q \in Started
      <4>1. IF span[q].parent = None
            THEN /\ span[q].trace = IF Parsed(span[q].header) THEN Upstream ELSE q
                 /\ WellFormed(span[q].header) => span[q].dsc.trace \in {None, span[q].trace}
            ELSE span[q].dsc = NoDsc
        BY <1>0, <3>2 DEF TraceInv, SpanTraces
      <4> QED
        BY <1>2, <3>2, <4>1
    <3> QED
      BY <1>2, <3>1, <3>2
  <2> QED
    BY <2>1 DEF SpanTraces
<1>5. \A k : On(k)' = On(k) \cup (IF d.parent = None /\ d.hub = k THEN {s} ELSE {})
  <2>1. \A k, r : r \in On(k)' <=> r \in Transactions' /\ span'[r].hub = k
    BY DEF On
  <2>2. \A k, r : r \in On(k) <=> r \in Transactions /\ span[r].hub = k
    BY DEF On
  <2>3. \A r : r \in Transactions => span'[r].hub = span[r].hub
    BY <1>2, <1>3
  <2>4. \A r : r \in Transactions' <=> r \in Transactions \/ (d.parent = None /\ r = s)
    BY <1>2
  <2>5. ASSUME NEW k, NEW r
        PROVE  r \in On(k)' <=> r \in On(k) \/ (d.parent = None /\ d.hub = k /\ r = s)
    BY <1>2, <2>1, <2>2, <2>3, <2>4
  <2> QED
    BY <2>5
<1>6. HubTraces'
  <2>1. ASSUME NEW k \in Hubs
        PROVE  /\ \/ On(k)' = {} /\ pctx'[k] = NewPropagationContext(None)
                  \/ \E r \in On(k)' : pctx'[k] = PropagationContextFromHeaders(r, span'[r].header)
               /\ scopeSpan[k] # None => scopeSpan[k] \in Started' /\ span'[scopeSpan[k]].hub = k
    <3>1. /\ \/ On(k) = {} /\ pctx[k] = NewPropagationContext(None)
             \/ \E r \in On(k) : pctx[k] = PropagationContextFromHeaders(r, span[r].header)
          /\ scopeSpan[k] # None => scopeSpan[k] \in Started /\ span[scopeSpan[k]].hub = k
      BY <1>0 DEF TraceInv, HubTraces
    <3>2. scopeSpan[k] # None => scopeSpan[k] \in Started' /\ span'[scopeSpan[k]].hub = k
      BY <1>2, <3>1
    <3>3. CASE d.parent = None /\ d.hub = k
      <4>1. pctx'[k] = PropagationContextFromHeaders(s, d.header) /\ s \in On(k)'
        BY <1>0, <1>5, <3>3, TypesFacts
      <4> QED
        BY <1>2, <3>2, <4>1
    <3>4. CASE ~(d.parent = None /\ d.hub = k)
      <4>1. pctx'[k] = pctx[k]
        BY <1>0, <3>4, TypesFacts
      <4>2. On(k)' = On(k)
        BY <1>5, <3>4
      <4>3. \A r \in On(k) : span'[r] = span[r]
        BY <1>2, <1>3 DEF On
      <4> QED
        BY <3>1, <3>2, <4>1, <4>2, <4>3
    <3> QED
      BY <3>3, <3>4
  <2> QED
    BY <1>1, <2>1 DEF HubTraces
<1>7. Attached'
  <2>1. ASSUME cfg.tracing, NEW q \in Started'
        PROVE  scopeSpan[span'[q].hub] # None \/ Starting(q)'
    <3>1. CASE q = s
      BY <1>2, <3>1 DEF Starting, At
    <3>2. CASE q \in Started
      <4>1. scopeSpan[span[q].hub] # None \/ Starting(q)
        BY <1>0, <2>1, <3>2 DEF TraceInv, Attached
      <4>2. ASSUME Starting(q)
            PROVE  Starting(q)'
        <5>1. PICK o \in Goroutines : pc[o].at \in {"record", "attach"} /\ pc[o].span = q
          BY <4>2 DEF Starting, At
        <5>2. o # g
          BY <1>1, <5>1
        <5> QED
          BY <1>2, <5>1, <5>2 DEF Starting, At
      <4> QED
        BY <1>2, <3>2, <4>1, <4>2
    <3> QED
      BY <1>2, <3>1, <3>2
  <2> QED
    BY <1>1, <2>1 DEF Attached
<1>8. SentTraces'
  <2>1. ASSUME NEW i \in DOMAIN sent, NEW r, r = sent[i].root, NEW k, k = span'[r].hub, On(k)' = {r}
        PROVE  sent[i].dsc.trace = span'[r].trace
    <3>1. r \in Transactions /\ r \in Started /\ span'[r] = span[r]
      BY <1>0, <1>2, <1>3, <2>1 DEF EventInv
    <3>2. k = span[r].hub
      BY <2>1, <3>1
    <3>3. r \in On(k) /\ On(k)' = {r} /\ On(k) \subseteq On(k)'
      BY <1>5, <2>1, <3>1, <3>2 DEF On
    <3>4. On(k) = {r}
      BY <3>3
    <3> QED
      BY <1>0, <2>1, <3>1, <3>2, <3>4 DEF TraceInv, SentTraces
  <2> QED
    BY <1>1, <2>1 DEF SentTraces
<1> QED
  BY <1>4, <1>6, <1>7, <1>8 DEF TraceInv

\* What the headers make of a new transaction.
LEMMA HeaderFacts ==
  ASSUME Types, NEW s \in SpanType, s.parent = None, s.dsc = NoDsc, NEW h \in Header,
         NEW d, d = ContinueFromHeaders(s, h), Parsed(h) => ShouldContinueTrace(h)
  PROVE  /\ d \in SpanType /\ d.at = s.at /\ d.parent = s.parent /\ d.root = s.root
         /\ d.hub = s.hub /\ d.explicit = s.explicit /\ d.header = s.header
         /\ d.ignored = s.ignored /\ d.inTime = s.inTime
         /\ d.trace = IF Parsed(h) THEN Upstream ELSE s.trace
         /\ WellFormed(h) => d.dsc.trace = None \/ (d.dsc.trace = Upstream /\ Parsed(h))
<1> DEFINE x == IF h.trace = "undefined" THEN s.sampled ELSE h.trace
           s1 == [s EXCEPT !.trace = Upstream]
           s2 == [s1 EXCEPT !.remote = TRUE]
           s3 == [s2 EXCEPT !.sampled = x]
           u == UpdateFromSentryTrace(s, h)
           v == UpdateFromBaggage(u, h)
           y == IF HasEntries(v.dsc) THEN v.dsc ELSE FrozenEmpty
           w == [v EXCEPT !.dsc = y]
<1>1. /\ u \in SpanType /\ u.at = s.at /\ u.parent = s.parent /\ u.root = s.root /\ u.hub = s.hub
      /\ u.explicit = s.explicit /\ u.header = s.header /\ u.ignored = s.ignored
      /\ u.inTime = s.inTime /\ u.dsc = s.dsc
      /\ u.trace = IF Parsed(h) THEN Upstream ELSE s.trace
  <2>1. CASE Parsed(h)
    <3>1. x \in Sampled /\ Upstream \in 0..Upstream
      BY <2>1, NumberFacts DEF Parsed, Header, SpanType, Sampled
    <3>2. s1 \in SpanType
      BY <3>1, SpanFields
    <3>3. s2 \in SpanType
      <4> HIDE DEF s1
      <4> QED
        BY <3>2, SpanFields
    <3>4. s3 \in SpanType
      <4> HIDE DEF s2, x
      <4> QED
        BY <3>1, <3>3, SpanFields
    <3>5. /\ s3.at = s.at /\ s3.parent = s.parent /\ s3.root = s.root /\ s3.hub = s.hub
          /\ s3.explicit = s.explicit /\ s3.header = s.header /\ s3.ignored = s.ignored
          /\ s3.inTime = s.inTime /\ s3.dsc = s.dsc /\ s3.trace = Upstream
      <4> HIDE DEF x
      <4> QED
        BY DEF SpanType
    <3>6. u = s3
      BY <2>1 DEF UpdateFromSentryTrace
    <3> HIDE DEF s3, u
    <3> QED
      BY <2>1, <3>4, <3>5, <3>6
  <2>2. CASE ~Parsed(h)
    <3>1. u = s
      BY <2>2 DEF UpdateFromSentryTrace
    <3> HIDE DEF u
    <3> QED
      BY <2>2, <3>1
  <2> QED
    BY <2>1, <2>2
<1> HIDE DEF u
<1>2. /\ DscFromHeader(h) \in DscType
      /\ HasEntries(DscFromHeader(h)) => DscFromHeader(h).trace = Upstream /\ h.baggage # "none"
  BY DscFacts, NumberFacts DEF DscFromHeader, HasEntries, DscType, Rates, Sampled, NoDsc
<1>3. /\ v \in SpanType /\ v.at = u.at /\ v.parent = u.parent /\ v.root = u.root /\ v.hub = u.hub
      /\ v.explicit = u.explicit /\ v.header = u.header /\ v.ignored = u.ignored
      /\ v.inTime = u.inTime /\ v.trace = u.trace
      /\ v.dsc = NoDsc \/ (v.dsc.trace = Upstream /\ h.baggage # "none")
  <2> DEFINE e == DscFromHeader(h)
             u1 == [u EXCEPT !.dsc = e]
  <2>1. v = u \/ (v = u1 /\ HasEntries(e))
    BY DEF UpdateFromBaggage, HasEntries
  <2>2. e \in DscType /\ u1 \in SpanType
    BY <1>1, <1>2, SpanFields
  <2>3. /\ u1.at = u.at /\ u1.parent = u.parent /\ u1.root = u.root /\ u1.hub = u.hub
        /\ u1.explicit = u.explicit /\ u1.header = u.header /\ u1.ignored = u.ignored
        /\ u1.inTime = u.inTime /\ u1.trace = u.trace /\ u1.dsc = e
    <3> HIDE DEF e
    <3> QED
      BY <1>1 DEF SpanType
  <2> HIDE DEF v, u1, e
  <2>4. HasEntries(e) => e.trace = Upstream /\ h.baggage # "none"
    BY <1>2 DEF e
  <2> QED
    BY <1>1, <2>1, <2>2, <2>3, <2>4
<1> HIDE DEF v
<1>4. /\ w \in SpanType /\ w.at = v.at /\ w.parent = v.parent /\ w.root = v.root /\ w.hub = v.hub
      /\ w.explicit = v.explicit /\ w.header = v.header /\ w.ignored = v.ignored
      /\ w.inTime = v.inTime /\ w.trace = v.trace /\ w.dsc = y
  <2>1. y \in DscType
    BY <1>3, DscFacts DEF SpanType
  <2> HIDE DEF y
  <2>2. w \in SpanType
    BY <1>3, <2>1, SpanFields
  <2>3. /\ w.at = v.at /\ w.parent = v.parent /\ w.root = v.root /\ w.hub = v.hub
        /\ w.explicit = v.explicit /\ w.header = v.header /\ w.ignored = v.ignored
        /\ w.inTime = v.inTime /\ w.trace = v.trace /\ w.dsc = y
    BY <1>3 DEF SpanType
  <2> QED
    BY <2>2, <2>3
<1>5. y.trace = None \/ (y.trace = Upstream /\ h.baggage # "none")
  BY <1>3, DscFacts
<1>6. d = IF h.trace = "absent" \/ ~ShouldContinueTrace(h) THEN s ELSE w
  BY DEF ContinueFromHeaders, u, v
<1> HIDE DEF w, y
<1>7. CASE d = s /\ ~Parsed(h)
  <2>1. d.dsc.trace = None
    BY <1>7, DscFacts
  <2> QED
    BY <1>7, <2>1
<1>8. CASE d = w
  <2>1. WellFormed(h) => y.trace = None \/ (y.trace = Upstream /\ Parsed(h))
    BY <1>5 DEF WellFormed
  <2> QED
    BY <1>1, <1>3, <1>4, <1>8, <2>1
<1>9. d = w \/ (d = s /\ ~Parsed(h))
  <2>1. CASE h.trace = "absent"
    BY <1>6, <2>1 DEF Parsed
  <2>2. CASE h.trace # "absent" /\ ~ShouldContinueTrace(h)
    BY <1>6, <2>2
  <2>3. CASE h.trace # "absent" /\ ShouldContinueTrace(h)
    BY <1>6, <2>3
  <2> QED
    BY <2>1, <2>2, <2>3
<1> QED
  BY <1>7, <1>8, <1>9

LEMMA StartTransactionStep ==
  ASSUME IInv, NEW g \in Goroutines, NEW h \in Hubs, NEW header \in Header, NEW explicit \in Sampled,
         StartTransaction(g, h, header, explicit)
  PROVE  IInv' /\ \E s, d : Born(g, s, d)
<1>0. Types /\ WorkInv /\ TreeInv /\ RecorderInv /\ EventInv /\ DecisionInv /\ TraceInv
  BY InvParts
<1>1. PICK s, used, fresh :
         /\ s = Cardinality(Started) + 1
         /\ used = IF ShouldContinueTrace(header) THEN header ELSE NoHeader
         /\ fresh = [Unused EXCEPT !.at = "open", !.root = s, !.hub = h, !.trace = s,
                                   !.explicit = explicit, !.header = used]
         /\ Create(g, ContinueFromHeaders(fresh, used), s)
         /\ pctx' = [pctx EXCEPT ![h] = PropagationContextFromHeaders(s, used)]
  BY DEF StartTransaction
<1>2. PICK c : c = ContinueFromHeaders(fresh, used)
  OBVIOUS
<1>3. PICK d \in Sample(c) :
         /\ span' = [span EXCEPT ![s] = d] /\ pc[g] = Idle /\ s \in Spans /\ Busy(g, "record", s)
         /\ UNCHANGED <<cfg, recorder, scopeSpan, sent, lost>>
  BY <1>1, <1>2 DEF Create
<1>4. used \in Header /\ (Parsed(used) => ShouldContinueTrace(used))
  BY <1>1 DEF Header, NoHeader, Parsed
<1>5. /\ fresh \in SpanType /\ fresh.parent = None /\ fresh.dsc = NoDsc /\ fresh.at = "open"
      /\ fresh.root = s /\ fresh.hub = h /\ fresh.trace = s /\ fresh.explicit = explicit
      /\ fresh.header = used /\ ~fresh.ignored /\ ~fresh.inTime
  <2>1. s \in 0..NumSpans /\ s \in 0..Upstream /\ None \in 0..NumSpans
    BY <1>3, NumberFacts
  <2>2. fresh = [at |-> "open", parent |-> None, root |-> s, hub |-> h,
                 trace |-> s, remote |-> FALSE, sampled |-> "undefined", rate |-> "zero",
                 dsc |-> NoDsc, explicit |-> explicit, code |-> FALSE, header |-> used,
                 ignored |-> FALSE, early |-> FALSE, inTime |-> FALSE]
    BY <1>1, ZenonT(40) DEF Unused
  <2> QED
    BY <1>4, <2>1, <2>2, DscFacts DEF SpanType, Sampled, Rates
<1>6. /\ c \in SpanType /\ c.at = "open" /\ c.parent = None /\ c.root = s /\ c.hub = h
      /\ c.explicit = explicit /\ c.header = used /\ ~c.ignored /\ ~c.inTime
      /\ c.trace = IF Parsed(used) THEN Upstream ELSE s
      /\ WellFormed(used) => c.dsc.trace = None \/ (c.dsc.trace = Upstream /\ Parsed(used))
  BY <1>0, <1>2, <1>4, <1>5, HeaderFacts
<1>7. Decided(c, d)
  BY <1>0, <1>6, SampleFacts
<1>8. /\ d \in SpanType /\ d.at = "open" /\ d.parent = None /\ d.root = s /\ d.hub = h
      /\ d.header = used /\ ~d.ignored /\ ~d.inTime
      /\ d.trace = IF Parsed(used) THEN Upstream ELSE s
      /\ WellFormed(used) => d.dsc.trace \in {None, d.trace}
      /\ d.sampled \in {"true", "false"} /\ (d.sampled = "true" => cfg.tracing)
  BY <1>6, <1>7 DEF Decided
<1>9. Born(g, s, d)
  BY <1>1, <1>3, <1>8 DEF Born, Idle
<1>10. pctx' \in [Hubs -> [trace : 0..Upstream, dsc : DscType]]
  <2>1. PropagationContextFromHeaders(s, used) \in [trace : 0..Upstream, dsc : DscType]
    <3>1. DscFromHeader(used) \in DscType /\ FrozenEmpty \in DscType
      BY DscFacts, NumberFacts DEF DscFromHeader, DscType, Rates, Sampled
    <3>2. s \in 0..Upstream /\ Upstream \in 0..Upstream
      BY <1>3, NumberFacts
    <3> QED
      BY <3>1, <3>2 DEF PropagationContextFromHeaders
  <2> QED
    BY <1>0, <1>1, <2>1, TypesFacts
<1>11. TraceInv'
  BY <1>1, <1>8, <1>9, BornTraces
<1> QED
  BY <1>9, <1>10, <1>11, BornKeeps DEF IInv

LEMMA StartChildStep ==
  ASSUME IInv, NEW g \in Goroutines, NEW p \in Spans, NEW explicit \in Sampled,
         StartChild(g, p, explicit)
  PROVE  IInv' /\ \E s, d : Born(g, s, d)
<1>0. Types /\ WorkInv /\ TreeInv /\ RecorderInv /\ EventInv /\ DecisionInv /\ TraceInv
  BY InvParts
<1>1. PICK s, fresh :
         /\ s = Cardinality(Started) + 1
         /\ fresh = [Unused EXCEPT !.at = "open", !.parent = p, !.root = Root(p),
                                   !.hub = span[p].hub, !.trace = span[p].trace,
                                   !.explicit = explicit]
         /\ Create(g, fresh, s)
         /\ p \in Started /\ UNCHANGED pctx
         /\ \A o \in Goroutines : ~(pc[o].at \in {"record", "attach"} /\ pc[o].span = p)
  BY DEF StartChild
<1>3. PICK d \in Sample(fresh) :
         /\ span' = [span EXCEPT ![s] = d] /\ pc[g] = Idle /\ s \in Spans /\ Busy(g, "record", s)
         /\ UNCHANGED <<cfg, recorder, scopeSpan, sent, lost>>
  BY <1>1 DEF Create
<1>4. /\ p \in Started /\ p # None /\ Root(p) \in Spans /\ span[p].hub \in Hubs
      /\ span[p].trace \in 0..Upstream
  BY <1>0, <1>1, TreeFacts, TypesFacts, NumberFacts DEF SpanType
<1>5. /\ fresh \in SpanType /\ fresh.parent = p /\ fresh.dsc = NoDsc /\ fresh.at = "open"
      /\ fresh.root = Root(p) /\ fresh.hub = span[p].hub /\ fresh.trace = span[p].trace
      /\ fresh.explicit = explicit /\ ~fresh.ignored /\ ~fresh.inTime
  <2>1. Root(p) \in 0..NumSpans /\ p \in 0..NumSpans
    BY <1>4, NumberFacts
  <2>2. fresh = [at |-> "open", parent |-> p, root |-> Root(p), hub |-> span[p].hub,
                 trace |-> span[p].trace, remote |-> FALSE, sampled |-> "undefined", rate |-> "zero",
                 dsc |-> NoDsc, explicit |-> explicit, code |-> FALSE, header |-> NoHeader,
                 ignored |-> FALSE, early |-> FALSE, inTime |-> FALSE]
    BY <1>1 DEF Unused
  <2>3. NoHeader \in Header
    BY DEF NoHeader, Header
  <2> QED
    BY <1>4, <2>1, <2>2, <2>3, DscFacts DEF SpanType, Sampled, Rates
<1>6. span[p].sampled \in {"true", "false"} /\ (span[p].sampled = "true" => cfg.tracing)
  BY <1>0, <1>4 DEF DecisionInv
<1>7. /\ Decided(fresh, d)
      /\ explicit = "undefined" => d.sampled = span[p].sampled
  BY <1>0, <1>4, <1>5, <1>6, SampleFacts
<1>8. /\ d \in SpanType /\ d.at = "open" /\ d.parent = p /\ d.root = Root(p)
      /\ d.hub = span[p].hub /\ d.trace = span[p].trace /\ d.explicit = explicit
      /\ ~d.ignored /\ ~d.inTime /\ d.dsc = NoDsc
      /\ d.sampled \in {"true", "false"} /\ (d.sampled = "true" => cfg.tracing)
  BY <1>4, <1>5, <1>7 DEF Decided
<1>9. recorder[Root(p)] # <<>>
  <2>1. recorder[Root(p)] = <<>> => \E o \in Goroutines : At(o, {"record"}, p)
    BY <1>0, <1>4 DEF RecorderInv
  <2> QED
    BY <1>1, <2>1 DEF At
<1>10. Born(g, s, d)
  <2>1. pc[g].at = "idle"
    BY <1>3 DEF Idle
  <2> QED
    BY <1>1, <1>3, <1>4, <1>7, <1>8, <1>9, <2>1 DEF Born
<1>11. pctx' \in [Hubs -> [trace : 0..Upstream, dsc : DscType]]
  BY <1>0, <1>1 DEF Types
<1>12. TraceInv'
  BY <1>1, <1>4, <1>8, <1>10, BornTraces
<1> QED
  BY <1>10, <1>11, <1>12, BornKeeps DEF IInv

-----------------------------------------------------------------------------
(* The invariant, and what follows from it                                 *)

LEMMA InitInv ==
  Init => IInv
<1> SUFFICES ASSUME Init
             PROVE  IInv
  OBVIOUS
<1>1. /\ cfg \in Configs /\ span = [s \in Spans |-> Unused] /\ recorder = [s \in Spans |-> <<>>]
      /\ scopeSpan = [h \in Hubs |-> None] /\ pctx = [h \in Hubs |-> NewPropagationContext(None)]
      /\ pc = [g \in Goroutines |-> Idle] /\ sent = <<>> /\ lost = [transaction |-> 0, span |-> 0]
  BY DEF Init
<1>2. Types
  <2>1. Unused \in SpanType
    BY DscFacts, NumberFacts DEF Unused, SpanType, Sampled, Rates, NoHeader, Header
  <2>2. NewPropagationContext(None) \in [trace : 0..Upstream, dsc : DscType]
    BY DscFacts, NumberFacts DEF NewPropagationContext
  <2>3. Idle \in Work
    BY NumberFacts DEF Idle, Work, Places
  <2>4. cfg \in Config
    BY <1>1, TracingAssumption
  <2>5. <<>> \in Seq(Spans) /\ <<>> \in Seq(Event)
    OBVIOUS
  <2> QED
    BY <1>1, <2>1, <2>2, <2>3, <2>4, <2>5, NumberFacts DEF Types
<1>3. Started = {} /\ Transactions = {} /\ \A h : On(h) = {}
  <2>1. Started = {}
    BY <1>1 DEF Started, Unused
  <2> QED
    BY <2>1 DEF Transactions, On
<1>4. \A g \in Goroutines : pc[g].at = "idle" /\ pc[g].span = None
  BY <1>1 DEF Idle
<1>5. WorkInv
  BY <1>3, <1>4 DEF WorkInv
<1>6. TreeInv
  <2>1. Cardinality({}) = 0
    BY FS_EmptySet
  <2> QED
    BY <1>3, <2>1 DEF TreeInv
<1>7. RecorderInv
  <2>1. ToSet(<<>>) = {} /\ Len(<<>>) = 0
    BY DEF ToSet
  <2>2. Cardinality({}) = 0
    BY FS_EmptySet
  <2>3. ASSUME NEW r \in Spans
        PROVE  /\ Len(recorder[r]) <= MaxSpans
               /\ recorder[r] # <<>> => Head(recorder[r]) = r
               /\ Cardinality(ToSet(recorder[r])) = Len(recorder[r])
               /\ \A s \in ToSet(recorder[r]) : s \in Started /\ Root(s) = r
    <3>1. recorder[r] = <<>> /\ 0 <= MaxSpans
      BY <1>1, NumberFacts
    <3> QED
      BY <2>1, <2>2, <3>1
  <2> QED
    BY <1>3, <1>4, <2>3 DEF RecorderInv
<1>8. EventInv
  BY <1>1, <1>3, <1>4 DEF EventInv
<1>9. DecisionInv
  BY <1>3 DEF DecisionInv
<1>10. TraceInv
  BY <1>1, <1>3 DEF TraceInv, SpanTraces, HubTraces, Attached, SentTraces
<1> QED
  BY <1>2, <1>5, <1>6, <1>7, <1>8, <1>9, <1>10 DEF IInv

LEMMA NextInv ==
  IInv /\ [Next]_vars => IInv'
<1> SUFFICES ASSUME IInv, [Next]_vars
             PROVE  IInv'
  OBVIOUS
<1>1. CASE UNCHANGED vars
  <2>1. UNCHANGED <<cfg, span, recorder, scopeSpan, pctx, pc, sent, lost>>
    BY <1>1 DEF vars
  <2>2. /\ Started' = Started /\ Transactions' = Transactions /\ SentRoots' = SentRoots
        /\ \A s : Root(s)' = Root(s) /\ (Recorded(s)' <=> Recorded(s)) /\ (Starting(s)' <=> Starting(s))
        /\ \A s : (Follows(s)' <=> Follows(s)) /\ Children(s)' = Children(s) /\ On(s)' = On(s)
        /\ \A e : Complete(e)' <=> Complete(e)
        /\ \A g, places, s : At(g, places, s)' <=> At(g, places, s)
    BY <2>1 DEF Started, Transactions, SentRoots, Root, Recorded, Starting, Follows, Children, On,
                Complete, At
  <2>3. Types' /\ WorkInv'
    BY <2>1, <2>2 DEF IInv, Types, WorkInv
  <2>4. TreeInv' /\ RecorderInv'
    BY <2>1, <2>2 DEF IInv, TreeInv, RecorderInv, Root, Recorded, At, Started
  <2>5. EventInv'
    BY <2>1, <2>2 DEF IInv, EventInv, Complete, Children, Root
  <2>6. DecisionInv'
    BY <2>1, <2>2 DEF IInv, DecisionInv, Root
  <2>7. TraceInv'
    BY <2>1, <2>2 DEF IInv, TraceInv, SpanTraces, HubTraces, Attached, SentTraces, On
  <2> QED
    BY <2>3, <2>4, <2>5, <2>6, <2>7 DEF IInv
<1>2. CASE Next
  <2>1. PICK g \in Goroutines :
           \/ \E h \in Hubs, start \in Starts :
                 StartTransaction(g, h, start.header, start.explicit)
           \/ \E p \in Spans, explicit \in Explicit : StartChild(g, p, explicit)
           \/ \E s \in Spans : ToBaggage(g, s)
           \/ \E s \in Spans, code \in BOOLEAN : Finish(g, s, code)
           \/ Record(g) \/ Attach(g) \/ Restore(g)
           \/ Ignore(g) \/ CountLoss(g) \/ ToEvent(g) \/ Capture(g)
    BY <1>2 DEF Next
  <2>2. ASSUME NEW h \in Hubs, NEW start \in Starts,
               StartTransaction(g, h, start.header, start.explicit)
        PROVE  IInv'
    <3>1. PICK header \in Header, explicit \in Sampled :
             header = start.header /\ explicit = start.explicit
      BY TracingAssumption
    <3> QED
      BY <2>2, <3>1, StartTransactionStep
  <2>3. ASSUME NEW p \in Spans, NEW explicit \in Explicit, StartChild(g, p, explicit)
        PROVE  IInv'
    BY <2>3, StartChildStep, TracingAssumption
  <2>4. ASSUME NEW s \in Spans, ToBaggage(g, s)
        PROVE  IInv'
    BY <2>4, ToBaggageStep
  <2>5. ASSUME NEW s \in Spans, NEW code \in BOOLEAN, Finish(g, s, code)
        PROVE  IInv'
    BY <2>5, FinishStep
  <2>6. CASE Record(g)
    BY <2>6, RecordStep
  <2>7. CASE Attach(g)
    BY <2>7, AttachStep
  <2>8. CASE Restore(g)
    BY <2>8, RestoreStep
  <2>9. CASE Ignore(g)
    BY <2>9, IgnoreStep
  <2>10. CASE CountLoss(g)
    BY <2>10, CountLossStep
  <2>11. CASE ToEvent(g)
    BY <2>11, ToEventStep
  <2>12. CASE Capture(g)
    BY <2>12, CaptureStep
  <2> QED
    BY <2>1, <2>2, <2>3, <2>4, <2>5, <2>6, <2>7, <2>8, <2>9, <2>10, <2>11, <2>12
<1> QED
  BY <1>1, <1>2

LEMMA Invariance ==
  Spec => []IInv
<1>1. Init => IInv
  BY InitInv
<1>2. IInv /\ [Next]_vars => IInv'
  BY NextInv
<1> QED
  BY <1>1, <1>2, PTL DEF Spec

\* However goroutines start, record and finish spans, a recorder holds its transaction
\* first and then spans below it, each once and within the limit, all of one trace
\* (StartSpan, spanRecorder.record).
THEOREM TreesSound ==
  Spec => []TreeSound
<1>1. IInv => TreeSound
  <2> SUFFICES ASSUME IInv
               PROVE  TreeSound
    OBVIOUS
  <2>0. Types /\ WorkInv /\ TreeInv /\ RecorderInv
    BY InvParts
  <2>1. TypeOK
    <3>1. ASSUME NEW s \in Spans
          PROVE  /\ span[s].at \in {"unused", "open", "ended", "finished"}
                 /\ span[s].parent \in 0..NumSpans /\ span[s].root \in 0..NumSpans
                 /\ span[s].trace \in 0..Upstream /\ span[s].dsc \in DscType
                 /\ span[s].sampled \in Sampled /\ span[s].rate \in Rates
      BY <2>0 DEF Types, SpanType
    <3>2. \A g \in Goroutines : pc[g].at \in Places
      BY <2>0 DEF Types, Work
    <3> QED
      BY <2>0, <3>1, <3>2, TypesFacts DEF TypeOK, Places
  <2>2. ASSUME NEW r \in Spans
        PROVE  /\ Len(recorder[r]) <= MaxSpans
               /\ recorder[r] # <<>> => Head(recorder[r]) = r
               /\ Cardinality(ToSet(recorder[r])) = Len(recorder[r])
               /\ \A s \in ToSet(recorder[r]) : Root(s) = r /\ span[s].trace = span[r].trace
    <3>1. \A s \in ToSet(recorder[r]) : s \in Started /\ Root(s) = r
      BY <2>0 DEF RecorderInv
    <3>2. \A s \in Started : span[s].trace = span[Root(s)].trace
      BY <2>0 DEF TreeInv
    <3> QED
      BY <2>0, <3>1, <3>2 DEF RecorderInv
  <2>3. \A s \in Started : span[s].parent # None => Root(span[s].parent) = Root(s)
    BY <2>0, TreeFacts
  <2> QED
    BY <2>1, <2>2, <2>3 DEF TreeSound
<1> QED
  BY <1>1, Invariance, PTL

\* A transaction is sent at most once, when it is finished and sampled, with every
\* recorded span that had been finished before it and none that is open (Finish, toEvent).
THEOREM SentIsSound ==
  Spec => []SentSound
<1>1. IInv => SentSound
  <2> SUFFICES ASSUME IInv
               PROVE  SentSound
    OBVIOUS
  <2>0. EventInv
    BY InvParts
  <2>1. \A i, j \in DOMAIN sent : sent[i].root = sent[j].root => i = j
    BY <2>0 DEF EventInv
  <2>2. \A r \in Transactions :
           r \in SentRoots <=> span[r].at = "finished" /\ span[r].sampled = "true"
    BY <2>0 DEF EventInv, SentRoots
  <2>3. \A i \in DOMAIN sent :
           /\ {c \in Children(sent[i].root) : span[c].inTime} \subseteq sent[i].spans
           /\ sent[i].spans \subseteq {c \in Children(sent[i].root) : span[c].at # "open"}
    BY <2>0 DEF EventInv, Complete
  <2> QED
    BY <2>1, <2>2, <2>3 DEF SentSound
<1> QED
  BY <1>1, Invariance, PTL

\* What a span tells downstream of the decision is what becomes of its transaction,
\* whenever it was started (Span.sample, ToSentryTrace).
THEOREM DecisionsKept ==
  Spec => []DecisionKept
<1>1. IInv => DecisionKept
  <2> SUFFICES ASSUME IInv, NEW s \in Started, Follows(s)
               PROVE  /\ Root(s) \in SentRoots => span[s].sampled = "true"
                      /\ Root(s) \in Unsampled => span[s].sampled = "false"
    BY DEF DecisionKept, ToSentryTrace
  <2>0. Types /\ TreeInv /\ EventInv /\ DecisionInv
    BY InvParts
  <2>1. PICK r \in Started : r = Root(s)
    BY <2>0, TreeFacts, StartedFacts
  <2>2. /\ span[r].sampled \in {"true", "false"}
        /\ span[r].ignored => span[r].sampled = "false"
        /\ ~span[r].ignored => span[s].sampled = span[r].sampled
    BY <2>0, <2>1 DEF DecisionInv
  <2>3. r \in SentRoots => span[r].sampled = "true"
    BY <2>0 DEF EventInv, SentRoots
  <2>4. r \in Unsampled => span[r].sampled # "true" /\ ~span[r].ignored
    BY DEF Unsampled
  <2> QED
    BY <2>1, <2>2, <2>3, <2>4
<1> QED
  BY <1>1, Invariance, PTL

\* The propagation context of a hub, when what came in was well-formed.
LEMMA ContextFacts ==
  ASSUME Types, TraceInv, NEW h \in Hubs, \A r \in On(h) : WellFormed(span[r].header)
  PROVE  /\ pctx[h].dsc.trace \in {None, pctx[h].trace}
         /\ HasEntries(pctx[h].dsc) => pctx[h].dsc.trace = pctx[h].trace
         /\ \A r : On(h) = {r} => pctx[h].trace = span[r].trace
<1>1. \/ On(h) = {} /\ pctx[h] = NewPropagationContext(None)
      \/ \E r \in On(h) : pctx[h] = PropagationContextFromHeaders(r, span[r].header)
  BY DEF TraceInv, HubTraces
<1>2. CASE On(h) = {} /\ pctx[h] = NewPropagationContext(None)
  <2>1. pctx[h].dsc = NoDsc
    BY <1>2 DEF NewPropagationContext
  <2> QED
    BY <1>2, <2>1, DscFacts DEF HasEntries
<1>3. ASSUME NEW r \in On(h), pctx[h] = PropagationContextFromHeaders(r, span[r].header)
      PROVE  /\ pctx[h].dsc.trace \in {None, pctx[h].trace}
             /\ HasEntries(pctx[h].dsc) => pctx[h].dsc.trace = pctx[h].trace
             /\ pctx[h].trace = span[r].trace
  <2> DEFINE head == span[r].header
  <2>1. r \in Started /\ span[r].parent = None /\ WellFormed(head)
    BY <1>3, StartedFacts DEF On
  <2>2. span[r].trace = IF Parsed(head) THEN Upstream ELSE r
    BY <2>1 DEF TraceInv, SpanTraces
  <2>3. /\ head.baggage = "none" => DscFromHeader(head) = NoDsc
        /\ head.baggage # "none" => DscFromHeader(head).trace = Upstream
                                    /\ HasEntries(DscFromHeader(head))
    BY DEF DscFromHeader, HasEntries
  <2>4. ~HasEntries(NoDsc) /\ ~HasEntries(FrozenEmpty)
    BY DscFacts DEF HasEntries
  <2>5. CASE Parsed(head)
    <3>1. pctx[h].trace = Upstream
      BY <1>3, <2>5 DEF PropagationContextFromHeaders
    <3>2. \/ pctx[h].dsc = FrozenEmpty
          \/ head.baggage # "none" /\ pctx[h].dsc = DscFromHeader(head)
      BY <1>3, <2>3, <2>4, <2>5 DEF PropagationContextFromHeaders
    <3> HIDE DEF head
    <3> QED
      BY <2>2, <2>3, <2>4, <2>5, <3>1, <3>2, DscFacts
  <2>6. CASE ~Parsed(head)
    <3>1. pctx[h].trace = r /\ pctx[h].dsc = DscFromHeader(head)
      BY <1>3, <2>6 DEF PropagationContextFromHeaders
    <3>2. head.baggage = "none"
      BY <2>1, <2>6 DEF WellFormed
    <3> HIDE DEF head
    <3> QED
      BY <2>2, <2>3, <2>4, <2>6, <3>1, <3>2, DscFacts
  <2> QED
    BY <2>5, <2>6
<1>4. CASE \E r \in On(h) : pctx[h] = PropagationContextFromHeaders(r, span[r].header)
  BY <1>3, <1>4
<1> QED
  BY <1>1, <1>2, <1>4

\* The event of a transaction that has its hub for itself carries the sampling context
\* of its own trace; the headers that leave a hub name one trace, and so does what is
\* logged (ContinueTrace, ApplyToEvent, GetTraceparent, GetBaggage, resolveTrace).
THEOREM TraceIsOne ==
  Spec => []OneTrace
<1>1. IInv => OneTrace
  <2> SUFFICES ASSUME IInv
               PROVE  OneTrace
    OBVIOUS
  <2>0. Types /\ TreeInv /\ TraceInv
    BY InvParts
  <2>1. \A i \in DOMAIN sent :
           On(span[sent[i].root].hub) = {sent[i].root} => sent[i].dsc.trace = span[sent[i].root].trace
    BY <2>0 DEF TraceInv, SentTraces
  <2>2. ASSUME NEW h \in Hubs, \A r \in On(h) : WellFormed(span[r].header)
        PROVE  /\ HubBaggage(h).trace \in {None, HubTrace(h)}
               /\ \A s \in Started \cup {None} :
                     Cardinality(On(h)) = 1 /\ (s = None \/ span[s].hub = h)
                        => ScopeDsc(h).trace = ResolveTrace(h, s)
    <3>1. /\ pctx[h].dsc.trace \in {None, pctx[h].trace}
          /\ HasEntries(pctx[h].dsc) => pctx[h].dsc.trace = pctx[h].trace
          /\ \A r : On(h) = {r} => pctx[h].trace = span[r].trace
      BY <2>0, <2>2, ContextFacts
    <3>2. ASSUME scopeSpan[h] # None
          PROVE  HubBaggage(h).trace \in {None, HubTrace(h)}
      <4>1. PICK s, r : s = scopeSpan[h] /\ r = Root(s)
        OBVIOUS
      <4>2. r \in On(h) /\ r \in Spans /\ span[s].trace = span[r].trace
        BY <2>0, <3>2, <4>1, ScopeFacts
      <4>3. r \in Started /\ span[r].parent = None /\ WellFormed(span[r].header)
        BY <2>0, <2>2, <4>2, StartedFacts DEF On
      <4>4. span[r].dsc.trace \in {None, span[r].trace}
        BY <2>0, <4>3 DEF TraceInv, SpanTraces
      <4>5. DscFromTransaction(span[r]).trace = span[r].trace
        BY DEF DscFromTransaction
      <4>6. HubBaggage(h) \in {span[r].dsc, DscFromTransaction(span[r])}
        BY <3>2, <4>1 DEF HubBaggage, BaggageDsc
      <4>7. HubTrace(h) = span[s].trace
        BY <3>2, <4>1 DEF HubTrace, ToSentryTrace
      <4> QED
        BY <4>2, <4>4, <4>5, <4>6, <4>7
    <3>3. ASSUME scopeSpan[h] = None
          PROVE  HubBaggage(h).trace \in {None, HubTrace(h)}
      BY <3>1, <3>3 DEF HubBaggage, HubTrace
    <3>4. ASSUME NEW s \in Started \cup {None}, Cardinality(On(h)) = 1, s = None \/ span[s].hub = h
          PROVE  ScopeDsc(h).trace = ResolveTrace(h, s)
      <4>1. PICK r : On(h) = {r}
        <5>1. On(h) \subseteq Spans
          BY <2>0, StartedFacts DEF On
        <5>2. IsFiniteSet(On(h))
          BY <5>1, NumberFacts, FS_Subset
        <5> QED
          BY <3>4, <5>2, FS_Singleton
      <4>2. s # None => span[s].trace = span[r].trace
        <5> SUFFICES ASSUME s # None
                     PROVE  span[s].trace = span[r].trace
          OBVIOUS
        <5>1. /\ s \in Started /\ span[s].hub = h /\ Root(s) \in Transactions
              /\ span[Root(s)].hub = h /\ span[s].trace = span[Root(s)].trace
          BY <2>0, <3>4, TreeFacts
        <5>2. Root(s) \in On(h)
          BY <5>1 DEF On
        <5> QED
          BY <4>1, <5>1, <5>2
      <4>3. CASE scopeSpan[h] # None
        <5>1. PICK q : q = scopeSpan[h]
          OBVIOUS
        <5>2. Root(q) \in On(h) /\ span[q].trace = span[Root(q)].trace
          BY <2>0, <4>3, <5>1, ScopeFacts
        <5>3. Root(q) = r /\ span[q].trace = span[r].trace
          BY <4>1, <5>2
        <5>4. ScopeDsc(h) = DscFromTransaction(span[r])
          BY <4>3, <5>1, <5>3 DEF ScopeDsc
        <5>5. ScopeDsc(h).trace = span[r].trace
          BY <5>4 DEF DscFromTransaction
        <5> QED
          BY <4>2, <4>3, <5>1, <5>3, <5>5 DEF ResolveTrace
      <4>4. CASE scopeSpan[h] = None
        <5>1. ScopeDsc(h).trace = pctx[h].trace
          <6>1. DscFromScope(h).trace = pctx[h].trace
            BY DEF DscFromScope
          <6> QED
            BY <3>1, <4>4, <6>1 DEF ScopeDsc
        <5> QED
          BY <3>1, <4>1, <4>2, <4>4, <5>1 DEF ResolveTrace
      <4> QED
        BY <4>3, <4>4
    <3> QED
      BY <3>2, <3>3, <3>4
  <2> QED
    BY <2>1, <2>2 DEF OneTrace
<1> QED
  BY <1>1, Invariance, PTL

-----------------------------------------------------------------------------
(* What was lost                                                           *)

\* Those of the lost spans that the count may not miss.
EarlyLost == {s \in LostSpans : s = Root(s) \/ span[s].early}

\* A transaction is ignored as it is finished.
IgnoredLast == \A s \in Started : span[s].ignored => span[s].at = "finished"

LEMMA LossFacts ==
  ASSUME Types
  PROVE  /\ Unsampled \subseteq Transactions /\ LostSpans \subseteq Started /\ EarlyLost \subseteq LostSpans
         /\ IsFiniteSet(Unsampled) /\ IsFiniteSet(LostSpans) /\ IsFiniteSet(EarlyLost)
         /\ Cardinality(Unsampled) \in Nat /\ Cardinality(LostSpans) \in Nat /\ Cardinality(EarlyLost) \in Nat
<1>1. Unsampled \subseteq Transactions /\ LostSpans \subseteq Started /\ EarlyLost \subseteq LostSpans
  BY DEF Unsampled, LostSpans, EarlyLost
<1>2. Unsampled \subseteq Spans /\ LostSpans \subseteq Spans /\ EarlyLost \subseteq Spans
  BY <1>1, StartedFacts
<1>3. IsFiniteSet(Unsampled) /\ IsFiniteSet(LostSpans) /\ IsFiniteSet(EarlyLost)
  BY <1>2, NumberFacts, FS_Subset
<1> QED
  BY <1>1, <1>3, FS_CardinalityType

\* What is lost now, and what is lost next, in terms of the variables.
LEMMA LossTerms ==
  /\ LostSpans = {q \in Started : /\ span[q].root \in Unsampled
                                  /\ q = span[q].root \/ q \in ToSet(recorder[span[q].root])}
  /\ EarlyLost = {q \in LostSpans : q = span[q].root \/ span[q].early}
  /\ Unsampled = {q \in Transactions : /\ span[q].at = "finished" /\ span[q].sampled # "true"
                                       /\ ~span[q].ignored}
  /\ LostSpans' = {q \in Started' : /\ span'[q].root \in Unsampled'
                                    /\ q = span'[q].root \/ q \in ToSet(recorder'[span'[q].root])}
  /\ EarlyLost' = {q \in LostSpans' : q = span'[q].root \/ span'[q].early}
  /\ Unsampled' = {q \in Transactions' : /\ span'[q].at = "finished" /\ span'[q].sampled # "true"
                                         /\ ~span'[q].ignored}
  BY DEF LostSpans, EarlyLost, Unsampled, Root, Recorded

\* Nothing is counted anew, and nothing that was recorded in time comes to be lost.
LEMMA LossKept ==
  ASSUME Types, Accounted, UNCHANGED lost, Unsampled' = Unsampled, Started' \subseteq Spans,
         LostSpans \subseteq LostSpans', EarlyLost' \subseteq EarlyLost
  PROVE  Accounted'
<1>1. lost.span \in Nat
  BY DEF Types
<1>2. Cardinality(LostSpans) <= Cardinality(LostSpans') /\ Cardinality(LostSpans') \in Nat
      /\ Cardinality(LostSpans) \in Nat
  <2>1. LostSpans' \subseteq Spans
    BY LossTerms
  <2>2. IsFiniteSet(LostSpans')
    BY <2>1, NumberFacts, FS_Subset
  <2> QED
    BY <2>2, FS_Subset, FS_CardinalityType
<1>3. Cardinality(EarlyLost') <= Cardinality(EarlyLost) /\ Cardinality(EarlyLost') \in Nat
      /\ Cardinality(EarlyLost) \in Nat
  <2>1. IsFiniteSet(EarlyLost)
    BY LossFacts
  <2> QED
    BY <2>1, FS_Subset, FS_CardinalityType
<1>4. lost.transaction = Cardinality(Unsampled) /\ lost.span >= Cardinality(EarlyLost)
      /\ lost.span <= Cardinality(LostSpans)
  BY DEF Accounted, EarlyLost
<1>5. lost'.transaction = Cardinality(Unsampled') /\ lost'.span >= Cardinality(EarlyLost')
      /\ lost'.span <= Cardinality(LostSpans')
  BY <1>1, <1>2, <1>3, <1>4
<1> QED
  BY <1>5 DEF Accounted, EarlyLost

\* A span changes that is not lost by it.
LEMMA SpanLossKept ==
  ASSUME Types, TreeInv, Accounted, NEW s \in Started, Changed(s), UNCHANGED <<recorder, lost>>,
         span'[s].early = span[s].early,
         span[s].parent = None =>
            (/\ span'[s].at = "finished" /\ span'[s].sampled # "true" /\ ~span'[s].ignored
             <=> span[s].at = "finished" /\ span[s].sampled # "true" /\ ~span[s].ignored)
  PROVE  Accounted'
<1>1. /\ Started' = Started /\ Transactions' = Transactions
      /\ \A q \in Started : span'[q].root = span[q].root
      /\ Started \subseteq Spans /\ Transactions \subseteq Started
      /\ \A q \in Started : q \in Transactions <=> span[q].parent = None
      /\ \A q \in Started : q # s => span'[q] = span[q]
  BY TreeKept, StartedFacts DEF Changed, Kept
<1>2. Unsampled' = Unsampled
  BY <1>1, LossTerms
<1>3. LostSpans' = LostSpans
  BY <1>1, <1>2, LossTerms
<1>4. EarlyLost' = EarlyLost
  BY <1>1, <1>3, LossTerms
<1> QED
  BY <1>1, <1>2, <1>3, <1>4, LossKept

LEMMA BornLossKept ==
  ASSUME Types, TreeInv, RecorderInv, Accounted, NEW g \in Goroutines, NEW s, NEW d, Born(g, s, d)
  PROVE  Accounted'
<1>1. /\ span'[s] = d /\ d.at = "open" /\ UNCHANGED <<recorder, lost>>
      /\ s \in Spans /\ s \notin Started /\ Started' = Started \cup {s} /\ Started \subseteq Spans
      /\ Transactions' = Transactions \cup (IF d.parent = None THEN {s} ELSE {})
      /\ \A q \in Started : span'[q] = span[q]
      /\ Transactions \subseteq Started
      /\ d.root = s \/ d.root \in Spans
  <2>1. d.parent # None => d.root \in Spans
    BY TreeFacts DEF Born
  <2>2. /\ span'[s] = d /\ s \notin Started /\ Started' = Started \cup {s}
        /\ Started \subseteq Spans /\ \A q \in Spans : q # s => span'[q] = span[q]
        /\ Transactions' = Transactions \cup (IF d.parent = None THEN {s} ELSE {})
        /\ Transactions \subseteq Started
    BY BornFacts, StartedFacts
  <2>3. s \in Spans /\ d.at = "open" /\ UNCHANGED <<recorder, lost>> /\ (d.parent = None => d.root = s)
    BY DEF Born
  <2> QED
    BY <2>1, <2>2, <2>3
<1>2. Unsampled' = Unsampled
  <2>1. s \notin Unsampled' /\ s \notin Unsampled
    BY <1>1, LossTerms
  <2>2. \A q \in Started : q \in Transactions' <=> q \in Transactions
    BY <1>1
  <2>3. \A q : q \in Unsampled' <=> q \in Unsampled
    BY <1>1, <2>1, <2>2, LossTerms
  <2> QED
    BY <2>3, ZenonT(20)
<1>3. Unsampled \subseteq Started
  BY <1>1, LossTerms
<1>4. s \notin LostSpans'
  <2>1. d.root \in Spans => s \notin ToSet(recorder[d.root])
    BY <1>1 DEF RecorderInv
  <2> QED
    BY <1>1, <1>2, <1>3, <2>1, LossTerms
<1>5. LostSpans' = LostSpans
  BY <1>1, <1>2, <1>4, LossTerms
<1>6. EarlyLost' = EarlyLost
  BY <1>1, <1>4, <1>5, LossTerms
<1> QED
  BY <1>1, <1>2, <1>5, <1>6, LossKept

\* A span that is recorded when its transaction has finished was not in time.
LEMMA RecordLossKept ==
  ASSUME IInv, Accounted, NEW g \in Goroutines, Record(g)
  PROVE  Accounted'
<1> DEFINE s == pc[g].span
           r == span[s].root
           old == recorder[r]
<1>0. Types /\ WorkInv /\ TreeInv /\ RecorderInv
  BY InvParts
<1>1. /\ pc[g].at = "record" /\ UNCHANGED lost
      /\ recorder' = [recorder EXCEPT ![r] = Keep(old, s)] /\ recorder \in [Spans -> Seq(Spans)]
  BY <1>0, TypesFacts DEF Record, Root
<1>2. s \in Started /\ s \in Spans /\ r \in Spans /\ span[s].at = "open"
  BY <1>0, <1>1, WorkFacts, TreeFacts DEF Root
<1>3. /\ Changed(s) /\ span'[s].at = span[s].at /\ span'[s].sampled = span[s].sampled
      /\ span'[s].ignored = span[s].ignored /\ span'[s].early = (span[r].at = "open")
  BY <1>0, <1>2, RecordEffect DEF Root
<1> HIDE DEF s
<1>4. /\ Started' = Started /\ Transactions' = Transactions
      /\ \A q \in Started : span'[q].root = span[q].root /\ span[q].root \in Spans
      /\ Started \subseteq Spans /\ Transactions \subseteq Started
      /\ \A q \in Started : q # s => span'[q] = span[q]
  BY <1>0, <1>3, TreeKept, TreeFacts, StartedFacts DEF Changed, Kept, Root
<1>6. Unsampled' = Unsampled
  BY <1>3, <1>4, LossTerms
<1>7. ToSet(Keep(old, s)) \subseteq ToSet(old) \cup {s} /\ ToSet(old) \subseteq ToSet(Keep(old, s))
  <2>1. old \in Seq(Spans)
    BY <1>1, <1>2
  <2>2. ToSet(Append(old, s)) = ToSet(old) \cup {s}
    BY <1>2, <2>1, AppendElements
  <2> QED
    BY <2>1, <2>2 DEF Keep
<1>8. /\ recorder'[r] = Keep(old, s)
      /\ \A q \in Spans : q # r => recorder'[q] = recorder[q]
  BY <1>1, <1>2
<1> HIDE DEF r
<1>9. \A k \in Spans : /\ ToSet(recorder[k]) \subseteq ToSet(recorder'[k])
                       /\ ToSet(recorder'[k]) \subseteq ToSet(recorder[k]) \cup {s}
  BY <1>7, <1>8
<1>10. LostSpans \subseteq LostSpans'
  <2> SUFFICES ASSUME NEW q \in LostSpans
               PROVE  q \in LostSpans'
    OBVIOUS
  <2>1. /\ q \in Started /\ span[q].root \in Unsampled
        /\ q = span[q].root \/ q \in ToSet(recorder[span[q].root])
    BY LossTerms
  <2>2. /\ q \in Started' /\ span'[q].root \in Unsampled'
        /\ q = span'[q].root \/ q \in ToSet(recorder'[span'[q].root])
    BY <1>4, <1>6, <1>9, <2>1
  <2> QED
    BY <2>2, LossTerms
<1>11. EarlyLost' \subseteq EarlyLost
  <2> SUFFICES ASSUME NEW q \in EarlyLost'
               PROVE  q \in EarlyLost
    OBVIOUS
  <2>1. /\ q \in Started /\ span[q].root \in Unsampled
        /\ q = span[q].root \/ q \in ToSet(recorder'[span[q].root])
        /\ q = span[q].root \/ span'[q].early
    BY <1>4, <1>6, LossTerms
  <2>2. CASE q = span[q].root
    BY <2>1, <2>2, LossTerms
  <2>3. CASE q # span[q].root /\ q # s
    <3>1. q \in ToSet(recorder[span[q].root]) /\ span[q].early
      BY <1>4, <1>9, <2>1, <2>3
    <3> QED
      BY <2>1, <3>1, LossTerms
  <2>4. CASE q # span[q].root /\ q = s
    <3>1. r \in Unsampled /\ span[r].at = "open"
      BY <1>3, <2>1, <2>4 DEF r
    <3> QED
      BY <3>1, LossTerms
  <2> QED
    BY <2>2, <2>3, <2>4
<1> QED
  BY <1>0, <1>1, <1>4, <1>6, <1>10, <1>11, LossKept

\* The transaction is lost with all that its recorder has.
LEMMA CountLossKept ==
  ASSUME IInv, Accounted, IgnoredLast, NEW g \in Goroutines, CountLoss(g)
  PROVE  Accounted'
<1>0. Types /\ WorkInv /\ TreeInv /\ RecorderInv /\ DecisionInv
  BY InvParts
<1>1. PICK s \in Spans : s = pc[g].span /\ s \in Started
  BY <1>0, WorkFacts DEF CountLoss
<1>2. /\ lost' = Loss(s) /\ UNCHANGED recorder /\ span' = [span EXCEPT ![s].at = "finished"]
      /\ span[s].sampled # "true" /\ span[s].at = "ended" /\ span[s].parent = None /\ span[s].root = s
  BY <1>0, <1>1, WorkFacts, TreeFacts DEF CountLoss, Root
<1>3. ~span[s].ignored
  BY <1>1, <1>2 DEF IgnoredLast
<1>4. /\ Changed(s) /\ span'[s].at = "finished" /\ span'[s].sampled = span[s].sampled
      /\ span'[s].ignored = span[s].ignored /\ span'[s].early = span[s].early
  BY <1>0, <1>2, EndEffect
<1>5. /\ Started' = Started /\ Transactions' = Transactions
      /\ \A q \in Started : span'[q].root = span[q].root /\ span'[q].early = span[q].early
      /\ Started \subseteq Spans /\ Transactions \subseteq Started /\ s \in Transactions
      /\ \A q \in Started : q # s => span'[q] = span[q]
  BY <1>0, <1>1, <1>2, <1>4, TreeKept, StartedFacts DEF Changed, Kept
<1> DEFINE c == Children(s)
           all == c \cup {s}
<1>6. /\ c \subseteq Started /\ \A q \in c : span[q].root = s
      /\ \A q \in Started : span[q].root = s /\ q # s => (q \in ToSet(recorder[s]) <=> q \in c)
      /\ s \notin c
  BY <1>0 DEF Children, RecorderInv, Root
<1>7. s \notin Unsampled /\ Unsampled' = Unsampled \cup {s}
  BY <1>2, <1>3, <1>4, <1>5, LossTerms
<1> HIDE DEF c
<1>8. LostSpans' = LostSpans \cup all
  <2>1. ASSUME NEW q
        PROVE  q \in LostSpans' <=> q \in Started /\ span[q].root \in Unsampled \cup {s}
                                    /\ (q = span[q].root \/ q \in ToSet(recorder[span[q].root]))
    BY <1>2, <1>5, <1>7, LossTerms
  <2>2. ASSUME NEW q
        PROVE  q \in LostSpans <=> q \in Started /\ span[q].root \in Unsampled
                                   /\ (q = span[q].root \/ q \in ToSet(recorder[span[q].root]))
    BY LossTerms
  <2>3. ASSUME NEW q
        PROVE  q \in all <=> q \in Started /\ span[q].root = s
                             /\ (q = span[q].root \/ q \in ToSet(recorder[span[q].root]))
    BY <1>1, <1>2, <1>6
  <2>4. \A q : q \in LostSpans' <=> q \in LostSpans \/ q \in all
    BY <2>1, <2>2, <2>3
  <2> HIDE DEF all
  <2> QED
    BY <2>4
<1>9. LostSpans \cap all = {}
  BY <1>2, <1>6, <1>7, LossTerms
<1>10. EarlyLost' \subseteq EarlyLost \cup all
  BY <1>5, <1>8, LossTerms
<1>11. /\ IsFiniteSet(c) /\ IsFiniteSet(all) /\ Cardinality(c) \in Nat /\ Cardinality(all) = Cardinality(c) + 1
  <2>1. IsFiniteSet(c)
    BY <1>5, <1>6, NumberFacts, FS_Subset
  <2>2. IsFiniteSet(all) /\ Cardinality(all) = Cardinality(c) + 1
    BY <1>6, <2>1, FS_AddElement
  <2> QED
    BY <2>1, <2>2, FS_CardinalityType
<1> HIDE DEF all
<1>12. /\ IsFiniteSet(LostSpans) /\ IsFiniteSet(EarlyLost) /\ IsFiniteSet(Unsampled)
       /\ Cardinality(LostSpans) \in Nat /\ Cardinality(EarlyLost) \in Nat /\ Cardinality(Unsampled) \in Nat
  BY <1>0, LossFacts
<1>13. Cardinality(Unsampled') = Cardinality(Unsampled) + 1
  BY <1>7, <1>12, FS_AddElement
<1>14. Cardinality(LostSpans') = Cardinality(LostSpans) + Cardinality(all)
  <2>1. Cardinality(LostSpans \cup all) = Cardinality(LostSpans) + Cardinality(all) - Cardinality(LostSpans \cap all)
    BY <1>11, <1>12, FS_Union
  <2>2. Cardinality(LostSpans \cap all) = 0
    BY <1>9, FS_EmptySet
  <2> QED
    BY <1>8, <1>11, <1>12, <2>1, <2>2
<1>15. Cardinality(EarlyLost') <= Cardinality(EarlyLost) + Cardinality(all) /\ Cardinality(EarlyLost') \in Nat
  <2>1. /\ IsFiniteSet(EarlyLost \cup all) /\ IsFiniteSet(EarlyLost \cap all)
        /\ Cardinality(EarlyLost \cup all) = Cardinality(EarlyLost) + Cardinality(all) - Cardinality(EarlyLost \cap all)
    BY <1>11, <1>12, FS_Union, FS_Intersection
  <2>2. Cardinality(EarlyLost \cap all) \in Nat /\ Cardinality(EarlyLost \cup all) \in Nat
    BY <2>1, FS_CardinalityType
  <2>3. IsFiniteSet(EarlyLost') /\ Cardinality(EarlyLost') <= Cardinality(EarlyLost \cup all)
    BY <1>10, <2>1, FS_Subset
  <2>4. Cardinality(EarlyLost') \in Nat
    BY <2>3, FS_CardinalityType
  <2> QED
    BY <1>11, <1>12, <2>1, <2>2, <2>3, <2>4
<1>16. /\ lost.transaction = Cardinality(Unsampled) /\ lost.span >= Cardinality(EarlyLost)
       /\ lost.span <= Cardinality(LostSpans) /\ lost.span \in Nat
  BY <1>0 DEF Accounted, EarlyLost, Types
<1>17. lost'.transaction = lost.transaction + 1 /\ lost'.span = lost.span + Cardinality(c) + 1
  BY <1>2 DEF Loss, c
<1>18. lost'.transaction = Cardinality(Unsampled') /\ lost'.span >= Cardinality(EarlyLost')
       /\ lost'.span <= Cardinality(LostSpans')
  BY <1>11, <1>12, <1>13, <1>14, <1>15, <1>16, <1>17
<1> QED
  BY <1>18 DEF Accounted, EarlyLost

LossInv == Accounted /\ IgnoredLast

\* A span that is not ignored, or that has finished.
LEMMA IgnoredKept ==
  ASSUME Types, IgnoredLast, NEW s \in Started, Changed(s), span'[s].ignored => span'[s].at = "finished"
  PROVE  IgnoredLast'
<1>1. Started' = Started /\ Started \subseteq Spans /\ \A q \in Started : q # s => span'[q] = span[q]
  BY TreeKept, StartedFacts DEF Changed
<1> QED
  BY <1>1 DEF IgnoredLast

LEMMA LossInit ==
  Init => LossInv
<1> SUFFICES ASSUME Init
             PROVE  LossInv
  OBVIOUS
<1>1. span = [s \in Spans |-> Unused] /\ lost = [transaction |-> 0, span |-> 0]
  BY DEF Init
<1>2. Started = {} /\ Transactions = {}
  <2>1. Started = {}
    BY <1>1 DEF Started, Unused
  <2> QED
    BY <2>1 DEF Transactions
<1>3. Unsampled = {} /\ LostSpans = {} /\ EarlyLost = {}
  BY <1>2, LossTerms
<1>4. Cardinality({}) = 0
  BY FS_EmptySet
<1> QED
  BY <1>1, <1>2, <1>3, <1>4 DEF LossInv, Accounted, EarlyLost, IgnoredLast

\* The steps of one span that lose nothing.
LEMMA QuietLossStep ==
  ASSUME IInv, LossInv, NEW g \in Goroutines,
         \/ Attach(g) \/ Restore(g) \/ Ignore(g) \/ ToEvent(g) \/ Capture(g)
         \/ \E q \in Spans : ToBaggage(g, q)
         \/ \E q \in Spans, code \in BOOLEAN : Finish(g, q, code)
  PROVE  LossInv'
<1>0. Types /\ WorkInv /\ TreeInv /\ EventInv /\ Accounted /\ IgnoredLast
  BY InvParts DEF LossInv
<1> SUFFICES \E s \in Started :
                /\ Changed(s) /\ UNCHANGED <<recorder, lost>> /\ span'[s].early = span[s].early
                /\ span'[s].ignored => span'[s].at = "finished"
                /\ span[s].parent = None =>
                     (/\ span'[s].at = "finished" /\ span'[s].sampled # "true" /\ ~span'[s].ignored
                      <=> span[s].at = "finished" /\ span[s].sampled # "true" /\ ~span[s].ignored)
  BY <1>0, SpanLossKept, IgnoredKept DEF LossInv
<1>1. CASE Attach(g)
  <2>1. pc[g].span \in Started /\ UNCHANGED <<span, recorder, lost>>
    BY <1>0, <1>1, WorkFacts DEF Attach
  <2>2. Changed(pc[g].span)
    BY <1>0, <2>1, StartedFacts, TypesFacts DEF Changed, Kept
  <2> QED
    BY <1>0, <2>1, <2>2 DEF IgnoredLast
<1>2. CASE Restore(g)
  <2>1. PICK s \in Spans : s = pc[g].span /\ s \in Started /\ span[s].at = "ended" /\ span[s].parent # None
    BY <1>0, <1>2, WorkFacts DEF Restore
  <2>2. span' = [span EXCEPT ![s].at = "finished"] /\ UNCHANGED <<recorder, lost>>
    BY <1>2, <2>1 DEF Restore
  <2>3. Changed(s) /\ span'[s].early = span[s].early /\ span'[s].at = "finished"
    BY <1>0, <2>1, <2>2, EndEffect
  <2> QED
    BY <2>1, <2>2, <2>3
<1>3. CASE Ignore(g)
  <2>1. PICK s \in Spans : s = pc[g].span /\ s \in Started /\ span[s].at = "ended"
    BY <1>0, <1>3, WorkFacts DEF Ignore
  <2>2. Changed(s) /\ span'[s].early = span[s].early /\ span'[s].at = "finished" /\ span'[s].ignored
    BY <1>0, <1>3, <2>1, IgnoreEffect
  <2>3. UNCHANGED <<recorder, lost>>
    BY <1>3 DEF Ignore
  <2> QED
    BY <2>1, <2>2, <2>3
<1>4. CASE ToEvent(g)
  <2> DEFINE dsc == IF span[pc[g].span].dsc.frozen THEN span[pc[g].span].dsc
                    ELSE DscFromTransaction(span[pc[g].span])
  <2>1. PICK s \in Spans : s = pc[g].span /\ s \in Started /\ span[s].at = "ended"
    BY <1>0, <1>4, WorkFacts DEF ToEvent
  <2>2. span' = [span EXCEPT ![s].dsc = dsc] /\ UNCHANGED <<recorder, lost>>
    BY <1>4, <2>1 DEF ToEvent
  <2>3. dsc \in DscType
    <3>1. span[s] \in SpanType
      BY <1>0, TypesFacts
    <3>2. span[s].dsc \in DscType
      BY <3>1 DEF SpanType
    <3> QED
      BY <2>1, <3>1, <3>2, DscOfTransaction
  <2> HIDE DEF dsc
  <2>4. /\ Changed(s) /\ span'[s].early = span[s].early /\ span'[s].at = span[s].at
        /\ span'[s].sampled = span[s].sampled /\ span'[s].ignored = span[s].ignored
    BY <1>0, <2>2, <2>3, DscEffect
  <2> QED
    BY <1>0, <2>1, <2>2, <2>4 DEF IgnoredLast
<1>5. CASE Capture(g)
  <2>1. PICK s \in Spans : s = pc[g].span /\ s \in Started /\ span[s].at = "ended" /\ span[s].sampled = "true"
    BY <1>0, <1>5, WorkFacts DEF Capture, EventInv
  <2>2. span' = [span EXCEPT ![s].at = "finished"] /\ UNCHANGED <<recorder, lost>>
    BY <1>5, <2>1 DEF Capture
  <2>3. /\ Changed(s) /\ span'[s].early = span[s].early /\ span'[s].at = "finished"
        /\ span'[s].sampled = "true"
    BY <1>0, <2>1, <2>2, EndEffect
  <2> QED
    BY <2>1, <2>2, <2>3
<1>6. CASE \E q \in Spans : ToBaggage(g, q)
  <2>1. PICK q \in Started : /\ span' = [span EXCEPT ![Root(q)].dsc = BaggageDsc(q)]
                             /\ UNCHANGED <<recorder, lost>>
    BY <1>6 DEF ToBaggage
  <2>2. PICK s \in Spans : s = Root(q) /\ s \in Started
    BY <1>0, TreeFacts, StartedFacts
  <2>3. BaggageDsc(q) \in DscType
    <3>1. span[s] \in SpanType
      BY <1>0, TypesFacts
    <3>2. span[s].dsc \in DscType
      BY <3>1 DEF SpanType
    <3> QED
      BY <2>2, <3>1, <3>2, DscOfTransaction DEF BaggageDsc
  <2>4. span' = [span EXCEPT ![s].dsc = BaggageDsc(q)]
    BY <2>1, <2>2
  <2>5. /\ Changed(s) /\ span'[s].early = span[s].early /\ span'[s].at = span[s].at
        /\ span'[s].sampled = span[s].sampled /\ span'[s].ignored = span[s].ignored
    BY <1>0, <2>3, <2>4, DscEffect
  <2> QED
    BY <1>0, <2>1, <2>2, <2>5 DEF IgnoredLast
<1>7. CASE \E q \in Spans, code \in BOOLEAN : Finish(g, q, code)
  <2>1. PICK s \in Spans, code \in BOOLEAN : Finish(g, s, code)
    BY <1>7
  <2>2. s \in Started /\ Root(s) \in Spans /\ UNCHANGED <<recorder, lost>>
    BY <1>0, <2>1, StartedFacts, TreeFacts DEF Finish
  <2>3. /\ Changed(s) /\ span[s].at = "open" /\ span'[s].at = "ended"
        /\ span'[s].early = span[s].early /\ span'[s].ignored = span[s].ignored
    BY <1>0, <2>1, <2>2, FinishEffect
  <2> QED
    BY <1>0, <2>2, <2>3 DEF IgnoredLast
<1> QED
  BY <1>1, <1>2, <1>3, <1>4, <1>5, <1>6, <1>7

LEMMA LossNext ==
  IInv /\ LossInv /\ [Next]_vars => LossInv'
<1> SUFFICES ASSUME IInv, LossInv, [Next]_vars
             PROVE  LossInv'
  OBVIOUS
<1>0. Types /\ WorkInv /\ TreeInv /\ RecorderInv /\ Accounted /\ IgnoredLast
  BY InvParts DEF LossInv
<1>1. CASE UNCHANGED vars
  <2>1. UNCHANGED <<span, recorder, lost>>
    BY <1>1 DEF vars
  <2>2. Started' = Started /\ Transactions' = Transactions
    BY <2>1 DEF Started, Transactions
  <2>3. Unsampled' = Unsampled
    BY <2>1, <2>2, LossTerms
  <2>4. LostSpans' = LostSpans
    BY <2>1, <2>2, <2>3, LossTerms
  <2>5. EarlyLost' = EarlyLost
    BY <2>1, <2>4, LossTerms
  <2> QED
    BY <1>0, <2>1, <2>2, <2>3, <2>4, <2>5, LossKept, StartedFacts DEF LossInv, IgnoredLast
<1>2. CASE Next
  <2>1. PICK g \in Goroutines :
           \/ \E h \in Hubs, start \in Starts :
                 StartTransaction(g, h, start.header, start.explicit)
           \/ \E p \in Spans, explicit \in Explicit : StartChild(g, p, explicit)
           \/ \E s \in Spans : ToBaggage(g, s)
           \/ \E s \in Spans, code \in BOOLEAN : Finish(g, s, code)
           \/ Record(g) \/ Attach(g) \/ Restore(g)
           \/ Ignore(g) \/ CountLoss(g) \/ ToEvent(g) \/ Capture(g)
    BY <1>2 DEF Next
  <2>2. ASSUME \E s, d : Born(g, s, d)
        PROVE  LossInv'
    <3>1. PICK s, d : Born(g, s, d)
      BY <2>2
    <3>2. Accounted'
      BY <1>0, <3>1, BornLossKept
    <3>3. /\ Started' = Started \cup {s} /\ Started \subseteq Spans /\ s \notin Started
          /\ span'[s] = d /\ ~d.ignored /\ \A q \in Spans : q # s => span'[q] = span[q]
      BY <1>0, <3>1, BornFacts DEF Born
    <3> QED
      BY <1>0, <3>2, <3>3 DEF LossInv, IgnoredLast
  <2>3. ASSUME NEW h \in Hubs, NEW start \in Starts,
               StartTransaction(g, h, start.header, start.explicit)
        PROVE  LossInv'
    <3>1. PICK header \in Header, explicit \in Sampled :
             header = start.header /\ explicit = start.explicit
      BY TracingAssumption
    <3> QED
      BY <2>2, <2>3, <3>1, StartTransactionStep
  <2>4. ASSUME NEW p \in Spans, NEW explicit \in Explicit, StartChild(g, p, explicit)
        PROVE  LossInv'
    BY <2>2, <2>4, StartChildStep, TracingAssumption
  <2>5. CASE Record(g)
    <3>1. Accounted'
      BY <1>0, <2>5, RecordLossKept
    <3>2. PICK s \in Spans : s = pc[g].span /\ s \in Started
      BY <1>0, <2>5, WorkFacts DEF Record
    <3>3. Changed(s) /\ span'[s].at = span[s].at /\ span'[s].ignored = span[s].ignored
      BY <1>0, <2>5, <3>2, RecordEffect
    <3>4. IgnoredLast'
      BY <1>0, <3>2, <3>3, IgnoredKept DEF IgnoredLast
    <3> QED
      BY <3>1, <3>4 DEF LossInv
  <2>6. CASE CountLoss(g)
    <3>1. Accounted'
      BY <1>0, <2>6, CountLossKept
    <3>2. PICK s \in Spans : s = pc[g].span /\ s \in Started /\ span[s].at = "ended"
      BY <1>0, <2>6, WorkFacts DEF CountLoss
    <3>3. span' = [span EXCEPT ![s].at = "finished"]
      BY <2>6, <3>2 DEF CountLoss
    <3>4. Changed(s) /\ span'[s].at = "finished"
      BY <1>0, <3>2, <3>3, EndEffect
    <3>5. IgnoredLast'
      BY <1>0, <3>2, <3>4, IgnoredKept
    <3> QED
      BY <3>1, <3>5 DEF LossInv
  <2> QED
    BY <2>1, <2>3, <2>4, <2>5, <2>6, QuietLossStep
<1> QED
  BY <1>1, <1>2

\* Of transactions that finish unsampled each is counted as lost exactly once, and of
\* spans at least those that were recorded in time and at most those that were recorded,
\* whatever is recorded while the transaction is finished (doFinish).
THEOREM LossesAccounted ==
  Spec => []Accounted
<1>1. Init => LossInv
  BY LossInit
<1>2. IInv /\ LossInv /\ [Next]_vars => LossInv'
  BY LossNext
<1>3. LossInv => Accounted
  BY DEF LossInv
<1> QED
  BY <1>1, <1>2, <1>3, Invariance, PTL DEF Spec

=============================================================================
