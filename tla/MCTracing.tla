------------------------------ MODULE MCTracing ------------------------------
(* Clients that differ in what Span.sample and the continuing of a trace ask,
   and the headers that tell them apart. *)
EXTENDS Tracing

Client(sampler, rate, strict, ignore) ==
    [tracing |-> TRUE, sampler |-> sampler, rate |-> rate, strict |-> strict,
     org |-> 1, ignore |-> ignore]

MCConfigs == {Client("none", "some", FALSE, FALSE), Client("one", "zero", TRUE, TRUE),
              [Client("none", "one", FALSE, FALSE) EXCEPT !.tracing = FALSE]}

H(trace, baggage, org) == [trace |-> trace, baggage |-> baggage, org |-> org]
Start(header, explicit) == [header |-> header, explicit |-> explicit]
MCStarts == {Start(NoHeader, "undefined"), Start(NoHeader, "true"),
             Start(H("false", "none", 0), "undefined"), Start(H("true", "entries", 1), "undefined"),
             Start(H("true", "entries", 2), "undefined"), Start(H("malformed", "entries", 0), "undefined")}
MCExplicit == {"undefined", "true"}
MCSymmetry == Permutations(Goroutines) \cup Permutations(Hubs)
=============================================================================
