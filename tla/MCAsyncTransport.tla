--------------------------- MODULE MCAsyncTransport ---------------------------
(***************************************************************************)
(* AsyncTransport for TLC: a handful of envelopes of one or two categories *)
(***************************************************************************)
EXTENDS AsyncTransport, TLC

CONSTANTS e1, e2, e3, error, log

OneCategory == [e \in Envelope |-> error]

===============================================================================
