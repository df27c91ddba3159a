---------------------------- MODULE MCHTTPTransport ----------------------------
(* HTTPTransport for TLC: there is a second sender and a second event, or there *)
(* is a second flusher.                                                         *)
EXTENDS HTTPTransport

CONSTANTS e1, e2, error, s1, s2, f1, f2

VARIABLE second

OneCategory == [e \in Event |-> error]

MCInit == Init /\ second \in {"sender", "flusher"}

MCNext ==
  /\ UNCHANGED second
  /\ Next
  /\ second = "sender" => flush'[f2] = "idle"
  /\ second = "flusher" => fate'[e2] = "new" /\ sending'[s2] = NoEvent

MCSpec == MCInit /\ [][MCNext]_<<second, vars>> /\ Fairness

===============================================================================
