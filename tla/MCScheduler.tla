------------------------------ MODULE MCScheduler ------------------------------
(***************************************************************************)
(* Scheduler for TLC: errors go out one by one, logs in batches of two     *)
(* that also a timeout makes ready, as client.go sets the buffers up.      *)
(***************************************************************************)
EXTENDS Scheduler, TLC

CONSTANTS error, log, e1, e2, l1, l2, critical, low

Of == [i \in Item |-> IF i \in {l1, l2} THEN log ELSE error]
Room == [c \in Category |-> IF c = log THEN 2 ELSE 1]
Batch == [c \in Category |-> IF c = log THEN 2 ELSE 1]
Ranks == [c \in Category |-> IF c = log THEN low ELSE critical]
Weights == [p \in Priority |-> IF p = low THEN 1 ELSE 2]

===============================================================================
