--------------------------------- MODULE MCHub ---------------------------------
(***************************************************************************)
(* Hub for TLC: two goroutines, and a client with a small limit.           *)
(***************************************************************************)
EXTENDS Hub, TLC

CONSTANT small

Limits == [c \in Client \cup {NoClient} |-> IF c = small THEN 1 ELSE 2]

SameGoroutines == Permutations(Goroutine)

===============================================================================
