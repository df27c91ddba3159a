----------------------------- MODULE BoundedFifo -----------------------------
(***************************************************************************)
(* What a telemetry buffer promises to the code around it, with no array,  *)
(* no indices and no locks: a first-in first-out queue of bounded length   *)
(* that never forgets an item silently.  RingBuffer implements it.         *)
(***************************************************************************)
EXTENDS Integers, Sequences

CONSTANTS
  Bound,      \* the greatest length of the queue
  Item        \* the items that may be offered

VARIABLES
  queue,      \* the items held, oldest first
  delivered,  \* the items handed to a consumer, in that order
  lost,       \* the items reported as lost, in that order
  wiped,      \* the items thrown away on request, in that order
  keepsNew    \* whether a full queue gives up its oldest item or the new one

vars == <<queue, delivered, lost, wiped, keepsNew>>

Init ==
  /\ queue = <<>>
  /\ delivered = <<>>
  /\ lost = <<>>
  /\ wiped = <<>>
  /\ keepsNew \in BOOLEAN

Accept(x) ==
  /\ Len(queue) < Bound
  /\ queue' = Append(queue, x)
  /\ UNCHANGED <<delivered, lost, wiped>>

Displace(x) ==
  /\ keepsNew
  /\ Len(queue) = Bound
  /\ queue' = Append(Tail(queue), x)
  /\ lost' = Append(lost, Head(queue))
  /\ UNCHANGED <<delivered, wiped>>

Refuse(x) ==
  /\ ~keepsNew
  /\ Len(queue) = Bound
  /\ lost' = Append(lost, x)
  /\ UNCHANGED <<queue, delivered, wiped>>

Deliver(n) ==
  /\ delivered' = delivered \o SubSeq(queue, 1, n)
  /\ queue' = SubSeq(queue, n + 1, Len(queue))
  /\ UNCHANGED <<lost, wiped>>

Wipe ==
  /\ wiped' = wiped \o queue
  /\ queue' = <<>>
  /\ UNCHANGED <<delivered, lost>>

Next ==
  /\ \/ \E x \in Item : Accept(x) \/ Displace(x) \/ Refuse(x)
     \/ \E n \in 1 .. Len(queue) : Deliver(n)
     \/ Wipe
  /\ UNCHANGED keepsNew

Spec == Init /\ [][Next]_vars

=============================================================================
