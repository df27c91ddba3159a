-------------------------- MODULE TelemetryTransport --------------------------
(***************************************************************************)
(* What the interface TelemetryTransport (internal/protocol/interfaces.go) *)
(* promises to the code above it, with no word on queues and workers:      *)
(* an accepted item is settled, that is sent or recorded as dropped, at    *)
(* some time; Flush waits for what was pending when it was called and says *)
(* whether it has been settled.                                            *)
(*                                                                         *)
(* AsyncTransport implements this; Scheduler is built on it.  An envelope  *)
(* is here the set of items it carries.                                    *)
(***************************************************************************)

CONSTANTS Item, Flusher

VARIABLES
  place,    \* where each item is
  call,     \* where each flusher is in a call of Flush
  owed      \* what was pending when that call began

vars == <<place, call, owed>>

Places == {"outside", "pending", "settled", "refused"}

Init ==
  /\ place = [i \in Item |-> "outside"]
  /\ call = [f \in Flusher |-> "idle"]
  /\ owed = [f \in Flusher |-> {}]

Move(E, to) == place' = [i \in Item |-> IF i \in E THEN to ELSE place[i]]

Pending == {i \in Item : place[i] = "pending"}

\* SendEnvelope takes an envelope, or drops it (a full queue, a rate limit) and
\* records that, or refuses it because the transport is closed.
Accept(E) ==
  /\ \A i \in E : place[i] = "outside"
  /\ Move(E, "pending")
  /\ UNCHANGED <<call, owed>>

Refuse(E) ==
  /\ \A i \in E : place[i] = "outside"
  /\ Move(E, "refused")
  /\ UNCHANGED <<call, owed>>

Settle(E) ==
  /\ \A i \in E : place[i] \in {"outside", "pending"}
  /\ Move(E, "settled")
  /\ UNCHANGED <<call, owed>>

FlushCall(f) ==
  /\ call[f] = "idle"
  /\ call' = [call EXCEPT ![f] = "waiting"]
  /\ owed' = [owed EXCEPT ![f] = Pending]
  /\ UNCHANGED place

FlushTrue(f) ==
  /\ call[f] = "waiting"
  /\ owed[f] \cap Pending = {}
  /\ call' = [call EXCEPT ![f] = "true"]
  /\ UNCHANGED <<place, owed>>

\* The context of the call is done.
FlushFalse(f) ==
  /\ call[f] = "waiting"
  /\ call' = [call EXCEPT ![f] = "false"]
  /\ UNCHANGED <<place, owed>>

Next ==
  \/ \E E \in SUBSET Item : Accept(E) \/ Refuse(E) \/ Settle(E)
  \/ \E f \in Flusher : FlushCall(f) \/ FlushTrue(f) \/ FlushFalse(f)

Spec == Init /\ [][Next]_vars

===============================================================================
