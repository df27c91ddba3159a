-------------------------------- MODULE MCStop --------------------------------
(* Scheduler for TLC in two parts, chosen at the start: Stop against run, and   *)
(* errors and logs without end, rotated with the weights of the code; there the *)
(* second item is a log.                                                        *)
EXTENDS MCScheduler

VARIABLE part

R == INSTANCE Scheduler WITH
       CategoryOf <- (e1 :> error @@ e2 :> log),
       Category <- {error, log}, Stopper <- {}, Timed <- {log}, Batched <- {log},
       Capacity <- (error :> 1 @@ log :> 2), BatchSize <- (error :> 1 @@ log :> 2),
       Priority <- {critical, low}, PriorityOf <- (error :> critical @@ log :> low),
       Weight <- (critical :> 5 @@ low :> 2)

MCInit ==
  \/ part = "stop" /\ Init
  \/ part = "rotation" /\ R!Init

MCNext ==
  /\ UNCHANGED part
  /\ \/ part = "stop" /\ Next
     \/ part = "rotation" /\ (R!Next \/ \E i \in Item : R!Again(i))

\* Scheduler's Fairness for each part.  In the rotation nobody flushes or stops.
MCFairness ==
  /\ WF_vars(part = "stop" /\ Running)
  /\ WF_vars(part = "stop" /\ ticker /\ Tick) /\ WF_vars(part = "stop" /\ ticker /\ TickerExit)
  /\ \A i \in Item : WF_vars(part = "stop" /\ Signal(i))
  /\ \A w \in Worker : WF_vars(part = "stop" /\ Processing(w))
  /\ \A f \in Caller : WF_vars(part = "stop" /\ (Flushing(f) \/ FlushReturn(f)))
  /\ \A s \in Stopper : WF_vars(part = "stop" /\ Stopping(s))
  /\ WF_vars(part = "rotation" /\ R!Running)
  /\ WF_vars(part = "rotation" /\ ticker /\ R!Tick)
  /\ \A c \in {error, log} :
       /\ WF_vars(part = "rotation" /\ R!Elapse(c))
       /\ SF_vars(part = "rotation" /\ R!Picks(c))
  /\ \A i \in Item : WF_vars(part = "rotation" /\ R!Signal(i))
  /\ WF_vars(part = "rotation" /\ R!Processing(Runner))

MCSpec == MCInit /\ [][MCNext]_<<part, vars>> /\ MCFairness

-----------------------------------------------------------------------------
(* The properties, each in its part.                                            *)

\* Every Flush returns, and Stop does even when run does not end.
Calling(f) == part = "stop" /\ pc[f] \notin {"idle", "returned", "stopped"}
CallsReturn == \A f \in Caller : Calling(f) ~> ~Calling(f)
\* An item is taken out of its buffer, at the latest when the timeout of the
\* buffer has passed, however many are added meanwhile to buffers of other
\* priorities and although a Signal may come when run does not wait.
Waits(i) == part = "rotation" /\ i \in R!Buffered
Rotates == \A i \in Item : Waits(i) ~> (~Waits(i) \/ cancelled)
===============================================================================
