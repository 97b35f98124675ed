---------------------- MODULE MCDynamicBatchScheduler ----------------------
(* Model configurations for checking DynamicBatchScheduler with TLC.       *)
EXTENDS DynamicBatchScheduler, TLC

CONSTANTS t1, t2   \* scheduler threads

Policy(action, timeout, override, maxSize) ==
  [action |-> action, timeout |-> timeout, override |-> override,
   maxSize |-> maxSize]
Kind(batch, priority, timeout, shape) ==
  [batch |-> batch, priority |-> priority, timeout |-> timeout,
   shape |-> shape]

\* One queue, one runner, requests of one kind; batches of two are preferred.
Basic ==
  [priorityLevels |-> 0, queuePolicy |-> 0 :> Policy("REJECT", 0, FALSE, 0),
   nsPerUs |-> 1, threads |-> {t1}, kinds |-> {Kind(1, 0, 0, 1)},
   dynamicBatching |-> TRUE, maxBatchSize |-> 2, preferred |-> {2},
   maxQueueDelay |-> 1, preserveOrdering |-> FALSE, enforceEqualShape |-> FALSE,
   defaultWait |-> 4, arrivals |-> {1, 2, 3}, mayUnload |-> FALSE,
   lastArrival |-> 1, maxTime |-> 2]

\* Two priority levels: timed out requests of the first are rejected, of the
\* second delayed.  Two kinds of request, of different size and level.
Priorities ==
  [Basic EXCEPT !.priorityLevels = 2,
     !.queuePolicy = <<Policy("REJECT", 1, FALSE, 0),
                       Policy("DELAY", 1, TRUE, 0)>>,
     !.kinds = {Kind(1, 1, 0, 1), Kind(2, 2, 0, 1)},
     !.maxBatchSize = 3, !.preferred = {3}, !.maxQueueDelay = 2,
     !.lastArrival = 2, !.maxTime = 3]

\* Every timed out request is delayed while a batch is pending.
Delays ==
  [Basic EXCEPT !.queuePolicy = 0 :> Policy("DELAY", 1, FALSE, 0),
     !.maxQueueDelay = 3, !.lastArrival = 3, !.maxTime = 3]

\* Requests of two shapes, one with a shorter timeout, and a coarse clock.
Shapes ==
  [Basic EXCEPT !.queuePolicy = 0 :> Policy("REJECT", 2, TRUE, 0),
     !.nsPerUs = 2, !.kinds = {Kind(1, 0, 0, 1), Kind(1, 0, 1, 2)},
     !.enforceEqualShape = TRUE, !.maxQueueDelay = 3,
     !.maxTime = 5]

\* Two runners and ordered responses.
Ordering ==
  [Basic EXCEPT !.threads = {t1, t2}, !.preserveOrdering = TRUE,
     !.maxQueueDelay = 0, !.arrivals = {1, 2}, !.maxTime = 1,
     !.defaultWait = 1]

\* Two runners that may sleep far longer than the queue delay.
WakeUps == [Basic EXCEPT !.threads = {t1, t2}, !.defaultWait = 6]

SafetyConfigs ==
  [priorities |-> Priorities, delays |-> Delays, shapes |-> Shapes,
   ordering |-> Ordering, wakeUps |-> WakeUps]

\* No dynamic batching, two runners, a queue of one request; then unloaded.
Unbatched ==
  [Basic EXCEPT !.threads = {t1, t2}, !.dynamicBatching = FALSE,
     !.queuePolicy = 0 :> Policy("REJECT", 0, FALSE, 1), !.preferred = {},
     !.maxBatchSize = 1, !.maxQueueDelay = 0, !.arrivals = {1, 2},
     !.defaultWait = 3, !.mayUnload = TRUE]

\* One runner, requests that may time out; then unloaded.
Unloaded ==
  [Basic EXCEPT !.queuePolicy = 0 :> Policy("REJECT", 2, TRUE, 0),
     !.arrivals = {1, 2}, !.defaultWait = 3, !.mayUnload = TRUE,
     !.maxTime = 4]

LivenessConfigs == [unbatched |-> Unbatched, unloaded |-> Unloaded]

=============================================================================
