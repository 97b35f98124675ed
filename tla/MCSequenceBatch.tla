-------------------------- MODULE MCSequenceBatch --------------------------
(* Configurations for checking SequenceBatch with TLC.                     *)
EXTENDS SequenceBatch, SequencePlans

\* The Direct strategy, one instance with one slot: sequences are collected in
\* the backlog.
DirectBacklog ==
  [strategy |-> "direct", slots |-> SlotsOf(1, 1), pipelined |-> FALSE,
   stale |-> {1}, enforceShape |-> FALSE, minReady |-> 0,
   plans |-> {<< <<S, C, E>>, <<S, C, E>>, << >> >>,
              << <<S, E, S>>, <<S, C>>, <<SE>> >>}]

\* Two instances with one slot each.  A new sequence of an ID may be given a
\* slot while the one before still runs in the other.
DirectInstances ==
  [DirectBacklog EXCEPT !.slots = SlotsOf(2, 1), !.stale = {},
     !.plans = {<< <<S, E, S>>, <<S>>, << >> >>, << <<S>>, <<SE>>, <<SE>> >>}]

\* One instance with two slots, a queue delay and tensors that must have the
\* same shape.
DirectDelays ==
  [DirectBacklog EXCEPT !.slots = SlotsOf(1, 2), !.stale = {},
     !.enforceShape = TRUE, !.minReady = 2,
     !.plans = {<< <<S, E>>, <<Wide(S)>>, << >> >>,
                << <<SE>>, <<Wide(SE)>>, <<S>> >>}]

\* The Oldest strategy, one instance with one candidate sequence: others wait
\* in the backlog.
OldestBacklog ==
  [strategy |-> "oldest", slots |-> SlotsOf(1, 1), pipelined |-> FALSE,
   stale |-> {1}, maxBatchSize |-> 1,
   plans |-> {<< <<S, C, E>>, <<S, C, E>>, << >> >>,
              << <<S, E, S>>, <<S, C>>, <<SE>> >>}]

\* One instance that batches two candidate sequences.
OldestCandidates ==
  [OldestBacklog EXCEPT !.slots = SlotsOf(1, 2), !.stale = {}, !.maxBatchSize = 2,
     !.plans = {<< <<S, E, S>>, <<S>>, << >> >>, << <<S, C>>, <<SE>>, <<S>> >>}]

\* Two instances with one candidate sequence each.
OldestInstances ==
  [OldestCandidates EXCEPT !.slots = SlotsOf(2, 1),
     !.plans = {<< <<S, E, S>>, <<S>>, << >> >>}]

SeqSlots == SlotsOf(2, 2)
AllConfigs ==
  [directBacklog |-> DirectBacklog, directInstances |-> DirectInstances,
   directDelays |-> DirectDelays, oldestBacklog |-> OldestBacklog,
   oldestCandidates |-> OldestCandidates, oldestInstances |-> OldestInstances]
============================================================================
