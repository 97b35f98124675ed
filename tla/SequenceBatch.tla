--------------------------- MODULE SequenceBatch ---------------------------
(***************************************************************************)
(* The sequence batcher of a model: SequenceBatchScheduler::Create gives   *)
(* the scheduler, with its backlog and its reaper, one of two strategies   *)
(* of batching (src/core/sequence_batch_scheduler.cc).  The variables of   *)
(* the strategy that the model does not use stay as they are.              *)
(***************************************************************************)
EXTENDS DirectSequenceBatch, OldestSequenceBatch

vars == <<baseVars, directVars, oldestVars>>

Init ==
  \/ /\ DirectInit /\ Config.strategy = "direct"
     /\ inFlight = None /\ issued = None /\ executing = {}
  \/ /\ OldestInit /\ Config.strategy = "oldest"
     /\ activeCid = None /\ maxActive = None /\ pass = None /\ overdue = {}

Next ==
  \/ Config.strategy = "direct" /\ DirectNext /\ UNCHANGED oldestVars
  \/ Config.strategy = "oldest" /\ OldestNext /\ UNCHANGED directVars

Spec == Init /\ [][Next]_vars
FairSpec == Spec /\ DirectFairness /\ OldestFairness

\* A slot is owned once (SlotOwnedOnce); and with the Oldest strategy and one
\* thread for each sequence, at most one request of a slot is in the dynamic
\* batcher or the backend, in_flight_ says whether there is one, and the
\* override of the slot, which that request reads, still holds its correlation
\* ID (OldestSequenceBatch::Enqueue and CompleteAndNext).
SlotsSound ==
  /\ SlotOwnedOnce
  /\ Config.strategy = "oldest" => OneInFlight
============================================================================
