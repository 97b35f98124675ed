------------------------ MODULE DirectSequenceBatch ------------------------
(***************************************************************************)
(* The Direct strategy of the sequence batcher                             *)
(* (DirectSequenceBatch in src/src/core/sequence_batch_scheduler.cc): the  *)
(* thread of a batcher takes the first request of every slot and runs them *)
(* as one batch, in which the position of a request is its slot.           *)
(*                                                                         *)
(* The thread holds the batcher's mu_ over a pass of several steps; the    *)
(* scheduler's mu_, which ReleaseSequenceSlot takes, it holds for one      *)
(* step, so that clients and the reaper interleave with a pass.            *)
(***************************************************************************)
EXTENDS SequenceBatchScheduler, Integers, FiniteSetsExt

EnforceShape == Config.enforceShape  \* enforce_equal_shape_tensors_ not empty
MinReady == Config.minReady  \* ready sequences that reach
                             \* minimum_slot_utilization_; 0: no queue delay

VARIABLES
  activeCid,  \* slot -> seq_slot_correlation_ids_
  maxActive,  \* batcher -> max_active_seq_slot_
  pass        \* batcher -> where its thread is, and its local state
VARIABLE
  overdue     \* requests older than pending_batch_delay_ns_

directVars == <<activeCid, maxActive, pass, overdue>>
dVars == <<baseVars, directVars>>

\* The thread of batcher b: its place, the next slot of the second loop over
\* the slots, the last one (max_seq_slot), the required shape, the batch, and
\* whether it has been notified.
Top == [pc |-> "top", at |-> 0, max |-> -1, shape |-> 0, batch |-> << >>,
        notified |-> FALSE]
Waiting == [Top EXCEPT !.pc = "wait"]

At(b, where) == pass[b].pc = where
Passing(b) == pass[b].pc \in {"first", "second"}

DirectInit ==
  /\ BaseInit
  /\ activeCid = [s \in Slots |-> 0]
  /\ maxActive = [b \in Batchers |-> -1]
  /\ pass = [b \in Batchers |-> Top]
  /\ overdue = {}

(***************************************************************************)
(* Called by a client or by the reaper.                                *)
(***************************************************************************)
\* Slip: the thread is not told.
EnqueueWithoutWake(x) ==
  LET b == x.slot[1]
  IN  /\ x.step = "enqueue" /\ ~Passing(b)
      /\ queues' = [queues EXCEPT ![x.slot] = Append(@, x.req)]
      /\ activeCid' = [activeCid EXCEPT ![x.slot] = x.req[1]]
      /\ maxActive' = [maxActive EXCEPT ![b] = Max({@, x.slot[2]})]
      /\ Return(x)
      /\ UNCHANGED <<sent, mapVars, stamp, forced, corrid, history, pass,
                     overdue>>

DirectEnqueue(x) ==
  LET b == x.slot[1]
  IN  /\ x.step = "enqueue" /\ ~Passing(b)
      /\ queues' = [queues EXCEPT ![x.slot] = Append(@, x.req)]
      /\ activeCid' = [activeCid EXCEPT ![x.slot] = x.req[1]]
      /\ maxActive' = [maxActive EXCEPT ![b] = Max({@, x.slot[2]})]
      /\ IF At(b, "wait") THEN Goto(x, "notify") ELSE Return(x)
      /\ UNCHANGED <<sent, mapVars, stamp, forced, corrid, history, pass,
                     overdue>>

\* notify_one, outside of the lock: without effect if the thread no longer
\* waits.
Notify(x) ==
  LET b == x.slot[1]
  IN  /\ x.step = "notify" /\ Return(x)
      /\ pass' = [pass EXCEPT ![b].notified = At(b, "wait")]
      /\ UNCHANGED <<sent, mapVars, stamp, forced, queues, corrid, history,
                     activeCid, maxActive, overdue>>

(***************************************************************************)
(* SchedulerThread of batcher b                                            *)
(***************************************************************************)
unlocked == <<sent, stamp, forced, calls, overdue>>

\* The start of a pass, or its first loop over the slots.
FirstLoop(b) == pass[b].pc \in {"top", "first"}

ActiveSlots(b) == {s \in Slots : s[1] = b /\ s[2] <= maxActive[b]}

\* The slots whose first request is null, in the order of the first loop.
ForceEnded(b) ==
  {s \in ActiveSlots(b) : queues[s] # << >> /\ IsNull(Head(queues[s]))}

Vacate(slot, rest) ==
  /\ ReleaseSequenceSlot(slot)
  /\ queues' = [queues EXCEPT ![slot] = ReleasedQueue(rest)]
  /\ activeCid' = [activeCid EXCEPT ![slot] = ReleasedCid]

ReleaseForceEnded(b) ==
  /\ FirstLoop(b)
  /\ \E s \in ForceEnded(b) :
       /\ \A t \in ForceEnded(b) : s[2] <= t[2]
       /\ Vacate(s, Tail(queues[s]))
  /\ pass' = [pass EXCEPT ![b].pc = "first"]
  /\ UNCHANGED <<unlocked, corrid, history, maxActive>>

ReadySlots(b) == {s \in ActiveSlots(b) : queues[s] # << >>}
FirstReady(b) ==
  CHOOSE s \in ReadySlots(b) : \A t \in ReadySlots(b) : s[2] <= t[2]
ShapeOf(r) == FlagsOf(r).shape

\* The queue delay of the oldest request is exceeded, or enough slots are
\* ready.
Executes(b) ==
  \/ MinReady = 0
  \/ \E s \in ReadySlots(b) : Head(queues[s]) \in overdue
  \/ Cardinality(ReadySlots(b)) >= MinReady

\* The end of the first loop, when the batch is executed: the required shape
\* is that of the first request.
StartBatch(b) ==
  /\ FirstLoop(b) /\ ForceEnded(b) = {}
  /\ ReadySlots(b) # {} /\ Executes(b)
  /\ pass' = [pass EXCEPT ![b] =
       [pass[b] EXCEPT !.pc = "second", !.max = Max({s[2] : s \in ReadySlots(b)}),
                       !.shape = ShapeOf(Head(queues[FirstReady(b)]))]]
  /\ UNCHANGED <<unlocked, mapVars, queues, corrid, history, activeCid,
                 maxActive>>

\* The slots up to the last one in use.
Shrunk(b, cidOf) ==
  Max({s[2] : s \in {t \in ActiveSlots(b) : cidOf[t] # 0}} \cup {-1})

\* The end of a pass without a batch: wait for a notification, or until the
\* oldest request is overdue.
Defer(b) ==
  /\ FirstLoop(b) /\ ForceEnded(b) = {}
  /\ ReadySlots(b) = {} \/ ~Executes(b)
  /\ maxActive' = [maxActive EXCEPT ![b] = Shrunk(b, activeCid)]
  /\ pass' = [pass EXCEPT ![b] = Waiting]
  /\ UNCHANGED <<unlocked, mapVars, queues, corrid, history, activeCid>>

\* The second loop over the slots adds r to the batch; with the last slot the
\* pass is over.
Adds(b, r) ==
  LET p == pass[b]
      ends == p.at = p.max
  IN  /\ At(b, "second")
      /\ pass' = [pass EXCEPT ![b] =
           [p EXCEPT !.at = p.at + 1, !.batch = Append(p.batch, r),
                     !.pc = IF ends THEN "run" ELSE "second"]]
      /\ maxActive' = IF ends
                      THEN [maxActive EXCEPT ![b] = Shrunk(b, activeCid')]
                      ELSE maxActive

\* A slot takes no part in the batch if it has no request or one of a shape
\* that cannot join.
Excluded(b, slot) ==
  queues[slot] # << >> =>
    EnforceShape /\ ShapeOf(Head(queues[slot])) # pass[b].shape

\* Slip: a slot that takes no part is skipped.
SkipSlot(b) ==
  LET slot == <<b, pass[b].at>>
      ends == pass[b].at = pass[b].max
  IN  /\ At(b, "second") /\ Excluded(b, slot)
      /\ pass' = [pass EXCEPT ![b].at = @ + 1,
                              ![b].pc = IF ends THEN "run" ELSE @]
      /\ maxActive' = IF ends
                      THEN [maxActive EXCEPT ![b] = Shrunk(b, activeCid)]
                      ELSE maxActive
      /\ UNCHANGED <<unlocked, mapVars, queues, corrid, history, activeCid>>

\* A copy of the first request, marked not ready and with CORRID 0, keeps the
\* others in their positions.
AddNull(b) ==
  LET slot == <<b, pass[b].at>>
  IN  /\ At(b, "second") /\ Excluded(b, slot)
      /\ corrid' = [corrid EXCEPT ![slot] = 0]
      /\ UNCHANGED <<unlocked, mapVars, queues, history, activeCid>>
      /\ Adds(b, None)

AddRequest(b) ==
  LET slot == <<b, pass[b].at>>
      r == Head(queues[slot])
  IN  /\ At(b, "second") /\ ~Excluded(b, slot)
      /\ corrid' = [corrid EXCEPT ![slot] = activeCid[slot]]
      /\ IF End(r) THEN Vacate(slot, Tail(queues[slot]))
         ELSE /\ queues' = [queues EXCEPT ![slot] = Tail(@)]
              /\ UNCHANGED <<mapVars, activeCid>>
      /\ UNCHANGED <<unlocked, history>>
      /\ Adds(b, r)

\* The backend takes the request at position k as that of slot k - 1.
OnSchedule(b) ==
  LET batch == pass[b].batch
  IN  /\ At(b, "run")
      /\ Runs({<< <<b, k - 1>>, batch[k] >> :
                 k \in {n \in 1..Len(batch) : batch[n] # None}})
      /\ pass' = [pass EXCEPT ![b] = Top]
      /\ overdue' = overdue \ Range(batch)
      /\ UNCHANGED <<sent, mapVars, stamp, forced, calls, queues, corrid,
                     activeCid, maxActive>>

\* A notification, or a timeout of the wait.  A wake-up without a reason is a
\* pass that changes nothing, and is left out.
Wake(b) ==
  /\ At(b, "wait")
  /\ pass[b].notified \/ (\E s \in ActiveSlots(b) : queues[s] # << >>)
  /\ pass' = [pass EXCEPT ![b] = Top]
  /\ UNCHANGED <<unlocked, mapVars, queues, corrid, history, activeCid,
                 maxActive>>

\* The first request of a slot has waited for longer than the queue delay.
BecomesOverdue(s) ==
  /\ MinReady > 0 /\ queues[s] # << >>
  /\ Head(queues[s]) \notin overdue /\ ~IsNull(Head(queues[s]))
  /\ overdue' = overdue \cup {Head(queues[s])}
  /\ UNCHANGED <<sent, mapVars, stamp, forced, calls, queues, corrid, history,
                 activeCid, maxActive, pass>>

Thread(b) ==
  \/ ReleaseForceEnded(b) \/ StartBatch(b) \/ Defer(b)
  \/ AddNull(b) \/ AddRequest(b) \/ OnSchedule(b)

DirectBatching ==
  \/ \E x \in calls : DirectEnqueue(x) \/ Notify(x)
  \/ \E b \in Batchers : Thread(b) \/ Wake(b)
  \/ \E s \in Slots : BecomesOverdue(s)

DirectNext ==
  /\ \/ BaseNext /\ UNCHANGED directVars
     \/ DirectBatching
  /\ Fixed

\* Threads run, and time passes.  That a wait of half a second ends by itself
\* is not counted on: a thread wakes when it is notified, or when it has
\* deferred a batch and a request becomes overdue.
WakesUp(b) ==
  /\ pass[b].notified \/ \E s \in ReadySlots(b) : Head(queues[s]) \in overdue
  /\ Wake(b)

Direct(A) == Config.strategy = "direct" /\ A /\ Fixed
DirectBase(A) == Config.strategy = "direct" /\ A /\ UNCHANGED directVars /\ Fixed

DirectFairness ==
  /\ WF_dVars(Direct(\E x \in calls : x.from = "reaper" /\ (DirectEnqueue(x) \/ Notify(x))))
  /\ \A c \in Cids :
       /\ WF_dVars(Direct(\E x \in calls : x.from = "client" /\ x.req[1] = c
                                     /\ (DirectEnqueue(x) \/ Notify(x))))
       /\ WF_dVars(DirectBase(BecomesIdle(c)))
  /\ WF_dVars(DirectBase(ReaperCheck)) /\ WF_dVars(DirectBase(ReaperForceEnd))
  /\ \A b \in AllBatchers :
       /\ WF_dVars(Direct(b \in Batchers /\ Thread(b)))
       /\ WF_dVars(Direct(b \in Batchers /\ WakesUp(b)))
  /\ \A s \in AllSlots : WF_dVars(Direct(s \in Slots /\ BecomesOverdue(s)))
=============================================================================
