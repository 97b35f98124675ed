------------------------ MODULE OldestSequenceBatch ------------------------
(***************************************************************************)
(* The Oldest strategy of the sequence batcher (OldestSequenceBatch in     *)
(* src/src/core/sequence_batch_scheduler.cc): the requests of a slot are   *)
(* given one at a time to a dynamic batcher, the next one when the one     *)
(* before has been released.                                               *)
(*                                                                         *)
(* CompleteAndNext is called by Enqueue, on the thread of a client or of   *)
(* the reaper, and when the backend releases a request.  One turn of its   *)
(* loop is a step; the batcher's mu_ is held from one turn to the next.    *)
(* Of the dynamic batcher, which has a specification of its own            *)
(* (DynamicBatchScheduler), this model keeps a queue from which batches    *)
(* are taken in order.                                                     *)
(***************************************************************************)
EXTENDS SequenceBatchScheduler, Integers

MaxBatchSize == Config.maxBatchSize  \* of the dynamic batcher

VARIABLES
  inFlight,   \* slot -> in_flight_
  issued,     \* batcher -> <<slot, request>> queued in dynamic_batcher_
  executing   \* <<slot, request>> in the backend, not released yet

oldestVars == <<inFlight, issued, executing>>
oVars == <<baseVars, oldestVars>>

OldestInit ==
  /\ BaseInit
  /\ inFlight = [s \in Slots |-> FALSE]
  /\ issued = [b \in Batchers |-> << >>]
  /\ executing = {}

\* A call of CompleteAndNext that goes round its loop again holds mu_.
Looping(b) == \E x \in calls : x.step = "retry" /\ x.slot[1] = b

\* Enqueue: looks at in_flight_ with mu_ held, and acts on it without.
OldestEnqueue(x) ==
  /\ x.step = "enqueue" /\ ~Looping(x.slot[1])
  /\ queues' = [queues EXCEPT ![x.slot] = Append(@, x.req)]
  /\ IF inFlight[x.slot] THEN Return(x) ELSE Goto(x, "next")
  /\ UNCHANGED <<sent, mapVars, stamp, forced, corrid, history, inFlight,
                 issued, executing>>

(***************************************************************************)
(* CompleteAndNext                                                         *)
(***************************************************************************)
Turn(x) ==
  \/ x.step = "next" /\ ~Looping(x.slot[1])
  \/ x.step = "retry"

\* The queue of the slot is empty.
NothingNext(x) ==
  /\ Turn(x) /\ queues[x.slot] = << >>
  /\ inFlight' = [inFlight EXCEPT ![x.slot] = FALSE]
  /\ Return(x)
  /\ UNCHANGED <<sent, mapVars, stamp, forced, queues, corrid, history,
                 issued, executing>>

\* The next request is null: the slot is released, and the first request of a
\* sequence that was backlogged is looked at in another turn.
ForceEndNext(x) ==
  /\ Turn(x) /\ queues[x.slot] # << >> /\ IsNull(Head(queues[x.slot]))
  /\ inFlight' = [inFlight EXCEPT ![x.slot] = FALSE]
  /\ ReleaseSequenceSlot(x.slot)
  /\ queues' = [queues EXCEPT ![x.slot] = ReleasedQueue(Tail(queues[x.slot]))]
  /\ IF ReleasedCid # 0 THEN Goto(x, "retry") ELSE Return(x)
  /\ UNCHANGED <<sent, stamp, forced, corrid, history, issued, executing>>

\* The next request is given to the dynamic batcher, with the override of the
\* slot set to its correlation ID.  An END also releases the slot: a sequence
\* that was backlogged waits in it until the request is released.
IssueNext(x) ==
  LET slot == x.slot
      r == Head(queues[slot])
  IN  /\ Turn(x) /\ queues[slot] # << >> /\ ~IsNull(r)
      /\ corrid' = [corrid EXCEPT ![slot] = r[1]]
      /\ inFlight' = [inFlight EXCEPT ![slot] = TRUE]
      /\ issued' = [issued EXCEPT ![slot[1]] = Append(@, <<slot, r>>)]
      /\ IF End(r)
         THEN /\ ReleaseSequenceSlot(slot)
              /\ queues' = [queues EXCEPT ![slot] = ReleasedQueue(Tail(queues[slot]))]
         ELSE /\ queues' = [queues EXCEPT ![slot] = Tail(@)]
              /\ UNCHANGED mapVars
      /\ Return(x)
      /\ UNCHANGED <<sent, stamp, forced, history, executing>>

CompleteAndNext(x) == NothingNext(x) \/ ForceEndNext(x) \/ IssueNext(x)

(***************************************************************************)
(* The dynamic batcher and the backend                                     *)
(***************************************************************************)
ExecuteBatch(b) ==
  \E n \in 1..Len(issued[b]) :
    LET batch == Range(SubSeq(issued[b], 1, n))
    IN  /\ n <= MaxBatchSize
        /\ Runs(batch)
        /\ executing' = executing \cup batch
        /\ issued' = [issued EXCEPT ![b] = SubSeq(@, n + 1, Len(@))]
        /\ UNCHANGED <<sent, mapVars, stamp, forced, calls, queues, corrid,
                       inFlight>>

\* The release of a request calls back CompleteAndNext for its slot.
ReleaseRequest(e) ==
  /\ e \in executing
  /\ executing' = executing \ {e}
  /\ calls' = calls \cup {Call("backend", e[2], e[1], "next")}
  /\ UNCHANGED <<sent, mapVars, stamp, forced, queues, corrid, history,
                 inFlight, issued>>

OldestBatching ==
  \/ \E x \in calls : OldestEnqueue(x) \/ CompleteAndNext(x)
  \/ \E b \in Batchers : ExecuteBatch(b)
  \/ \E e \in executing : ReleaseRequest(e)

OldestNext ==
  /\ \/ BaseNext /\ UNCHANGED oldestVars
     \/ OldestBatching
  /\ Fixed

\* Threads run, time passes, the dynamic batcher runs what it is given (it is
\* shown to in its own specification) and the backend releases it.
Oldest(A) == Config.strategy = "oldest" /\ A /\ Fixed
OldestBase(A) == Config.strategy = "oldest" /\ A /\ UNCHANGED oldestVars /\ Fixed

OldestFairness ==
  /\ WF_oVars(Oldest(\E x \in calls :
                      x.from = "reaper" /\ (OldestEnqueue(x) \/ CompleteAndNext(x))))
  /\ \A c \in Cids :
       /\ WF_oVars(Oldest(\E x \in calls : x.from = "client" /\ x.req[1] = c
                                    /\ (OldestEnqueue(x) \/ CompleteAndNext(x))))
       /\ WF_oVars(Oldest(\E x \in calls : x.from = "backend" /\ x.req[1] = c
                                    /\ CompleteAndNext(x)))
       /\ WF_oVars(Oldest(\E e \in executing : e[2][1] = c /\ ReleaseRequest(e)))
       /\ WF_oVars(OldestBase(BecomesIdle(c)))
  /\ WF_oVars(OldestBase(ReaperCheck)) /\ WF_oVars(OldestBase(ReaperForceEnd))
  /\ \A b \in AllBatchers : WF_oVars(Oldest(b \in Batchers /\ ExecuteBatch(b)))

\* The requests of slot s in the dynamic batcher, the backend, or on their way
\* out of it: released, with the call of CompleteAndNext to come.
IssuedOf(s) == {e \in UNION {Range(issued[b]) : b \in Batchers} : e[1] = s}
ExecutingOf(s) == {e \in executing : e[1] = s}
ReturningOf(s) ==
  {<<s, x.req>> : x \in {y \in calls : y.from = "backend" /\ y.slot = s
                                         /\ y.step = "next"}}
InFlightOf(s) == IssuedOf(s) \cup ExecutingOf(s) \cup ReturningOf(s)

\* At most one request of a sequence is scheduled at a time: what in_flight_
\* is for.
AtMostOneScheduled == \A s \in Slots : Cardinality(InFlightOf(s)) <= 1

\* When each sequence is sent by one thread, at most one request of a slot is
\* in the dynamic batcher or the backend, in_flight_ says whether there is
\* one, and the override of the slot, which that request uses, still holds its
\* correlation ID.
OneInFlight ==
  /\ AtMostOneScheduled
  /\ \A s \in Slots :
       /\ inFlight[s] <=> InFlightOf(s) # {}
       /\ \A e \in InFlightOf(s) : corrid[s] = e[2][1]
=============================================================================
