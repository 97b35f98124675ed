-------------------------- MODULE CompletionQueue --------------------------
(***************************************************************************)
(* The response side of the dynamic batcher: completion_queue_, the        *)
(* response delegator a request gets when it is scheduled, and             *)
(* DynamicBatchScheduler::FinalizeResponses                                *)
(* (src/src/core/dynamic_batch_scheduler.cc).                              *)
(*                                                                         *)
(* It exists when preserve_ordering_ is set: every scheduled request owns  *)
(* a slot of completion_queue_, in scheduling order.  A backend thread     *)
(* that has a response puts it into the request's slot, and then flushes   *)
(* the front of the queue as far as responses are ready.  A request is     *)
(* answered by one backend thread, different requests by different ones,   *)
(* so the request's identity also names the thread.                        *)
(***************************************************************************)
EXTENDS Integers, Sequences, FiniteSets

CONSTANTS
  Requests,          \* request identities
  MaxResponses       \* bound: responses one request may produce

ASSUME CompletionQueueAssumption ==
  /\ IsFiniteSet(Requests) /\ 0 \notin Requests
  /\ MaxResponses \in Nat \ {0}

VARIABLES
  order,       \* the requests in the order of their slots, popped ones too
  popped,      \* completion_queue_ holds the slots of order[popped+1 ..]
  slot,        \* request -> responses waiting in its slot
  resp,        \* request -> state of the backend thread that answers it
  outbox,      \* local 'responses' of the running FinalizeResponses
  finalizeMtx, \* holder of finalize_mtx, or 0
  delivered    \* responses in the order clients received them

cqVars == <<order, popped, slot, resp, outbox, finalizeMtx, delivered>>

\* The n-th response of a request; 'final' is the COMPLETE_FINAL flag.
Response == [req : Requests, n : 1..MaxResponses, final : BOOLEAN]

RespState == [sent : 0..MaxResponses, final : BOOLEAN,
              at : {"idle", "finalize", "collect", "send"}]

CQTypeOK ==
  /\ order \in Seq(Requests)
  /\ popped \in 0..Len(order)
  /\ slot \in [Requests -> Seq(Response)]
  /\ resp \in [Requests -> RespState]
  /\ outbox \in Seq(Response)
  /\ finalizeMtx \in Requests \cup {0}
  /\ delivered \in Seq(Response)

CQInit ==
  /\ order = << >> /\ popped = 0
  /\ slot = [r \in Requests |-> << >>]
  /\ resp = [r \in Requests |-> [sent |-> 0, final |-> FALSE, at |-> "idle"]]
  /\ outbox = << >> /\ finalizeMtx = 0 /\ delivered = << >>

Scheduled == {order[i] : i \in 1..Len(order)}

\* Nobody is inside the critical section of completion_queue_mtx_ that
\* FinalizeResponses keeps over several steps.
QueueMtxFree == \A r \in Requests : resp[r].at # "collect"

(***************************************************************************)
(* The scheduler thread gives each request of a batch its slot and sets    *)
(* the response delegator.                                                 *)
(***************************************************************************)
OpenSlots(batch) ==
  /\ QueueMtxFree
  /\ order' = order \o batch
  /\ UNCHANGED <<popped, slot, resp, outbox, finalizeMtx, delivered>>

\* The backend produces a response for r; after the final one it is silent.
Produce(r, final) ==
  /\ resp[r].at = "idle" /\ ~resp[r].final
  /\ resp[r].sent + 1 = MaxResponses => final

Produced(r, final) ==
  [req |-> r, n |-> resp[r].sent + 1, final |-> final]

(***************************************************************************)
(* The delegator's first half: the response goes into the request's slot.  *)
(***************************************************************************)
PutResponse(r, final) ==
  /\ QueueMtxFree /\ r \in Scheduled
  /\ Produce(r, final)
  /\ slot' = [slot EXCEPT ![r] = Append(@, Produced(r, final))]
  /\ resp' = [resp EXCEPT ![r] = [sent |-> @.sent + 1, final |-> final,
                                  at |-> "finalize"]]
  /\ UNCHANGED <<order, popped, outbox, finalizeMtx, delivered>>

(***************************************************************************)
(* FinalizeResponses.  It takes finalize_mtx, then completion_queue_mtx_;  *)
(* empties slots from the front: a slot whose last response is final is    *)
(* popped, another is cleared and stays the front; then sends what it      *)
(* collected with only finalize_mtx held.                                  *)
(***************************************************************************)
EnterFinalize(r) ==
  /\ resp[r].at = "finalize" /\ finalizeMtx = 0 /\ QueueMtxFree
  /\ finalizeMtx' = r
  /\ resp' = [resp EXCEPT ![r].at = "collect"]
  /\ UNCHANGED <<order, popped, slot, outbox, delivered>>

FrontReady == popped < Len(order) /\ slot[order[popped + 1]] # << >>

\* Slips: any ready slot is collected; the slot is not cleared; it is popped
\* whatever its last response; only one slot is collected.
CollectAny(r) ==
  /\ resp[r].at = "collect"
  /\ \E i \in popped + 1..Len(order) :
       /\ slot[order[i]] # << >>
       /\ outbox' = outbox \o slot[order[i]]
       /\ slot' = [slot EXCEPT ![order[i]] = << >>]
       /\ popped' = IF i = popped + 1 THEN i ELSE popped
  /\ UNCHANGED <<order, resp, finalizeMtx, delivered>>
CollectKeeps(r) ==
  /\ resp[r].at = "collect" /\ FrontReady
  /\ outbox' = outbox \o slot[order[popped + 1]]
  /\ UNCHANGED <<order, popped, slot, resp, finalizeMtx, delivered>>
CollectPops(r) ==
  /\ resp[r].at = "collect" /\ FrontReady
  /\ outbox' = outbox \o slot[order[popped + 1]]
  /\ slot' = [slot EXCEPT ![order[popped + 1]] = << >>]
  /\ popped' = popped + 1
  /\ UNCHANGED <<order, resp, finalizeMtx, delivered>>
CollectOnce(r) ==
  /\ resp[r].at = "collect" /\ FrontReady
  /\ LET f == order[popped + 1]
     IN  /\ outbox' = outbox \o slot[f]
         /\ slot' = [slot EXCEPT ![f] = << >>]
         /\ popped' = IF slot[f][Len(slot[f])].final THEN popped + 1 ELSE popped
  /\ resp' = [resp EXCEPT ![r].at = "send"]
  /\ UNCHANGED <<order, finalizeMtx, delivered>>

CollectFront(r) ==
  /\ resp[r].at = "collect" /\ FrontReady
  /\ LET f == order[popped + 1]
         complete == slot[f][Len(slot[f])].final
     IN  /\ outbox' = outbox \o slot[f]
         /\ slot' = [slot EXCEPT ![f] = << >>]
         /\ popped' = IF complete THEN popped + 1 ELSE popped
  /\ UNCHANGED <<order, resp, finalizeMtx, delivered>>

CollectDone(r) ==
  /\ resp[r].at = "collect" /\ ~FrontReady
  /\ resp' = [resp EXCEPT ![r].at = "send"]
  /\ UNCHANGED <<order, popped, slot, outbox, finalizeMtx, delivered>>

SendNext(r) ==
  /\ resp[r].at = "send" /\ outbox # << >>
  /\ delivered' = Append(delivered, Head(outbox))
  /\ outbox' = Tail(outbox)
  /\ UNCHANGED <<order, popped, slot, resp, finalizeMtx>>

LeaveFinalize(r) ==
  /\ resp[r].at = "send" /\ outbox = << >>
  /\ finalizeMtx' = 0
  /\ resp' = [resp EXCEPT ![r].at = "idle"]
  /\ UNCHANGED <<order, popped, slot, outbox, delivered>>

Respond(r) ==
  \/ \E final \in BOOLEAN : PutResponse(r, final)
  \/ EnterFinalize(r)
  \/ CollectFront(r)
  \/ CollectDone(r)
  \/ SendNext(r)
  \/ LeaveFinalize(r)

(***************************************************************************)
(* On its own the component meets a scheduler that schedules batches of    *)
(* requests in any order, each request once.                               *)
(***************************************************************************)
Batches == UNION {[1..n -> Requests] : n \in 1..Cardinality(Requests)}

ScheduleBatch(b) ==
  /\ \A i, j \in 1..Len(b) : i # j => b[i] # b[j]
  /\ \A i \in 1..Len(b) : b[i] \notin Scheduled
  /\ OpenSlots(b)

CQNext ==
  \/ \E b \in Batches : ScheduleBatch(b)
  \/ \E r \in Requests : Respond(r)

CQSafety == CQInit /\ [][CQNext]_cqVars

----------------------------------------------------------------------------
Pos(r) == CHOOSE i \in 1..Len(order) : order[i] = r

\* preserve_ordering_: "the ordering of responses matches the order of
\* requests even when there are multiple scheduler threads"
\* (dynamic_batch_scheduler.h): no client sees a response of a request before
\* one of a request scheduled earlier, whichever backend thread flushes.
InOrder ==
  \A i, j \in 1..Len(delivered) :
    i < j => Pos(delivered[i].req) <= Pos(delivered[j].req)

\* The responses of r in s are its first n, each once and in their order.
FirstOnes(s, r, n) ==
  LET mine == {i \in 1..Len(s) : s[i].req = r}
  IN  /\ {s[i].n : i \in mine} = 1..n
      /\ \A i, j \in mine : i < j => s[i].n < s[j].n

\* No response is lost, duplicated or overtaken by a later one of the same
\* request on its way slot -> outbox -> client, although clear() and
\* pop_front() empty slots that other threads are filling.
NothingLost ==
  \A r \in Requests :
    FirstOnes(delivered \o outbox \o slot[r], r, resp[r].sent)

\* A slot is popped only when the last response of its request has been
\* collected: a popped slot must never be written again (the delegator holds
\* a raw pointer to it).
PoppedIsFinal ==
  \A i \in 1..popped : resp[order[i]].final /\ slot[order[i]] = << >>

\* Every response a backend produces reaches its client: whichever thread
\* holds finalize_mtx when the front completes, no response is left behind
\* in a slot that could be flushed.
NoneStranded ==
  (\A r \in Requests : resp[r].at = "idle") =>
    outbox = << >> /\ ~FrontReady
=============================================================================
