----------------------- MODULE DynamicBatchScheduler -----------------------
(***************************************************************************)
(* The dynamic batcher (src/src/core/dynamic_batch_scheduler.{h,cc}):      *)
(* clients enqueue requests, scheduler threads form batches out of the     *)
(* priority queue under mu_ and hand them to the backend, and answer the   *)
(* requests whose queue timeout expired.  Responses take the way of        *)
(* module CompletionQueue.                                                 *)
(*                                                                         *)
(* What a thread does under one hold of mu_ is one action, except that     *)
(* GetDynamicBatch and the dequeuing of the batch take one action per loop *)
(* iteration, with mu_ held: only the clock and the backend move then.     *)
(* cv_ is the set of threads at "waiting": notify_one moves one of them to *)
(* "woken", and a wait_for also ends when the clock reaches its deadline.  *)
(***************************************************************************)
EXTENDS PriorityQueue, CompletionQueue

\* The configuration (PriorityQueue's Config) and the bounds of a run.
Threads == Config.threads       \* one scheduler thread per runner
RequestKinds == Config.kinds    \* the requests a client may send
DynamicBatching == Config.dynamicBatching       \* dynamic_batching_enabled_
MaxBatchSize == Config.maxBatchSize             \* max_batch_size_
Preferred == Config.preferred                   \* preferred_batch_sizes_
MaxQueueDelay == Config.maxQueueDelay           \* pending_batch_delay_ns_
PreserveOrdering == Config.preserveOrdering     \* preserve_ordering_
EnforceEqualShape == Config.enforceEqualShape   \* enforce_equal_shape_tensors_
DefaultWait == Config.defaultWait    \* default_wait_microseconds, in clock units
Arrivals == Config.arrivals          \* bound: the requests that may arrive
MayUnload == Config.mayUnload        \* bound: is the model ever unloaded
LastArrival == Config.lastArrival    \* bound: no request arrives after this time
MaxTime == Config.maxTime            \* bound: the clock stops, all timers fired

\* Values of dtor that are not a scheduler thread.
Phases == {"none", "client", "backend", "manager", "destroyed"}

Kinds(c) == [batch : Nat \ {0}, priority : LevelsOf(c.priorityLevels),
             timeout : Nat, shape : Nat]

ASSUME DynamicBatchSchedulerAssumption ==
  /\ Requests \subseteq Nat
  /\ \A n \in DOMAIN ModelConfigs :
       LET c == ModelConfigs[n]
       IN  /\ IsFiniteSet(c.threads) /\ c.threads # {}
           /\ 0 \notin c.threads /\ c.threads \cap Phases = {}
           /\ c.kinds \subseteq Kinds(c)
           /\ {c.dynamicBatching, c.preserveOrdering, c.enforceEqualShape,
               c.mayUnload} \subseteq BOOLEAN
           /\ c.maxBatchSize \in Nat \ {0}
           /\ c.preferred \subseteq 1..c.maxBatchSize
           /\ c.maxQueueDelay \in Nat /\ c.defaultWait \in Nat \ {0}
           /\ c.arrivals \subseteq Requests
           /\ c.lastArrival \in Nat \ {0} /\ c.lastArrival <= c.maxTime

VARIABLES
  now,       \* steady_clock
  mu,        \* the thread that keeps mu_ across actions, or 0
  q,         \* queue_
  pendingBatchSize, queuedBatchSize, nextPreferred,
  requiredEqual,  \* the request required_equal_inputs_ points into, or 0
  idleCnt,   \* idle_scheduler_thread_cnt_
  scan,      \* locals of GetDynamicBatch in the thread that holds mu_
  st,        \* request -> where it is in its life
  req,       \* request -> the InferenceRequest object while it exists
  notify,    \* clients that left Enqueue's critical section to notify_one
  pc, requests, rejected, wake, deadline,  \* scheduler thread -> its locals
  unloaded,  \* the model manager has dropped its handle of the backend
  exit,      \* scheduler_threads_exit_
  dtor       \* ~DynamicBatchScheduler: the thread running it, or a phase

batchVars == <<pendingBatchSize, queuedBatchSize, nextPreferred, requiredEqual>>
clientVars == <<st, req, notify>>
lifeVars == <<unloaded, exit, dtor>>
vars == <<config, now, mu, q, batchVars, idleCnt, scan, clientVars, pc, requests,
          rejected, wake, deadline, lifeVars, cqVars>>

NoScan == [best |-> 0, sendNow |-> FALSE, grown |-> FALSE, rejCnt |-> 0,
           rejBatch |-> 0]
NoRequest == [id |-> 0, batch |-> 0, priority |-> 0, timeout |-> 0,
              shape |-> 0, start |-> 0, expiry |-> 0, seq |-> 0]

Init ==
  /\ CQInit
  /\ config \in DOMAIN ModelConfigs
  /\ now = 1 /\ mu = 0 /\ q = EmptyQueue
  /\ pendingBatchSize = 0 /\ queuedBatchSize = 0 /\ nextPreferred = 0
  /\ requiredEqual = 0 /\ idleCnt = 0 /\ scan = NoScan
  /\ st = [r \in Requests |-> "new"]
  /\ req = [r \in Requests |-> NoRequest]
  /\ notify = {}
  /\ pc = [t \in Threads |-> "top"]
  /\ requests = [t \in Threads |-> << >>]
  /\ rejected = [t \in Threads |-> << >>]
  /\ wake = [t \in Threads |-> FALSE]
  /\ deadline = [t \in Threads |-> 0]
  /\ unloaded = FALSE /\ exit = FALSE /\ dtor = "none"

MaxPreferred == IF Preferred = {} THEN 0
                ELSE CHOOSE p \in Preferred : \A x \in Preferred : x <= p

\* preferred_batch_sizes_.upper_bound(n), else the smallest one, else 0.
NextPreferred(n) ==
  LET above == {p \in Preferred : p > n}
      from  == IF above # {} THEN above ELSE Preferred
  IN  IF from = {} THEN 0 ELSE CHOOSE p \in from : \A x \in from : p <= x

Waiting == {t \in Threads : pc[t] = "waiting"}

\* cv_.notify_one()
NotifyOne ==
  IF Waiting = {} THEN UNCHANGED pc
  ELSE \E t \in Waiting : pc' = [pc EXCEPT ![t] = "woken"]

(***************************************************************************)
(* A request and the model manager each hold a handle of the backend that  *)
(* owns this scheduler.  Whoever drops the last one runs the destructor.   *)
(***************************************************************************)
Finished == {"new", "refused", "timedout", "released"}
DropHandle(states, gone, by) ==
  dtor' = IF gone /\ \A r \in Requests : states[r] \in Finished
          THEN by ELSE dtor

(***************************************************************************)
(* Clients.                                                                *)
(***************************************************************************)

\* A client starts Enqueue: CaptureQueueStartNs runs before mu_ is taken, so
\* requests can enter the queue in another order than their start times.
CaptureQueueStart(r) ==
  /\ st[r] = "new" /\ r \in Arrivals /\ ~unloaded /\ now <= LastArrival
  /\ \A r2 \in Requests : r2 < r => st[r2] # "new"
  /\ \E k \in RequestKinds :
       req' = [req EXCEPT ![r] =
                 [id |-> r, batch |-> k.batch, priority |-> k.priority,
                  timeout |-> k.timeout, shape |-> k.shape, start |-> now,
                  expiry |-> 0, seq |-> 0]]
  /\ st' = [st EXCEPT ![r] = "submitting"]
  /\ UNCHANGED <<now, mu, q, batchVars, idleCnt, scan, notify, pc,
                 requests, rejected, wake, deadline, lifeVars, cqVars>>

\* The arrival number of the next request to enter the queue (history only).
NextSeq == 1 + Cardinality({r \in Requests : st[r] \notin
                              {"new", "submitting", "refused"}})

\* queued_batch_size_ is raised before the queue can refuse the request.
Refuse(r) ==
  /\ st[r] = "submitting" /\ mu = 0
  /\ PolicyFull(q, req[r].priority)
  /\ queuedBatchSize' = queuedBatchSize + req[r].batch
  /\ st' = [st EXCEPT ![r] = "refused"]
  /\ req' = [req EXCEPT ![r] = NoRequest]
  /\ DropHandle(st', unloaded, "client")
  /\ UNCHANGED <<now, mu, q, pendingBatchSize, nextPreferred, requiredEqual,
                 idleCnt, scan, notify, pc, requests, rejected, wake,
                 deadline, unloaded, exit, cqVars>>

Enqueue(r) ==
  /\ st[r] = "submitting" /\ mu = 0
  /\ ~PolicyFull(q, req[r].priority)
  /\ queuedBatchSize' = queuedBatchSize + req[r].batch
  /\ LET entry == [req[r] EXCEPT !.seq = NextSeq]
     IN  /\ q' = EnqueueAt(q, req[r].priority, entry, now)
         /\ req' = [req EXCEPT ![r] = entry]
  /\ st' = [st EXCEPT ![r] = "queued"]
  /\ notify' = IF /\ idleCnt > 0
                  /\ EnforceEqualShape \/ queuedBatchSize' >= nextPreferred
               THEN notify \cup {r} ELSE notify
  /\ UNCHANGED <<now, mu, pendingBatchSize, nextPreferred, requiredEqual,
                 idleCnt, scan, pc, requests, rejected, wake, deadline,
                 lifeVars, cqVars>>

\* Enqueue's cv_.notify_one(), after mu_ is released.
ClientNotify(r) ==
  /\ r \in notify
  /\ notify' = notify \ {r}
  /\ NotifyOne
  /\ UNCHANGED <<now, mu, q, batchVars, idleCnt, scan, st, req,
                 requests, rejected, wake, deadline, lifeVars, cqVars>>

(***************************************************************************)
(* SchedulerThread: the top of the loop.                                   *)
(***************************************************************************)
Runs(t, at) == pc[t] = at /\ dtor # t

CheckExit(t) ==
  /\ Runs(t, "top")
  /\ pc' = [pc EXCEPT ![t] = IF exit THEN "exited" ELSE "lock"]
  /\ UNCHANGED <<now, mu, q, batchVars, idleCnt, scan, clientVars, requests,
                 rejected, wake, deadline, lifeVars, cqVars>>

\* Nothing is queued: wait for a notification or the default timeout.
WaitForWork(t) ==
  /\ Runs(t, "lock") /\ mu = 0 /\ Empty(q)
  /\ pc' = [pc EXCEPT ![t] = "waiting"]
  /\ deadline' = [deadline EXCEPT ![t] = now + DefaultWait]
  /\ idleCnt' = idleCnt + 1
  /\ UNCHANGED <<now, mu, q, batchVars, scan, clientVars, requests, rejected,
                 wake, lifeVars, cqVars>>

TimerNever(t) == FALSE    \* slip: wait instead of wait_for
TimerFired(t) == now >= deadline[t] \/ now = MaxTime

WakeUp(t) ==
  /\ \/ Runs(t, "woken")
     \/ Runs(t, "waiting") /\ TimerFired(t)
  /\ mu = 0
  /\ idleCnt' = idleCnt - 1
  /\ pc' = [pc EXCEPT ![t] = "after"]
  /\ deadline' = [deadline EXCEPT ![t] = 0]
  /\ UNCHANGED <<now, mu, q, batchVars, scan, clientVars, requests, rejected,
                 wake, lifeVars, cqVars>>

Ids(s) == [i \in 1..Len(s) |-> s[i].id]

\* Slip: a request is given two slots.
DelegateTwice(batch) ==
  IF PreserveOrdering THEN OpenSlots(Ids(batch) \o Ids(batch))
  ELSE UNCHANGED cqVars

\* With preserve_ordering_ each request of the batch gets its slot.
Delegate(batch) ==
  IF PreserveOrdering THEN OpenSlots(Ids(batch)) ELSE UNCHANGED cqVars

\* Batching disabled: the thread takes one request.
TakeOne(t) ==
  /\ Runs(t, "lock") /\ mu = 0 /\ ~Empty(q) /\ ~DynamicBatching
  /\ requests' = [requests EXCEPT ![t] = <<DequeueHead(q)>>]
  /\ Delegate(<<DequeueHead(q)>>)
  /\ q' = Dequeue(q)
  /\ pc' = [pc EXCEPT ![t] = "after"]
  /\ UNCHANGED <<now, mu, batchVars, idleCnt, scan, clientVars, rejected,
                 wake, deadline, lifeVars>>

(***************************************************************************)
(* GetDynamicBatch, with mu_ held.                                         *)
(***************************************************************************)
BeginBatch(t) ==
  /\ Runs(t, "lock") /\ mu = 0 /\ ~Empty(q) /\ DynamicBatching
  /\ mu' = t
  /\ q' = IF IsCursorValid(q, now) THEN q ELSE ResetCursor(q)
  /\ pendingBatchSize' = IF IsCursorValid(q, now) THEN pendingBatchSize ELSE 0
  /\ scan' = NoScan
  /\ pc' = [pc EXCEPT ![t] = "policy"]
  /\ UNCHANGED <<now, queuedBatchSize, nextPreferred, requiredEqual, idleCnt,
                 clientVars, requests, rejected, wake, deadline, lifeVars,
                 cqVars>>

\* ApplyPolicyAtCursor: the request at the cursor has timed out.
Expire(t) ==
  /\ Runs(t, "policy") /\ CursorExpired(q, now)
  /\ LET r == RequestAtCursor(q)
         n == Len(ExpireAtCursor(q).rejected) - Len(q.rejected)
     IN  /\ scan' = [scan EXCEPT !.rejCnt = @ + n, !.rejBatch = @ + n * r.batch]
         /\ st' = IF n = 0 THEN st ELSE [st EXCEPT ![r.id] = "expired"]
  /\ q' = ExpireAtCursor(q)
  /\ UNCHANGED <<now, mu, batchVars, idleCnt, req, notify, pc,
                 requests, rejected, wake, deadline, lifeVars, cqVars>>

\* ApplyPolicyAtCursor: this level has no request for the batch, the next may.
NextLevel(t) ==
  /\ Runs(t, "policy") /\ ~CursorExpired(q, now) /\ CursorSkips(q, scan.rejCnt)
  /\ q' = SkipLevel(q)
  /\ UNCHANGED <<now, mu, batchVars, idleCnt, scan, clientVars, pc, requests,
                 rejected, wake, deadline, lifeVars, cqVars>>

\* ApplyPolicyAtCursor returns; the batch that just grew may be a preferred one.
EndPolicy(t) ==
  /\ Runs(t, "policy")
  /\ ~CursorExpired(q, now) /\ ~CursorSkips(q, scan.rejCnt)
  /\ LET settled == PolicyApplied(q, scan.rejCnt)
         preferred == scan.grown /\ pendingBatchSize \in Preferred
     IN  /\ q' = IF preferred THEN MarkCursor(settled) ELSE settled
         /\ scan' = [scan EXCEPT !.rejCnt = 0, !.rejBatch = 0,
                       !.best = IF preferred THEN pendingBatchSize ELSE @]
  /\ queuedBatchSize' = queuedBatchSize - scan.rejBatch
  /\ pc' = [pc EXCEPT ![t] = "examine"]
  /\ UNCHANGED <<now, mu, pendingBatchSize, nextPreferred, requiredEqual,
                 idleCnt, clientVars, requests, rejected, wake, deadline,
                 lifeVars, cqVars>>

Grown(r) == pendingBatchSize + r.batch

\* The next request would make the batch larger than every preferred size.
BeyondPreferred(r) ==
  q.cursor.count > 0 /\ Grown(r) > MaxPreferred /\ scan.best = 0

\* Slip: the shapes are not compared.
JoinsAnyShape(r) == q.cursor.count > 0 /\ Grown(r) > MaxBatchSize

\* The next request cannot join the pending batch.
CannotJoin(r) ==
  /\ q.cursor.count > 0
  /\ \/ Grown(r) > MaxBatchSize
     \/ EnforceEqualShape /\ req[requiredEqual].shape # r.shape

\* InitRequiredEqualInputs: the first request of a batch sets the reference.
InitRequired(r) == IF EnforceEqualShape /\ q.cursor.count = 0
                   THEN r.id ELSE requiredEqual

\* One iteration of the loop over the queued requests.
Examine(t) ==
  /\ Runs(t, "examine") /\ ~CursorEnd(q)
  /\ LET r == RequestAtCursor(q)
         q1 == IF BeyondPreferred(r) THEN MarkCursor(q) ELSE q
         best == IF BeyondPreferred(r) THEN pendingBatchSize ELSE scan.best
     IN  \/ /\ CannotJoin(r)
            /\ q' = q1
            /\ scan' = [scan EXCEPT !.best = best, !.sendNow = TRUE]
            /\ pc' = [pc EXCEPT ![t] = "decide"]
            /\ UNCHANGED <<pendingBatchSize, requiredEqual>>
         \/ /\ ~CannotJoin(r)
            /\ q' = AdvanceCursor(q1)
            /\ scan' = [scan EXCEPT !.best = best, !.grown = TRUE]
            /\ pendingBatchSize' = Grown(r)
            /\ requiredEqual' = InitRequired(r)
            /\ pc' = [pc EXCEPT ![t] = "policy"]
  /\ UNCHANGED <<now, mu, queuedBatchSize, nextPreferred, idleCnt, clientVars,
                 requests, rejected, wake, deadline, lifeVars, cqVars>>

\* The loop is over: the next request cannot join, or there is none.
Decides(t) ==
  \/ Runs(t, "decide")
  \/ Runs(t, "examine") /\ CursorEnd(q)

DelayNs == now - q.cursor.oldest
DelayExceeded == DelayNs >= MaxQueueDelay
SendPreferred == scan.best # 0 /\ ~DelayExceeded
CannotGrow == \/ scan.sendNow \/ DelayExceeded
              \/ pendingBatchSize >= MaxPreferred

\* The time to wait for more requests, truncated to microseconds; 0 sends now.
WaitUs ==
  LET left == MaxQueueDelay - DelayNs
      toTimeout == q.cursor.closest - now
      ns == CASE q.cursor.closest = 0 -> left
              [] q.cursor.closest # 0 /\ toTimeout >= 0 ->
                   IF toTimeout < left THEN toTimeout ELSE left
              [] OTHER -> NsPerUs
  IN  ns \div NsPerUs

\* GetDynamicBatch returns 0 with a pending batch: dequeue it.
SendBatch(t) ==
  /\ Decides(t)
  /\ \/ SendPreferred
     \/ q.cursor.count # 0 /\ (CannotGrow \/ WaitUs = 0)
  /\ LET q1 == ReleaseRejected(q)
     IN  q' = IF SendPreferred THEN SetCursorToMark(q1) ELSE q1
  /\ pendingBatchSize' = IF SendPreferred THEN scan.best ELSE pendingBatchSize
  /\ nextPreferred' = IF SendPreferred \/ CannotGrow THEN nextPreferred
                      ELSE NextPreferred(pendingBatchSize)
  /\ rejected' = [rejected EXCEPT ![t] = q.rejected]
  /\ pc' = [pc EXCEPT ![t] = "dequeue"]
  /\ UNCHANGED <<now, mu, queuedBatchSize, requiredEqual, idleCnt, scan,
                 clientVars, requests, wake, deadline, lifeVars, cqVars>>

\* It returns 0 without one: every examined request was rejected.
NoBatch(t) ==
  /\ Decides(t) /\ ~SendPreferred /\ q.cursor.count = 0
  /\ q' = ReleaseRejected(q)
  /\ rejected' = [rejected EXCEPT ![t] = q.rejected]
  /\ mu' = 0 /\ scan' = NoScan
  /\ pc' = [pc EXCEPT ![t] = "after"]
  /\ UNCHANGED <<now, batchVars, idleCnt, clientVars, requests, wake,
                 deadline, lifeVars, cqVars>>

\* It returns a wait time: the thread waits, keeping what it has to reject.
WaitForMore(t) ==
  /\ Decides(t) /\ ~SendPreferred /\ q.cursor.count # 0
  /\ ~CannotGrow /\ WaitUs > 0
  /\ q' = ReleaseRejected(q)
  /\ rejected' = [rejected EXCEPT ![t] = q.rejected]
  /\ nextPreferred' = NextPreferred(pendingBatchSize)
  /\ mu' = 0 /\ scan' = NoScan
  /\ idleCnt' = idleCnt + 1
  /\ deadline' = [deadline EXCEPT ![t] = now + WaitUs * NsPerUs]
  /\ pc' = [pc EXCEPT ![t] = "waiting"]
  /\ UNCHANGED <<now, pendingBatchSize, queuedBatchSize, requiredEqual,
                 clientVars, requests, wake, lifeVars, cqVars>>

(***************************************************************************)
(* SchedulerThread: extracting the batch, and the rest of the loop.        *)
(* Dequeue cannot fail here (PendingBatchIsQueued), so the recovery from   *)
(* "Failed to retrieve request from scheduler queue" has no action.        *)
(***************************************************************************)
DequeueOne(t) ==
  /\ Runs(t, "dequeue") /\ Len(requests[t]) < q.cursor.count
  /\ requests' = [requests EXCEPT ![t] = Append(@, DequeueHead(q))]
  /\ q' = Dequeue(q)
  /\ UNCHANGED <<now, mu, batchVars, idleCnt, scan, clientVars, pc, rejected,
                 wake, deadline, lifeVars, cqVars>>

\* Slip: next_preferred_batch_size_ is not reset.
ExtractKeepsNext(t) ==
  /\ Runs(t, "dequeue") /\ Len(requests[t]) = q.cursor.count
  /\ Delegate(requests[t])
  /\ queuedBatchSize' = queuedBatchSize - pendingBatchSize
  /\ pendingBatchSize' = 0 /\ requiredEqual' = 0
  /\ mu' = 0 /\ scan' = NoScan
  /\ pc' = [pc EXCEPT ![t] = "after"]
  /\ UNCHANGED <<now, q, nextPreferred, idleCnt, clientVars, requests,
                 rejected, wake, deadline, lifeVars>>

ExtractDone(t) ==
  /\ Runs(t, "dequeue") /\ Len(requests[t]) = q.cursor.count
  /\ Delegate(requests[t])
  /\ queuedBatchSize' = queuedBatchSize - pendingBatchSize
  /\ nextPreferred' = 0
  /\ pendingBatchSize' = 0
  /\ requiredEqual' = 0
  /\ wake' = [wake EXCEPT ![t] = ~Empty(q) /\ idleCnt > 0]
  /\ mu' = 0 /\ scan' = NoScan
  /\ pc' = [pc EXCEPT ![t] = "after"]
  /\ UNCHANGED <<now, q, idleCnt, clientVars, requests, rejected,
                 deadline, lifeVars>>

WakeOther(t) ==
  /\ Runs(t, "after") /\ wake[t]
  /\ wake' = [wake EXCEPT ![t] = FALSE]
  /\ NotifyOne
  /\ UNCHANGED <<now, mu, q, batchVars, idleCnt, scan, clientVars, requests,
                 rejected, deadline, lifeVars, cqVars>>

InBatch(t, r) == \E i \in 1..Len(requests[t]) : requests[t][i].id = r

\* OnSchedule_ hands the batch to the backend.  The scheduler no longer reads
\* these requests: only identity and arrival number are kept.
OnSchedule(t) ==
  /\ Runs(t, "after") /\ ~wake[t]
  /\ st' = [r \in Requests |-> IF InBatch(t, r) THEN "executing" ELSE st[r]]
  /\ req' = [r \in Requests |->
               IF InBatch(t, r)
               THEN [NoRequest EXCEPT !.id = r, !.seq = req[r].seq] ELSE req[r]]
  /\ pc' = [pc EXCEPT ![t] = IF requests[t] = << >> THEN "reject"
                             ELSE "execute"]
  /\ UNCHANGED <<now, mu, q, batchVars, idleCnt, scan, notify,
                 requests, rejected, wake, deadline, lifeVars, cqVars>>

\* OnSchedule_ returns, having finished the batch or left it to other threads.
OnScheduleReturns(t) ==
  /\ Runs(t, "execute")
  /\ pc' = [pc EXCEPT ![t] = "reject"]
  /\ requests' = [requests EXCEPT ![t] = << >>]
  /\ UNCHANGED <<now, mu, q, batchVars, idleCnt, scan, clientVars, rejected,
                 wake, deadline, lifeVars, cqVars>>

\* RespondIfError answers and releases one rejected request.
RejectOne(t) ==
  /\ Runs(t, "reject") /\ rejected[t] # << >>
  /\ st' = [st EXCEPT ![Head(rejected[t]).id] = "timedout"]
  /\ req' = [req EXCEPT ![Head(rejected[t]).id] = NoRequest]
  /\ rejected' = [rejected EXCEPT ![t] = Tail(@)]
  /\ DropHandle(st', unloaded, t)
  /\ UNCHANGED <<now, mu, q, batchVars, idleCnt, scan, notify, pc,
                 requests, wake, deadline, unloaded, exit, cqVars>>

LoopEnd(t) ==
  /\ Runs(t, "reject") /\ rejected[t] = << >>
  /\ pc' = [pc EXCEPT ![t] = "top"]
  /\ UNCHANGED <<now, mu, q, batchVars, idleCnt, scan, clientVars, requests,
                 rejected, wake, deadline, lifeVars, cqVars>>

(***************************************************************************)
(* The backend (external): it answers the requests it was given, then      *)
(* releases them, from inside OnSchedule_ or from a thread of its own.     *)
(***************************************************************************)
\* Without preserve_ordering_ there is no delegator: the scheduler never sees
\* a response, and the backend's are left out.
BackendResponds(r) ==
  /\ st[r] = "executing" /\ PreserveOrdering
  /\ Respond(r)
  /\ UNCHANGED <<now, mu, q, batchVars, idleCnt, scan, clientVars, pc,
                 requests, rejected, wake, deadline, lifeVars>>

Executors(r) ==
  {"backend"} \cup {t \in Threads : pc[t] = "execute" /\ InBatch(t, r)}

BackendReleases(r) ==
  /\ st[r] = "executing"
  /\ PreserveOrdering => resp[r].final /\ resp[r].at = "idle"
  /\ st' = [st EXCEPT ![r] = "released"]
  /\ req' = [req EXCEPT ![r] = NoRequest]
  /\ \E by \in Executors(r) : DropHandle(st', unloaded, by)
  /\ UNCHANGED <<now, mu, q, batchVars, idleCnt, scan, notify, pc,
                 requests, rejected, wake, deadline, unloaded, exit,
                 cqVars>>

(***************************************************************************)
(* Unloading and the destructor.                                           *)
(***************************************************************************)
Unload ==
  /\ MayUnload /\ ~unloaded
  /\ unloaded' = TRUE
  /\ DropHandle(st, TRUE, "manager")
  /\ UNCHANGED <<now, mu, q, batchVars, idleCnt, scan, clientVars, pc,
                 requests, rejected, wake, deadline, exit, cqVars>>

\* Set every exit flag and notify_all, with mu_ held.
SignalExit ==
  /\ dtor \notin {"none", "destroyed"} /\ ~exit /\ mu = 0
  /\ exit' = TRUE
  /\ pc' = [t \in Threads |-> IF pc[t] = "waiting" THEN "woken" ELSE pc[t]]
  /\ UNCHANGED <<now, mu, q, batchVars, idleCnt, scan, clientVars, requests,
                 rejected, wake, deadline, unloaded, dtor, cqVars>>

\* Slip: the destructor does not join.
DetachThreads ==
  /\ dtor \notin {"none", "destroyed"} /\ exit
  /\ dtor' = "destroyed"
  /\ UNCHANGED <<now, mu, q, batchVars, idleCnt, scan, clientVars, pc,
                 requests, rejected, wake, deadline, unloaded, exit, cqVars>>

\* Join every thread but the one that runs the destructor, which is detached.
JoinThreads ==
  /\ dtor \notin {"none", "destroyed"} /\ exit
  /\ \A t \in Threads : t # dtor => pc[t] = "exited"
  /\ dtor' = "destroyed"
  /\ UNCHANGED <<now, mu, q, batchVars, idleCnt, scan, clientVars, pc,
                 requests, rejected, wake, deadline, unloaded, exit, cqVars>>

Tick ==
  /\ now < MaxTime
  /\ now < LastArrival \/ \A r \in Requests : st[r] # "submitting"
  /\ now' = now + 1
  /\ UNCHANGED <<mu, q, batchVars, idleCnt, scan, clientVars, pc, requests,
                 rejected, wake, deadline, lifeVars, cqVars>>

ClientStep(r) ==
  CaptureQueueStart(r) \/ Refuse(r) \/ Enqueue(r) \/ ClientNotify(r)

ThreadStep(t) ==
  \/ CheckExit(t) \/ WaitForWork(t) \/ WakeUp(t) \/ TakeOne(t)
  \/ BeginBatch(t) \/ Expire(t) \/ NextLevel(t) \/ EndPolicy(t)
  \/ Examine(t)
  \/ SendBatch(t) \/ NoBatch(t) \/ WaitForMore(t)
  \/ DequeueOne(t) \/ ExtractDone(t) \/ WakeOther(t)
  \/ OnSchedule(t) \/ OnScheduleReturns(t) \/ RejectOne(t) \/ LoopEnd(t)

BackendStep(r) == BackendResponds(r) \/ BackendReleases(r)

Next ==
  /\ \/ \E r \in Requests : ClientStep(r) \/ BackendStep(r)
     \/ \E t \in Threads : ThreadStep(t)
     \/ Unload \/ SignalExit \/ JoinThreads \/ Tick
  /\ UNCHANGED config

(***************************************************************************)
(* Fairness: every thread of the process is eventually scheduled, the      *)
(* clock advances, the backend answers.  mu_ is fair enough that a thread  *)
(* that keeps finding it free in between eventually gets it (SF).  Nothing *)
(* obliges a client to send, or the manager to unload.                     *)
(***************************************************************************)
AllThreads == UNION {ModelConfigs[n].threads : n \in DOMAIN ModelConfigs}

KeepsConfig(A) == A /\ UNCHANGED config

Fairness ==
  /\ \A t \in AllThreads : SF_vars(KeepsConfig(t \in Threads /\ ThreadStep(t)))
  /\ \A r \in Requests : /\ SF_vars(KeepsConfig(Refuse(r) \/ Enqueue(r)))
                         /\ WF_vars(KeepsConfig(ClientNotify(r)))
                         /\ WF_vars(KeepsConfig(BackendStep(r)))
  /\ SF_vars(KeepsConfig(SignalExit)) /\ WF_vars(KeepsConfig(JoinThreads))
  /\ WF_vars(KeepsConfig(Tick))

Spec == Init /\ [][Next]_vars
FairSpec == Spec /\ Fairness

----------------------------------------------------------------------------
PCs == {"top", "lock", "waiting", "woken", "policy", "examine", "decide",
        "dequeue", "after", "execute", "reject", "exited"}

QueuedRequest ==
  [id : Requests, batch : Nat \ {0}, priority : Levels, timeout : Nat,
   shape : Nat, start : Nat, expiry : Nat, seq : Nat]
Cursors ==
  [level : FirstLevel..EndLevel, idx : Nat, atDelayed : BOOLEAN,
   closest : Nat, oldest : Nat, count : Nat, valid : BOOLEAN]

TypeOK ==
  /\ CQTypeOK
  /\ config \in DOMAIN ModelConfigs
  /\ now \in Nat /\ mu \in Threads \cup {0}
  /\ q \in [queue : [Levels -> Seq(QueuedRequest)],
            delayed : [Levels -> Seq(QueuedRequest)],
            rejected : Seq(QueuedRequest),
            size : Nat, front : Levels, cursor : Cursors, mark : Cursors]
  /\ pendingBatchSize \in Nat /\ queuedBatchSize \in Nat
  /\ nextPreferred \in Preferred \cup {0}
  /\ requiredEqual \in Requests \cup {0}
  /\ idleCnt \in 0..Cardinality(Threads)
  /\ scan \in [best : Nat, sendNow : BOOLEAN, grown : BOOLEAN, rejCnt : Nat,
               rejBatch : Nat]
  /\ st \in [Requests -> Finished \cup {"submitting", "queued", "expired",
                                        "executing"}]
  /\ \A r \in Requests : req[r] \in [id : {r, 0}, batch : Nat,
       priority : Nat, timeout : Nat, shape : Nat, start : Nat,
       expiry : Nat, seq : Nat]
  /\ notify \subseteq Requests
  /\ pc \in [Threads -> PCs]
  /\ requests \in [Threads -> Seq(QueuedRequest)]
  /\ rejected \in [Threads -> Seq(QueuedRequest)]
  /\ wake \in [Threads -> BOOLEAN] /\ deadline \in [Threads -> Nat]
  /\ {unloaded, exit} \subseteq BOOLEAN
  /\ dtor \in Threads \cup Phases

\* A pending-batch cursor that is kept across Enqueue calls and waits still
\* describes the pending batch: 'count' requests, and no others, are in front
\* of it, pending_batch_size_ is their total batch size and the oldest enqueue
\* time is theirs.  ("The cursor is valid only if the pending batch is
\* unchanged", scheduler_utils.h.)
CursorDescribesBatch ==
  q.cursor.valid =>
    LET c == q.cursor
        batch == SubSeq(Contents(q), 1, c.count)
        before == SelectSeq(Contents(q), LAMBDA r : r.priority < c.level)
    IN  /\ c.level \in Levels /\ c.idx <= PolicySize(q, c.level)
        /\ Len(before) + c.idx = c.count
        /\ pendingBatchSize = BatchTotal(batch)
        /\ c.count > 0 =>
             /\ \E i \in 1..c.count : batch[i].start = c.oldest
             /\ \A i \in 1..c.count : batch[i].start >= c.oldest

\* Dequeue never runs dry inside a batch ("The queue is empty which conflicts
\* with pending batch count", SchedulerThread) and the cursor never leaves the
\* last level while requests remain.
PendingBatchIsQueued ==
  \A t \in Threads :
    /\ pc[t] = "dequeue" =>
         q.cursor.count - Len(requests[t]) \in 0..Len(Contents(q))
    /\ pc[t] = "dequeue" /\ Len(requests[t]) < q.cursor.count => CanDequeue(q)
    /\ pc[t] = "examine" /\ ~CursorEnd(q) =>
         q.cursor.level \in Levels /\ HasAt(q, q.cursor.level, q.cursor.idx)

\* A batch never exceeds max_batch_size_ unless it is a single request, and is
\* of one shape when the model requires it; whatever arrived, expired or was
\* delayed while the batch was pending.
BatchWellFormed ==
  \A t \in Threads :
    pc[t] \in {"after", "execute"} /\ Len(requests[t]) > 1 =>
      /\ BatchTotal(requests[t]) <= MaxBatchSize
      /\ EnforceEqualShape =>
           \A i \in 1..Len(requests[t]) :
             requests[t][i].shape = requests[t][1].shape

\* required_equal_inputs_ points into the first request of the pending batch
\* whenever a request is compared with it: never into one that was rejected
\* or dequeued since.
RequiredInputsLive ==
  (EnforceEqualShape /\ q.cursor.count > 0
     /\ \E t \in Threads : pc[t] = "examine")
    => requiredEqual = Contents(q)[1].id

\* queued_batch_size_, which decides whether an arrival wakes a runner, is the
\* total batch size of what is queued whenever mu_ is free.
QueuedBatchSizeExact ==
  mu = 0 => queuedBatchSize = BatchTotal(Contents(q))

\* What the scheduler remembers of the queue and of a batch that is still being
\* formed stays true of the queue, whatever arrives, expires or is delayed
\* while mu_ is released: the cursor, the counts and the reference inputs.
PendingBatchSound ==
  /\ TypeOK /\ CursorDescribesBatch /\ PendingBatchIsQueued
  /\ RequiredInputsLive /\ QueuedBatchSizeExact

\* The positions of request r in list s.
Spots(s, r) == {i \in 1..Len(s) : s[i].id = r}

\* The places where request r is before it is executed or answered: in the
\* queue, rejected there, in a batch, or rejected by a thread.
InLevels(r) ==
  UNION {{<<"queue", l>>} \X Spots(LevelOrder(q, l), r) : l \in Levels}
InRejected(r) == {<<"rejected">>} \X Spots(q.rejected, r)
InBatches(r) == UNION {{<<"batch", t>>} \X Spots(requests[t], r) :
                         t \in {u \in Threads : pc[u] # "execute"}}
InRefused(r) == UNION {{<<"refused", t>>} \X Spots(rejected[t], r) : t \in Threads}
Owners(r) == InLevels(r) \cup InRejected(r) \cup InBatches(r) \cup InRefused(r)

\* Every request that entered the queue is owned exactly once, by the queue, by
\* a thread that will execute it, or by a thread that will reject it: none is
\* lost, executed twice or rejected after it was batched.
OwnedOnce ==
  \A r \in Requests :
    /\ Cardinality(Owners(r)) = IF st[r] \in {"queued", "expired"} THEN 1 ELSE 0
    /\ \A t \in Threads : Cardinality(Spots(requests[t], r)) <= 1

\* No request waits for the default timer: when every runner sleeps and no
\* notification is on its way, some runner wakes up in time for the queue
\* delay of a queued request.
NoOversleep ==
  (/\ mu = 0 /\ ~Empty(q) /\ notify = {} /\ DynamicBatching
   /\ \A t \in Threads : pc[t] = "waiting")
    => \E t \in Threads : \E i \in 1..Len(Contents(q)) :
         deadline[t] <= Contents(q)[i].start + MaxQueueDelay

\* The same where no request can time out in the queue.
NoOversleepWithoutTimeouts ==
  (\A l \in Levels : QueuePolicy[l].timeout = 0) => NoOversleep

\* Once the destructor has run no scheduler thread is at a point from which it
\* touches the object again, not even the thread that ran it; and no request
\* or response is left inside.
DestroyedIsQuiet ==
  dtor = "destroyed" =>
    /\ \A t \in Threads : pc[t] \in {"execute", "reject", "top", "exited"}
    /\ Cardinality({t \in Threads : pc[t] # "exited"}) <= 1
    /\ exit /\ Empty(q) /\ outbox = << >>
    /\ \A r \in Requests : st[r] \in Finished /\ resp[r].at = "idle"

Leaves(t) == Len(requests'[t]) > Len(requests[t])
Leaving(t) == requests'[t][Len(requests'[t])]

\* "Requests at the same priority level are processed in order"
\* (docs/model_configuration.md): a request leaves the queue only when no
\* request of a higher priority (a lower level) is queued, and of its level it
\* overtakes only requests that the DELAY policy has put behind.
DequeueOrder ==
  [][\A t \in Threads : Leaves(t) =>
       LET r == Leaving(t)
       IN  /\ \A l \in Levels : PolicySize(q, l) > 0 => r.priority <= l
           /\ \A i \in 1..Len(q.queue[r.priority]) :
                q.queue[r.priority][i].seq >= r.seq]_vars

\* With preserve_ordering the scheduler and the delegators it installs are a
\* completion queue: every step they take is one of module CompletionQueue,
\* whose theorems (responses in order, no slot written after it was popped)
\* therefore hold of the scheduler.
ImplementsCompletionQueue ==
  [][PreserveOrdering => UNCHANGED cqVars \/ CQNext]_cqVars

\* Every request that is accepted is executed or rejected.
EveryRequestLeaves ==
  \A r \in Requests : st[r] = "queued" ~> st[r] \in {"released", "timedout"}

\* An unloaded model's scheduler is destroyed once its requests are done,
\* even by one of its own threads, even if a thread misses the notification.
UnloadCompletes == unloaded ~> dtor = "destroyed"

\* Unloading ends well for the clients and for the manager.
UnloadEnds == EveryRequestLeaves /\ UnloadCompletes
=============================================================================
