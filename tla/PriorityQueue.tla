--------------------------- MODULE PriorityQueue ---------------------------
(***************************************************************************)
(* The request queue of the dynamic batcher: class PriorityQueue and its   *)
(* PolicyQueue (src/src/core/scheduler_utils.{h,cc}).                       *)
(*                                                                         *)
(* A queue is a value (a record), because the class has no lock of its     *)
(* own: its owner, DynamicBatchScheduler, calls it with mu_ held.  Every   *)
(* method is an operator from the old value to the new one.  The two loops *)
(* of ApplyPolicyAtCursor / PolicyQueue::ApplyPolicy are given by their    *)
(* single iterations (CursorExpired + ExpireAtCursor, CursorSkips +        *)
(* SkipLevel); the owner iterates them in separate steps.  The clock only  *)
(* grows, so reading it at each iteration expires exactly the requests     *)
(* that one reading at the last iteration would.                           *)
(***************************************************************************)
EXTENDS Integers, Sequences, FiniteSets

CONSTANT
  ModelConfigs      \* name -> a model configuration (and bounds) to explore

VARIABLE
  config            \* which one the model has: fixed when it is loaded

Config == ModelConfigs[config]
PriorityLevels == Config.priorityLevels  \* 0 = one queue
QueuePolicy == Config.queuePolicy  \* level -> [action, timeout, override, maxSize]
NsPerUs == Config.nsPerUs    \* clock units ("ns") in one unit of a timeout ("us")

LevelsOf(n) == IF n = 0 THEN {0} ELSE 1..n
Levels == LevelsOf(PriorityLevels)
FirstLevel == IF PriorityLevels = 0 THEN 0 ELSE 1
LastLevel == PriorityLevels
EndLevel == PriorityLevels + 1      \* queues_.end()

Policies == [action : {"REJECT", "DELAY"}, timeout : Nat,
             override : BOOLEAN, maxSize : Nat]

ASSUME PriorityQueueAssumption ==
  \A n \in DOMAIN ModelConfigs :
    LET c == ModelConfigs[n]
    IN  /\ c.priorityLevels \in Nat
        /\ c.queuePolicy \in [LevelsOf(c.priorityLevels) -> Policies]
        /\ c.nsPerUs \in Nat \ {0}

(***************************************************************************)
(* Cursor: the pending batch is every request in front of the cursor.      *)
(***************************************************************************)
StartCursor ==
  [level |-> FirstLevel, idx |-> 0, atDelayed |-> FALSE, closest |-> 0,
   oldest |-> 0, count |-> 0, valid |-> TRUE]

EmptyQueue ==
  [queue    |-> [l \in Levels |-> << >>],
   delayed  |-> [l \in Levels |-> << >>],
   rejected |-> << >>,
   size     |-> 0,
   front    |-> FirstLevel,
   cursor   |-> StartCursor,
   mark     |-> StartCursor]

(***************************************************************************)
(* PolicyQueue.                                                            *)
(***************************************************************************)
PolicySize(q, l) == Len(q.queue[l]) + Len(q.delayed[l])

PolicyFull(q, l) ==
  /\ QueuePolicy[l].maxSize # 0
  /\ PolicySize(q, l) >= QueuePolicy[l].maxSize

\* The timeout a request gets on entry: the level's default, or the request's
\* own one when that may override and is shorter.  0 is "no timeout".
TimeoutUs(r, l) ==
  LET dflt == QueuePolicy[l].timeout
  IN  IF QueuePolicy[l].override /\ r.timeout # 0 /\ r.timeout < dflt
        THEN r.timeout ELSE dflt

Expiry(r, l, now) ==
  IF TimeoutUs(r, l) = 0 THEN 0 ELSE now + TimeoutUs(r, l) * NsPerUs

\* PolicyQueue::At, and whether 'idx' points to a request at all.
HasAt(q, l, idx) == idx < PolicySize(q, l)
At(q, l, idx) ==
  IF idx < Len(q.queue[l])
    THEN q.queue[l][idx + 1]
    ELSE q.delayed[l][idx - Len(q.queue[l]) + 1]

TimeoutAt(q, l, idx) ==
  IF idx < Len(q.queue[l]) THEN q.queue[l][idx + 1].expiry ELSE 0

(***************************************************************************)
(* PriorityQueue.                                                          *)
(***************************************************************************)
Empty(q) == q.size = 0

\* Slip: an arrival in front of the delayed part of the batch is missed.
InvalidatesLess(c, l) == l < c.level

\* The arrival lies inside the pending batch, so the cursor no longer
\* describes it.
Invalidates(c, l) == l < c.level \/ (l = c.level /\ c.atDelayed)

EnqueueAt(q, l, r, now) ==
  [q EXCEPT
     !.queue[l] = Append(@, [r EXCEPT !.expiry = Expiry(r, l, now)]),
     !.size  = @ + 1,
     !.front = IF l < @ THEN l ELSE @,
     !.cursor.valid = @ /\ ~Invalidates(q.cursor, l)]

\* The level Dequeue takes from: front_priority_level_ moves up to the first
\* level that has a request.
Occupied(q) == {l \in Levels : l >= q.front /\ PolicySize(q, l) > 0}
CanDequeue(q) == Occupied(q) # {}
DequeueLast(q) == CHOOSE l \in Occupied(q) : \A k \in Occupied(q) : l >= k \* slip
DequeueLevel(q) == CHOOSE l \in Occupied(q) : \A k \in Occupied(q) : l <= k

DequeueHead(q) == At(q, DequeueLevel(q), 0)

Dequeue(q) ==
  LET l == DequeueLevel(q)
      fromQueue == q.queue[l] # << >>
  IN  [q EXCEPT
         !.cursor.valid = FALSE,
         !.mark = StartCursor,
         !.front = l,
         !.size = @ - 1,
         !.queue[l]   = IF fromQueue THEN Tail(@) ELSE @,
         !.delayed[l] = IF fromQueue THEN @ ELSE Tail(@)]

KeepRejected(q) == q    \* slip: the rejected queue is copied, not swapped out
ReleaseRejected(q) == [q EXCEPT !.rejected = << >>]

\* Dequeue and ResetCursor invalidate the marker: the code leaves the stale
\* value in place, the model clears it.  It is never read again, since
\* GetDynamicBatch restores only a mark it has set itself.
ResetCursor(q) == [q EXCEPT !.cursor = StartCursor, !.mark = StartCursor]
MarkCursor(q) == [q EXCEPT !.mark = q.cursor]
SetCursorToMark(q) == [q EXCEPT !.cursor = q.mark]

CursorEnd(q) == q.cursor.count = q.size
RequestAtCursor(q) == At(q, q.cursor.level, q.cursor.idx)

\* A cursor over requests without timeouts has closest = 0 and is never valid.
IsCursorValid(q, now) == q.cursor.valid /\ now < q.cursor.closest

(***************************************************************************)
(* One iteration of the loop of PolicyQueue::ApplyPolicy: the request at   *)
(* the cursor has timed out and leaves the unexpired queue.                *)
(***************************************************************************)
CursorExpired(q, now) ==
  LET c == q.cursor
      e == TimeoutAt(q, c.level, c.idx)
  IN  c.level \in Levels /\ e # 0 /\ now > e

ExpireAtCursor(q) ==
  LET l == q.cursor.level
      i == q.cursor.idx
      r == q.queue[l][i + 1]
      delay == QueuePolicy[l].action = "DELAY"
  IN  [q EXCEPT
         !.queue[l] = SubSeq(@, 1, i) \o SubSeq(@, i + 2, Len(@)),
         !.delayed[l] = IF delay THEN Append(@, r) ELSE @,
         !.rejected = IF delay THEN @ ELSE Append(@, r)]

(***************************************************************************)
(* One iteration of the loop of ApplyPolicyAtCursor over the levels.       *)
(* 'rejected' is the number of requests this call has rejected so far:     *)
(* size_ is only lowered when the loop ends (PolicyApplied).               *)
(***************************************************************************)
CursorSkips(q, rejected) ==
  /\ q.cursor.level \in Levels
  /\ ~HasAt(q, q.cursor.level, q.cursor.idx)
  /\ q.size > q.cursor.count + rejected

SkipLevel(q) == [q EXCEPT !.cursor.level = @ + 1, !.cursor.idx = 0]

PolicyApplied(q, rejected) == [q EXCEPT !.size = @ - rejected]

Earlier(a, b) == IF a = 0 \/ (b # 0 /\ b < a) THEN b ELSE a

AdvanceCursor(q) ==
  LET c == q.cursor
      t == TimeoutAt(q, c.level, c.idx)
  IN  IF c.count >= q.size THEN q
      ELSE [q EXCEPT !.cursor =
             [c EXCEPT !.closest = Earlier(c.closest, t),
                       !.oldest = Earlier(c.oldest, RequestAtCursor(q).start),
                       !.idx = c.idx + 1,
                       !.count = c.count + 1,
                       !.atDelayed = c.idx + 1 > Len(q.queue[c.level])]]

(***************************************************************************)
(* Reference view used by the properties: the order in which requests      *)
(* leave the queue is level by level, unexpired before delayed.            *)
(***************************************************************************)
LevelOrder(q, l) == q.queue[l] \o q.delayed[l]

Contents(q) ==
  LET upTo[l \in FirstLevel..LastLevel] ==
        IF l = FirstLevel THEN LevelOrder(q, l)
        ELSE upTo[l - 1] \o LevelOrder(q, l)
  IN  upTo[LastLevel]

BatchTotal(s) ==
  LET sum[i \in 0..Len(s)] == IF i = 0 THEN 0 ELSE sum[i - 1] + s[i].batch
  IN  sum[Len(s)]
=============================================================================
