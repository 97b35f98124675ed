------------------------ MODULE CompletionQueueProofs ------------------------
(***************************************************************************)
(* Proofs about CompletionQueue for every set of requests and every number *)
(* of responses per request: responses are typed, leave in scheduling      *)
(* order, none is lost or doubled, popped slots are done with, and no      *)
(* flushable response is left behind when every backend thread is idle.    *)
(*                                                                         *)
(* None of these invariants is inductive on its own.  The strengthening    *)
(* CQInv follows a response on its way: a slot holds responses of its own  *)
(* request only (SlotsOwned) and is in use only if the request is          *)
(* scheduled (SlotsScheduled); slots are pairwise distinct (Distinct);     *)
(* what has been collected belongs to the popped slots or to the front     *)
(* (Emitted), so whatever is collected next is not earlier.                *)
(***************************************************************************)
EXTENDS CompletionQueue, SequenceTheorems, FiniteSetTheorems, TLAPS

Budget == \A r \in Requests : ~resp[r].final => resp[r].sent < MaxResponses

SlotsOwned ==
  \A r \in Requests : \A k \in 1..Len(slot[r]) :
    slot[r][k].req = r /\ (slot[r][k].final => resp[r].final)

SlotsScheduled ==
  \A r \in Requests : slot[r] # << >> => \E a \in 1..Len(order) : order[a] = r

Distinct == \A a, b \in 1..Len(order) : order[a] = order[b] => a = b

\* x belongs to a popped slot or to the front one.
Reached(ord, n, x) ==
  \E a \in 1..Len(ord) : a <= n + 1 /\ ord[a] = x.req

\* x's slot is not behind y's.
Ahead(ord, x, y) ==
  \A a, b \in 1..Len(ord) : ord[a] = x.req /\ ord[b] = y.req => a <= b

Emitted ==
  /\ \A i \in 1..Len(delivered) : Reached(order, popped, delivered[i])
  /\ \A i \in 1..Len(outbox) : Reached(order, popped, outbox[i])
  /\ \A i, j \in 1..Len(delivered) :
       i < j => Ahead(order, delivered[i], delivered[j])
  /\ \A i, j \in 1..Len(outbox) : i < j => Ahead(order, outbox[i], outbox[j])
  /\ \A i \in 1..Len(delivered), j \in 1..Len(outbox) :
       Ahead(order, delivered[i], outbox[j])

Holder == \A r \in Requests : resp[r].at \in {"collect", "send"} => finalizeMtx = r

OutboxHeld ==
  outbox # << >> => \E r \in Requests : resp[r].at \in {"collect", "send"}

FrontSeen ==
  FrontReady => \E r \in Requests : resp[r].at \in {"finalize", "collect"}

CQInv ==
  /\ CQTypeOK /\ Budget
  /\ SlotsOwned /\ SlotsScheduled /\ Distinct
  /\ Emitted
  /\ Holder /\ OutboxHeld /\ FrontSeen
  /\ PoppedIsFinal

----------------------------------------------------------------------------
\* The initial state: nothing is scheduled, nothing is produced.
LEMMA InitInv == CQInit => CQInv
<1> SUFFICES ASSUME CQInit PROVE CQInv
  OBVIOUS
<1> USE DEF CQInit
<1>1. CQTypeOK
  BY CompletionQueueAssumption, EmptySeq DEF CQTypeOK, RespState
<1>2. Budget
  BY CompletionQueueAssumption DEF Budget
<1>3. SlotsOwned /\ SlotsScheduled /\ Distinct /\ Emitted
  BY DEF SlotsOwned, SlotsScheduled, Distinct, Emitted
<1>4. Holder /\ OutboxHeld /\ FrontSeen /\ PoppedIsFinal
  BY DEF Holder, OutboxHeld, FrontSeen, FrontReady, PoppedIsFinal
<1> QED
  BY <1>1, <1>2, <1>3, <1>4 DEF CQInv

\* Scheduling a batch (SchedulerThread's slot push) appends fresh slots, which
\* moves no slot that is in use.
LEMMA ScheduleInv ==
  ASSUME CQInv, NEW b \in Batches, ScheduleBatch(b)
  PROVE  CQInv'
<1>0. /\ order \in Seq(Requests) /\ Len(order) \in Nat
      /\ popped \in 0..Len(order)
      /\ SlotsScheduled /\ Distinct /\ Emitted /\ FrontSeen /\ PoppedIsFinal
  BY LenProperties DEF CQInv, CQTypeOK
<1>1. b \in Seq(Requests)
  <2>1. Cardinality(Requests) \in Nat
    BY FS_CardinalityType, CompletionQueueAssumption
  <2>2. PICK n \in 1..Cardinality(Requests) : b \in [1..n -> Requests]
    BY DEF Batches
  <2> QED
    BY <2>1, <2>2
<1>2. /\ order' = order \o b
      /\ UNCHANGED <<popped, slot, resp, outbox, finalizeMtx, delivered>>
  BY DEF ScheduleBatch, OpenSlots
<1>3. /\ order' \in Seq(Requests)
      /\ Len(order') = Len(order) + Len(b)
      /\ Len(order) \in Nat /\ Len(b) \in Nat
      /\ \A a \in 1..Len(order) : order'[a] = order[a]
      /\ \A a \in 1..Len(order') :
           a > Len(order) => a - Len(order) \in 1..Len(b)
                             /\ order'[a] = b[a - Len(order)]
  BY <1>0, <1>1, <1>2, ConcatProperties, LenProperties
<1>4. \A a \in 1..Len(order') : a > Len(order) =>
        \A c \in 1..Len(order) : order'[a] # order[c]
  <2>1. \A i \in 1..Len(b) : \A c \in 1..Len(order) : b[i] # order[c]
    BY DEF ScheduleBatch, Scheduled
  <2> QED
    BY SMTT(20), <1>3, <2>1
<1>5. CQTypeOK'
  BY <1>0, <1>2, <1>3 DEF CQInv, CQTypeOK
<1>6. Budget' /\ SlotsOwned' /\ Holder' /\ OutboxHeld'
  BY <1>2 DEF CQInv, Budget, SlotsOwned, Holder, OutboxHeld
<1>7. SlotsScheduled'
  BY <1>0, <1>2, <1>3 DEF SlotsScheduled
<1>8. Distinct'
  <2> SUFFICES ASSUME NEW a \in 1..Len(order'), NEW c \in 1..Len(order'),
                      order'[a] = order'[c]
               PROVE  a = c
    BY DEF Distinct
  <2>1. CASE a <= Len(order) /\ c <= Len(order)
    BY <1>0, <1>3, <2>1 DEF Distinct
  <2>2. CASE a > Len(order) /\ c > Len(order)
    <3>1. \A i, j \in 1..Len(b) : i # j => b[i] # b[j]
      BY DEF ScheduleBatch
    <3>2. /\ a - Len(order) \in 1..Len(b) /\ c - Len(order) \in 1..Len(b)
          /\ b[a - Len(order)] = b[c - Len(order)]
      BY <1>3, <2>2
    <3>3. a - Len(order) = c - Len(order)
      BY <3>1, <3>2
    <3> QED
      BY <1>3, <3>3
  <2>3. CASE a > Len(order) /\ c <= Len(order)
    BY <1>3, <1>4, <2>3
  <2>4. CASE a <= Len(order) /\ c > Len(order)
    BY <1>3, <1>4, <2>4
  <2> QED
    BY <1>3, <2>1, <2>2, <2>3, <2>4
<1>9. Emitted'
  <2>1. ASSUME NEW x, Reached(order, popped, x) PROVE Reached(order', popped', x)
    BY <1>0, <1>2, <1>3, <2>1 DEF Reached
  <2>2. ASSUME NEW x, NEW y, Reached(order, popped, x),
               Reached(order, popped, y), Ahead(order, x, y)
        PROVE  Ahead(order', x, y)
    <3>1. \A a \in 1..Len(order') : order'[a] = x.req \/ order'[a] = y.req
            => a <= Len(order)
      BY SMTT(20), <1>0, <1>3, <1>4, <2>2 DEF Reached
    <3> QED
      BY <1>2, <1>3, <2>2, <3>1 DEF Ahead
  <2> QED
    BY <1>0, <1>2, <2>1, <2>2 DEF Emitted
<1>10. FrontSeen'
  <2>1. FrontReady' => FrontReady
    <3> SUFFICES ASSUME FrontReady' PROVE FrontReady
      OBVIOUS
    <3>1. popped + 1 \in 1..Len(order') /\ slot[order'[popped + 1]] # << >>
      BY <1>0, <1>2, <1>3 DEF FrontReady
    <3>2. order'[popped + 1] \in Requests
      BY <1>3, <3>1, ElementOfSeq
    <3>3. PICK c \in 1..Len(order) : order[c] = order'[popped + 1]
      BY <1>0, <3>1, <3>2 DEF SlotsScheduled
    <3>4. popped + 1 <= Len(order)
      BY <1>0, <1>3, <1>4, <3>1, <3>3
    <3> QED
      BY <1>0, <1>3, <3>1, <3>4 DEF FrontReady
  <2> QED
    BY <1>0, <1>2, <2>1 DEF FrontSeen
<1>11. PoppedIsFinal'
  BY <1>0, <1>2, <1>3 DEF PoppedIsFinal
<1> QED
  BY <1>5, <1>6, <1>7, <1>8, <1>9, <1>10, <1>11 DEF CQInv

\* The delegator stores a response in its own slot: the request is scheduled
\* and not complete, so the slot is not popped.
LEMMA PutInv ==
  ASSUME CQInv, NEW r \in Requests, NEW final \in BOOLEAN,
         PutResponse(r, final)
  PROVE  CQInv'
<1> USE DEF CQInv
<1> DEFINE x == Produced(r, final)
<1>1. /\ resp[r].at = "idle" /\ ~resp[r].final
      /\ resp[r].sent + 1 = MaxResponses => final
      /\ slot' = [slot EXCEPT ![r] = Append(@, x)]
      /\ resp' = [resp EXCEPT ![r] = [sent |-> resp[r].sent + 1,
                                     final |-> final, at |-> "finalize"]]
      /\ UNCHANGED <<order, popped, outbox, finalizeMtx, delivered>>
      /\ \E a \in 1..Len(order) : order[a] = r
  BY DEF PutResponse, Produce, Scheduled
<1>2. resp[r].sent \in 0..MaxResponses /\ resp[r].sent < MaxResponses
  BY <1>1 DEF CQTypeOK, Budget, RespState
<1>3. x \in Response /\ x.req = r /\ x.final = final
  BY <1>2, CompletionQueueAssumption DEF Produced, Response
<1> HIDE DEF x
<1>4. /\ slot \in [Requests -> Seq(Response)] /\ slot[r] \in Seq(Response)
      /\ resp \in [Requests -> RespState]
  BY DEF CQTypeOK
<1>5. /\ Append(slot[r], x) \in Seq(Response)
      /\ Append(slot[r], x) # << >>
      /\ Len(Append(slot[r], x)) = Len(slot[r]) + 1
      /\ Len(slot[r]) \in Nat
      /\ \A k \in 1..Len(slot[r]) : Append(slot[r], x)[k] = slot[r][k]
      /\ Append(slot[r], x)[Len(slot[r]) + 1] = x
  BY <1>3, <1>4, AppendProperties, LenProperties
<1>6. slot' \in [Requests -> Seq(Response)]
  BY <1>1, <1>4, <1>5
<1>7. resp' \in [Requests -> RespState]
  BY <1>1, <1>2, <1>4, CompletionQueueAssumption DEF RespState
<1>8. CQTypeOK'
  BY <1>1, <1>6, <1>7 DEF CQTypeOK
<1>9. Budget'
  BY <1>1, <1>2, <1>4, CompletionQueueAssumption DEF Budget, RespState
<1>10. SlotsOwned'
  <2> SUFFICES ASSUME NEW s \in Requests, NEW k \in 1..Len(slot'[s])
               PROVE  slot'[s][k].req = s
                      /\ (slot'[s][k].final => resp'[s].final)
    BY DEF SlotsOwned
  <2>1. CASE s # r
    BY <1>1, <1>4, <2>1 DEF SlotsOwned
  <2>2. CASE s = r
    <3>1. slot'[s] = Append(slot[r], x) /\ resp'[s].final = final
      BY <1>1, <1>4, <2>2
    <3>2. CASE k <= Len(slot[r])
      BY <1>1, <1>5, <2>2, <3>1, <3>2 DEF SlotsOwned
    <3>3. CASE k = Len(slot[r]) + 1
      BY <1>3, <1>5, <2>2, <3>1, <3>3
    <3> QED
      BY <1>5, <3>1, <3>2, <3>3
  <2> QED
    BY <2>1, <2>2
<1>11. SlotsScheduled'
  BY <1>1, <1>4 DEF SlotsScheduled
<1>12. Distinct' /\ Emitted'
  BY <1>1 DEF Distinct, Emitted
<1>13. Holder' /\ OutboxHeld'
  BY <1>1, <1>4 DEF Holder, OutboxHeld, RespState
<1>14. FrontSeen'
  BY <1>1, <1>4 DEF FrontSeen
<1>15. PoppedIsFinal'
  BY <1>1, <1>4 DEF PoppedIsFinal, CQTypeOK
<1> QED
  BY <1>8, <1>9, <1>10, <1>11, <1>12, <1>13, <1>14, <1>15

\* FinalizeResponses takes finalize_mtx and completion_queue_mtx_.
LEMMA EnterInv ==
  ASSUME CQInv, NEW r \in Requests, EnterFinalize(r)
  PROVE  CQInv'
<1> USE DEF CQInv, CQTypeOK, EnterFinalize
<1>1. resp' \in [Requests -> RespState]
  BY DEF RespState
<1>2. CQTypeOK'
  BY <1>1
<1>3. Budget' /\ SlotsOwned' /\ PoppedIsFinal'
  BY DEF Budget, SlotsOwned, PoppedIsFinal
<1>4. SlotsScheduled' /\ Distinct' /\ Emitted'
  BY DEF SlotsScheduled, Distinct, Emitted
<1>5. Holder' /\ OutboxHeld' /\ FrontSeen'
  BY CompletionQueueAssumption DEF Holder, OutboxHeld, FrontSeen, FrontReady
<1> QED
  BY <1>2, <1>3, <1>4, <1>5

\* FinalizeResponses moves the front slot to its local list: nothing collected
\* before is behind the front, so the order of the list is kept.
LEMMA CollectInv ==
  ASSUME CQInv, NEW r \in Requests, CollectFront(r)
  PROVE  CQInv'
<1> USE DEF CQInv
<1> DEFINE f == order[popped + 1]
           s == slot[f]
<1>0. /\ order \in Seq(Requests) /\ Len(order) \in Nat
      /\ popped \in 0..Len(order)
      /\ slot \in [Requests -> Seq(Response)]
      /\ outbox \in Seq(Response)
  BY LenProperties DEF CQTypeOK
<1>1. /\ resp[r].at = "collect"
      /\ popped + 1 \in 1..Len(order) /\ f \in Requests /\ s # << >>
  BY <1>0, ElementOfSeq DEF CollectFront, FrontReady
<1>2. /\ outbox' = outbox \o s
      /\ slot' = [slot EXCEPT ![f] = << >>]
      /\ popped' = IF s[Len(s)].final THEN popped + 1 ELSE popped
      /\ UNCHANGED <<order, resp, finalizeMtx, delivered>>
  BY DEF CollectFront
<1>3. s \in Seq(Response) /\ Len(s) \in Nat \ {0}
  BY <1>0, <1>1, EmptySeq
<1>5. \A k \in 1..Len(s) : s[k].req = f /\ (s[k].final => resp[f].final)
  BY <1>0, <1>1 DEF SlotsOwned
<1> HIDE DEF s, f
<1>4. /\ outbox' \in Seq(Response)
      /\ Len(outbox') = Len(outbox) + Len(s)
      /\ Len(outbox) \in Nat
      /\ \A i \in 1..Len(outbox) : outbox'[i] = outbox[i]
      /\ \A i \in 1..Len(outbox') :
           i > Len(outbox) => i - Len(outbox) \in 1..Len(s)
                              /\ outbox'[i] = s[i - Len(outbox)]
  BY <1>0, <1>2, <1>3, ConcatProperties, LenProperties
<1>6. slot' \in [Requests -> Seq(Response)]
  BY <1>0, <1>2, EmptySeq
<1>7. popped' \in 0..Len(order) /\ popped' >= popped
  BY <1>0, <1>1, <1>2
<1>8. CQTypeOK'
  BY <1>2, <1>4, <1>6, <1>7 DEF CQTypeOK
<1>9. Budget' /\ Holder' /\ Distinct'
  BY <1>2 DEF Budget, Holder, Distinct
<1>10. SlotsOwned'
  <2> SUFFICES ASSUME NEW c \in Requests, NEW k \in 1..Len(slot'[c])
               PROVE  slot'[c][k].req = c
                      /\ (slot'[c][k].final => resp'[c].final)
    BY DEF SlotsOwned
  <2>1. c # f
    BY <1>0, <1>2, EmptySeq
  <2> QED
    BY <1>0, <1>2, <2>1 DEF SlotsOwned
<1>11. SlotsScheduled'
  BY <1>0, <1>2 DEF SlotsScheduled
<1>12. OutboxHeld' /\ FrontSeen'
  BY <1>1, <1>2 DEF OutboxHeld, FrontSeen
<1>13. PoppedIsFinal'
  <2> SUFFICES ASSUME NEW i \in 1..popped'
               PROVE  resp[order[i]].final /\ slot'[order[i]] = << >>
    BY <1>2 DEF PoppedIsFinal
  <2>0. order[i] \in Requests
    BY <1>0, <1>7, ElementOfSeq
  <2>1. CASE i <= popped
    BY SMTT(20), <1>0, <1>2, <2>0, <2>1 DEF PoppedIsFinal
  <2>2. CASE i = popped + 1
    <3>1. s[Len(s)].final
      BY <1>0, <1>2, <2>2
    <3>2. resp[f].final
      BY <1>3, <1>5, <3>1
    <3> QED
      BY <1>0, <1>2, <2>0, <2>2, <3>2 DEF f
  <2> QED
    BY <1>0, <1>2, <2>1, <2>2
<1>14. Emitted'
  <2>1. \A y : Reached(order, popped, y) => Reached(order', popped', y)
    BY <1>0, <1>2, <1>7 DEF Reached
  <2>2. \A y, z : Ahead(order, y, z) => Ahead(order', y, z)
    BY <1>2 DEF Ahead
  <2>3. \A y : y.req = f => Reached(order', popped', y)
    <3>1. popped + 1 \in 1..Len(order') /\ order'[popped + 1] = f
      BY <1>0, <1>1, <1>2 DEF f
    <3> QED
      BY <1>0, <1>7, <3>1 DEF Reached
  <2>4. \A y, z : Reached(order, popped, y) /\ z.req = f => Ahead(order', y, z)
    <3> SUFFICES ASSUME NEW y, NEW z, Reached(order, popped, y), z.req = f,
                        NEW a \in 1..Len(order), NEW b \in 1..Len(order),
                        order[a] = y.req, order[b] = z.req
                 PROVE  a <= b
      BY <1>2 DEF Ahead
    <3>1. b = popped + 1
      BY <1>0, <1>1 DEF Distinct, f
    <3>2. a <= popped + 1
      BY <1>0, <1>1 DEF Distinct, Reached
    <3> QED
      BY <1>0, <3>1, <3>2
  <2>5. \A y, z : y.req = f /\ z.req = f => Ahead(order', y, z)
    BY <1>0, <1>1, <1>2 DEF Ahead, Distinct
  <2>6. \A i \in 1..Len(outbox') :
          i \notin 1..Len(outbox) => i > Len(outbox) /\ outbox'[i].req = f
    BY <1>4, <1>5
  <2>7. \A i \in 1..Len(outbox') : Reached(order', popped', outbox'[i])
    BY <1>4, <2>1, <2>3, <2>6 DEF Emitted
  <2>8. \A i, j \in 1..Len(outbox') : i < j => Ahead(order', outbox'[i], outbox'[j])
    BY SMTT(30), <1>4, <2>2, <2>4, <2>5, <2>6 DEF Emitted
  <2>9. \A i \in 1..Len(delivered), j \in 1..Len(outbox') :
          Ahead(order', delivered[i], outbox'[j])
    BY <1>4, <2>2, <2>4, <2>6 DEF Emitted
  <2> QED
    BY <1>2, <2>1, <2>2, <2>7, <2>8, <2>9 DEF Emitted
<1> QED
  BY <1>8, <1>9, <1>10, <1>11, <1>12, <1>13, <1>14

\* FinalizeResponses leaves completion_queue_mtx_ when the front is not ready.
LEMMA CollectDoneInv ==
  ASSUME CQInv, NEW r \in Requests, CollectDone(r)
  PROVE  CQInv'
<1> USE DEF CQInv, CQTypeOK, CollectDone
<1>1. resp' \in [Requests -> RespState]
  BY DEF RespState
<1>2. CQTypeOK'
  BY <1>1
<1>3. Budget' /\ SlotsOwned' /\ PoppedIsFinal'
  BY DEF Budget, SlotsOwned, PoppedIsFinal
<1>4. SlotsScheduled' /\ Distinct' /\ Emitted'
  BY DEF SlotsScheduled, Distinct, Emitted
<1>5. Holder' /\ OutboxHeld' /\ FrontSeen'
  BY DEF Holder, OutboxHeld, FrontSeen, FrontReady
<1> QED
  BY <1>2, <1>3, <1>4, <1>5

\* FinalizeResponses sends the first response of its local list.
LEMMA SendInv ==
  ASSUME CQInv, NEW r \in Requests, SendNext(r)
  PROVE  CQInv'
<1> USE DEF CQInv
<1>0. outbox \in Seq(Response) /\ delivered \in Seq(Response)
  BY DEF CQTypeOK
<1>1. /\ resp[r].at = "send" /\ outbox # << >>
      /\ delivered' = Append(delivered, Head(outbox))
      /\ outbox' = Tail(outbox)
      /\ UNCHANGED <<order, popped, slot, resp, finalizeMtx>>
  BY DEF SendNext
<1>2. /\ Len(outbox) \in Nat \ {0}
      /\ outbox' \in Seq(Response)
      /\ Len(outbox') = Len(outbox) - 1
      /\ \A i \in 1..Len(outbox') : outbox'[i] = outbox[i + 1]
      /\ Head(outbox) = outbox[1] /\ Head(outbox) \in Response
  BY <1>0, <1>1, HeadTailProperties, EmptySeq
<1>3. /\ Len(delivered) \in Nat
      /\ delivered' \in Seq(Response)
      /\ Len(delivered') = Len(delivered) + 1
      /\ \A i \in 1..Len(delivered) : delivered'[i] = delivered[i]
      /\ delivered'[Len(delivered) + 1] = outbox[1]
  BY <1>0, <1>1, <1>2, AppendProperties, LenProperties
<1>4. CQTypeOK'
  BY <1>1, <1>2, <1>3 DEF CQTypeOK
<1>5. Budget' /\ SlotsOwned' /\ PoppedIsFinal'
  BY <1>1 DEF Budget, SlotsOwned, PoppedIsFinal
<1>6. SlotsScheduled' /\ Distinct' /\ Holder'
  BY <1>1 DEF SlotsScheduled, Distinct, Holder
<1>7. OutboxHeld' /\ FrontSeen'
  BY <1>1 DEF OutboxHeld, FrontSeen, FrontReady
<1>8. Emitted'
  <2>1. \A y : Reached(order', popped', y) = Reached(order, popped, y)
    BY <1>1 DEF Reached
  <2>2. \A y, z : Ahead(order', y, z) = Ahead(order, y, z)
    BY <1>1 DEF Ahead
  <2>3. \A i \in 1..Len(delivered') : Reached(order, popped, delivered'[i])
    BY SMTT(20), <1>2, <1>3 DEF Emitted
  <2>4. \A i \in 1..Len(outbox') : Reached(order, popped, outbox'[i])
    BY <1>2 DEF Emitted
  <2>5. \A i, j \in 1..Len(delivered') :
          i < j => Ahead(order, delivered'[i], delivered'[j])
    <3> SUFFICES ASSUME NEW i \in 1..Len(delivered'),
                        NEW j \in 1..Len(delivered'), i < j
                 PROVE  Ahead(order, delivered'[i], delivered'[j])
      OBVIOUS
    <3>1. i \in 1..Len(delivered) /\ delivered'[i] = delivered[i]
      BY <1>3
    <3>2. CASE j \in 1..Len(delivered)
      BY <1>3, <3>1, <3>2 DEF Emitted
    <3>3. CASE j = Len(delivered) + 1
      BY <1>2, <1>3, <3>1, <3>3 DEF Emitted
    <3> QED
      BY <1>3, <3>2, <3>3
  <2>6. \A i, j \in 1..Len(outbox') : i < j => Ahead(order, outbox'[i], outbox'[j])
    BY <1>2 DEF Emitted
  <2>7. \A i \in 1..Len(delivered'), j \in 1..Len(outbox') :
          Ahead(order, delivered'[i], outbox'[j])
    BY SMTT(20), <1>2, <1>3 DEF Emitted
  <2> QED
    BY <2>1, <2>2, <2>3, <2>4, <2>5, <2>6, <2>7 DEF Emitted
<1> QED
  BY <1>4, <1>5, <1>6, <1>7, <1>8

\* FinalizeResponses returns once its local list is empty.
LEMMA LeaveInv ==
  ASSUME CQInv, NEW r \in Requests, LeaveFinalize(r)
  PROVE  CQInv'
<1> USE DEF CQInv, CQTypeOK, LeaveFinalize
<1>1. resp' \in [Requests -> RespState]
  BY DEF RespState
<1>2. CQTypeOK'
  BY <1>1
<1>3. Budget' /\ SlotsOwned' /\ PoppedIsFinal'
  BY DEF Budget, SlotsOwned, PoppedIsFinal
<1>4. SlotsScheduled' /\ Distinct' /\ Emitted'
  BY DEF SlotsScheduled, Distinct, Emitted
<1>5. Holder' /\ OutboxHeld' /\ FrontSeen'
  BY DEF Holder, OutboxHeld, FrontSeen, FrontReady
<1> QED
  BY <1>2, <1>3, <1>4, <1>5

\* Every step of the scheduler, of a delegator and of FinalizeResponses
\* preserves the invariant.
LEMMA NextInv ==
  ASSUME CQInv, [CQNext]_cqVars
  PROVE  CQInv'
<1>1. CASE UNCHANGED cqVars
  BY <1>1 DEF cqVars, CQInv, CQTypeOK, Budget, SlotsOwned, SlotsScheduled,
              Distinct, Emitted, Holder, OutboxHeld,
              FrontSeen, FrontReady, PoppedIsFinal
<1>2. ASSUME NEW b \in Batches, ScheduleBatch(b) PROVE CQInv'
  BY <1>2, ScheduleInv
<1>3. ASSUME NEW r \in Requests, Respond(r) PROVE CQInv'
  BY <1>3, PutInv, EnterInv, CollectInv, CollectDoneInv, SendInv, LeaveInv
     DEF Respond
<1> QED
  BY <1>1, <1>2, <1>3 DEF CQNext

\* CQInv is an invariant of the completion queue.
THEOREM Invariance == CQSafety => []CQInv
<1>1. CQInv /\ [CQNext]_cqVars => CQInv'
  BY NextInv
<1> QED
  BY <1>1, InitInv, PTL DEF CQSafety

\* The state of the completion queue is well typed: in particular no request
\* produces more responses than its budget, whoever answers it.
THEOREM TypeCorrect == CQSafety => []CQTypeOK
  BY Invariance, PTL DEF CQInv

\* What has been delivered is in the order of the slots.
LEMMA DeliveredInOrder == CQInv => InOrder
<1> SUFFICES ASSUME CQInv, NEW i \in 1..Len(delivered),
                    NEW j \in 1..Len(delivered), i < j
             PROVE  Pos(delivered[i].req) <= Pos(delivered[j].req)
  BY DEF InOrder
<1>1. \A k \in 1..Len(delivered) :
        /\ Pos(delivered[k].req) \in 1..Len(order)
        /\ order[Pos(delivered[k].req)] = delivered[k].req
  BY DEF CQInv, Emitted, Reached, Pos
<1> QED
  BY <1>1 DEF CQInv, Emitted, Ahead

\* Responses leave in the order of the slots, for any number of requests,
\* responses and backend threads (preserve_ordering_).
THEOREM ResponsesInOrder == CQSafety => []InOrder
  BY DeliveredInOrder, Invariance, PTL

\* A popped slot belongs to a completed request and is empty, so the raw slot
\* pointer of a delegator is never used after the pop.
THEOREM PoppedSlotsAreFinal == CQSafety => []PoppedIsFinal
  BY Invariance, PTL DEF CQInv

\* When every backend thread is idle nothing that could be sent is left behind.
THEOREM NothingStranded == CQSafety => []NoneStranded
<1>1. CQInv => NoneStranded
  BY DEF CQInv, NoneStranded, OutboxHeld, FrontSeen
<1> QED
  BY <1>1, Invariance, PTL

----------------------------------------------------------------------------
\* What NothingLost says of a sequence, one response at a time.
LEMMA FirstOnesMeans ==
  ASSUME NEW s \in Seq(Response), NEW r, NEW n \in Nat
  PROVE  FirstOnes(s, r, n) <=>
           /\ \A i \in 1..Len(s) : s[i].req = r => s[i].n \in 1..n
           /\ \A k \in 1..n : \E i \in 1..Len(s) : s[i].req = r /\ s[i].n = k
           /\ \A i, j \in 1..Len(s) :
                s[i].req = r /\ s[j].req = r /\ i < j => s[i].n < s[j].n
  BY DEF FirstOnes

\* The next response of r at the end is one more of its first responses.
LEMMA FirstOnesAppend ==
  ASSUME NEW s \in Seq(Response), NEW x \in Response, NEW n \in Nat,
         x.n = n + 1, FirstOnes(s, x.req, n)
  PROVE  FirstOnes(Append(s, x), x.req, n + 1)
<1> DEFINE t == Append(s, x)
<1>1. /\ t \in Seq(Response) /\ Len(t) = Len(s) + 1 /\ Len(s) \in Nat
      /\ \A i \in 1..Len(s) : t[i] = s[i]
      /\ t[Len(s) + 1] = x
  BY ONLY AppendProperties, LenProperties, s \in Seq(Response), x \in Response
<1>2. /\ \A i \in 1..Len(s) : s[i].req = x.req => s[i].n \in 1..n
      /\ \A k \in 1..n : \E i \in 1..Len(s) : s[i].req = x.req /\ s[i].n = k
      /\ \A i, j \in 1..Len(s) :
           s[i].req = x.req /\ s[j].req = x.req /\ i < j => s[i].n < s[j].n
  BY FirstOnesMeans
<1> HIDE DEF t
<1>3. \A i \in 1..Len(t) : i \in 1..Len(s) \/ i = Len(s) + 1
  BY <1>1
<1>4. \A i \in 1..Len(t) : t[i].req = x.req => t[i].n \in 1..(n + 1)
  BY <1>1, <1>2, <1>3
<1>5. \A k \in 1..(n + 1) : \E i \in 1..Len(t) : t[i].req = x.req /\ t[i].n = k
  <2> SUFFICES ASSUME NEW k \in 1..(n + 1)
               PROVE  \E i \in 1..Len(t) : t[i].req = x.req /\ t[i].n = k
    OBVIOUS
  <2>1. CASE k = n + 1
    BY <1>1, <2>1
  <2>2. CASE k \in 1..n
    <3>1. PICK i \in 1..Len(s) : s[i].req = x.req /\ s[i].n = k
      BY <1>2, <2>2
    <3>2. i \in 1..Len(t) /\ t[i] = s[i]
      BY <1>1
    <3> QED
      BY <3>1, <3>2
  <2> QED
    BY <2>1, <2>2
<1>6. \A i, j \in 1..Len(t) :
        t[i].req = x.req /\ t[j].req = x.req /\ i < j => t[i].n < t[j].n
  <2> SUFFICES ASSUME NEW i \in 1..Len(t), NEW j \in 1..Len(t),
                      t[i].req = x.req, t[j].req = x.req, i < j
               PROVE  t[i].n < t[j].n
    OBVIOUS
  <2>1. i \in 1..Len(s) /\ t[i] = s[i]
    BY ONLY <1>1, i \in 1..Len(t), j \in 1..Len(t), i < j
  <2>2. CASE j \in 1..Len(s)
    <3>1. t[j] = s[j]
      BY <1>1, <2>2
    <3> QED
      BY ONLY <1>2, <2>1, <2>2, <3>1, t[i].req = x.req, t[j].req = x.req, i < j
  <2>3. CASE j = Len(s) + 1
    <3>1. t[j].n = n + 1
      BY <1>1, <2>3
    <3>2. t[i].n \in 1..n
      BY ONLY <1>2, <2>1, t[i].req = x.req
    <3> QED
      BY ONLY <3>1, <3>2, n \in Nat
  <2> QED
    BY <1>3, <2>2, <2>3
<1>7. FirstOnes(t, x.req, n + 1)
  BY ONLY <1>1, <1>4, <1>5, <1>6, FirstOnesMeans, n \in Nat, n + 1 \in Nat
<1> QED
  BY <1>7 DEF t

\* Responses of other requests put into the middle change nothing.
LEMMA FirstOnesInsert ==
  ASSUME NEW a \in Seq(Response), NEW b \in Seq(Response),
         NEW c \in Seq(Response), NEW r, NEW n \in Nat,
         \A i \in 1..Len(c) : c[i].req # r,
         FirstOnes(a \o b, r, n)
  PROVE  FirstOnes((a \o c) \o b, r, n)
<1>0. Len(a) \in Nat /\ Len(b) \in Nat /\ Len(c) \in Nat
  BY LenProperties
<1>1. PICK s \in {a \o b} : s = a \o b
  OBVIOUS
<1>2. PICK t \in {(a \o c) \o b} : t = (a \o c) \o b
  OBVIOUS
<1>3. /\ s \in Seq(Response) /\ Len(s) = Len(a) + Len(b)
      /\ \A i \in 1..Len(a) + Len(b) :
           s[i] = IF i <= Len(a) THEN a[i] ELSE b[i - Len(a)]
  BY ONLY <1>1, ConcatProperties, a \in Seq(Response), b \in Seq(Response)
<1>4. /\ (a \o c) \in Seq(Response) /\ Len(a \o c) = Len(a) + Len(c)
      /\ \A i \in 1..Len(a) + Len(c) :
           (a \o c)[i] = IF i <= Len(a) THEN a[i] ELSE c[i - Len(a)]
  BY ONLY ConcatProperties, a \in Seq(Response), c \in Seq(Response)
<1>5. /\ t \in Seq(Response) /\ Len(t) = Len(a \o c) + Len(b)
      /\ \A i \in 1..Len(a \o c) + Len(b) :
           t[i] = IF i <= Len(a \o c) THEN (a \o c)[i] ELSE b[i - Len(a \o c)]
  BY ONLY <1>2, <1>4, ConcatProperties, b \in Seq(Response)
<1> DEFINE Up(i) == IF i <= Len(a) THEN i ELSE i + Len(c)
           Down(i) == IF i <= Len(a) THEN i ELSE i - Len(c)
<1>6. \A i \in 1..Len(s) : Up(i) \in 1..Len(t) /\ t[Up(i)] = s[i]
  <2> SUFFICES ASSUME NEW i \in 1..Len(s)
               PROVE  Up(i) \in 1..Len(t) /\ t[Up(i)] = s[i]
    OBVIOUS
  <2>1. CASE i <= Len(a)
    <3>1. i \in 1..Len(a) + Len(c) /\ i \in 1..Len(a \o c) + Len(b)
          /\ i <= Len(a \o c) /\ i \in 1..Len(a) + Len(b)
      BY ONLY <1>0, <1>3, <1>4, <2>1, i \in 1..Len(s)
    <3> QED
      BY ONLY <1>3, <1>4, <1>5, <2>1, <3>1 DEF Up
  <2>2. CASE i > Len(a)
    <3>1. i + Len(c) \in 1..Len(a \o c) + Len(b) /\ ~(i + Len(c) <= Len(a \o c))
          /\ i \in 1..Len(a) + Len(b) /\ ~(i <= Len(a))
          /\ (i + Len(c)) - Len(a \o c) = i - Len(a)
      BY ONLY <1>0, <1>3, <1>4, <2>2, i \in 1..Len(s)
    <3> QED
      BY ONLY <1>3, <1>5, <3>1 DEF Up
  <2> QED
    BY <1>0, <1>3, <2>1, <2>2
<1>7. \A i \in 1..Len(t) : t[i].req = r =>
        /\ Down(i) \in 1..Len(s) /\ t[i] = s[Down(i)]
        /\ i = Up(Down(i))
  <2> SUFFICES ASSUME NEW i \in 1..Len(t), t[i].req = r
               PROVE  /\ Down(i) \in 1..Len(s) /\ t[i] = s[Down(i)]
                      /\ i = Up(Down(i))
    OBVIOUS
  <2>1. CASE i <= Len(a)
    <3>1. i \in 1..Len(a) + Len(c) /\ i \in 1..Len(a \o c) + Len(b)
          /\ i <= Len(a \o c) /\ i \in 1..Len(a) + Len(b)
      BY ONLY <1>0, <1>5, <1>4, <2>1, i \in 1..Len(t)
    <3> QED
      BY ONLY <1>3, <1>4, <1>5, <2>1, <3>1 DEF Up, Down
  <2>2. CASE i > Len(a) /\ i <= Len(a \o c)
    <3>1. /\ i \in 1..Len(a) + Len(c) /\ i \in 1..Len(a \o c) + Len(b)
          /\ ~(i <= Len(a)) /\ i - Len(a) \in 1..Len(c)
      BY ONLY <1>0, <1>5, <1>4, <2>2, i \in 1..Len(t)
    <3>2. t[i] = c[i - Len(a)]
      BY ONLY <1>4, <1>5, <2>2, <3>1
    <3> QED
      BY <3>1, <3>2
  <2>3. CASE i > Len(a \o c)
    <3>1. /\ i \in 1..Len(a \o c) + Len(b) /\ ~(i <= Len(a \o c))
          /\ i - Len(c) \in 1..Len(a) + Len(b) /\ ~(i - Len(c) <= Len(a))
          /\ ~(i <= Len(a))
          /\ (i - Len(c)) - Len(a) = i - Len(a \o c)
          /\ i = (i - Len(c)) + Len(c)
      BY ONLY <1>0, <1>5, <1>4, <2>3, i \in 1..Len(t)
    <3> QED
      BY ONLY <1>3, <1>5, <3>1 DEF Up, Down
  <2> QED
    BY <1>0, <1>4, <1>5, <2>1, <2>2, <2>3
<1>8. \A i, j \in 1..Len(s) : Up(i) < Up(j) => i < j
  BY <1>0, <1>3
<1>9. /\ \A i \in 1..Len(s) : s[i].req = r => s[i].n \in 1..n
      /\ \A k \in 1..n : \E i \in 1..Len(s) : s[i].req = r /\ s[i].n = k
      /\ \A i, j \in 1..Len(s) :
           s[i].req = r /\ s[j].req = r /\ i < j => s[i].n < s[j].n
  <2>1. FirstOnes(s, r, n)
    BY <1>1
  <2> QED
    BY ONLY <1>3, <2>1, FirstOnesMeans, n \in Nat
<1> HIDE DEF Up, Down
<1>10. \A i \in 1..Len(t) : t[i].req = r => t[i].n \in 1..n
  <2> SUFFICES ASSUME NEW i \in 1..Len(t), t[i].req = r PROVE t[i].n \in 1..n
    OBVIOUS
  <2>1. PICK k \in 1..Len(s) : t[i] = s[k]
    BY ONLY <1>7, i \in 1..Len(t), t[i].req = r
  <2> QED
    BY ONLY <1>9, <2>1, t[i].req = r
<1>11. \A k \in 1..n : \E i \in 1..Len(t) : t[i].req = r /\ t[i].n = k
  <2> SUFFICES ASSUME NEW k \in 1..n
               PROVE  \E i \in 1..Len(t) : t[i].req = r /\ t[i].n = k
    OBVIOUS
  <2>1. PICK i \in 1..Len(s) : s[i].req = r /\ s[i].n = k
    BY ONLY <1>9, k \in 1..n
  <2>2. Up(i) \in 1..Len(t) /\ t[Up(i)] = s[i]
    BY ONLY <1>6, i \in 1..Len(s)
  <2>3. PICK m \in 1..Len(t) : t[m] = s[i]
    BY ONLY <2>2
  <2> QED
    BY ONLY <2>1, <2>3
<1>12. \A i, j \in 1..Len(t) :
         t[i].req = r /\ t[j].req = r /\ i < j => t[i].n < t[j].n
  <2> SUFFICES ASSUME NEW i \in 1..Len(t), NEW j \in 1..Len(t),
                      t[i].req = r, t[j].req = r, i < j
               PROVE  t[i].n < t[j].n
    OBVIOUS
  <2>1. PICK k \in 1..Len(s) : t[i] = s[k] /\ i = Up(k)
    BY ONLY <1>7, i \in 1..Len(t), t[i].req = r
  <2>2. PICK m \in 1..Len(s) : t[j] = s[m] /\ j = Up(m)
    BY ONLY <1>7, j \in 1..Len(t), t[j].req = r
  <2>3. k < m
    BY ONLY <1>8, <2>1, <2>2, i < j
  <2>4. s[k].req = r /\ s[m].req = r
    BY ONLY <2>1, <2>2, t[i].req = r, t[j].req = r
  <2>5. s[k].n < s[m].n
    BY ONLY <1>9, <2>3, <2>4
  <2> QED
    BY ONLY <2>1, <2>2, <2>5
<1> QED
  BY ONLY <1>2, <1>5, <1>10, <1>11, <1>12, FirstOnesMeans, n \in Nat

\* On its way from the slot to the client a response is in one place: the
\* delegator appends the next one, CollectFront and SendNext move it, and
\* what CollectFront moves between the others belongs to another request.
LEMMA LostStep ==
  ASSUME CQInv, NothingLost, [CQNext]_cqVars
  PROVE  NothingLost'
<1>0. /\ delivered \in Seq(Response) /\ outbox \in Seq(Response)
      /\ slot \in [Requests -> Seq(Response)]
      /\ resp \in [Requests -> RespState]
  BY DEF CQInv, CQTypeOK
<1>1. \A c \in Requests : resp[c].sent \in Nat /\ slot[c] \in Seq(Response)
  BY <1>0, CompletionQueueAssumption DEF RespState
<1>2. /\ (delivered \o outbox) \in Seq(Response)
      /\ \A c \in Requests : (delivered \o outbox \o slot[c]) \in Seq(Response)
  BY <1>0, <1>1, ConcatProperties
<1> SUFFICES ASSUME NEW c \in Requests
             PROVE  FirstOnes(delivered \o outbox \o slot[c], c, resp[c].sent)'
  BY DEF NothingLost
<1>3. FirstOnes(delivered \o outbox \o slot[c], c, resp[c].sent)
  BY DEF NothingLost
<1>4. CASE /\ UNCHANGED <<delivered, outbox, slot>>
           /\ resp'[c].sent = resp[c].sent
  BY <1>3, <1>4
<1>5. ASSUME NEW r \in Requests, NEW final \in BOOLEAN, PutResponse(r, final)
      PROVE  FirstOnes(delivered \o outbox \o slot[c], c, resp[c].sent)'
  <2> DEFINE x == Produced(r, final)
  <2>1. /\ slot' = [slot EXCEPT ![r] = Append(@, x)]
        /\ resp' = [resp EXCEPT ![r] = [sent |-> resp[r].sent + 1,
                                       final |-> final, at |-> "finalize"]]
        /\ UNCHANGED <<outbox, delivered>>
        /\ ~resp[r].final
    BY <1>5 DEF PutResponse, Produce
  <2>2. x \in Response /\ x.req = r /\ x.n = resp[r].sent + 1
    BY <1>0, <2>1, CompletionQueueAssumption
       DEF Produced, Response, CQInv, Budget, RespState
  <2> HIDE DEF x
  <2>3. CASE c # r
    BY <1>0, <1>3, <2>1, <2>3
  <2>4. CASE c = r
    <3>1. slot'[c] = Append(slot[c], x) /\ resp'[c].sent = resp[c].sent + 1
      BY <1>0, <2>1, <2>4
    <3>2. PICK s \in {delivered \o outbox} : s = delivered \o outbox
      OBVIOUS
    <3>3. PICK t \in {slot[c]} : t = slot[c]
      OBVIOUS
    <3>4. s \in Seq(Response) /\ t \in Seq(Response) /\ <<x>> \in Seq(Response)
      BY <1>1, <1>2, <2>2, <3>2, <3>3
    <3>5. s \o Append(t, x) = Append(s \o t, x)
      <4>1. Append(t, x) = t \o <<x>>
        BY ONLY <2>2, <3>4, AppendIsConcat
      <4>2. (s \o t) \in Seq(Response)
        BY ONLY <3>4, ConcatProperties
      <4>3. Append(s \o t, x) = (s \o t) \o <<x>>
        BY ONLY <2>2, <4>2, AppendIsConcat
      <4>4. (s \o t) \o <<x>> = s \o (t \o <<x>>)
        BY ONLY <3>4, ConcatAssociative
      <4> QED
        BY ONLY <4>1, <4>3, <4>4
    <3>6. (s \o t) \in Seq(Response)
      BY ONLY <3>4, ConcatProperties
    <3>7. FirstOnes(s \o t, x.req, resp[c].sent)
      BY <1>3, <2>2, <2>4, <3>2, <3>3
    <3>8. FirstOnes(Append(s \o t, x), x.req, resp[c].sent + 1)
      BY ONLY <1>1, <2>2, <2>4, <3>6, <3>7, FirstOnesAppend, c \in Requests
    <3> QED
      BY <2>1, <2>2, <2>4, <3>1, <3>2, <3>3, <3>5, <3>8
  <2> QED
    BY <2>3, <2>4
<1>6. ASSUME NEW r \in Requests, CollectFront(r)
      PROVE  FirstOnes(delivered \o outbox \o slot[c], c, resp[c].sent)'
  <2>1. PICK f \in {order[popped + 1]} : f = order[popped + 1]
    OBVIOUS
  <2>2. f \in Requests
    <3>1. order \in Seq(Requests) /\ Len(order) \in Nat /\ popped \in 0..Len(order)
      BY LenProperties DEF CQInv, CQTypeOK
    <3>2. popped + 1 \in 1..Len(order)
      BY <1>6, <3>1 DEF CollectFront, FrontReady
    <3> QED
      BY <2>1, <3>1, <3>2, ElementOfSeq
  <2>3. /\ outbox' = outbox \o slot[f]
        /\ slot' = [slot EXCEPT ![f] = << >>]
        /\ UNCHANGED <<resp, delivered>>
    BY <1>6, <2>1 DEF CollectFront
  <2>4. PICK s \in {slot[f]} : s = slot[f]
    OBVIOUS
  <2>5. s \in Seq(Response) /\ \A k \in 1..Len(s) : s[k].req = f
    BY <1>1, <2>2, <2>4 DEF CQInv, SlotsOwned
  <2>6. delivered \o (outbox \o s) = (delivered \o outbox) \o s
    <3>0. delivered \in Seq(Response) /\ outbox \in Seq(Response)
      BY <1>0
    <3>1. (delivered \o outbox) \o s = delivered \o (outbox \o s)
      BY ONLY ConcatAssociative, <3>0, <2>5
    <3> QED
      BY ONLY <3>1
  <2>7. CASE c = f
    <3>1. ((delivered \o outbox) \o s) \o << >> = (delivered \o outbox) \o s
      <4>1. ((delivered \o outbox) \o s) \in Seq(Response)
        BY ONLY <1>2, <2>5, ConcatProperties
      <4> QED
        BY ONLY <4>1, ConcatEmptySeq
    <3>2. slot'[c] = << >>
      BY <1>0, <2>3, <2>7
    <3> QED
      BY <1>3, <2>3, <2>4, <2>6, <2>7, <3>1, <3>2
  <2>8. CASE c # f
    <3>1. slot'[c] = slot[c]
      BY <1>0, <2>3, <2>8
    <3>2. \A k \in 1..Len(s) : s[k].req # c
      BY <2>5, <2>8
    <3>3. FirstOnes(((delivered \o outbox) \o s) \o slot[c], c, resp[c].sent)
      BY ONLY <1>1, <1>2, <1>3, <2>5, <3>2, FirstOnesInsert, c \in Requests
    <3> QED
      BY <2>3, <2>4, <2>6, <3>1, <3>3
  <2> QED
    BY <2>7, <2>8
<1>7. ASSUME NEW r \in Requests, SendNext(r)
      PROVE  FirstOnes(delivered \o outbox \o slot[c], c, resp[c].sent)'
  <2>1. /\ outbox # << >>
        /\ delivered' = Append(delivered, Head(outbox))
        /\ outbox' = Tail(outbox)
        /\ UNCHANGED <<slot, resp>>
    BY <1>7 DEF SendNext
  <2>2. /\ Len(outbox) \in Nat \ {0} /\ Tail(outbox) \in Seq(Response)
        /\ Len(Tail(outbox)) = Len(outbox) - 1
        /\ \A i \in 1..Len(Tail(outbox)) : Tail(outbox)[i] = outbox[i + 1]
        /\ Head(outbox) = outbox[1] /\ Head(outbox) \in Response
    BY <1>0, <2>1, HeadTailProperties, EmptySeq
  <2>3. /\ delivered' \in Seq(Response) /\ Len(delivered) \in Nat
        /\ Len(delivered') = Len(delivered) + 1
        /\ \A i \in 1..Len(delivered) : delivered'[i] = delivered[i]
        /\ delivered'[Len(delivered) + 1] = outbox[1]
    BY ONLY <1>0, <2>1, <2>2, AppendProperties, LenProperties
  <2>4. PICK s \in {delivered \o outbox} : s = delivered \o outbox
    OBVIOUS
  <2>5. PICK t \in {delivered' \o outbox'} : t = delivered' \o outbox'
    OBVIOUS
  <2>6. /\ s \in Seq(Response) /\ Len(s) = Len(delivered) + Len(outbox)
        /\ \A i \in 1..Len(delivered) + Len(outbox) :
             s[i] = IF i <= Len(delivered) THEN delivered[i]
                                           ELSE outbox[i - Len(delivered)]
    BY ONLY <1>0, <2>4, ConcatProperties
  <2>7. /\ t \in Seq(Response) /\ Len(t) = Len(delivered') + Len(outbox')
        /\ \A i \in 1..Len(delivered') + Len(outbox') :
             t[i] = IF i <= Len(delivered') THEN delivered'[i]
                                            ELSE outbox'[i - Len(delivered')]
    <3>1. outbox' \in Seq(Response)
      BY <2>1, <2>2
    <3> QED
      BY ONLY <2>3, <2>5, <3>1, ConcatProperties
  <2>8. Len(s) = Len(t)
    BY <2>1, <2>2, <2>3, <2>6, <2>7
  <2>9. \A i \in 1..Len(s) : s[i] = t[i]
    <3> SUFFICES ASSUME NEW i \in 1..Len(s) PROVE s[i] = t[i]
      OBVIOUS
    <3>1. i \in 1..Len(delivered) + Len(outbox) /\ i \in 1..Len(delivered') + Len(outbox')
      BY <2>6, <2>7, <2>8
    <3>2. CASE i <= Len(delivered)
      BY ONLY <2>3, <2>6, <2>7, <3>1, <3>2
    <3>3. CASE i = Len(delivered) + 1
      BY ONLY <2>2, <2>3, <2>6, <2>7, <3>1, <3>3
    <3>4. CASE i > Len(delivered) + 1
      <4>1. /\ i - Len(delivered') \in 1..Len(Tail(outbox))
            /\ (i - Len(delivered')) + 1 = i - Len(delivered)
        BY ONLY <2>2, <2>3, <3>1, <3>4
      <4>2. outbox'[i - Len(delivered')] = outbox[i - Len(delivered)]
        BY ONLY <2>1, <2>2, <4>1
      <4> QED
        BY ONLY <2>3, <2>6, <2>7, <3>1, <3>4, <4>2
    <3> QED
      BY <2>3, <3>1, <3>2, <3>3, <3>4
  <2>10. s = t
    BY ONLY <2>6, <2>7, <2>8, <2>9, SeqEqual
  <2> QED
    BY <1>3, <2>1, <2>4, <2>5, <2>10
<1>8. CASE UNCHANGED cqVars
  BY <1>4, <1>8 DEF cqVars
<1>9. ASSUME NEW b \in Batches, ScheduleBatch(b)
      PROVE  FirstOnes(delivered \o outbox \o slot[c], c, resp[c].sent)'
  BY <1>4, <1>9 DEF ScheduleBatch, OpenSlots
<1>10. ASSUME NEW r \in Requests,
              EnterFinalize(r) \/ CollectDone(r) \/ LeaveFinalize(r)
       PROVE  FirstOnes(delivered \o outbox \o slot[c], c, resp[c].sent)'
  <2>1. UNCHANGED <<delivered, outbox, slot>> /\ resp'[c].sent = resp[c].sent
    <3>1. PICK at \in RespState : at = resp[r]
      BY <1>0
    <3>2. UNCHANGED <<delivered, outbox, slot>>
      BY <1>10 DEF EnterFinalize, CollectDone, LeaveFinalize
    <3>3. \E where : resp' = [resp EXCEPT ![r] = [resp[r] EXCEPT !.at = where]]
      BY <1>10, Zenon DEF EnterFinalize, CollectDone, LeaveFinalize
    <3>4. PICK where : resp' = [resp EXCEPT ![r] = [resp[r] EXCEPT !.at = where]]
      BY ONLY <3>3
    <3>5. resp'[c].sent = resp[c].sent
      BY ONLY <1>0, <3>1, <3>4, c \in Requests, r \in Requests DEF RespState
    <3> QED
      BY ONLY <3>2, <3>5
  <2> QED
    BY <1>4, <2>1
<1> QED
  BY <1>5, <1>6, <1>7, <1>8, <1>9, <1>10 DEF CQNext, Respond

\* Nothing has been sent in the beginning.
LEMMA LostInit == CQInit => NothingLost
<1> SUFFICES ASSUME CQInit, NEW r \in Requests
             PROVE  FirstOnes(delivered \o outbox \o slot[r], r, resp[r].sent)
  BY DEF NothingLost
<1>1. delivered \o outbox \o slot[r] = << >> /\ resp[r].sent = 0
  <2>1. << >> \in Seq(Response)
    OBVIOUS
  <2> QED
    BY <2>1, ConcatEmptySeq DEF CQInit
<1> QED
  BY <1>1 DEF FirstOnes

\* No response is lost, duplicated or overtaken on its way from the delegator
\* through the slot and FinalizeResponses to the client, for any number of
\* requests, responses and backend threads.
THEOREM ResponsesArriveOnce == CQSafety => []NothingLost
  BY LostInit, LostStep, Invariance, PTL DEF CQSafety
=============================================================================
