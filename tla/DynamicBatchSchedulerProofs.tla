-------------------- MODULE DynamicBatchSchedulerProofs --------------------
(***************************************************************************)
(* The dynamic batcher is proved, for every configuration, every number of *)
(* threads and every number of requests: DInv is inductive, and from it    *)
(* follow that the scheduler is a completion queue, the order in which     *)
(* requests leave the queue, that each request is owned once and that      *)
(* nothing is left in a destroyed scheduler.  BInv is inductive with it,   *)
(* and from it follows that every batch is well formed.                    *)
(*                                                                         *)
(* The order below: the parts of DInv; lists; the operators of module      *)
(* PriorityQueue, each with what it keeps of the queue and of the cursor;  *)
(* what each part of DInv needs of a step; one lemma per action; the       *)
(* theorems; then the same for BInv.                                       *)
(***************************************************************************)
EXTENDS DynamicBatchScheduler, CompletionQueueProofs, WellFoundedInduction

\* The entries of the queue's lists, L being the priority levels.
Entries(L) ==
  [id : Requests, batch : Nat \ {0}, priority : L, timeout : Nat,
   shape : Nat, start : Nat, expiry : Nat, seq : Nat]

\* The fields of a queue, of a cursor and of GetDynamicBatch's locals.
QFields == {"queue", "delayed", "rejected", "size", "front", "cursor", "mark"}
CFields == {"level", "idx", "atDelayed", "closest", "oldest", "count", "valid"}
ScanFields == {"best", "sendNow", "grown", "rejCnt", "rejBatch"}

\* The requests of a list, of a level and of the queue.
IdsOf(s) == {s[i].id : i \in 1..Len(s)}
NoRepeat(s) == \A i, j \in 1..Len(s) : s[i].id = s[j].id => i = j
IdsAt(Q, l) == IdsOf(Q.queue[l]) \cup IdsOf(Q.delayed[l])
InQueue(L, Q) == UNION {IdsAt(Q, l) : l \in L}

\* The fields of the queue have their types.
QShape(L, Q) ==
  /\ DOMAIN Q = QFields /\ DOMAIN Q.cursor = CFields /\ DOMAIN Q.mark = CFields
  /\ Q.queue \in [L -> Seq(Entries(L))] /\ Q.delayed \in [L -> Seq(Entries(L))]
  /\ Q.rejected \in Seq(Entries(L))
  /\ Q.size \in Int /\ Q.front \in Int
  /\ Q.cursor.count \in Nat /\ Q.mark.count \in Nat

\* A request is in one place of the queue; a level keeps the order of arrival.
QPlaces(L, Q) ==
  /\ \A l \in L : NoRepeat(Q.queue[l]) /\ NoRepeat(Q.delayed[l])
  /\ \A l \in L : IdsOf(Q.queue[l]) \cap IdsOf(Q.delayed[l]) = {}
  /\ \A l, k \in L : l # k => IdsAt(Q, l) \cap IdsAt(Q, k) = {}
  /\ NoRepeat(Q.rejected)
QOrder(L, Q, n) ==
  /\ \A l \in L : \A i \in 1..Len(Q.queue[l]) : Q.queue[l][i].priority = l
  /\ \A l \in L : \A i \in 1..Len(Q.delayed[l]) : Q.delayed[l][i].priority = l
  /\ \A l \in L : \A i \in 1..Len(Q.queue[l]) : Q.queue[l][i].seq < n
  /\ \A l \in L : \A i, j \in 1..Len(Q.queue[l]) :
       i < j => Q.queue[l][i].seq < Q.queue[l][j].seq

\* size_ counts the requests, and front_priority_level_ passes none of them;
\* n requests were rejected that size_ still counts.
QCount(L, Q, n) ==
  /\ Q.size = Cardinality(InQueue(L, Q)) + n
  /\ \A l \in L : IdsAt(Q, l) # {} => l >= Q.front
  /\ Q.mark.count <= Q.cursor.count

\* The requests in front of the cursor: those of the levels before its own
\* and the first ones of its level.
Below(L, Q, c) == UNION {IdsAt(Q, l) : l \in {k \in L : k < c}}
FirstIds(s, n) == {s[i].id : i \in {j \in 1..Len(s) : j <= n}}
FrontIds(L, Q) ==
  LET c == Q.cursor.level
      i == Q.cursor.idx
  IN  Below(L, Q, c) \cup FirstIds(Q.queue[c], i)
        \cup FirstIds(Q.delayed[c], i - Len(Q.queue[c]))

\* The cursor is inside its level, and pending_batch_count_ is the number of
\* requests in front of it.
CursorOK(L, Q) ==
  LET c == Q.cursor
  IN  /\ c.level \in L /\ c.idx \in Nat
      /\ c.idx <= PolicySize(Q, c.level)
      /\ ~c.atDelayed => c.idx <= Len(Q.queue[c.level])
      /\ c.count = Cardinality(FrontIds(L, Q))

\* A thread is inside GetDynamicBatch.
Scanning == {"policy", "examine", "decide"}
Scans == \E t \in Threads : pc[t] \in Scanning

\* A cursor that may be used is sound, a batch that is marked or was grown is
\* not empty, there is a request to examine unless the scan is over, and the
\* batch being dequeued is still queued.
CursorInv ==
  /\ Scans \/ (q.cursor.valid /\ \A t \in Threads : pc[t] # "dequeue")
       => CursorOK(Levels, q)
  /\ scan.best # 0 /\ Scans => q.mark.count > 0
  /\ scan.grown /\ Scans => q.cursor.count > 0
  /\ \A t \in Threads : pc[t] = "examine" /\ q.cursor.count # q.size =>
       HasAt(q, q.cursor.level, q.cursor.idx)
  /\ \A t \in Threads : pc[t] = "dequeue" =>
       /\ Len(requests[t]) <= q.cursor.count
       /\ q.cursor.count - Len(requests[t]) <= q.size
       /\ q.cursor.count > 0
       /\ Len(requests[t]) > 0 => ~q.cursor.valid

\* Threads and mu_.
States == Finished \cup {"submitting", "queued", "expired", "executing"}
ThreadsInv ==
  /\ config \in DOMAIN ModelConfigs /\ now \in Nat
  /\ pc \in [Threads -> PCs] /\ st \in [Requests -> States]
  /\ requests \in [Threads -> Seq(Entries(Levels))]
  /\ rejected \in [Threads -> Seq(Entries(Levels))]
  /\ DOMAIN req = Requests
  /\ \A r \in Requests : st[r] = "submitting" =>
       req[r] \in Entries(Levels) /\ req[r].id = r
  /\ DOMAIN scan = ScanFields /\ scan.rejCnt \in Nat
  /\ (\A t \in Threads : pc[t] # "policy") => scan.rejCnt = 0
  /\ \A t \in Threads : pc[t] \in Scanning \cup {"dequeue"} => mu = t
  /\ \A t \in Threads :
       /\ pc[t] \notin {"dequeue", "after", "execute"} => requests[t] = << >>
       /\ pc[t] \in Scanning \cup {"top", "lock", "exited"} => rejected[t] = << >>

\* Who has a request.
Batched(t) == IdsOf(requests[t])
Refused(t) == IdsOf(rejected[t])
OwnersInv ==
  /\ \A r \in InQueue(Levels, q) : st[r] = "queued"
  /\ \A t \in Threads : NoRepeat(requests[t]) /\ NoRepeat(rejected[t])
  /\ \A t \in Threads : pc[t] # "execute" =>
       \A r \in Batched(t) : st[r] = "queued" /\ r \notin InQueue(Levels, q)
  /\ \A t \in Threads : pc[t] = "execute" =>
       \A r \in Batched(t) : st[r] \in {"executing", "released"}
  /\ \A t, u \in Threads : t # u /\ pc[t] # "execute" /\ pc[u] # "execute" =>
       Batched(t) \cap Batched(u) = {}
  /\ \A r \in IdsOf(q.rejected) : st[r] = "expired"
  /\ \A t \in Threads : \A r \in Refused(t) :
       st[r] = "expired" /\ r \notin IdsOf(q.rejected)
  /\ \A t, u \in Threads : t # u => Refused(t) \cap Refused(u) = {}
  /\ \A r \in Requests : st[r] = "queued" =>
       \/ r \in InQueue(Levels, q)
       \/ \E t \in Threads : pc[t] # "execute" /\ r \in Batched(t)
  /\ \A r \in Requests : st[r] = "expired" =>
       r \in IdsOf(q.rejected) \/ \E t \in Threads : r \in Refused(t)

\* The slots of the completion queue.
SlotsInv ==
  /\ CQInv
  /\ \A r \in Scheduled :
       \/ st[r] \in {"executing", "released"}
       \/ \E t \in Threads : pc[t] = "after" /\ r \in Batched(t)
  /\ \A r \in Requests :
       st[r] # "executing" \/ ~PreserveOrdering => resp[r].at = "idle"

\* The destructor.
LifeInv ==
  /\ dtor \in Threads \cup Phases /\ unloaded \in BOOLEAN /\ exit \in BOOLEAN
  /\ dtor # "none" => unloaded /\ \A r \in Requests : st[r] \in Finished
  /\ \A t \in Threads : dtor = t => pc[t] \in {"execute", "reject"}
  /\ dtor = "destroyed" =>
       /\ exit
       /\ \A t \in Threads : pc[t] \in {"execute", "reject", "top", "exited"}
       /\ \A t, u \in Threads : pc[t] # "exited" /\ pc[u] # "exited" => t = u

\* queue_, and the requests rejected since size_ was last corrected.
QueueInv ==
  QShape(Levels, q) /\ QPlaces(Levels, q) /\ QOrder(Levels, q, NextSeq)
    /\ QCount(Levels, q, scan.rejCnt)

\* The inductive invariant.
DInv == ThreadsInv /\ QueueInv /\ CursorInv /\ OwnersInv /\ SlotsInv /\ LifeInv

----------------------------------------------------------------------------
(* What Append does to the requests of a list.                             *)
LEMMA AppendIds ==
  ASSUME NEW E, NEW s \in Seq(E), NEW e \in E
  PROVE  /\ Append(s, e) \in Seq(E) /\ Len(Append(s, e)) = Len(s) + 1
         /\ Append(s, e)[Len(s) + 1] = e
         /\ \A i \in 1..Len(s) : Append(s, e)[i] = s[i]
         /\ IdsOf(Append(s, e)) = IdsOf(s) \cup {e.id}
         /\ NoRepeat(s) /\ e.id \notin IdsOf(s) => NoRepeat(Append(s, e))
<1> DEFINE a == Append(s, e)
<1>1. /\ a \in Seq(E) /\ Len(a) = Len(s) + 1 /\ Len(s) \in Nat /\ a[Len(s) + 1] = e
      /\ \A i \in 1..Len(s) : a[i] = s[i]
  OBVIOUS
<1>2. 1..Len(a) = 1..Len(s) \cup {Len(s) + 1}
  BY <1>1
<1> HIDE DEF a
<1>3. IdsOf(a) = IdsOf(s) \cup {e.id}
  BY <1>1, <1>2 DEF IdsOf
<1>4. NoRepeat(s) /\ e.id \notin IdsOf(s) => NoRepeat(a)
  BY <1>1, <1>2 DEF IdsOf, NoRepeat
<1> QED BY <1>1, <1>3, <1>4 DEF a

(* What taking the first request off does.                                 *)
LEMMA TailIds ==
  ASSUME NEW E, NEW s \in Seq(E), s # << >>
  PROVE  /\ Tail(s) \in Seq(E) /\ Len(Tail(s)) = Len(s) - 1 /\ Len(s) \in Nat \ {0}
         /\ Head(s) \in E /\ Head(s) = s[1]
         /\ \A i \in 1..Len(Tail(s)) : Tail(s)[i] = s[i + 1] /\ i + 1 \in 1..Len(s)
         /\ IdsOf(s) = IdsOf(Tail(s)) \cup {Head(s).id}
         /\ NoRepeat(s) => NoRepeat(Tail(s)) /\ Head(s).id \notin IdsOf(Tail(s))
<1> DEFINE t == Tail(s)
           h == Head(s)
<1>1. /\ t \in Seq(E) /\ Len(t) = Len(s) - 1 /\ Len(s) \in Nat \ {0} /\ h \in E /\ h = s[1]
      /\ \A i \in 1..Len(t) : t[i] = s[i + 1]
  OBVIOUS
<1> HIDE DEF t, h
<1>2. \A i \in 1..Len(t) : i + 1 \in 1..Len(s) /\ i + 1 # 1 /\ i \in Nat
  BY <1>1
<1>3. \A i \in 1..Len(s) : i = 1 \/ (i - 1 \in 1..Len(t) /\ (i - 1) + 1 = i)
  BY <1>1
<1>4. 1 \in 1..Len(s)
  BY <1>1
<1>5. IdsOf(s) = IdsOf(t) \cup {h.id}
  <2>1. IdsOf(t) \cup {h.id} \subseteq IdsOf(s)
    BY <1>1, <1>2, <1>4 DEF IdsOf
  <2>2. ASSUME NEW i \in 1..Len(s) PROVE s[i].id \in IdsOf(t) \cup {h.id}
    <3>1. CASE i = 1
      BY <3>1, <1>1
    <3>2. CASE i # 1
      <4>1. PICK j \in 1..Len(t) : j + 1 = i
        BY <1>3, <3>2
      <4> QED BY <4>1, <1>1 DEF IdsOf
    <3> QED BY <3>1, <3>2
  <2> QED BY <2>1, <2>2 DEF IdsOf
<1>6. NoRepeat(s) => NoRepeat(t) /\ h.id \notin IdsOf(t)
  <2>1. SUFFICES ASSUME NoRepeat(s) PROVE NoRepeat(t) /\ h.id \notin IdsOf(t)
    OBVIOUS
  <2>2. ASSUME NEW i \in 1..Len(t), NEW j \in 1..Len(t), t[i].id = t[j].id
        PROVE  i = j
    <3>1. i + 1 = j + 1
      BY <1>1, <1>2, <2>1, <2>2 DEF NoRepeat
    <3> QED BY <3>1, <1>2
  <2>3. ASSUME NEW i \in 1..Len(t), t[i].id = h.id
        PROVE  FALSE
    BY <1>1, <1>2, <1>4, <2>1, <2>3 DEF NoRepeat
  <2> QED BY <2>2, <2>3 DEF NoRepeat, IdsOf
<1> QED BY <1>1, <1>2, <1>5, <1>6 DEF t, h

\* List s without its entry i + 1.
Without(s, i) == SubSeq(s, 1, i) \o SubSeq(s, i + 2, Len(s))

(* What taking one request out of the middle does.                         *)
LEMMA WithoutIds ==
  ASSUME NEW E, NEW s \in Seq(E), NEW i \in Nat, i < Len(s),
         NEW w, w = Without(s, i)
  PROVE  /\ w \in Seq(E) /\ Len(w) = Len(s) - 1
         /\ i + 1 \in 1..Len(s) /\ s[i + 1] \in E
         /\ \A j \in 1..Len(w) : w[j] = s[IF j <= i THEN j ELSE j + 1]
         /\ \A j \in 1..i : j \in 1..Len(w) /\ w[j] = s[j]
         /\ IdsOf(s) = IdsOf(w) \cup {s[i + 1].id}
         /\ NoRepeat(s) => NoRepeat(w) /\ s[i + 1].id \notin IdsOf(w)
<1> DEFINE at(j) == IF j <= i THEN j ELSE j + 1
<1>1. Len(s) \in Nat /\ i + 1 \in 1..Len(s) /\ s[i + 1] \in E
  OBVIOUS
<1>2. PICK a : a = SubSeq(s, 1, i)
  OBVIOUS
<1>2a. a \in Seq(E) /\ Len(a) = i /\ \A j \in 1..i : a[j] = s[j]
  <2>1. \A j \in 1..i : s[j] \in E
    OBVIOUS
  <2>2. 1 \in Int /\ i \in Int
    OBVIOUS
  <2>3. /\ a \in Seq(E) /\ Len(a) = IF 1 <= i THEN i - 1 + 1 ELSE 0
        /\ \A j \in 1..i - 1 + 1 : a[j] = s[1 + j - 1]
    BY ONLY <1>2, <2>1, <2>2, SubSeqProperties
  <2> QED BY <2>3
<1>3. PICK b : b = SubSeq(s, i + 2, Len(s))
  OBVIOUS
<1>3a. /\ b \in Seq(E) /\ Len(b) = Len(s) - i - 1
       /\ \A j \in 1..(Len(s) - i - 1) : b[j] = s[j + i + 1]
  <2> DEFINE m == i + 2
             n == Len(s)
  <2>1. \A j \in m..n : s[j] \in E
    OBVIOUS
  <2>2. m \in Int /\ n \in Int
    OBVIOUS
  <2>3. b = SubSeq(s, m, n)
    BY <1>3
  <2> HIDE DEF m, n
  <2>4. /\ b \in Seq(E) /\ Len(b) = IF m <= n THEN n - m + 1 ELSE 0
        /\ \A j \in 1..n - m + 1 : b[j] = s[m + j - 1]
    BY ONLY <2>1, <2>2, <2>3, SubSeqProperties
  <2>5. n - m + 1 = Len(s) - i - 1 /\ \A j \in Nat : m + j - 1 = j + i + 1
    BY DEF m, n
  <2>6. Len(b) = Len(s) - i - 1
    BY <2>4 DEF m, n
  <2>7. ASSUME NEW j \in 1..(Len(s) - i - 1) PROVE b[j] = s[j + i + 1]
    <3>1. j \in 1..n - m + 1 /\ m + j - 1 = j + i + 1
      BY <2>5
    <3> QED BY <2>4, <3>1
  <2> QED BY <2>4, <2>6, <2>7
<1>4. w = a \o b
  BY <1>2, <1>3 DEF Without
<1>5. /\ w \in Seq(E) /\ Len(w) = Len(s) - 1
      /\ \A j \in 1..Len(w) : w[j] = IF j <= i THEN a[j] ELSE b[j - i]
  <2>1. /\ w \in Seq(E) /\ Len(w) = Len(a) + Len(b)
        /\ \A j \in 1..Len(a) + Len(b) :
             w[j] = IF j <= Len(a) THEN a[j] ELSE b[j - Len(a)]
    <3>1. a \in Seq(E) /\ b \in Seq(E)
      BY <1>2a, <1>3a
    <3>2. /\ a \o b \in Seq(E) /\ Len(a \o b) = Len(a) + Len(b)
          /\ \A j \in 1..Len(a) + Len(b) :
               (a \o b)[j] = IF j <= Len(a) THEN a[j] ELSE b[j - Len(a)]
      BY ONLY <3>1, ConcatProperties, Zenon
    <3> QED BY ONLY <3>2, <1>4
  <2>2. Len(a) + Len(b) = Len(s) - 1 /\ Len(a) = i
    BY <1>1, <1>2a, <1>3a
  <2> QED BY ONLY <2>1, <2>2
<1>6. ASSUME NEW j \in 1..Len(w) PROVE w[j] = s[at(j)] /\ at(j) \in 1..Len(s) \ {i + 1}
  <2>1. CASE j <= i
    <3>1. j \in 1..i /\ at(j) = j /\ j \in 1..Len(s) /\ j # i + 1
      BY <1>1, <1>5, <2>1
    <3> QED BY <1>2a, <1>5, <2>1, <3>1
  <2>2. CASE ~(j <= i)
    <3>1. j - i \in 1..(Len(s) - i - 1) /\ (j - i) + i + 1 = j + 1
      BY <1>1, <1>5, <2>2
    <3>2. at(j) = j + 1 /\ j + 1 \in 1..Len(s) /\ j + 1 # i + 1
      BY <1>1, <1>5, <2>2
    <3>3. w[j] = b[j - i]
      BY <1>5, <2>2
    <3>4. b[j - i] = s[(j - i) + i + 1]
      BY <1>3a, <3>1
    <3> QED BY <3>1, <3>2, <3>3, <3>4
  <2> QED BY <2>1, <2>2
<1>7. \A j \in 1..i : j \in 1..Len(w) /\ w[j] = s[j]
  BY <1>1, <1>5, <1>2a
<1>8. \A k \in 1..Len(s) \ {i + 1} : \E j \in 1..Len(w) : at(j) = k
  <2>1. SUFFICES ASSUME NEW k \in 1..Len(s) \ {i + 1}
                 PROVE  \E j \in 1..Len(w) : at(j) = k
    OBVIOUS
  <2>2. CASE k <= i
    <3>1. k \in 1..Len(w) /\ at(k) = k
      BY <2>2, <1>1, <1>5
    <3> QED BY <3>1
  <2>3. CASE ~(k <= i)
    <3>1. k - 1 \in 1..Len(w) /\ at(k - 1) = k
      BY <2>3, <1>1, <1>5
    <3> QED BY <3>1
  <2> QED BY <2>2, <2>3
<1>9. \A j, k \in 1..Len(w) : at(j) = at(k) => j = k
  BY <1>1, <1>5
<1> HIDE DEF at
<1>10. IdsOf(s) = IdsOf(w) \cup {s[i + 1].id}
  <2>1. IdsOf(w) \cup {s[i + 1].id} \subseteq IdsOf(s)
    BY <1>1, <1>6 DEF IdsOf
  <2>2. ASSUME NEW k \in 1..Len(s) PROVE s[k].id \in IdsOf(w) \cup {s[i + 1].id}
    <3>1. CASE k = i + 1
      BY <3>1
    <3>2. CASE k # i + 1
      <4>1. k \in 1..Len(s) \ {i + 1}
        BY <3>2
      <4>2. PICK j \in 1..Len(w) : at(j) = k
        BY <4>1, <1>8
      <4>3. w[j].id = s[k].id
        BY <4>2, <1>6
      <4> QED BY <4>3 DEF IdsOf
    <3> QED BY <3>1, <3>2
  <2> QED BY <2>1, <2>2 DEF IdsOf
<1>11. NoRepeat(s) => NoRepeat(w) /\ s[i + 1].id \notin IdsOf(w)
  <2>1. SUFFICES ASSUME NoRepeat(s) PROVE NoRepeat(w) /\ s[i + 1].id \notin IdsOf(w)
    OBVIOUS
  <2>2. ASSUME NEW j \in 1..Len(w), NEW k \in 1..Len(w), w[j].id = w[k].id
        PROVE  j = k
    <3>1. at(j) = at(k)
      BY <1>6, <2>1, <2>2 DEF NoRepeat
    <3> QED BY <3>1, <1>9
  <2>3. ASSUME NEW j \in 1..Len(w), w[j].id = s[i + 1].id
        PROVE  FALSE
    BY <1>1, <1>6, <2>1, <2>3 DEF NoRepeat
  <2> QED BY <2>2, <2>3 DEF NoRepeat, IdsOf
<1>12. \A j \in 1..Len(w) : w[j] = s[IF j <= i THEN j ELSE j + 1]
  BY <1>6 DEF at
<1> QED BY <1>1, <1>5, <1>7, <1>10, <1>11, <1>12

----------------------------------------------------------------------------
(* A set of numbers has a least one.                                       *)
LEMMA LeastNat ==
  ASSUME NEW S, S \subseteq Nat, S # {}
  PROVE  \E n \in S : \A m \in S : n <= m
<1>1. PICK n \in S : \A m \in S : ~(<<m, n>> \in OpToRel(<, Nat))
  BY NatLessThanWellFounded, WFMin
<1>2. \A m \in S : ~(m < n)
  BY <1>1 DEF OpToRel
<1> QED BY <1>2

(* What a configuration says of levels, policies and threads.              *)
LEMMA ConfigFacts ==
  ASSUME config \in DOMAIN ModelConfigs
  PROVE  /\ Levels \subseteq Nat /\ FirstLevel \in Levels
         /\ \A l \in Levels : FirstLevel <= l
         /\ \A l \in Levels : l + 1 \in Levels \/ \A k \in Levels : k <= l
         /\ QueuePolicy \in [Levels -> Policies] /\ NsPerUs \in Nat
         /\ 0 \notin Threads /\ Threads \cap Phases = {} /\ IsFiniteSet(Threads)
         /\ RequestKinds \subseteq [batch : Nat \ {0}, priority : Levels,
                                    timeout : Nat, shape : Nat]
<1>1. /\ PriorityLevels \in Nat /\ QueuePolicy \in [Levels -> Policies] /\ NsPerUs \in Nat
  BY PriorityQueueAssumption
     DEF PriorityLevels, QueuePolicy, NsPerUs, Config, Levels
<1>2. /\ 0 \notin Threads /\ Threads \cap Phases = {} /\ IsFiniteSet(Threads)
      /\ RequestKinds \subseteq [batch : Nat \ {0}, priority : Levels,
                                 timeout : Nat, shape : Nat]
  BY DynamicBatchSchedulerAssumption
     DEF Threads, RequestKinds, Config, Kinds, Levels, PriorityLevels
<1>3. /\ Levels \subseteq Nat /\ FirstLevel \in Levels
      /\ \A l \in Levels : FirstLevel <= l
      /\ \A l \in Levels : l + 1 \in Levels \/ \A k \in Levels : k <= l
  BY <1>1 DEF Levels, LevelsOf, FirstLevel
<1> QED BY <1>1, <1>2, <1>3

(* The configuration does not change, so neither do its parts.             *)
LEMMA SameConfig ==
  ASSUME config' = config
  PROVE  /\ Levels' = Levels /\ Threads' = Threads
         /\ PreserveOrdering' = PreserveOrdering
  BY DEF Levels, PriorityLevels, Threads, PreserveOrdering, Config

(* Queues with the same lists hold the same requests in the same order.    *)
LEMMA SameLists ==
  ASSUME NEW L, NEW Q, NEW R, R.queue = Q.queue, R.delayed = Q.delayed
  PROVE  /\ \A l : IdsAt(R, l) = IdsAt(Q, l)
         /\ InQueue(L, R) = InQueue(L, Q)
         /\ QPlaces(L, Q) /\ NoRepeat(R.rejected) => QPlaces(L, R)
         /\ \A n : QOrder(L, Q, n) => QOrder(L, R, n)
         /\ \A l : PolicySize(R, l) = PolicySize(Q, l)
         /\ \A l, i : HasAt(R, l, i) = HasAt(Q, l, i)
         /\ R.cursor.level = Q.cursor.level /\ R.cursor.idx = Q.cursor.idx
              => FrontIds(L, R) = FrontIds(L, Q)
<1>1. \A l : IdsAt(R, l) = IdsAt(Q, l)
  BY DEF IdsAt
<1>2. InQueue(L, R) = InQueue(L, Q)
  BY <1>1 DEF InQueue
<1>3. QPlaces(L, Q) /\ NoRepeat(R.rejected) => QPlaces(L, R)
  BY <1>1 DEF QPlaces
<1>4. \A n : QOrder(L, Q, n) => QOrder(L, R, n)
  BY DEF QOrder
<1>5. \A l : PolicySize(R, l) = PolicySize(Q, l)
  BY DEF PolicySize
<1>6. \A l, i : HasAt(R, l, i) = HasAt(Q, l, i)
  BY <1>5 DEF HasAt
<1>7. R.cursor.level = Q.cursor.level /\ R.cursor.idx = Q.cursor.idx
        => FrontIds(L, R) = FrontIds(L, Q)
  <2>1. \A c : Below(L, R, c) = Below(L, Q, c)
    BY <1>1 DEF Below
  <2> QED BY <2>1 DEF FrontIds
<1> QED BY <1>1, <1>2, <1>3, <1>4, <1>5, <1>6, <1>7

(* The queue holds requests, finitely many.                                *)
LEMMA InQueueFacts ==
  ASSUME NEW L, NEW Q, QShape(L, Q)
  PROVE  /\ \A l \in L : IdsAt(Q, l) \subseteq Requests
         /\ InQueue(L, Q) \subseteq Requests
         /\ \A S \in SUBSET Requests : IsFiniteSet(S) /\ Cardinality(S) \in Nat
         /\ \A l \in L : Len(Q.queue[l]) \in Nat /\ Len(Q.delayed[l]) \in Nat
         /\ \A l \in L : IdsAt(Q, l) \subseteq InQueue(L, Q)
         /\ \A l \in L : IdsAt(Q, l) # {} <=> PolicySize(Q, l) > 0
<1>1. \A l \in L : /\ Q.queue[l] \in Seq(Entries(L)) /\ Q.delayed[l] \in Seq(Entries(L))
                   /\ Len(Q.queue[l]) \in Nat /\ Len(Q.delayed[l]) \in Nat
  BY DEF QShape
<1>2. ASSUME NEW s \in Seq(Entries(L)) PROVE IdsOf(s) \subseteq Requests
  <2>1. \A i \in 1..Len(s) : s[i] \in Entries(L)
    OBVIOUS
  <2>2. \A e \in Entries(L) : e.id \in Requests
    BY DEF Entries
  <2> QED BY <2>1, <2>2 DEF IdsOf
<1>3. \A l \in L : IdsAt(Q, l) \subseteq Requests
  BY <1>1, <1>2 DEF IdsAt
<1>4. \A S \in SUBSET Requests : IsFiniteSet(S) /\ Cardinality(S) \in Nat
  BY CompletionQueueAssumption, FS_Subset, FS_CardinalityType
<1>5. \A l \in L : IdsAt(Q, l) # {} <=> PolicySize(Q, l) > 0
  <2>1. ASSUME NEW s, Len(s) \in Nat PROVE IdsOf(s) # {} <=> Len(s) > 0
    <3>1. Len(s) > 0 => 1 \in 1..Len(s)
      BY <2>1
    <3>2. Len(s) = 0 => 1..Len(s) = {}
      OBVIOUS
    <3> QED BY <3>1, <3>2, <2>1 DEF IdsOf
  <2>2. ASSUME NEW l \in L PROVE IdsAt(Q, l) # {} <=> PolicySize(Q, l) > 0
    <3>1. /\ IdsOf(Q.queue[l]) # {} <=> Len(Q.queue[l]) > 0
          /\ IdsOf(Q.delayed[l]) # {} <=> Len(Q.delayed[l]) > 0
      BY <1>1, <2>1
    <3>2. PolicySize(Q, l) > 0 <=> Len(Q.queue[l]) > 0 \/ Len(Q.delayed[l]) > 0
      <4>1. \A a, b \in Nat : (a + b > 0) <=> (a > 0 \/ b > 0)
        OBVIOUS
      <4>2. Len(Q.queue[l]) \in Nat /\ Len(Q.delayed[l]) \in Nat
        BY <1>1
      <4> QED BY ONLY <4>1, <4>2 DEF PolicySize
    <3> QED BY <3>1, <3>2 DEF IdsAt
  <2> QED BY <2>2
<1> QED BY <1>1, <1>3, <1>4, <1>5 DEF InQueue

(* The first n requests of a list.                                         *)
LEMMA FirstIdsFacts ==
  ASSUME NEW s, Len(s) \in Nat, NEW n \in Int
  PROVE  /\ n <= 0 => FirstIds(s, n) = {}
         /\ n >= Len(s) => FirstIds(s, n) = IdsOf(s)
         /\ FirstIds(s, n) \subseteq IdsOf(s)
         /\ n + 1 \in 1..Len(s) =>
              /\ FirstIds(s, n + 1) = FirstIds(s, n) \cup {s[n + 1].id}
              /\ s[n + 1].id \in IdsOf(s)
              /\ NoRepeat(s) => s[n + 1].id \notin FirstIds(s, n)
<1>1. ASSUME n <= 0 PROVE FirstIds(s, n) = {}
  <2>1. {j \in 1..Len(s) : j <= n} = {}
    BY <1>1
  <2> QED BY <2>1 DEF FirstIds
<1>2. ASSUME n >= Len(s) PROVE FirstIds(s, n) = IdsOf(s)
  <2>1. {j \in 1..Len(s) : j <= n} = 1..Len(s)
    BY <1>2
  <2> QED BY <2>1 DEF FirstIds, IdsOf
<1>3. FirstIds(s, n) \subseteq IdsOf(s)
  BY DEF FirstIds, IdsOf
<1>4. ASSUME n + 1 \in 1..Len(s)
      PROVE  /\ FirstIds(s, n + 1) = FirstIds(s, n) \cup {s[n + 1].id}
             /\ s[n + 1].id \in IdsOf(s)
             /\ NoRepeat(s) => s[n + 1].id \notin FirstIds(s, n)
  <2>1. PICK b \in 1..Len(s) : b = n + 1
    BY <1>4
  <2>2. {j \in 1..Len(s) : j <= b} = {j \in 1..Len(s) : j <= n} \cup {b}
    BY <2>1
  <2>3. \A j \in 1..Len(s) : j <= n => j # b
    BY <2>1
  <2>4. FirstIds(s, b) = FirstIds(s, n) \cup {s[b].id}
    BY <2>2 DEF FirstIds
  <2>5. s[b].id \in IdsOf(s)
    BY DEF IdsOf
  <2>6. NoRepeat(s) => s[b].id \notin FirstIds(s, n)
    BY <2>3 DEF FirstIds, NoRepeat
  <2> QED BY <2>1, <2>4, <2>5, <2>6
<1> QED BY <1>1, <1>2, <1>3, <1>4

(* Lists that agree on their first n places have the same first requests.  *)
LEMMA SameFirst ==
  ASSUME NEW s, NEW t, NEW n \in Nat, Len(s) \in Nat, Len(t) \in Nat,
         n <= Len(s), n <= Len(t), \A j \in 1..n : t[j] = s[j]
  PROVE  FirstIds(t, n) = FirstIds(s, n)
<1>1. {j \in 1..Len(s) : j <= n} = 1..n /\ {j \in 1..Len(t) : j <= n} = 1..n
  OBVIOUS
<1> QED BY <1>1 DEF FirstIds

(* What is in front of a cursor.                                           *)
LEMMA FrontIs ==
  ASSUME NEW L, NEW Q, NEW c, c = Q.cursor.level, NEW i, i = Q.cursor.idx
  PROVE  FrontIds(L, Q) = Below(L, Q, c) \cup FirstIds(Q.queue[c], i)
                            \cup FirstIds(Q.delayed[c], i - Len(Q.queue[c]))
  BY DEF FrontIds

(* The lists of one level change.                                          *)
OneLevel(L, Q, R, l) ==
  /\ R.queue \in [L -> Seq(Entries(L))] /\ R.delayed \in [L -> Seq(Entries(L))]
  /\ \A k \in L : k # l => R.queue[k] = Q.queue[k] /\ R.delayed[k] = Q.delayed[k]

\* QPlaces and QOrder of a single level.
LevelPlaces(R, l) ==
  /\ NoRepeat(R.queue[l]) /\ NoRepeat(R.delayed[l])
  /\ IdsOf(R.queue[l]) \cap IdsOf(R.delayed[l]) = {}

LevelOrdered(R, l, n) ==
  /\ \A i \in 1..Len(R.queue[l]) : R.queue[l][i].priority = l /\ R.queue[l][i].seq < n
  /\ \A i \in 1..Len(R.delayed[l]) : R.delayed[l][i].priority = l
  /\ \A i, j \in 1..Len(R.queue[l]) : i < j => R.queue[l][i].seq < R.queue[l][j].seq

(* When one level changes and stays sound in itself, the queue stays sound. *)
LEMMA LevelChanged ==
  ASSUME NEW L, NEW Q, NEW R, NEW l \in L, NEW n \in Nat, NEW m \in Nat, m >= n,
         QShape(L, Q), QPlaces(L, Q), QOrder(L, Q, n),
         OneLevel(L, Q, R, l), LevelPlaces(R, l), LevelOrdered(R, l, m),
         NoRepeat(R.rejected),
         NEW X, IdsAt(R, l) \subseteq IdsAt(Q, l) \cup X, X \cap InQueue(L, Q) = {}
  PROVE  /\ QPlaces(L, R) /\ QOrder(L, R, m)
         /\ InQueue(L, R) = (InQueue(L, Q) \ IdsAt(Q, l)) \cup IdsAt(R, l)
         /\ \A k \in L : k # l => IdsAt(R, k) = IdsAt(Q, k)
<1>1. \A k \in L : k # l => /\ R.queue[k] = Q.queue[k] /\ R.delayed[k] = Q.delayed[k]
                            /\ IdsAt(R, k) = IdsAt(Q, k)
  BY DEF OneLevel, IdsAt
<1>2. \A k \in L : IdsAt(Q, k) \subseteq InQueue(L, Q)
  BY DEF InQueue
<1>3. \A k, j \in L : k # j => IdsAt(Q, k) \cap IdsAt(Q, j) = {}
  BY DEF QPlaces
<1>4. \A k \in L : k # l => IdsAt(R, l) \cap IdsAt(R, k) = {}
  BY <1>1, <1>2, <1>3
<1>5. \A k, j \in L : k # j => IdsAt(R, k) \cap IdsAt(R, j) = {}
  BY <1>1, <1>3, <1>4
<1>6. \A k \in L : LevelPlaces(R, k)
  BY <1>1 DEF LevelPlaces, QPlaces
<1>7. QPlaces(L, R)
  BY <1>5, <1>6 DEF QPlaces, LevelPlaces
<1>8. ASSUME NEW k \in L, k # l PROVE LevelOrdered(R, k, m)
  <2>1. Q.queue[k] \in Seq(Entries(L))
    BY DEF QShape
  <2>2. \A i \in 1..Len(Q.queue[k]) : Q.queue[k][i].seq < m
    <3>1. \A i \in 1..Len(Q.queue[k]) : Q.queue[k][i] \in Entries(L)
      BY <2>1
    <3>2. \A e \in Entries(L) : e.seq \in Nat
      BY DEF Entries
    <3>3. \A i \in 1..Len(Q.queue[k]) : Q.queue[k][i].seq < n
      BY DEF QOrder
    <3>4. \A a \in Nat : a < n => a < m
      OBVIOUS
    <3> QED BY <3>1, <3>2, <3>3, <3>4
  <2>3. R.queue[k] = Q.queue[k] /\ R.delayed[k] = Q.delayed[k]
    BY <1>1, <1>8
  <2>4. /\ \A i \in 1..Len(Q.queue[k]) : Q.queue[k][i].priority = k
        /\ \A i \in 1..Len(Q.delayed[k]) : Q.delayed[k][i].priority = k
        /\ \A i, j \in 1..Len(Q.queue[k]) : i < j => Q.queue[k][i].seq < Q.queue[k][j].seq
    BY DEF QOrder
  <2> QED BY <2>2, <2>3, <2>4 DEF LevelOrdered
<1>9. QOrder(L, R, m)
  BY <1>8 DEF QOrder, LevelOrdered
<1>10. InQueue(L, R) = (InQueue(L, Q) \ IdsAt(Q, l)) \cup IdsAt(R, l)
  <2>1. InQueue(L, R) \subseteq (InQueue(L, Q) \ IdsAt(Q, l)) \cup IdsAt(R, l)
    BY <1>1, <1>2, <1>3 DEF InQueue
  <2>2. ASSUME NEW x \in InQueue(L, Q), x \notin IdsAt(Q, l) PROVE x \in InQueue(L, R)
    BY <1>1, <2>2 DEF InQueue
  <2>3. IdsAt(R, l) \subseteq InQueue(L, R)
    BY DEF InQueue
  <2> QED BY <2>1, <2>2, <2>3
<1> QED BY <1>1, <1>7, <1>9, <1>10

----------------------------------------------------------------------------
\* The entry as PolicyQueue::Enqueue stores it.
Stamped(e, l, x) == [e EXCEPT !.expiry = Expiry(e, l, x)]

(* The expiry time of an arriving request is a time.                       *)
LEMMA StampedEntry ==
  ASSUME config \in DOMAIN ModelConfigs, NEW l \in Levels,
         NEW e \in Entries(Levels), NEW x \in Nat
  PROVE  /\ Stamped(e, l, x) \in Entries(Levels) /\ Stamped(e, l, x).id = e.id
         /\ Stamped(e, l, x).priority = e.priority /\ Stamped(e, l, x).seq = e.seq
<1>1. QueuePolicy[l].timeout \in Nat /\ NsPerUs \in Nat
  BY ConfigFacts DEF Policies
<1>2. TimeoutUs(e, l) \in Nat
  BY <1>1 DEF TimeoutUs, Entries
<1>3. Expiry(e, l, x) \in Nat
  BY <1>1, <1>2 DEF Expiry
<1> QED BY <1>3 DEF Stamped, Entries

(* EnqueueAt, field by field.                                              *)
LEMMA EnqueueFields ==
  ASSUME NEW L, NEW Q, QShape(L, Q), NEW l \in L, NEW e, NEW x,
         NEW R, R = EnqueueAt(Q, l, e, x)
  PROVE  /\ DOMAIN R = QFields /\ DOMAIN R.cursor = CFields /\ R.mark = Q.mark
         /\ R.queue = [Q.queue EXCEPT ![l] = Append(Q.queue[l], Stamped(e, l, x))]
         /\ R.delayed = Q.delayed /\ R.rejected = Q.rejected
         /\ R.size = Q.size + 1
         /\ R.front = IF l < Q.front THEN l ELSE Q.front
         /\ R.cursor.level = Q.cursor.level /\ R.cursor.idx = Q.cursor.idx
         /\ R.cursor.atDelayed = Q.cursor.atDelayed
         /\ R.cursor.count = Q.cursor.count
         /\ R.cursor.valid => Q.cursor.valid /\ ~Invalidates(Q.cursor, l)
<1>1. DOMAIN Q = QFields /\ DOMAIN Q.cursor = CFields
  BY DEF QShape
<1> QED BY <1>1 DEF EnqueueAt, Stamped, QFields, CFields

(* An arrival is put behind the requests of its level; if the cursor stays *)
(* valid the pending batch is what it was.                                 *)
LEMMA EnqueueKeeps ==
  ASSUME config \in DOMAIN ModelConfigs, NEW Q, NEW n \in Nat, NEW k \in Nat,
         QShape(Levels, Q), QPlaces(Levels, Q), QOrder(Levels, Q, n),
         QCount(Levels, Q, k),
         NEW l \in Levels, NEW e \in Entries(Levels), e.priority = l, e.seq = n,
         e.id \notin InQueue(Levels, Q), NEW x \in Nat,
         NEW R, R = EnqueueAt(Q, l, e, x)
  PROVE  /\ QShape(Levels, R) /\ QPlaces(Levels, R) /\ QOrder(Levels, R, n + 1)
         /\ QCount(Levels, R, k)
         /\ InQueue(Levels, R) = InQueue(Levels, Q) \cup {e.id}
         /\ R.rejected = Q.rejected /\ R.mark = Q.mark /\ R.cursor.count = Q.cursor.count
         /\ R.cursor.valid => Q.cursor.valid
         /\ R.cursor.valid /\ CursorOK(Levels, Q) =>
              CursorOK(Levels, R) /\ FrontIds(Levels, R) = FrontIds(Levels, Q)
<1> DEFINE ee == Stamped(e, l, x)
           s == Q.queue[l]
<1>1. ee \in Entries(Levels) /\ ee.id = e.id /\ ee.priority = l /\ ee.seq = n
  BY StampedEntry
<1>2. /\ Q.queue \in [Levels -> Seq(Entries(Levels))]
      /\ Q.delayed \in [Levels -> Seq(Entries(Levels))]
      /\ s \in Seq(Entries(Levels)) /\ Len(s) \in Nat
      /\ Q.size \in Int /\ Q.front \in Int /\ Q.cursor.count \in Nat
  BY DEF QShape
<1>3. /\ DOMAIN R = QFields /\ DOMAIN R.cursor = CFields /\ R.mark = Q.mark
      /\ R.queue = [Q.queue EXCEPT ![l] = Append(s, ee)]
      /\ R.delayed = Q.delayed /\ R.rejected = Q.rejected
      /\ R.size = Q.size + 1
      /\ R.front = IF l < Q.front THEN l ELSE Q.front
      /\ R.cursor.level = Q.cursor.level /\ R.cursor.idx = Q.cursor.idx
      /\ R.cursor.atDelayed = Q.cursor.atDelayed
      /\ R.cursor.count = Q.cursor.count
      /\ R.cursor.valid => Q.cursor.valid /\ ~Invalidates(Q.cursor, l)
  BY SMTT(30), EnqueueFields
<1> HIDE DEF ee, s
<1>4. s = Q.queue[l]
  BY DEF s
<1>5. PICK a : a = Append(s, ee) /\ a \in Seq(Entries(Levels))
  <2>1. Append(s, ee) \in Seq(Entries(Levels))
    BY <1>1, <1>2, AppendIds
  <2> QED BY <2>1
<1>6. /\ Len(a) = Len(s) + 1 /\ a[Len(s) + 1] = ee
      /\ \A i \in 1..Len(s) : a[i] = s[i]
      /\ IdsOf(a) = IdsOf(s) \cup {e.id}
      /\ NoRepeat(s) /\ e.id \notin IdsOf(s) => NoRepeat(a)
  BY <1>1, <1>2, <1>5, AppendIds
<1>7. R.queue[l] = a /\ \A j \in Levels : j # l => R.queue[j] = Q.queue[j]
  BY <1>2, <1>3, <1>5
<1>8. R.queue \in [Levels -> Seq(Entries(Levels))]
  BY <1>2, <1>3, <1>5
<1>9. OneLevel(Levels, Q, R, l)
  BY <1>2, <1>3, <1>7, <1>8 DEF OneLevel
<1>10. e.id \notin IdsAt(Q, l)
  BY DEF InQueue
<1>11. LevelPlaces(R, l)
  <2>1. NoRepeat(s) /\ NoRepeat(Q.delayed[l]) /\ IdsOf(s) \cap IdsOf(Q.delayed[l]) = {}
    BY <1>4 DEF QPlaces
  <2>2. NoRepeat(a) /\ IdsOf(a) \cap IdsOf(Q.delayed[l]) = {}
    BY <2>1, <1>4, <1>6, <1>10 DEF IdsAt
  <2> QED BY <2>1, <2>2, <1>3, <1>7 DEF LevelPlaces
<1>12. LevelOrdered(R, l, n + 1)
  <2>1. /\ \A i \in 1..Len(s) : s[i].priority = l /\ s[i].seq < n
        /\ \A i, j \in 1..Len(s) : i < j => s[i].seq < s[j].seq
        /\ \A i \in 1..Len(Q.delayed[l]) : Q.delayed[l][i].priority = l
    BY <1>4 DEF QOrder
  <2>2. \A i \in 1..Len(a) : i \in 1..Len(s) \/ i = Len(s) + 1
    BY <1>2, <1>6
  <2>3. \A i \in 1..Len(s) : s[i].seq \in Nat
    <3>1. \A i \in 1..Len(s) : s[i] \in Entries(Levels)
      BY <1>2
    <3> QED BY <3>1 DEF Entries
  <2>4. \A i \in 1..Len(a) : a[i].priority = l /\ a[i].seq < n + 1
    BY <1>1, <1>6, <2>1, <2>2, <2>3
  <2>5. \A i, j \in 1..Len(a) : i < j => a[i].seq < a[j].seq
    <3>1. SUFFICES ASSUME NEW i \in 1..Len(a), NEW j \in 1..Len(a), i < j
                   PROVE  a[i].seq < a[j].seq
      OBVIOUS
    <3>2. i \in 1..Len(s)
      BY <3>1, <1>2, <1>6
    <3> QED BY <3>1, <3>2, <1>1, <1>6, <2>1, <2>2
  <2>6. R.queue[l] = a /\ R.delayed[l] = Q.delayed[l]
    BY <1>3, <1>7
  <2> QED BY ONLY <2>1, <2>4, <2>5, <2>6 DEF LevelOrdered
<1>13. IdsAt(R, l) = IdsAt(Q, l) \cup {e.id}
  BY <1>3, <1>4, <1>6, <1>7 DEF IdsAt
<1>14. NoRepeat(R.rejected)
  BY <1>3 DEF QPlaces
<1>15. /\ QPlaces(Levels, R) /\ QOrder(Levels, R, n + 1)
       /\ InQueue(Levels, R) = (InQueue(Levels, Q) \ IdsAt(Q, l)) \cup IdsAt(R, l)
       /\ \A j \in Levels : j # l => IdsAt(R, j) = IdsAt(Q, j)
  <2>1. PICK X, m : X = {e.id} /\ m = n + 1
    OBVIOUS
  <2>2. X \cap InQueue(Levels, Q) = {} /\ m \in Nat /\ m >= n
    BY <2>1
  <2>3. IdsAt(R, l) \subseteq IdsAt(Q, l) \cup X
    BY <1>13, <2>1
  <2>4. LevelOrdered(R, l, m)
    BY <1>12, <2>1
  <2>5. /\ QPlaces(Levels, R) /\ QOrder(Levels, R, m)
        /\ InQueue(Levels, R) = (InQueue(Levels, Q) \ IdsAt(Q, l)) \cup IdsAt(R, l)
        /\ \A j \in Levels : j # l => IdsAt(R, j) = IdsAt(Q, j)
    BY <1>9, <1>11, <1>14, <2>2, <2>3, <2>4, LevelChanged
  <2> QED BY <2>1, <2>5
<1>16. InQueue(Levels, R) = InQueue(Levels, Q) \cup {e.id}
  <2>1. IdsAt(Q, l) \subseteq InQueue(Levels, Q)
    BY DEF InQueue
  <2> QED BY <1>13, <1>15, <2>1
<1>17. QShape(Levels, R)
  <2>1. DOMAIN Q.mark = CFields /\ Q.mark.count \in Nat /\ Q.rejected \in Seq(Entries(Levels))
    BY DEF QShape
  <2>2. R.front \in Int /\ R.size \in Int
    BY <1>2, <1>3, ConfigFacts
  <2> QED BY ONLY <1>2, <1>3, <1>8, <2>1, <2>2 DEF QShape
<1>18. QCount(Levels, R, k)
  <2>1. Cardinality(InQueue(Levels, R)) = Cardinality(InQueue(Levels, Q)) + 1
    BY <1>16, InQueueFacts, FS_AddElement
  <2>2. Cardinality(InQueue(Levels, Q)) \in Nat
    BY InQueueFacts
  <2>3. R.size = Cardinality(InQueue(Levels, R)) + k
    BY <2>1, <2>2, <1>2, <1>3 DEF QCount
  <2>4. ASSUME NEW j \in Levels, IdsAt(R, j) # {} PROVE j >= R.front
    <3>1. j \in Nat /\ l \in Nat /\ Q.front \in Int
      BY <1>2, ConfigFacts
    <3>2. CASE j = l
      BY <1>3, <3>1, <3>2
    <3>3. CASE j # l
      <4>1. j >= Q.front
        BY <1>15, <2>4, <3>3 DEF QCount
      <4> QED BY <1>3, <3>1, <4>1
    <3> QED BY <3>2, <3>3
  <2>5. R.mark.count <= R.cursor.count
    BY <1>3 DEF QCount
  <2> QED BY <2>3, <2>4, <2>5 DEF QCount
<1>19. ASSUME R.cursor.valid, CursorOK(Levels, Q)
       PROVE  CursorOK(Levels, R) /\ FrontIds(Levels, R) = FrontIds(Levels, Q)
  <2> DEFINE c == Q.cursor.level
             p == Q.cursor.idx
  <2>1. /\ c \in Levels /\ p \in Nat /\ p <= PolicySize(Q, c)
        /\ ~Q.cursor.atDelayed => p <= Len(Q.queue[c])
        /\ Q.cursor.count = Cardinality(FrontIds(Levels, Q))
    BY <1>19 DEF CursorOK
  <2>2. ~(l < c) /\ ~(l = c /\ Q.cursor.atDelayed)
    BY <1>3, <1>19 DEF Invalidates
  <2>3. R.cursor.level = c /\ R.cursor.idx = p
    BY <1>3
  <2> HIDE DEF c, p
  <2>4. c \in Nat /\ l \in Nat /\ \A j \in Levels : j \in Nat
    BY <2>1, ConfigFacts
  <2>5. \A j \in Levels : j < c => IdsAt(R, j) = IdsAt(Q, j)
    BY <1>15, <2>2, <2>4
  <2>5a. Below(Levels, R, c) = Below(Levels, Q, c)
    BY <2>5 DEF Below
  <2>5b. /\ FrontIds(Levels, Q) = Below(Levels, Q, c) \cup FirstIds(Q.queue[c], p)
                                    \cup FirstIds(Q.delayed[c], p - Len(Q.queue[c]))
         /\ FrontIds(Levels, R) = Below(Levels, R, c) \cup FirstIds(R.queue[c], p)
                                    \cup FirstIds(R.delayed[c], p - Len(R.queue[c]))
    BY <2>3 DEF FrontIds, c, p
  <2>6. \A j \in Levels : Len(Q.queue[j]) \in Nat /\ Len(Q.delayed[j]) \in Nat
    BY InQueueFacts
  <2>7. CASE l # c
    <3>1. R.queue[c] = Q.queue[c] /\ R.delayed[c] = Q.delayed[c]
      BY <1>3, <1>7, <2>1, <2>7
    <3>2. FrontIds(Levels, R) = FrontIds(Levels, Q)
      BY <2>5a, <2>5b, <3>1
    <3> QED BY <1>3, <2>1, <2>3, <3>1, <3>2 DEF CursorOK, PolicySize
  <2>8. CASE l = c
    <3>1. p <= Len(s) /\ s = Q.queue[c] /\ R.queue[c] = a /\ R.delayed[c] = Q.delayed[c]
      BY <1>3, <1>4, <1>7, <2>1, <2>2, <2>8
    <3>2. FirstIds(a, p) = FirstIds(s, p)
      <4>1. p <= Len(a) /\ Len(a) \in Nat /\ \A j \in 1..p : a[j] = s[j]
        BY SMTT(30), <1>2, <1>6, <2>1, <3>1
      <4> QED BY SMTT(20), <4>1, <1>2, <2>1, <3>1, SameFirst
    <3>3. FirstIds(Q.delayed[c], p - Len(s)) = {} /\ FirstIds(Q.delayed[c], p - Len(a)) = {}
      <4>1. /\ p - Len(s) \in Int /\ p - Len(s) <= 0
            /\ p - Len(a) \in Int /\ p - Len(a) <= 0
        <5>1. p \in Nat /\ p <= Len(s) /\ Len(s) \in Nat /\ Len(a) = Len(s) + 1
          BY <1>2, <1>6, <2>1, <3>1
        <5> QED BY ONLY <5>1
      <4>2. Len(Q.delayed[c]) \in Nat
        BY <2>1, <2>6
      <4> QED BY <4>1, <4>2, FirstIdsFacts
    <3>4. FrontIds(Levels, R) = FrontIds(Levels, Q)
      BY <2>5a, <2>5b, <3>1, <3>2, <3>3
    <3>5. Len(Q.queue[c]) \in Nat /\ Len(Q.delayed[c]) \in Nat
      BY <2>1, <2>6
    <3>6. PolicySize(Q, c) \in Nat /\ PolicySize(R, c) = PolicySize(Q, c) + 1 /\ p <= Len(a)
      <4>1. PICK m1, m2 \in Nat : m1 = Len(Q.queue[c]) /\ m2 = Len(Q.delayed[c])
        BY <3>5
      <4>2. Len(R.queue[c]) = m1 + 1 /\ Len(R.delayed[c]) = m2 /\ Len(a) = m1 + 1 /\ p <= m1
        BY <4>1, <3>1, <1>6
      <4>3. PolicySize(Q, c) = m1 + m2 /\ PolicySize(R, c) = m1 + 1 + m2
        BY ONLY <4>1, <4>2 DEF PolicySize
      <4>4. p \in Nat
        BY <2>1
      <4>5. m1 + m2 \in Nat /\ m1 + 1 + m2 = (m1 + m2) + 1 /\ p <= m1 + 1
        BY <4>2, <4>4
      <4> QED BY ONLY <4>2, <4>3, <4>5
    <3> QED BY <1>3, <2>1, <2>3, <3>1, <3>4, <3>6 DEF CursorOK
  <2> QED BY <2>7, <2>8
<1> QED BY <1>3, <1>15, <1>16, <1>17, <1>18, <1>19

----------------------------------------------------------------------------
(* A cursor at the start of the queue.                                     *)
LEMMA StartFacts ==
  /\ DOMAIN StartCursor = CFields /\ StartCursor.count = 0
  /\ StartCursor.level = FirstLevel /\ StartCursor.idx = 0
  /\ StartCursor.atDelayed = FALSE
BY DEF StartCursor, CFields

(* A queue that counts more than the rejected requests has a first one.    *)
LEMMA DequeueFinds ==
  ASSUME config \in DOMAIN ModelConfigs, NEW Q, NEW k \in Nat,
         QShape(Levels, Q), QCount(Levels, Q, k), Q.size > k
  PROVE  /\ DequeueLevel(Q) \in Levels /\ PolicySize(Q, DequeueLevel(Q)) > 0
         /\ \A j \in Levels : PolicySize(Q, j) > 0 => DequeueLevel(Q) <= j
<1>1. \A j \in Levels : IdsAt(Q, j) # {} <=> PolicySize(Q, j) > 0
  BY InQueueFacts
<1>2. Occupied(Q) = {j \in Levels : PolicySize(Q, j) > 0}
  BY <1>1 DEF Occupied, QCount
<1>3. Cardinality(InQueue(Levels, Q)) > 0
  <2>1. Cardinality(InQueue(Levels, Q)) \in Nat /\ Q.size = Cardinality(InQueue(Levels, Q)) + k
    BY InQueueFacts DEF QCount
  <2> QED BY <2>1
<1>4. InQueue(Levels, Q) # {}
  BY <1>3, FS_EmptySet
<1>5. Occupied(Q) # {}
  BY <1>1, <1>2, <1>4 DEF InQueue
<1>6. \E j \in Occupied(Q) : \A i \in Occupied(Q) : j <= i
  BY <1>2, <1>5, ConfigFacts, LeastNat
<1>7. /\ DequeueLevel(Q) \in Occupied(Q)
      /\ \A i \in Occupied(Q) : DequeueLevel(Q) <= i
  BY <1>6 DEF DequeueLevel
<1> QED BY <1>2, <1>7

\* Function f with value v at x.
Put(f, x, v) == [f EXCEPT ![x] = v]

(* Dequeue, field by field.                                                *)
LEMMA DequeueFields ==
  ASSUME NEW L, NEW Q, QShape(L, Q), NEW l \in L, l = DequeueLevel(Q),
         NEW R, R = Dequeue(Q)
  PROVE  /\ DOMAIN R = QFields /\ DOMAIN R.cursor = CFields
         /\ R.mark = StartCursor /\ R.rejected = Q.rejected
         /\ R.size = Q.size - 1 /\ R.front = l
         /\ R.cursor.count = Q.cursor.count /\ ~R.cursor.valid
         /\ Q.queue[l] # << >> =>
              R.queue = Put(Q.queue, l, Tail(Q.queue[l])) /\ R.delayed = Q.delayed
         /\ Q.queue[l] = << >> =>
              R.queue = Q.queue /\ R.delayed = Put(Q.delayed, l, Tail(Q.delayed[l]))
<1>1. /\ DOMAIN Q = QFields /\ DOMAIN Q.cursor = CFields
      /\ Q.queue \in [L -> Seq(Entries(L))] /\ Q.delayed \in [L -> Seq(Entries(L))]
  BY DEF QShape
<1>2. R = [Q EXCEPT
             !.cursor.valid = FALSE, !.mark = StartCursor, !.front = l,
             !.size = Q.size - 1,
             !.queue[l]   = IF Q.queue[l] # << >> THEN Tail(Q.queue[l]) ELSE Q.queue[l],
             !.delayed[l] = IF Q.queue[l] # << >> THEN Q.delayed[l] ELSE Tail(Q.delayed[l])]
  BY <1>1 DEF Dequeue, QFields
<1>3. /\ DOMAIN R = QFields /\ DOMAIN R.cursor = CFields
      /\ R.mark = StartCursor /\ R.rejected = Q.rejected
      /\ R.size = Q.size - 1 /\ R.front = l
      /\ R.cursor.count = Q.cursor.count /\ ~R.cursor.valid
      /\ R.queue = [Q.queue EXCEPT ![l] = IF Q.queue[l] # << >> THEN Tail(Q.queue[l]) ELSE Q.queue[l]]
      /\ R.delayed = [Q.delayed EXCEPT ![l] = IF Q.queue[l] # << >> THEN Q.delayed[l] ELSE Tail(Q.delayed[l])]
  BY <1>1, <1>2 DEF QFields, CFields
<1>4. /\ Q.queue = [Q.queue EXCEPT ![l] = Q.queue[l]]
      /\ Q.delayed = [Q.delayed EXCEPT ![l] = Q.delayed[l]]
  BY <1>1
<1> QED BY <1>3, <1>4 DEF Put

(* The first request of the most urgent level leaves, unexpired ones       *)
(* before delayed ones.                                                    *)
LEMMA DequeueKeeps ==
  ASSUME config \in DOMAIN ModelConfigs, NEW Q, NEW n \in Nat, NEW k \in Nat,
         QShape(Levels, Q), QPlaces(Levels, Q), QOrder(Levels, Q, n),
         QCount(Levels, Q, k), Q.size > k,
         NEW R, R = Dequeue(Q), NEW h, h = DequeueHead(Q)
  PROVE  /\ QShape(Levels, R) /\ QPlaces(Levels, R) /\ QOrder(Levels, R, n)
         /\ QCount(Levels, R, k)
         /\ h \in Entries(Levels) /\ h.id \in InQueue(Levels, Q)
         /\ InQueue(Levels, R) = InQueue(Levels, Q) \ {h.id}
         /\ R.rejected = Q.rejected /\ R.size = Q.size - 1
         /\ R.cursor.count = Q.cursor.count /\ ~R.cursor.valid
         /\ h.priority \in Levels
         /\ \A j \in Levels : PolicySize(Q, j) > 0 => h.priority <= j
         /\ \A i \in 1..Len(Q.queue[h.priority]) : Q.queue[h.priority][i].seq >= h.seq
<1>0. PICK l \in Levels : l = DequeueLevel(Q)
  BY DequeueFinds
<1> DEFINE s == Q.queue[l]
           d == Q.delayed[l]
<1>1. /\ l \in Levels /\ PolicySize(Q, l) > 0
      /\ \A j \in Levels : PolicySize(Q, j) > 0 => l <= j
  BY <1>0, DequeueFinds
<1>2. /\ Q.queue \in [Levels -> Seq(Entries(Levels))]
      /\ Q.delayed \in [Levels -> Seq(Entries(Levels))]
      /\ Q.size \in Int /\ Q.front \in Int /\ Q.cursor.count \in Nat
      /\ Q.rejected \in Seq(Entries(Levels))
  BY DEF QShape
<1>3. s \in Seq(Entries(Levels)) /\ Len(s) \in Nat /\ d \in Seq(Entries(Levels)) /\ Len(d) \in Nat
  BY <1>1, <1>2
<1>4. /\ DOMAIN R = QFields /\ DOMAIN R.cursor = CFields
      /\ R.mark = StartCursor /\ R.rejected = Q.rejected
      /\ R.size = Q.size - 1 /\ R.front = l
      /\ R.cursor.count = Q.cursor.count /\ ~R.cursor.valid
      /\ s # << >> => R.queue = Put(Q.queue, l, Tail(s)) /\ R.delayed = Q.delayed
      /\ s = << >> => R.queue = Q.queue /\ R.delayed = Put(Q.delayed, l, Tail(d))
  BY <1>0, DequeueFields
<1>5. /\ s # << >> => h = s[1]
      /\ s = << >> => h = d[1] /\ d # << >>
  <2>1. h = At(Q, l, 0)
    BY <1>0 DEF DequeueHead
  <2>2. CASE s # << >>
    <3>1. 0 < Len(s) /\ 0 + 1 = 1
      BY <1>3, <2>2
    <3> QED BY <2>1, <2>2, <3>1 DEF At
  <2>3. CASE s = << >>
    <3>1. Len(s) = 0 /\ 0 - Len(s) + 1 = 1 /\ ~(0 < Len(s))
      BY <2>3
    <3>2. h = d[1]
      BY <2>1, <3>1 DEF At
    <3>3. Len(d) > 0
      BY <1>1, <1>3, <3>1 DEF PolicySize
    <3> QED BY <2>3, <3>2, <3>3
  <2> QED BY <2>2, <2>3
<1>6. /\ s = Q.queue[l] /\ d = Q.delayed[l] /\ NoRepeat(s) /\ NoRepeat(d)
      /\ IdsOf(s) \cap IdsOf(d) = {} /\ IdsAt(Q, l) = IdsOf(s) \cup IdsOf(d)
  BY <1>1 DEF QPlaces, IdsAt
<1>7. /\ \A i \in 1..Len(s) : s[i].priority = l /\ s[i].seq < n
      /\ \A i, j \in 1..Len(s) : i < j => s[i].seq < s[j].seq
      /\ \A i \in 1..Len(d) : d[i].priority = l
  BY <1>1 DEF QOrder
<1> HIDE DEF s, d
<1> DEFINE Good == /\ R.queue \in [Levels -> Seq(Entries(Levels))]
                   /\ R.delayed \in [Levels -> Seq(Entries(Levels))]
                   /\ OneLevel(Levels, Q, R, l) /\ LevelPlaces(R, l) /\ LevelOrdered(R, l, n)
                   /\ IdsAt(Q, l) = IdsAt(R, l) \cup {h.id} /\ h.id \notin IdsAt(R, l)
                   /\ h \in Entries(Levels) /\ h.priority = l
                   /\ \A i \in 1..Len(s) : s[i].seq >= h.seq
<1>8. ASSUME s # << >> PROVE Good
  <2>1. /\ Tail(s) \in Seq(Entries(Levels)) /\ Len(Tail(s)) = Len(s) - 1 /\ Len(s) \in Nat \ {0}
        /\ Head(s) \in Entries(Levels) /\ Head(s) = s[1]
        /\ \A i \in 1..Len(Tail(s)) : Tail(s)[i] = s[i + 1] /\ i + 1 \in 1..Len(s)
        /\ IdsOf(s) = IdsOf(Tail(s)) \cup {Head(s).id}
        /\ NoRepeat(s) => NoRepeat(Tail(s)) /\ Head(s).id \notin IdsOf(Tail(s))
    BY <1>3, <1>8, TailIds
  <2>2. PICK t \in Seq(Entries(Levels)) : t = Tail(s)
    BY <2>1
  <2>3. /\ R.queue[l] = t /\ R.delayed = Q.delayed /\ R.delayed[l] = d
        /\ \A j \in Levels : j # l => R.queue[j] = Q.queue[j]
        /\ R.queue \in [Levels -> Seq(Entries(Levels))]
    <3>1. R.queue = [Q.queue EXCEPT ![l] = t] /\ R.delayed = Q.delayed
      BY <1>4, <1>8, <2>2 DEF Put
    <3> QED BY <1>2, <1>6, <3>1
  <2>4. OneLevel(Levels, Q, R, l)
    BY <1>2, <2>3 DEF OneLevel
  <2>5. h = Head(s) /\ h \in Entries(Levels) /\ h.priority = l
    BY <1>5, <1>7, <1>8, <2>1
  <2>6. LevelPlaces(R, l)
    BY <1>6, <2>1, <2>2, <2>3 DEF LevelPlaces
  <2>7. LevelOrdered(R, l, n)
    <3>1. \A i \in 1..Len(t) : t[i] = s[i + 1] /\ i + 1 \in 1..Len(s) /\ i \in Int
      BY <2>1, <2>2
    <3>2. \A i \in 1..Len(t) : t[i].priority = l /\ t[i].seq < n
      BY <1>7, <3>1
    <3>3. \A i, j \in 1..Len(t) : i < j => t[i].seq < t[j].seq
      <4>1. SUFFICES ASSUME NEW i \in 1..Len(t), NEW j \in 1..Len(t), i < j
                     PROVE  t[i].seq < t[j].seq
        OBVIOUS
      <4>2. i + 1 < j + 1
        BY <4>1, <3>1
      <4> QED BY <4>2, <1>7, <3>1
    <3> QED BY ONLY <3>2, <3>3, <1>7, <2>3 DEF LevelOrdered
  <2>8. IdsAt(Q, l) = IdsAt(R, l) \cup {h.id} /\ h.id \notin IdsAt(R, l)
    BY <1>6, <2>1, <2>2, <2>3, <2>5 DEF IdsAt
  <2>9. ASSUME NEW i \in 1..Len(s) PROVE s[i].seq >= h.seq
    <3>1. 1 \in 1..Len(s) /\ (i = 1 \/ 1 < i)
      BY <2>1
    <3>2. s[i].seq \in Nat /\ s[1].seq \in Nat
      <4>1. s[i] \in Entries(Levels) /\ s[1] \in Entries(Levels)
        BY <1>3, <3>1
      <4> QED BY <4>1 DEF Entries
    <3>3. i = 1 \/ s[1].seq < s[i].seq
      BY <1>7, <3>1
    <3> QED BY <2>1, <2>5, <3>2, <3>3
  <2> QED BY <1>2, <2>3, <2>4, <2>5, <2>6, <2>7, <2>8, <2>9
<1>9. ASSUME s = << >> PROVE Good
  <2>1. /\ Tail(d) \in Seq(Entries(Levels)) /\ Len(Tail(d)) = Len(d) - 1 /\ Len(d) \in Nat \ {0}
        /\ Head(d) \in Entries(Levels) /\ Head(d) = d[1]
        /\ \A i \in 1..Len(Tail(d)) : Tail(d)[i] = d[i + 1] /\ i + 1 \in 1..Len(d)
        /\ IdsOf(d) = IdsOf(Tail(d)) \cup {Head(d).id}
        /\ NoRepeat(d) => NoRepeat(Tail(d)) /\ Head(d).id \notin IdsOf(Tail(d))
    BY <1>3, <1>5, <1>9, TailIds
  <2>2. PICK t \in Seq(Entries(Levels)) : t = Tail(d)
    BY <2>1
  <2>3. /\ R.delayed[l] = t /\ R.queue = Q.queue /\ R.queue[l] = s
        /\ \A j \in Levels : j # l => R.delayed[j] = Q.delayed[j]
        /\ R.delayed \in [Levels -> Seq(Entries(Levels))]
    <3>1. R.delayed = [Q.delayed EXCEPT ![l] = t] /\ R.queue = Q.queue
      BY <1>4, <1>9, <2>2 DEF Put
    <3> QED BY <1>2, <1>6, <3>1
  <2>4. OneLevel(Levels, Q, R, l)
    BY <1>2, <2>3 DEF OneLevel
  <2>5. h = Head(d) /\ h \in Entries(Levels) /\ h.priority = l
    <3>1. 1 \in 1..Len(d)
      BY <2>1
    <3> QED BY <1>5, <1>7, <1>9, <2>1, <3>1
  <2>6. LevelPlaces(R, l)
    BY <1>6, <2>1, <2>2, <2>3 DEF LevelPlaces
  <2>7. LevelOrdered(R, l, n)
    <3>1. \A i \in 1..Len(t) : t[i] = d[i + 1] /\ i + 1 \in 1..Len(d)
      BY <2>1, <2>2
    <3>2. \A i \in 1..Len(t) : t[i].priority = l
      BY <1>7, <3>1
    <3> QED BY ONLY <3>2, <1>7, <2>3 DEF LevelOrdered
  <2>8. IdsAt(Q, l) = IdsAt(R, l) \cup {h.id} /\ h.id \notin IdsAt(R, l)
    BY <1>6, <2>1, <2>2, <2>3, <2>5 DEF IdsAt
  <2>9. \A i \in 1..Len(s) : s[i].seq >= h.seq
    <3>1. Len(s) = 0 /\ 1..0 = {}
      BY <1>9
    <3> QED BY <3>1
  <2> QED BY <1>2, <2>3, <2>4, <2>5, <2>6, <2>7, <2>8, <2>9
<1>10. Good
  BY <1>8, <1>9
<1>11. /\ QPlaces(Levels, R) /\ QOrder(Levels, R, n)
       /\ InQueue(Levels, R) = (InQueue(Levels, Q) \ IdsAt(Q, l)) \cup IdsAt(R, l)
       /\ \A j \in Levels : j # l => IdsAt(R, j) = IdsAt(Q, j)
  <2>1. PICK X, m : X = {} /\ m = n
    OBVIOUS
  <2>2. /\ X \cap InQueue(Levels, Q) = {} /\ IdsAt(R, l) \subseteq IdsAt(Q, l) \cup X
        /\ m \in Nat /\ m >= n
    BY <1>10, <2>1
  <2>3. NoRepeat(R.rejected)
    BY <1>4 DEF QPlaces
  <2>4. OneLevel(Levels, Q, R, l) /\ LevelPlaces(R, l) /\ LevelOrdered(R, l, m)
    BY <1>10, <2>1
  <2>5. /\ QPlaces(Levels, R) /\ QOrder(Levels, R, m)
        /\ InQueue(Levels, R) = (InQueue(Levels, Q) \ IdsAt(Q, l)) \cup IdsAt(R, l)
        /\ \A j \in Levels : j # l => IdsAt(R, j) = IdsAt(Q, j)
    BY <2>2, <2>3, <2>4, LevelChanged
  <2> QED BY <2>1, <2>5
<1>12. IdsAt(Q, l) \subseteq InQueue(Levels, Q)
  BY <1>1 DEF InQueue
<1>13. /\ h.id \in InQueue(Levels, Q)
       /\ InQueue(Levels, R) = InQueue(Levels, Q) \ {h.id}
  BY <1>10, <1>11, <1>12
<1>14. QShape(Levels, R)
  <2>1. R.front \in Int /\ R.size \in Int
    BY <1>1, <1>2, <1>4, ConfigFacts
  <2>2. R.queue \in [Levels -> Seq(Entries(Levels))] /\ R.delayed \in [Levels -> Seq(Entries(Levels))]
    BY <1>10
  <2>3. DOMAIN R.mark = CFields /\ R.mark.count \in Nat
    BY <1>4, StartFacts
  <2> QED BY ONLY <1>2, <1>4, <2>1, <2>2, <2>3 DEF QShape
<1>15. QCount(Levels, R, k)
  <2>1. Cardinality(InQueue(Levels, R)) = Cardinality(InQueue(Levels, Q)) - 1
    <3>1. IsFiniteSet(InQueue(Levels, Q))
      BY InQueueFacts
    <3> QED BY <3>1, <1>13, FS_RemoveElement
  <2>2. Cardinality(InQueue(Levels, Q)) \in Nat
    BY InQueueFacts
  <2>3. R.size = Cardinality(InQueue(Levels, R)) + k
    BY <2>1, <2>2, <1>2, <1>4 DEF QCount
  <2>4. ASSUME NEW j \in Levels, IdsAt(R, j) # {} PROVE j >= R.front
    <3>1. j \in Nat /\ l \in Nat
      BY <1>1, ConfigFacts
    <3>2. CASE j = l
      BY <1>4, <3>1, <3>2
    <3>3. CASE j # l
      <4>1. IdsAt(Q, j) # {}
        BY <1>11, <2>4, <3>3
      <4>2. l <= j
        BY <1>1, <4>1, InQueueFacts
      <4> QED BY <1>4, <3>1, <4>2
    <3> QED BY <3>2, <3>3
  <2>5. R.mark.count <= R.cursor.count
    BY <1>2, <1>4, StartFacts
  <2> QED BY <2>3, <2>4, <2>5 DEF QCount
<1>16. /\ h.priority \in Levels
       /\ \A j \in Levels : PolicySize(Q, j) > 0 => h.priority <= j
       /\ \A i \in 1..Len(Q.queue[h.priority]) : Q.queue[h.priority][i].seq >= h.seq
  BY <1>1, <1>6, <1>10
<1>17. h \in Entries(Levels)
  BY <1>10
<1> QED BY <1>4, <1>11, <1>13, <1>14, <1>15, <1>16, <1>17

----------------------------------------------------------------------------
\* The level delays the requests that time out.
Delays(l) == QueuePolicy[l].action = "DELAY"

(* ExpireAtCursor, field by field.                                         *)
LEMMA ExpireFields ==
  ASSUME NEW L, NEW Q, QShape(L, Q), NEW l \in L, l = Q.cursor.level,
         NEW i, i = Q.cursor.idx, NEW e, e = Q.queue[l][i + 1],
         NEW R, R = ExpireAtCursor(Q)
  PROVE  /\ DOMAIN R = QFields /\ R.cursor = Q.cursor /\ R.mark = Q.mark
         /\ R.size = Q.size /\ R.front = Q.front
         /\ R.queue = Put(Q.queue, l, Without(Q.queue[l], i))
         /\ Delays(l) => /\ R.delayed = Put(Q.delayed, l, Append(Q.delayed[l], e))
                         /\ R.rejected = Q.rejected
         /\ ~Delays(l) => /\ R.delayed = Q.delayed
                          /\ R.rejected = Append(Q.rejected, e)
<1>1. /\ DOMAIN Q = QFields
      /\ Q.queue \in [L -> Seq(Entries(L))] /\ Q.delayed \in [L -> Seq(Entries(L))]
  BY DEF QShape
<1>2. R = [Q EXCEPT
             !.queue[l] = Without(Q.queue[l], i),
             !.delayed[l] = IF Delays(l) THEN Append(Q.delayed[l], e) ELSE Q.delayed[l],
             !.rejected = IF Delays(l) THEN Q.rejected ELSE Append(Q.rejected, e)]
  BY <1>1 DEF ExpireAtCursor, QFields, Delays, Without
<1>3. /\ DOMAIN R = QFields /\ R.cursor = Q.cursor /\ R.mark = Q.mark
      /\ R.size = Q.size /\ R.front = Q.front
      /\ R.queue = [Q.queue EXCEPT ![l] = Without(Q.queue[l], i)]
      /\ R.delayed = [Q.delayed EXCEPT ![l] = IF Delays(l) THEN Append(Q.delayed[l], e) ELSE Q.delayed[l]]
      /\ R.rejected = IF Delays(l) THEN Q.rejected ELSE Append(Q.rejected, e)
  BY <1>1, <1>2 DEF QFields
<1>4. Q.delayed = [Q.delayed EXCEPT ![l] = Q.delayed[l]]
  BY <1>1
<1> QED BY <1>3, <1>4 DEF Put

(* The expired request is not in front of the cursor, so the pending batch *)
(* stays what it is.                                                       *)
LEMMA ExpireKeeps ==
  ASSUME config \in DOMAIN ModelConfigs, NEW Q, NEW n \in Nat, NEW k \in Nat,
         QShape(Levels, Q), QPlaces(Levels, Q), QOrder(Levels, Q, n),
         QCount(Levels, Q, k), CursorOK(Levels, Q),
         InQueue(Levels, Q) \cap IdsOf(Q.rejected) = {},
         NEW x, CursorExpired(Q, x),
         NEW R, R = ExpireAtCursor(Q), NEW e, e = RequestAtCursor(Q)
  PROVE  /\ QShape(Levels, R) /\ QPlaces(Levels, R) /\ QOrder(Levels, R, n)
         /\ R.cursor = Q.cursor /\ R.mark = Q.mark /\ CursorOK(Levels, R)
         /\ FrontIds(Levels, R) = FrontIds(Levels, Q)
         /\ e \in Entries(Levels) /\ e.id \in InQueue(Levels, Q)
         /\ Len(Q.rejected) \in Nat
         /\ \/ /\ Len(R.rejected) - Len(Q.rejected) = 0 /\ R.rejected = Q.rejected
               /\ InQueue(Levels, R) = InQueue(Levels, Q) /\ QCount(Levels, R, k)
            \/ /\ Len(R.rejected) - Len(Q.rejected) = 1
               /\ IdsOf(R.rejected) = IdsOf(Q.rejected) \cup {e.id}
               /\ InQueue(Levels, R) = InQueue(Levels, Q) \ {e.id}
               /\ QCount(Levels, R, k + 1)
<1>1. PICK l \in Levels, i \in Nat : /\ l = Q.cursor.level /\ i = Q.cursor.idx
                                     /\ Q.cursor.count = Cardinality(FrontIds(Levels, Q))
  BY DEF CursorOK
<1>2. /\ Q.queue \in [Levels -> Seq(Entries(Levels))]
      /\ Q.delayed \in [Levels -> Seq(Entries(Levels))]
      /\ Q.size \in Int /\ Q.front \in Int /\ Q.rejected \in Seq(Entries(Levels))
      /\ Len(Q.rejected) \in Nat
  BY DEF QShape
<1>3. PICK s, d : s = Q.queue[l] /\ d = Q.delayed[l]
  OBVIOUS
<1>4. /\ s \in Seq(Entries(Levels)) /\ Len(s) \in Nat
      /\ d \in Seq(Entries(Levels)) /\ Len(d) \in Nat
  BY <1>2, <1>3
<1>5. i < Len(s) /\ e = s[i + 1]
  <2>1. i < Len(s)
    BY <1>1, <1>3 DEF CursorExpired, TimeoutAt
  <2> QED BY <1>1, <1>3, <2>1 DEF RequestAtCursor, At
<1>6. /\ DOMAIN R = QFields /\ R.cursor = Q.cursor /\ R.mark = Q.mark
      /\ R.size = Q.size /\ R.front = Q.front
      /\ R.queue = Put(Q.queue, l, Without(s, i))
      /\ Delays(l) => R.delayed = Put(Q.delayed, l, Append(d, e)) /\ R.rejected = Q.rejected
      /\ ~Delays(l) => R.delayed = Q.delayed /\ R.rejected = Append(Q.rejected, e)
  BY SMTT(20), <1>1, <1>3, <1>5, ExpireFields
<1>7. PICK w : w = Without(s, i)
  OBVIOUS
<1>8. /\ w \in Seq(Entries(Levels)) /\ Len(w) = Len(s) - 1
      /\ i + 1 \in 1..Len(s) /\ s[i + 1] \in Entries(Levels)
      /\ \A j \in 1..Len(w) : w[j] = s[IF j <= i THEN j ELSE j + 1]
      /\ \A j \in 1..i : j \in 1..Len(w) /\ w[j] = s[j]
      /\ IdsOf(s) = IdsOf(w) \cup {s[i + 1].id}
      /\ NoRepeat(s) => NoRepeat(w) /\ s[i + 1].id \notin IdsOf(w)
  BY <1>4, <1>5, <1>7, WithoutIds
<1>9. e \in Entries(Levels) /\ e.id \in IdsOf(s) /\ e.priority = l
  <2>1. e.priority = l
    BY SMTT(20), <1>1, <1>3, <1>5, <1>8 DEF QOrder
  <2> QED BY <1>5, <1>8, <2>1
<1>10. PICK D : D = IF Delays(l) THEN Append(d, e) ELSE d
  OBVIOUS
<1>11. /\ R.queue = Put(Q.queue, l, w) /\ R.delayed = Put(Q.delayed, l, D)
       /\ R.queue[l] = w /\ R.delayed[l] = D
       /\ D \in Seq(Entries(Levels))
       /\ R.queue \in [Levels -> Seq(Entries(Levels))]
       /\ R.delayed \in [Levels -> Seq(Entries(Levels))]
       /\ \A j \in Levels : j # l => R.queue[j] = Q.queue[j] /\ R.delayed[j] = Q.delayed[j]
  <2>1. D \in Seq(Entries(Levels))
    BY <1>4, <1>9, <1>10, AppendIds
  <2>2. R.queue = Put(Q.queue, l, w)
    BY <1>6, <1>7
  <2>3. R.delayed = Put(Q.delayed, l, D)
    BY <1>2, <1>3, <1>6, <1>10 DEF Put
  <2>4. R.queue \in [Levels -> Seq(Entries(Levels))] /\ R.queue[l] = w
    BY <1>2, <1>8, <2>2 DEF Put
  <2>5. R.delayed \in [Levels -> Seq(Entries(Levels))] /\ R.delayed[l] = D
    BY <1>2, <2>1, <2>3 DEF Put
  <2>6. \A j \in Levels : j # l => R.queue[j] = Q.queue[j] /\ R.delayed[j] = Q.delayed[j]
    BY <1>2, <2>2, <2>3 DEF Put
  <2> QED BY <2>1, <2>2, <2>3, <2>4, <2>5, <2>6
<1>12. OneLevel(Levels, Q, R, l)
  BY <1>11 DEF OneLevel
<1>13. /\ NoRepeat(s) /\ NoRepeat(d) /\ IdsOf(s) \cap IdsOf(d) = {}
       /\ IdsAt(Q, l) = IdsOf(s) \cup IdsOf(d) /\ NoRepeat(Q.rejected)
  BY <1>1, <1>3 DEF QPlaces, IdsAt
<1>14. NoRepeat(w) /\ e.id \notin IdsOf(w) /\ IdsOf(s) = IdsOf(w) \cup {e.id}
  BY <1>5, <1>8, <1>13
<1>15. /\ Delays(l) => IdsOf(D) = IdsOf(d) \cup {e.id} /\ NoRepeat(D)
       /\ ~Delays(l) => D = d
  <2>1. e.id \notin IdsOf(d)
    BY <1>9, <1>13
  <2> QED BY <2>1, <1>4, <1>9, <1>10, <1>13, AppendIds
<1>16. LevelPlaces(R, l)
  <2>1. NoRepeat(w) /\ NoRepeat(D) /\ IdsOf(w) \cap IdsOf(D) = {}
    BY <1>13, <1>14, <1>15
  <2> QED BY <2>1, <1>11 DEF LevelPlaces
<1>17. LevelOrdered(R, l, n)
  <2>1. /\ \A j \in 1..Len(s) : s[j].priority = l /\ s[j].seq < n
        /\ \A j, m \in 1..Len(s) : j < m => s[j].seq < s[m].seq
        /\ \A j \in 1..Len(d) : d[j].priority = l
    BY <1>1, <1>3 DEF QOrder
  <2> DEFINE at(j) == IF j <= i THEN j ELSE j + 1
  <2>2. \A j \in 1..Len(w) : w[j] = s[at(j)] /\ at(j) \in 1..Len(s)
    BY <1>4, <1>8
  <2>3. \A j, m \in 1..Len(w) : j < m => at(j) < at(m)
    BY <1>4, <1>8
  <2> HIDE DEF at
  <2>4. /\ \A j \in 1..Len(w) : w[j].priority = l /\ w[j].seq < n
        /\ \A j, m \in 1..Len(w) : j < m => w[j].seq < w[m].seq
    BY <2>1, <2>2, <2>3
  <2>5. \A j \in 1..Len(D) : D[j].priority = l
    <3>1. CASE ~Delays(l)
      BY <1>15, <2>1, <3>1
    <3>2. CASE Delays(l)
      <4>1. /\ Len(D) = Len(d) + 1 /\ D[Len(d) + 1] = e
            /\ \A j \in 1..Len(d) : D[j] = d[j]
        BY <1>4, <1>9, <1>10, <3>2, AppendIds
      <4>2. \A j \in 1..Len(D) : j \in 1..Len(d) \/ j = Len(d) + 1
        BY <1>4, <4>1
      <4> QED BY <4>1, <4>2, <2>1, <1>9
    <3> QED BY <3>1, <3>2
  <2>6. R.queue[l] = w /\ R.delayed[l] = D
    BY <1>11
  <2> QED BY ONLY <2>4, <2>5, <2>6 DEF LevelOrdered
<1>18. NoRepeat(R.rejected)
  <2>1. e.id \notin IdsOf(Q.rejected)
    BY <1>1, <1>9, <1>13 DEF InQueue
  <2>2. NoRepeat(Append(Q.rejected, e))
    BY <1>2, <1>9, <1>13, <2>1, AppendIds
  <2> QED BY <1>6, <1>13, <2>2
<1>19. IdsAt(R, l) = IF Delays(l) THEN IdsAt(Q, l) ELSE IdsAt(Q, l) \ {e.id}
  BY <1>11, <1>13, <1>14, <1>15, <1>9 DEF IdsAt
<1>20. /\ QPlaces(Levels, R) /\ QOrder(Levels, R, n)
       /\ InQueue(Levels, R) = (InQueue(Levels, Q) \ IdsAt(Q, l)) \cup IdsAt(R, l)
       /\ \A j \in Levels : j # l => IdsAt(R, j) = IdsAt(Q, j)
  <2>1. PICK X, m : X = {} /\ m = n
    OBVIOUS
  <2>2. /\ X \cap InQueue(Levels, Q) = {} /\ IdsAt(R, l) \subseteq IdsAt(Q, l) \cup X
        /\ m \in Nat /\ m >= n
    BY <1>19, <2>1
  <2>3. LevelOrdered(R, l, m)
    BY <1>17, <2>1
  <2>4. /\ QPlaces(Levels, R) /\ QOrder(Levels, R, m)
        /\ InQueue(Levels, R) = (InQueue(Levels, Q) \ IdsAt(Q, l)) \cup IdsAt(R, l)
        /\ \A j \in Levels : j # l => IdsAt(R, j) = IdsAt(Q, j)
    BY <1>12, <1>16, <1>18, <2>2, <2>3, LevelChanged
  <2> QED BY <2>1, <2>4
<1>21. IdsAt(Q, l) \subseteq InQueue(Levels, Q) /\ e.id \in IdsAt(Q, l)
  BY <1>1, <1>9, <1>13 DEF InQueue
<1>22. /\ Delays(l) => InQueue(Levels, R) = InQueue(Levels, Q)
       /\ ~Delays(l) => InQueue(Levels, R) = InQueue(Levels, Q) \ {e.id}
  BY <1>19, <1>20, <1>21
<1>23. /\ Delays(l) => R.rejected = Q.rejected
       /\ ~Delays(l) => /\ R.rejected \in Seq(Entries(Levels))
                        /\ Len(R.rejected) - Len(Q.rejected) = 1
                        /\ IdsOf(R.rejected) = IdsOf(Q.rejected) \cup {e.id}
  <2>1. Delays(l) => R.rejected = Q.rejected
    BY <1>6
  <2>2. ASSUME ~Delays(l)
        PROVE /\ R.rejected \in Seq(Entries(Levels))
              /\ Len(R.rejected) = Len(Q.rejected) + 1
              /\ IdsOf(R.rejected) = IdsOf(Q.rejected) \cup {e.id}
    <3>1. PICK p : p = Append(Q.rejected, e)
      OBVIOUS
    <3>2. /\ p \in Seq(Entries(Levels)) /\ Len(p) = Len(Q.rejected) + 1
          /\ IdsOf(p) = IdsOf(Q.rejected) \cup {e.id}
      BY <1>2, <1>9, <3>1, AppendIds
    <3>3. R.rejected = p
      BY <1>6, <2>2, <3>1
    <3> QED BY <3>2, <3>3
  <2> QED BY <2>1, <2>2, <1>2
<1>24. QShape(Levels, R)
  <2>1. /\ DOMAIN Q.cursor = CFields /\ DOMAIN Q.mark = CFields
        /\ Q.cursor.count \in Nat /\ Q.mark.count \in Nat
    BY DEF QShape
  <2>2. R.rejected \in Seq(Entries(Levels))
    BY <1>2, <1>23
  <2>3. R.queue \in [Levels -> Seq(Entries(Levels))] /\ R.delayed \in [Levels -> Seq(Entries(Levels))]
    BY <1>11
  <2> QED BY ONLY <1>2, <1>6, <2>1, <2>2, <2>3 DEF QShape
<1>25. (Delays(l) => QCount(Levels, R, k)) /\ (~Delays(l) => QCount(Levels, R, k + 1))
  <2>1. /\ Cardinality(InQueue(Levels, Q)) \in Nat /\ IsFiniteSet(InQueue(Levels, Q))
        /\ Q.size = Cardinality(InQueue(Levels, Q)) + k
        /\ Q.mark.count <= Q.cursor.count
        /\ \A j \in Levels : IdsAt(Q, j) # {} => j >= Q.front
    BY InQueueFacts DEF QCount
  <2>2. ~Delays(l) => Cardinality(InQueue(Levels, R)) = Cardinality(InQueue(Levels, Q)) - 1
    BY <1>21, <1>22, <2>1, FS_RemoveElement
  <2>3. \A j \in Levels : IdsAt(R, j) \subseteq IdsAt(Q, j)
    BY <1>19, <1>20
  <2>4. /\ R.mark.count <= R.cursor.count
        /\ \A j \in Levels : IdsAt(R, j) # {} => j >= R.front
    BY <1>6, <2>1, <2>3
  <2>5. Delays(l) => R.size = Cardinality(InQueue(Levels, R)) + k
    BY <1>6, <1>22, <2>1
  <2>6. ~Delays(l) => R.size = Cardinality(InQueue(Levels, R)) + (k + 1)
    BY <1>6, <2>1, <2>2
  <2> QED BY <2>4, <2>5, <2>6 DEF QCount
<1>26. CursorOK(Levels, R) /\ FrontIds(Levels, R) = FrontIds(Levels, Q)
  <2>1. R.cursor.level = l /\ R.cursor.idx = i /\ Q.cursor.level = l /\ Q.cursor.idx = i
    BY <1>1, <1>6
  <2>2. Below(Levels, R, l) = Below(Levels, Q, l)
    <3>1. \A j \in Levels : j \in Nat
      BY ConfigFacts
    <3>2. \A j \in Levels : j < l => j # l
      BY <3>1
    <3>3. \A j \in Levels : j < l => IdsAt(R, j) = IdsAt(Q, j)
      BY <1>20, <3>2
    <3> QED BY <3>3 DEF Below
  <2>3. /\ FrontIds(Levels, Q) = Below(Levels, Q, l) \cup FirstIds(s, i)
                                   \cup FirstIds(d, i - Len(s))
        /\ FrontIds(Levels, R) = Below(Levels, R, l) \cup FirstIds(w, i)
                                   \cup FirstIds(D, i - Len(w))
    BY <1>3, <1>11, <2>1 DEF FrontIds
  <2>4. Len(w) \in Nat /\ i <= Len(w) /\ i <= Len(s) /\ Len(D) \in Nat
    BY <1>4, <1>5, <1>8, <1>11
  <2>5. FirstIds(w, i) = FirstIds(s, i)
    BY SMTT(60), <1>4, <1>8, <2>4, SameFirst
  <2>6. FirstIds(d, i - Len(s)) = {} /\ FirstIds(D, i - Len(w)) = {}
    <3>1. /\ i - Len(s) \in Int /\ i - Len(s) <= 0
          /\ i - Len(w) \in Int /\ i - Len(w) <= 0
      BY <1>4, <2>4
    <3> QED BY <1>4, <2>4, <3>1, FirstIdsFacts
  <2>9. FrontIds(Levels, R) = FrontIds(Levels, Q)
    BY <2>2, <2>3, <2>5, <2>6
  <2>10. i <= Len(R.queue[l]) /\ i <= PolicySize(R, l)
    <3>1. PICK m1 \in Nat, m2 \in Nat : m1 = Len(R.queue[l]) /\ m2 = Len(R.delayed[l])
      BY <1>11
    <3>2. i <= m1
      BY <1>4, <1>5, <1>8, <1>11, <3>1
    <3>3. PolicySize(R, l) = m1 + m2
      BY <3>1 DEF PolicySize
    <3>4. i <= m1 + m2
      BY <3>2
    <3> QED BY ONLY <3>1, <3>2, <3>3, <3>4
  <2> QED BY <1>1, <1>6, <2>1, <2>9, <2>10 DEF CursorOK
<1>27. e \in Entries(Levels) /\ e.id \in InQueue(Levels, Q)
  BY <1>9, <1>21
<1>28. CASE Delays(l)
  <2>1. Len(R.rejected) - Len(Q.rejected) = 0
    BY <1>2, <1>23, <1>28
  <2> QED BY <1>2, <1>6, <1>20, <1>22, <1>23, <1>24, <1>25, <1>26, <1>27, <1>28, <2>1
<1>29. CASE ~Delays(l)
  BY <1>2, <1>6, <1>20, <1>22, <1>23, <1>24, <1>25, <1>26, <1>27, <1>29
<1> QED BY <1>28, <1>29

----------------------------------------------------------------------------
(* Only the cursor and the mark of the queue move.                         *)
OnlyCursor(Q, R) ==
  /\ DOMAIN R = QFields /\ DOMAIN R.cursor = CFields /\ DOMAIN R.mark = CFields
  /\ R.queue = Q.queue /\ R.delayed = Q.delayed /\ R.rejected = Q.rejected
  /\ R.size = Q.size /\ R.front = Q.front

(* Moving the cursor or the mark leaves the rest of the queue sound.       *)
LEMMA CursorMoved ==
  ASSUME NEW L, NEW Q, NEW R, NEW n, NEW k,
         QShape(L, Q), QPlaces(L, Q), QOrder(L, Q, n), QCount(L, Q, k),
         OnlyCursor(Q, R), R.cursor.count \in Nat, R.mark.count \in Nat,
         R.mark.count <= R.cursor.count
  PROVE  /\ QShape(L, R) /\ QPlaces(L, R) /\ QOrder(L, R, n) /\ QCount(L, R, k)
         /\ InQueue(L, R) = InQueue(L, Q)
<1>1. R.queue = Q.queue /\ R.delayed = Q.delayed /\ R.rejected = Q.rejected
  BY DEF OnlyCursor
<1>2. /\ \A l : IdsAt(R, l) = IdsAt(Q, l)
      /\ InQueue(L, R) = InQueue(L, Q)
      /\ QPlaces(L, Q) /\ NoRepeat(R.rejected) => QPlaces(L, R)
      /\ QOrder(L, Q, n) => QOrder(L, R, n)
  BY <1>1, SameLists
<1>3. QPlaces(L, R)
  BY <1>1, <1>2 DEF QPlaces
<1>4. QShape(L, R)
  BY DEF QShape, OnlyCursor
<1>5. QCount(L, R, k)
  BY <1>2 DEF QCount, OnlyCursor
<1> QED BY <1>2, <1>3, <1>4, <1>5

(* What is in front of the cursor is in the queue.                         *)
LEMMA FrontInQueue ==
  ASSUME NEW L, NEW Q, QShape(L, Q), CursorOK(L, Q)
  PROVE  /\ FrontIds(L, Q) \subseteq InQueue(L, Q)
         /\ Q.cursor.count <= Cardinality(InQueue(L, Q))
<1>1. Q.cursor.level \in L /\ Q.cursor.count = Cardinality(FrontIds(L, Q))
  BY DEF CursorOK
<1>2. FrontIds(L, Q) \subseteq InQueue(L, Q)
  <2>1. PICK c \in L, i \in {Q.cursor.idx} : c = Q.cursor.level /\ i = Q.cursor.idx
    BY <1>1
  <2>2. FirstIds(Q.queue[c], i) \cup FirstIds(Q.delayed[c], i - Len(Q.queue[c]))
          \subseteq IdsAt(Q, c)
    BY DEF FirstIds, IdsAt, IdsOf
  <2>3. Below(L, Q, c) \subseteq InQueue(L, Q) /\ IdsAt(Q, c) \subseteq InQueue(L, Q)
    BY DEF Below, InQueue
  <2> QED BY <2>1, <2>2, <2>3, FrontIs
<1>3. IsFiniteSet(InQueue(L, Q))
  BY InQueueFacts
<1>4. Cardinality(FrontIds(L, Q)) <= Cardinality(InQueue(L, Q))
  BY <1>2, <1>3, FS_Subset
<1> QED BY <1>1, <1>2, <1>4

(* The cursor depends on the lists and on its own fields only.             *)
LEMMA SameCursor ==
  ASSUME NEW L, NEW Q, NEW R, R.queue = Q.queue, R.delayed = Q.delayed,
         R.cursor = Q.cursor, CursorOK(L, Q)
  PROVE  CursorOK(L, R)
<1>1. FrontIds(L, R) = FrontIds(L, Q) /\ \A l : PolicySize(R, l) = PolicySize(Q, l)
  BY SameLists
<1> QED BY <1>1 DEF CursorOK

(* ResetCursor: the pending batch is empty.                                *)
LEMMA ResetKeeps ==
  ASSUME config \in DOMAIN ModelConfigs, NEW Q, NEW n, NEW k,
         QShape(Levels, Q), QPlaces(Levels, Q), QOrder(Levels, Q, n), QCount(Levels, Q, k),
         NEW R, R = ResetCursor(Q)
  PROVE  /\ QShape(Levels, R) /\ QPlaces(Levels, R) /\ QOrder(Levels, R, n)
         /\ QCount(Levels, R, k) /\ InQueue(Levels, R) = InQueue(Levels, Q)
         /\ R.rejected = Q.rejected /\ R.size = Q.size /\ CursorOK(Levels, R)
<1>1. /\ DOMAIN R = QFields /\ R.cursor = StartCursor /\ R.mark = StartCursor
      /\ R.queue = Q.queue /\ R.delayed = Q.delayed /\ R.rejected = Q.rejected
      /\ R.size = Q.size /\ R.front = Q.front
  BY DEF ResetCursor, QShape, QFields
<1>2. OnlyCursor(Q, R) /\ R.cursor.count \in Nat /\ R.mark.count \in Nat
      /\ R.mark.count <= R.cursor.count
  BY <1>1, StartFacts DEF OnlyCursor
<1>3. /\ QShape(Levels, R) /\ QPlaces(Levels, R) /\ QOrder(Levels, R, n)
      /\ QCount(Levels, R, k) /\ InQueue(Levels, R) = InQueue(Levels, Q)
  BY <1>2, CursorMoved
<1>4. CursorOK(Levels, R)
  <2>1. PICK c : c = FirstLevel
    OBVIOUS
  <2>2. /\ R.cursor.level = c /\ R.cursor.idx = 0 /\ R.cursor.count = 0
        /\ c \in Levels /\ \A j \in Levels : j \in Nat /\ c <= j
    BY <1>1, <2>1, StartFacts, ConfigFacts
  <2>3. PICK m1 \in Nat, m2 \in Nat : m1 = Len(R.queue[c]) /\ m2 = Len(R.delayed[c])
    BY <1>3, <2>2, InQueueFacts
  <2>4. Below(Levels, R, c) = {}
    <3>1. {j \in Levels : j < c} = {}
      BY <2>2
    <3> QED BY <3>1 DEF Below
  <2>5. FrontIds(Levels, R) = {}
    <3>1. 0 - m1 \in Int /\ 0 - m1 <= 0 /\ 0 \in Int /\ 0 <= 0
      OBVIOUS
    <3>2. FirstIds(R.queue[c], 0) = {} /\ FirstIds(R.delayed[c], 0 - Len(R.queue[c])) = {}
      BY <2>3, <3>1, FirstIdsFacts
    <3> QED BY <2>2, <2>4, <3>2 DEF FrontIds
  <2>6. 0 <= Len(R.queue[c]) /\ 0 <= PolicySize(R, c)
    <3>1. 0 <= m1 /\ 0 <= m1 + m2
      OBVIOUS
    <3> QED BY ONLY <2>3, <3>1 DEF PolicySize
  <2> QED BY <2>2, <2>5, <2>6, FS_EmptySet DEF CursorOK
<1> QED BY <1>1, <1>3, <1>4

(* MarkCursor and SetCursorToMark.                                         *)
LEMMA MarkKeeps ==
  ASSUME NEW L, NEW Q, NEW n, NEW k,
         QShape(L, Q), QPlaces(L, Q), QOrder(L, Q, n), QCount(L, Q, k),
         NEW R, R = MarkCursor(Q)
  PROVE  /\ QShape(L, R) /\ QPlaces(L, R) /\ QOrder(L, R, n)
         /\ QCount(L, R, k) /\ InQueue(L, R) = InQueue(L, Q)
         /\ R.rejected = Q.rejected /\ R.size = Q.size
         /\ R.cursor = Q.cursor /\ R.mark = Q.cursor
         /\ R.queue = Q.queue /\ R.delayed = Q.delayed
<1>1. /\ DOMAIN R = QFields /\ R.cursor = Q.cursor /\ R.mark = Q.cursor
      /\ R.queue = Q.queue /\ R.delayed = Q.delayed /\ R.rejected = Q.rejected
      /\ R.size = Q.size /\ R.front = Q.front
  BY DEF MarkCursor, QShape, QFields
<1>2. DOMAIN Q.cursor = CFields /\ Q.cursor.count \in Nat
  BY DEF QShape
<1>3. OnlyCursor(Q, R) /\ R.cursor.count \in Nat /\ R.mark.count \in Nat
      /\ R.mark.count <= R.cursor.count
  BY <1>1, <1>2 DEF OnlyCursor
<1> QED BY <1>1, <1>3, CursorMoved

(* SetCursorToMark leaves the rest of the queue sound.                     *)
LEMMA ToMarkKeeps ==
  ASSUME NEW L, NEW Q, NEW n, NEW k,
         QShape(L, Q), QPlaces(L, Q), QOrder(L, Q, n), QCount(L, Q, k),
         NEW R, R = SetCursorToMark(Q)
  PROVE  /\ QShape(L, R) /\ QPlaces(L, R) /\ QOrder(L, R, n)
         /\ QCount(L, R, k) /\ InQueue(L, R) = InQueue(L, Q)
         /\ R.rejected = Q.rejected /\ R.size = Q.size /\ R.cursor = Q.mark
<1>1. /\ DOMAIN R = QFields /\ R.cursor = Q.mark /\ R.mark = Q.mark
      /\ R.queue = Q.queue /\ R.delayed = Q.delayed /\ R.rejected = Q.rejected
      /\ R.size = Q.size /\ R.front = Q.front
  BY DEF SetCursorToMark, QShape, QFields
<1>2. DOMAIN Q.mark = CFields /\ Q.mark.count \in Nat
  BY DEF QShape
<1>3. OnlyCursor(Q, R) /\ R.cursor.count \in Nat /\ R.mark.count \in Nat
      /\ R.mark.count <= R.cursor.count
  BY <1>1, <1>2 DEF OnlyCursor
<1> QED BY <1>1, <1>3, CursorMoved

(* ReleaseRejected hands the rejected requests over.                       *)
LEMMA ReleaseKeeps ==
  ASSUME NEW L, NEW Q, NEW n, NEW k,
         QShape(L, Q), QPlaces(L, Q), QOrder(L, Q, n), QCount(L, Q, k),
         NEW R, R = ReleaseRejected(Q)
  PROVE  /\ QShape(L, R) /\ QPlaces(L, R) /\ QOrder(L, R, n)
         /\ QCount(L, R, k) /\ InQueue(L, R) = InQueue(L, Q)
         /\ R.rejected = << >> /\ R.size = Q.size
         /\ R.cursor = Q.cursor /\ R.mark = Q.mark
         /\ R.queue = Q.queue /\ R.delayed = Q.delayed
<1>1. /\ DOMAIN R = QFields /\ R.cursor = Q.cursor /\ R.mark = Q.mark
      /\ R.queue = Q.queue /\ R.delayed = Q.delayed /\ R.rejected = << >>
      /\ R.size = Q.size /\ R.front = Q.front
  BY DEF ReleaseRejected, QShape, QFields
<1>2. NoRepeat(R.rejected)
  BY <1>1 DEF NoRepeat
<1>3. /\ \A l : IdsAt(R, l) = IdsAt(Q, l)
      /\ InQueue(L, R) = InQueue(L, Q)
      /\ QPlaces(L, Q) /\ NoRepeat(R.rejected) => QPlaces(L, R)
      /\ QOrder(L, Q, n) => QOrder(L, R, n)
  BY <1>1, SameLists
<1>4. QShape(L, R)
  BY <1>1 DEF QShape
<1>5. QCount(L, R, k)
  BY <1>1, <1>3 DEF QCount
<1> QED BY <1>1, <1>2, <1>3, <1>4, <1>5

(* PolicyApplied: size_ no longer counts what was rejected.                *)
LEMMA AppliedKeeps ==
  ASSUME NEW L, NEW Q, NEW n, NEW k \in Nat,
         QShape(L, Q), QPlaces(L, Q), QOrder(L, Q, n), QCount(L, Q, k),
         NEW R, R = PolicyApplied(Q, k)
  PROVE  /\ QShape(L, R) /\ QPlaces(L, R) /\ QOrder(L, R, n)
         /\ QCount(L, R, 0) /\ InQueue(L, R) = InQueue(L, Q)
         /\ R.rejected = Q.rejected /\ R.size = Q.size - k
         /\ R.cursor = Q.cursor /\ R.mark = Q.mark
         /\ R.queue = Q.queue /\ R.delayed = Q.delayed
<1>1. /\ DOMAIN R = QFields /\ R.cursor = Q.cursor /\ R.mark = Q.mark
      /\ R.queue = Q.queue /\ R.delayed = Q.delayed /\ R.rejected = Q.rejected
      /\ R.size = Q.size - k /\ R.front = Q.front
  BY DEF PolicyApplied, QShape, QFields
<1>2. NoRepeat(R.rejected)
  BY <1>1 DEF QPlaces
<1>3. /\ \A l : IdsAt(R, l) = IdsAt(Q, l)
      /\ InQueue(L, R) = InQueue(L, Q)
      /\ QPlaces(L, Q) /\ NoRepeat(R.rejected) => QPlaces(L, R)
      /\ QOrder(L, Q, n) => QOrder(L, R, n)
  BY <1>1, SameLists
<1>4. QShape(L, R)
  BY <1>1 DEF QShape
<1>5. Cardinality(InQueue(L, Q)) \in Nat
  BY InQueueFacts
<1>6. QCount(L, R, 0)
  <2>1. R.size = Cardinality(InQueue(L, R)) + 0
    BY <1>1, <1>3, <1>5 DEF QCount
  <2> QED BY <1>1, <1>3, <2>1 DEF QCount
<1> QED BY <1>1, <1>2, <1>3, <1>4, <1>6

(* SkipLevel: the level is done with, and another one has requests.        *)
LEMMA SkipKeeps ==
  ASSUME config \in DOMAIN ModelConfigs, NEW Q, NEW n, NEW k \in Nat,
         QShape(Levels, Q), QPlaces(Levels, Q), QOrder(Levels, Q, n), QCount(Levels, Q, k),
         CursorOK(Levels, Q), CursorSkips(Q, k), NEW R, R = SkipLevel(Q)
  PROVE  /\ QShape(Levels, R) /\ QPlaces(Levels, R) /\ QOrder(Levels, R, n)
         /\ QCount(Levels, R, k) /\ InQueue(Levels, R) = InQueue(Levels, Q)
         /\ R.rejected = Q.rejected /\ CursorOK(Levels, R)
         /\ R.mark = Q.mark /\ R.cursor.count = Q.cursor.count
         /\ FrontIds(Levels, R) = FrontIds(Levels, Q)
         /\ R.queue = Q.queue /\ R.delayed = Q.delayed
<1>1. PICK c \in Levels, i \in Nat :
        /\ c = Q.cursor.level /\ i = Q.cursor.idx /\ i <= PolicySize(Q, c)
        /\ Q.cursor.count = Cardinality(FrontIds(Levels, Q))
  BY DEF CursorOK
<1>2. DOMAIN Q = QFields /\ DOMAIN Q.cursor = CFields
  BY DEF QShape
<1>3. /\ DOMAIN R = QFields /\ DOMAIN R.cursor = CFields /\ R.mark = Q.mark
      /\ R.queue = Q.queue /\ R.delayed = Q.delayed /\ R.rejected = Q.rejected
      /\ R.size = Q.size /\ R.front = Q.front
      /\ R.cursor.level = c + 1 /\ R.cursor.idx = 0 /\ R.cursor.count = Q.cursor.count
  BY <1>1, <1>2 DEF SkipLevel, QFields, CFields
<1>4. /\ OnlyCursor(Q, R) /\ R.cursor.count \in Nat /\ R.mark.count \in Nat
      /\ R.mark.count <= R.cursor.count
  BY <1>3 DEF OnlyCursor, QShape, QCount
<1>5. /\ QShape(Levels, R) /\ QPlaces(Levels, R) /\ QOrder(Levels, R, n)
      /\ QCount(Levels, R, k) /\ InQueue(Levels, R) = InQueue(Levels, Q)
  BY <1>4, CursorMoved
<1>6. PICK m1 \in Nat, m2 \in Nat : m1 = Len(Q.queue[c]) /\ m2 = Len(Q.delayed[c])
  BY InQueueFacts
<1>7. i = m1 + m2
  <2>1. PolicySize(Q, c) = m1 + m2
    BY <1>6 DEF PolicySize
  <2>2. ~(i < m1 + m2) /\ i <= m1 + m2
    BY <1>1, <2>1 DEF CursorSkips, HasAt
  <2> QED BY <2>2
<1>8. \A j \in Levels : j \in Nat
  BY ConfigFacts
<1>9. \A j : IdsAt(R, j) = IdsAt(Q, j)
  BY <1>3 DEF IdsAt
<1>10. FrontIds(Levels, Q) = Below(Levels, Q, c + 1)
  <2>1. FirstIds(Q.queue[c], i) = IdsOf(Q.queue[c])
    <3>1. i \in Int /\ i >= m1
      BY <1>7
    <3> QED BY <1>6, <3>1, FirstIdsFacts
  <2>2. FirstIds(Q.delayed[c], i - Len(Q.queue[c])) = IdsOf(Q.delayed[c])
    BY <1>6, <1>7, i - m1 \in Int, i - m1 >= m2, FirstIdsFacts
  <2>3. FrontIds(Levels, Q) = Below(Levels, Q, c) \cup IdsAt(Q, c)
    BY <1>1, <2>1, <2>2 DEF FrontIds, IdsAt
  <2>4. {j \in Levels : j < c + 1} = {j \in Levels : j < c} \cup {c}
    BY <1>8
  <2> QED BY <2>3, <2>4 DEF Below
<1>11. c + 1 \in Levels
  <2>1. SUFFICES ASSUME c + 1 \notin Levels PROVE FALSE
    OBVIOUS
  <2>2. \A j \in Levels : j <= c
    BY <2>1, ConfigFacts
  <2>3. FrontIds(Levels, Q) = InQueue(Levels, Q)
    <3>1. {j \in Levels : j < c + 1} = Levels
      BY <1>8, <2>2
    <3> QED BY <1>10, <3>1 DEF InQueue, Below
  <2>4. Q.size > Q.cursor.count + k /\ Q.size = Cardinality(InQueue(Levels, Q)) + k
    BY DEF CursorSkips, QCount
  <2>5. Cardinality(InQueue(Levels, Q)) \in Nat
    BY InQueueFacts
  <2> QED BY <1>1, <2>3, <2>4, <2>5
<1>12. CursorOK(Levels, R) /\ FrontIds(Levels, R) = FrontIds(Levels, Q)
  <2>1. PICK b : b = c + 1
    OBVIOUS
  <2>2. PICK p1 \in Nat, p2 \in Nat : p1 = Len(R.queue[b]) /\ p2 = Len(R.delayed[b])
    BY <1>5, <1>11, <2>1, InQueueFacts
  <2>3. FirstIds(R.queue[b], 0) = {} /\ FirstIds(R.delayed[b], 0 - Len(R.queue[b])) = {}
    BY <2>2, 0 - p1 \in Int, 0 - p1 <= 0, 0 \in Int, 0 <= 0, FirstIdsFacts
  <2>4. R.cursor.level = b /\ R.cursor.idx = 0 /\ b \in Levels
    BY <1>3, <1>11, <2>1
  <2>5. Below(Levels, R, b) = Below(Levels, Q, b)
    BY <1>9 DEF Below
  <2>6. FrontIds(Levels, R) = FrontIds(Levels, Q)
    BY <1>10, <2>1, <2>3, <2>4, <2>5 DEF FrontIds
  <2>7. 0 <= Len(R.queue[b]) /\ 0 <= PolicySize(R, b)
    <3>1. 0 <= p1 /\ 0 <= p1 + p2
      OBVIOUS
    <3> QED BY ONLY <2>2, <3>1 DEF PolicySize
  <2> QED BY <1>1, <1>3, <2>4, <2>6, <2>7 DEF CursorOK
<1> QED BY <1>3, <1>5, <1>12

(* AdvanceCursor: the pending batch gains the request at the cursor.       *)
LEMMA AdvanceKeeps ==
  ASSUME config \in DOMAIN ModelConfigs, NEW Q, NEW n, NEW k \in Nat,
         QShape(Levels, Q), QPlaces(Levels, Q), QOrder(Levels, Q, n), QCount(Levels, Q, k),
         CursorOK(Levels, Q), HasAt(Q, Q.cursor.level, Q.cursor.idx),
         NEW R, R = AdvanceCursor(Q)
  PROVE  /\ QShape(Levels, R) /\ QPlaces(Levels, R) /\ QOrder(Levels, R, n)
         /\ QCount(Levels, R, k) /\ InQueue(Levels, R) = InQueue(Levels, Q)
         /\ R.rejected = Q.rejected /\ CursorOK(Levels, R)
         /\ R.mark = Q.mark /\ R.cursor.count = Q.cursor.count + 1
         /\ RequestAtCursor(Q).id \notin FrontIds(Levels, Q)
         /\ FrontIds(Levels, R) = FrontIds(Levels, Q) \cup {RequestAtCursor(Q).id}
         /\ R.queue = Q.queue /\ R.delayed = Q.delayed
<1>1. PICK c \in Levels, i \in Nat :
        /\ c = Q.cursor.level /\ i = Q.cursor.idx
        /\ Q.cursor.count = Cardinality(FrontIds(Levels, Q))
  BY DEF CursorOK
<1>2. PICK m1 \in Nat, m2 \in Nat : m1 = Len(Q.queue[c]) /\ m2 = Len(Q.delayed[c])
  BY InQueueFacts
<1>3. i < m1 + m2 /\ PolicySize(Q, c) = m1 + m2
  BY <1>1, <1>2 DEF HasAt, PolicySize
<1>4. PICK s, d : s = Q.queue[c] /\ d = Q.delayed[c]
  OBVIOUS
<1>5. /\ Len(s) = m1 /\ Len(d) = m2 /\ NoRepeat(s) /\ NoRepeat(d)
      /\ IdsOf(s) \cap IdsOf(d) = {} /\ IdsAt(Q, c) = IdsOf(s) \cup IdsOf(d)
      /\ \A j \in Levels : j # c => IdsAt(Q, j) \cap IdsAt(Q, c) = {}
  BY <1>2, <1>4 DEF QPlaces, IdsAt
<1>6. PICK e : e = IF i < m1 THEN s[i + 1] ELSE d[i - m1 + 1]
  OBVIOUS
<1> DEFINE A == Below(Levels, Q, c)
           S(p) == FirstIds(s, p)
           D(p) == FirstIds(d, p - m1)
<1>7. FrontIds(Levels, Q) = A \cup S(i) \cup D(i)
  BY <1>1, <1>2, <1>4 DEF FrontIds
<1>8. \A j \in Levels : j \in Nat
  BY ConfigFacts
<1>9. \A j \in Levels : j < c => j # c
  BY <1>8
<1>10. A \cap IdsAt(Q, c) = {}
  BY <1>5, <1>9 DEF Below
<1>11. /\ e.id \notin S(i) \cup D(i) /\ e.id \in IdsAt(Q, c)
       /\ S(i + 1) \cup D(i + 1) = S(i) \cup D(i) \cup {e.id}
  <2>1. CASE i < m1
    <3>1. i + 1 \in 1..m1 /\ e = s[i + 1] /\ i \in Int
      BY <1>6, <2>1
    <3>2. /\ i - m1 \in Int /\ i - m1 <= 0 /\ (i + 1) - m1 \in Int /\ (i + 1) - m1 <= 0
      BY <2>1
    <3>3. D(i) = {} /\ D(i + 1) = {}
      BY <1>5, <3>2, FirstIdsFacts
    <3>4. /\ S(i + 1) = S(i) \cup {e.id} /\ e.id \in IdsOf(s) /\ e.id \notin S(i)
      BY <1>5, <3>1, FirstIdsFacts
    <3> QED BY <1>5, <3>3, <3>4
  <2>2. CASE ~(i < m1)
    <3>1. PICK b \in Int : b = i - m1
      OBVIOUS
    <3>2. b + 1 \in 1..m2 /\ (i + 1) - m1 = b + 1 /\ i >= m1 /\ i + 1 >= m1
      BY <2>2, <1>3, <3>1
    <3>3. e = d[b + 1]
      BY <1>6, <2>2, <3>1
    <3>4. S(i) = IdsOf(s) /\ S(i + 1) = IdsOf(s)
      BY <1>5, <3>2, i \in Int, i + 1 \in Int, FirstIdsFacts
    <3>5. /\ FirstIds(d, b + 1) = FirstIds(d, b) \cup {e.id} /\ e.id \in IdsOf(d)
          /\ e.id \notin FirstIds(d, b)
      BY <1>5, <3>1, <3>2, <3>3, FirstIdsFacts
    <3>6. D(i) = FirstIds(d, b) /\ D(i + 1) = FirstIds(d, b + 1)
      BY <3>1, <3>2
    <3> QED BY <1>5, <3>4, <3>5, <3>6
  <2> QED BY <2>1, <2>2
<1>12. e.id \notin FrontIds(Levels, Q) /\ e.id \in InQueue(Levels, Q)
  <2>1. e.id \in InQueue(Levels, Q)
    BY <1>11 DEF InQueue
  <2> QED BY <1>7, <1>10, <1>11, <2>1
<1>13. FrontIds(Levels, Q) \cup {e.id} \subseteq InQueue(Levels, Q)
       /\ InQueue(Levels, Q) \subseteq Requests
  BY <1>12, FrontInQueue, InQueueFacts
<1>14. PICK F : F = FrontIds(Levels, Q) \cup {e.id}
  OBVIOUS
<1>15. /\ Cardinality(F) = Cardinality(FrontIds(Levels, Q)) + 1
       /\ Cardinality(F) <= Cardinality(InQueue(Levels, Q))
       /\ Cardinality(InQueue(Levels, Q)) \in Nat
       /\ Cardinality(FrontIds(Levels, Q)) \in Nat
  <2>1. IsFiniteSet(FrontIds(Levels, Q)) /\ IsFiniteSet(InQueue(Levels, Q))
        /\ Cardinality(InQueue(Levels, Q)) \in Nat
        /\ Cardinality(FrontIds(Levels, Q)) \in Nat
    BY <1>13, InQueueFacts
  <2>2. Cardinality(F) = Cardinality(FrontIds(Levels, Q)) + 1
    BY <1>12, <1>14, <2>1, FS_AddElement
  <2>3. Cardinality(F) <= Cardinality(InQueue(Levels, Q))
    BY <1>13, <1>14, <2>1, FS_Subset
  <2> QED BY <2>1, <2>2, <2>3
<1>16. ~(Q.cursor.count >= Q.size)
  BY <1>1, <1>15 DEF QCount
<1>17. /\ DOMAIN R = QFields /\ DOMAIN R.cursor = CFields /\ R.mark = Q.mark
       /\ R.queue = Q.queue /\ R.delayed = Q.delayed /\ R.rejected = Q.rejected
       /\ R.size = Q.size /\ R.front = Q.front
       /\ R.cursor.level = c /\ R.cursor.idx = i + 1
       /\ R.cursor.count = Q.cursor.count + 1
       /\ R.cursor.atDelayed = (i + 1 > Len(Q.queue[c]))
  <2>1. DOMAIN Q = QFields /\ DOMAIN Q.cursor = CFields
    BY DEF QShape
  <2> QED BY <1>1, <1>16, <2>1 DEF AdvanceCursor, QFields, CFields
<1>18. /\ OnlyCursor(Q, R) /\ R.cursor.count \in Nat /\ R.mark.count \in Nat
       /\ R.mark.count <= R.cursor.count
  <2>1. /\ DOMAIN Q.mark = CFields /\ Q.mark.count \in Nat /\ Q.cursor.count \in Nat
        /\ Q.mark.count <= Q.cursor.count
    BY DEF QShape, QCount
  <2> QED BY <1>17, <2>1 DEF OnlyCursor
<1>19. /\ QShape(Levels, R) /\ QPlaces(Levels, R) /\ QOrder(Levels, R, n)
       /\ QCount(Levels, R, k) /\ InQueue(Levels, R) = InQueue(Levels, Q)
  BY <1>18, CursorMoved
<1>20. FrontIds(Levels, R) = A \cup S(i + 1) \cup D(i + 1)
  <2>1. \A l : IdsAt(R, l) = IdsAt(Q, l)
    BY <1>17 DEF IdsAt
  <2>2. Below(Levels, R, c) = A
    BY <2>1 DEF Below
  <2> QED BY <1>2, <1>4, <1>17, <2>2 DEF FrontIds
<1>21. FrontIds(Levels, R) = F
  BY <1>7, <1>11, <1>14, <1>20
<1>22. CursorOK(Levels, R)
  <2>1. R.cursor.count = Cardinality(FrontIds(Levels, R))
    BY <1>1, <1>15, <1>17, <1>21
  <2>2. PolicySize(R, c) = m1 + m2 /\ Len(R.queue[c]) = m1
    BY <1>2, <1>17 DEF PolicySize
  <2>3. i + 1 \in Nat /\ i + 1 <= PolicySize(R, c)
    <3>1. i + 1 \in Nat /\ i + 1 <= m1 + m2
      BY <1>3
    <3> QED BY ONLY <2>2, <3>1
  <2>4. ~R.cursor.atDelayed => i + 1 <= Len(R.queue[c])
    <3>1. R.cursor.atDelayed = (i + 1 > m1)
      BY <1>2, <1>17
    <3>2. ~(i + 1 > m1) => i + 1 <= m1
      OBVIOUS
    <3> QED BY ONLY <2>2, <3>1, <3>2
  <2> QED BY <1>17, <2>1, <2>3, <2>4 DEF CursorOK
<1>23. RequestAtCursor(Q) = e
  BY <1>1, <1>2, <1>4, <1>6 DEF RequestAtCursor, At
<1> QED BY <1>12, <1>14, <1>17, <1>19, <1>21, <1>22, <1>23

----------------------------------------------------------------------------
(* What each part of the invariant needs of a step.                        *)

\* The requests that have entered the queue.
Entered(s) == {r \in Requests : s[r] \notin {"new", "submitting", "refused"}}

(* Requests do not go back, so arrival numbers only grow.                  *)
LEMMA SeqGrows ==
  ASSUME \A r \in Requests : r \in Entered(st) => r \in Entered(st')
  PROVE  NextSeq \in Nat /\ NextSeq' \in Nat /\ NextSeq <= NextSeq'
<1>1. NextSeq = 1 + Cardinality(Entered(st)) /\ NextSeq' = 1 + Cardinality(Entered(st'))
  BY DEF NextSeq, Entered
<1>2. Entered(st) \subseteq Entered(st') /\ Entered(st') \subseteq Requests
  BY DEF Entered
<1>3. IsFiniteSet(Entered(st')) /\ IsFiniteSet(Entered(st))
  BY <1>2, CompletionQueueAssumption, FS_Subset
<1>4. Cardinality(Entered(st)) \in Nat /\ Cardinality(Entered(st')) \in Nat
      /\ Cardinality(Entered(st)) <= Cardinality(Entered(st'))
  BY <1>2, <1>3, FS_CardinalityType, FS_Subset
<1> QED BY <1>1, <1>4

(* A later arrival number bounds the queued ones as well.                  *)
LEMMA OrderGrows ==
  ASSUME NEW L, NEW Q, NEW n \in Nat, NEW m \in Nat, n <= m,
         QShape(L, Q), QOrder(L, Q, n)
  PROVE  QOrder(L, Q, m)
<1>1. ASSUME NEW l \in L, NEW i \in 1..Len(Q.queue[l]) PROVE Q.queue[l][i].seq < m
  <2>1. Q.queue[l] \in Seq(Entries(L))
    BY DEF QShape
  <2>2. Q.queue[l][i] \in Entries(L)
    BY <2>1
  <2>3. Q.queue[l][i].seq \in Nat
    BY <2>2 DEF Entries
  <2>4. Q.queue[l][i].seq < n
    BY DEF QOrder
  <2> QED BY <2>3, <2>4
<1> QED BY <1>1 DEF QOrder

(* The queue is sound after a step that does not lower the arrival number. *)
LEMMA QueueFrom ==
  ASSUME config' = config, NEW n \in Nat, n <= NextSeq', NextSeq' \in Nat,
         QShape(Levels, q'), QPlaces(Levels, q'), QOrder(Levels, q', n),
         QCount(Levels, q', scan'.rejCnt)
  PROVE  QueueInv'
<1>1. Levels' = Levels
  BY SameConfig
<1>2. QOrder(Levels, q', NextSeq')
  BY OrderGrows
<1> QED BY <1>1, <1>2 DEF QueueInv

(* Only the holder of mu_ looks at the queue.                              *)
Inside == Scanning \cup {"dequeue"}

(* mu_ excludes: at most one thread scans or dequeues, and nobody does, and *)
(* no rejection is uncounted, while mu_ is free.                           *)
LEMMA MuFacts ==
  ASSUME ThreadsInv
  PROVE  /\ mu = 0 => \A u \in Threads : pc[u] \notin Inside
         /\ \A t \in Threads : pc[t] \in Inside =>
              mu = t /\ \A u \in Threads : u # t => pc[u] \notin Inside
         /\ \A t \in Threads : pc[t] \in Inside /\ pc[t] # "policy" => scan.rejCnt = 0
         /\ mu = 0 => scan.rejCnt = 0
<1>1. \A u \in Threads : pc[u] \in Inside => mu = u
  BY DEF ThreadsInv, Inside
<1>2. (\A t \in Threads : pc[t] # "policy") => scan.rejCnt = 0
  BY DEF ThreadsInv
<1>3. 0 \notin Threads
  BY ConfigFacts DEF ThreadsInv
<1>4. "policy" \in Inside
  BY DEF Inside, Scanning
<1> QED BY <1>1, <1>2, <1>3, <1>4

(* No thread is forming a batch.                                           *)
LEMMA CursorQuiet ==
  ASSUME config' = config, \A u \in Threads : pc'[u] \notin Inside,
         q'.cursor.valid => CursorOK(Levels, q')
  PROVE  CursorInv'
<1>1. Levels' = Levels /\ Threads' = Threads
  BY SameConfig
<1>2. /\ \A u \in Threads : pc'[u] # "dequeue" /\ pc'[u] # "examine"
      /\ ~(\E u \in Threads : pc'[u] \in Scanning)
  BY DEF Inside, Scanning
<1> QED BY <1>1, <1>2 DEF CursorInv, Scans

(* Thread t is scanning the queue.                                         *)
LEMMA CursorScans ==
  ASSUME config' = config, NEW t \in Threads, pc'[t] \in Scanning,
         \A u \in Threads : u # t => pc'[u] \notin Inside,
         CursorOK(Levels, q'),
         scan'.best # 0 => q'.mark.count > 0,
         scan'.grown => q'.cursor.count > 0,
         pc'[t] = "examine" /\ q'.cursor.count # q'.size =>
           HasAt(q', q'.cursor.level, q'.cursor.idx)
  PROVE  CursorInv'
<1>1. Levels' = Levels /\ Threads' = Threads
  BY SameConfig
<1>2. \A u \in Threads : pc'[u] # "dequeue"
  BY DEF Inside, Scanning
<1>3. \A u \in Threads : pc'[u] = "examine" => u = t
  BY DEF Inside, Scanning
<1> QED BY <1>1, <1>2, <1>3 DEF CursorInv, Scans

(* Thread t is taking its batch off the queue.                             *)
LEMMA CursorTakes ==
  ASSUME config' = config, NEW t \in Threads, pc'[t] = "dequeue",
         \A u \in Threads : u # t => pc'[u] \notin Inside,
         Len(requests'[t]) <= q'.cursor.count,
         q'.cursor.count - Len(requests'[t]) <= q'.size,
         q'.cursor.count > 0,
         Len(requests'[t]) > 0 => ~q'.cursor.valid
  PROVE  CursorInv'
<1>1. Levels' = Levels /\ Threads' = Threads
  BY SameConfig
<1>2. ~(\E u \in Threads : pc'[u] \in Scanning)
  BY DEF Inside, Scanning
<1>3. \A u \in Threads : (pc'[u] = "dequeue" => u = t) /\ pc'[u] # "examine"
  BY DEF Inside, Scanning
<1> QED BY <1>1, <1>2, <1>3 DEF CursorInv, Scans

(* Nothing of what CursorInv reads changes.                                *)
LEMMA CursorFrame ==
  ASSUME config' = config, CursorInv, q' = q, scan' = scan,
         \A u \in Threads : /\ pc'[u] = pc[u] \/ (pc[u] \notin Inside /\ pc'[u] \notin Inside)
                            /\ pc[u] = "dequeue" => requests'[u] = requests[u]
  PROVE  CursorInv'
<1>1. Levels' = Levels /\ Threads' = Threads
  BY SameConfig
<1>2. \A u \in Threads : /\ pc'[u] \in Scanning <=> pc[u] \in Scanning
                         /\ pc'[u] = "dequeue" <=> pc[u] = "dequeue"
                         /\ pc'[u] = "examine" <=> pc[u] = "examine"
  BY DEF Inside, Scanning
<1>3. Scans' <=> Scans
  BY <1>1, <1>2 DEF Scans
<1>4. /\ Scans' \/ (q'.cursor.valid /\ \A u \in Threads : pc'[u] # "dequeue")
           => CursorOK(Levels, q')
      /\ scan'.best # 0 /\ Scans' => q'.mark.count > 0
      /\ scan'.grown /\ Scans' => q'.cursor.count > 0
  BY <1>2, <1>3 DEF CursorInv
<1>5. \A u \in Threads : pc'[u] = "examine" /\ q'.cursor.count # q'.size =>
        HasAt(q', q'.cursor.level, q'.cursor.idx)
  BY <1>2 DEF CursorInv
<1>6. \A u \in Threads : pc'[u] = "dequeue" =>
        /\ Len(requests'[u]) <= q'.cursor.count
        /\ q'.cursor.count - Len(requests'[u]) <= q'.size
        /\ q'.cursor.count > 0
        /\ Len(requests'[u]) > 0 => ~q'.cursor.valid
  BY <1>2 DEF CursorInv
<1> QED BY <1>1, <1>4, <1>5, <1>6 DEF CursorInv

(* The owners of the requests stay the same.                               *)
LEMMA OwnersFrame ==
  ASSUME config' = config, OwnersInv, st' = st, requests' = requests, rejected' = rejected,
         InQueue(Levels, q') = InQueue(Levels, q), IdsOf(q'.rejected) = IdsOf(q.rejected),
         \A u \in Threads : pc'[u] = "execute" <=> pc[u] = "execute"
  PROVE  OwnersInv'
<1>1. Levels' = Levels /\ Threads' = Threads
  BY SameConfig
<1> QED BY <1>1 DEF OwnersInv, Batched, Refused

(* The slots stay the same.                                                *)
LEMMA SlotsFrame ==
  ASSUME config' = config, SlotsInv, UNCHANGED cqVars, st' = st, requests' = requests,
         \A u \in Threads : pc[u] = "after" => pc'[u] = "after"
  PROVE  SlotsInv'
<1>1. Threads' = Threads /\ PreserveOrdering' = PreserveOrdering
  BY SameConfig
<1>2. CQInv'
  BY NextInv DEF SlotsInv
<1>3. Scheduled' = Scheduled /\ resp' = resp
  BY DEF Scheduled, cqVars
<1> QED BY <1>1, <1>2, <1>3 DEF SlotsInv, Batched

(* A thread that does not run the destructor moves while the object lives. *)
LEMMA LifeFrame ==
  ASSUME config' = config, LifeInv, st' = st, unloaded' = unloaded, exit' = exit, dtor' = dtor,
         \A u \in Threads : pc'[u] = pc[u] \/ (dtor # u /\ dtor # "destroyed")
  PROVE  LifeInv'
<1>1. Threads' = Threads
  BY SameConfig
<1>2. \A u \in Threads : dtor = u => pc'[u] = pc[u]
  OBVIOUS
<1>3. dtor = "destroyed" => \A u \in Threads : pc'[u] = pc[u]
  OBVIOUS
<1> QED BY <1>1, <1>2, <1>3 DEF LifeInv

----------------------------------------------------------------------------
(* A step that changes nothing the invariant reads, but the clock.         *)
coreVars == <<q, scan, st, req, pc, requests, rejected, mu, unloaded, exit, dtor, cqVars>>

(* Such a step keeps the invariant.                                        *)
LEMMA StillInv ==
  ASSUME DInv, config' = config, UNCHANGED coreVars, now' \in Nat
  PROVE  DInv'
<1>1. /\ q' = q /\ scan' = scan /\ st' = st /\ req' = req /\ pc' = pc
      /\ requests' = requests /\ rejected' = rejected /\ mu' = mu
      /\ unloaded' = unloaded /\ exit' = exit /\ dtor' = dtor /\ cqVars' = cqVars
  BY DEF coreVars
<1>2. Levels' = Levels /\ Threads' = Threads
  BY SameConfig
<1>3. ThreadsInv'
  BY <1>1, <1>2 DEF DInv, ThreadsInv
<1>4. QueueInv'
  BY <1>1, <1>2 DEF DInv, QueueInv, NextSeq
<1>5. CursorInv'
  BY <1>1, CursorFrame DEF DInv
<1>6. OwnersInv'
  BY <1>1, OwnersFrame DEF DInv
<1>7. SlotsInv'
  BY <1>1, SlotsFrame DEF DInv
<1>8. LifeInv'
  BY <1>1, LifeFrame DEF DInv
<1> QED BY <1>3, <1>4, <1>5, <1>6, <1>7, <1>8 DEF DInv

(* What pc[t] := v does.                                                   *)
LEMMA PcFacts ==
  ASSUME NEW T, NEW f \in [T -> PCs], NEW t \in T, NEW v \in PCs,
         NEW g, g = [f EXCEPT ![t] = v]
  PROVE  g \in [T -> PCs] /\ g[t] = v /\ \A u \in T : u # t => g[u] = f[u]
  OBVIOUS

(* A thread moves on outside the critical section.                         *)
LEMMA MoveInv ==
  ASSUME DInv, config' = config, NEW t \in Threads, NEW v \in PCs,
         pc' = [pc EXCEPT ![t] = v],
         UNCHANGED <<q, scan, st, req, requests, rejected, mu, now, unloaded, cqVars>>,
         pc[t] \notin Inside \cup {"after", "execute"},
         v \notin Inside \cup {"execute"},
         v \in {"top", "lock", "exited"} => rejected[t] = << >>,
         LifeInv'
  PROVE  DInv'
<1>1. /\ q' = q /\ scan' = scan /\ st' = st /\ req' = req
      /\ requests' = requests /\ rejected' = rejected /\ mu' = mu /\ now' = now
      /\ cqVars' = cqVars
  OBVIOUS
<1>2. Levels' = Levels /\ Threads' = Threads
  BY SameConfig
<1>3. pc \in [Threads -> PCs]
  BY DEF DInv, ThreadsInv
<1>4. pc' \in [Threads -> PCs] /\ pc'[t] = v /\ \A u \in Threads : u # t => pc'[u] = pc[u]
  BY <1>3, PcFacts
<1>5. requests[t] = << >>
  BY DEF DInv, ThreadsInv, Inside
<1>6. ThreadsInv'
  <2>1. /\ \A u \in Threads : pc'[u] \in Inside => mu' = u
        /\ (\A u \in Threads : pc'[u] # "policy") => scan'.rejCnt = 0
    <3>1. \A u \in Threads : pc[u] \in Inside => mu = u
      BY DEF DInv, ThreadsInv, Inside
    <3>2. (\A u \in Threads : pc[u] # "policy") => scan.rejCnt = 0
      BY DEF DInv, ThreadsInv
    <3>3. \A u \in Threads : pc[u] = "policy" => pc'[u] = "policy"
      BY <1>4 DEF Inside, Scanning
    <3> QED BY <1>1, <1>4, <3>1, <3>2, <3>3
  <2>2. \A u \in Threads :
          /\ pc'[u] \notin {"dequeue", "after", "execute"} => requests[u] = << >>
          /\ pc'[u] \in Scanning \cup {"top", "lock", "exited"} => rejected[u] = << >>
    <3>1. CASE v \in Scanning
      BY <3>1 DEF Inside
    <3>2. CASE v \notin Scanning
      BY <1>4, <1>5, <3>2 DEF DInv, ThreadsInv
    <3> QED BY <3>1, <3>2
  <2> QED BY <1>1, <1>2, <1>4, <2>1, <2>2 DEF DInv, ThreadsInv, Inside
<1>7. QueueInv'
  BY <1>1, <1>2 DEF DInv, QueueInv, NextSeq
<1>8. CursorInv'
  <2>1. \A u \in Threads : pc'[u] = pc[u] \/ (pc[u] \notin Inside /\ pc'[u] \notin Inside)
    BY <1>4
  <2> QED BY <1>1, <2>1, CursorFrame DEF DInv
<1>9. OwnersInv'
  <2>1. \A u \in Threads : pc'[u] = "execute" <=> pc[u] = "execute"
    BY <1>4
  <2> QED BY <1>1, <2>1, OwnersFrame DEF DInv
<1>10. SlotsInv'
  <2>1. \A u \in Threads : pc[u] = "after" => pc'[u] = "after"
    BY <1>4
  <2> QED BY <1>1, <2>1, SlotsFrame DEF DInv
<1> QED BY <1>6, <1>7, <1>8, <1>9, <1>10 DEF DInv

(* The steps of a thread outside the critical section.                     *)
LEMMA CheckExitInv ==
  ASSUME DInv, config' = config, NEW t \in Threads, CheckExit(t)
  PROVE  DInv'
<1>1. PICK v \in {"exited", "lock"} :
        v = (IF exit THEN "exited" ELSE "lock") /\ pc' = [pc EXCEPT ![t] = v]
  BY DEF CheckExit
<1>2. pc[t] = "top" /\ dtor # t
  BY DEF CheckExit, Runs
<1>3. UNCHANGED <<q, scan, st, req, requests, rejected, mu, now, unloaded, exit, dtor, cqVars>>
  BY DEF CheckExit, lifeVars, clientVars
<1>4. pc \in [Threads -> PCs] /\ v \in PCs
  BY <1>1 DEF DInv, ThreadsInv, PCs
<1>5. pc'[t] = v /\ \A u \in Threads : u # t => pc'[u] = pc[u]
  BY <1>1, <1>4, PcFacts
<1>6. pc[t] \notin Inside \cup {"after", "execute"} /\ v \notin Inside \cup {"execute"}
  BY <1>1, <1>2 DEF Inside, Scanning
<1>7. rejected[t] = << >>
  BY <1>2 DEF DInv, ThreadsInv
<1>8. LifeInv'
  <2>1. CASE dtor # "destroyed"
    BY <1>2, <1>3, <1>5, <2>1, LifeFrame DEF DInv
  <2>2. CASE dtor = "destroyed"
    <3>1. exit /\ LifeInv /\ Threads' = Threads
      BY <2>2, SameConfig DEF DInv, LifeInv
    <3>2. v = "exited"
      BY <1>1, <3>1
    <3> QED BY <1>2, <1>3, <1>5, <2>2, <3>1, <3>2 DEF LifeInv
  <2> QED BY <2>1, <2>2
<1> QED BY <1>1, <1>3, <1>4, <1>6, <1>7, <1>8, MoveInv

(* A move of a thread that is not the destructor's, before the end.        *)
LEMMA LiveMove ==
  ASSUME DInv, config' = config, NEW t \in Threads, NEW v \in PCs,
         pc' = [pc EXCEPT ![t] = v],
         UNCHANGED <<q, scan, st, req, requests, rejected, mu, now, unloaded, exit, dtor, cqVars>>,
         pc[t] \in {"lock", "waiting", "woken"},
         v \in {"waiting", "woken", "after"}
  PROVE  DInv'
<1>1. pc \in [Threads -> PCs]
  BY DEF DInv, ThreadsInv
<1>2. pc'[t] = v /\ \A u \in Threads : u # t => pc'[u] = pc[u]
  BY <1>1, PcFacts
<1>3. dtor # t /\ dtor # "destroyed"
  BY DEF DInv, LifeInv
<1>4. LifeInv'
  BY <1>2, <1>3, LifeFrame DEF DInv
<1>5. pc[t] \notin Inside \cup {"after", "execute"} /\ v \notin Inside \cup {"execute"}
      /\ v \notin {"top", "lock", "exited"}
  BY DEF Inside, Scanning
<1> QED BY <1>4, <1>5, MoveInv

(* WaitForWork: a thread goes to sleep on an empty queue.                  *)
LEMMA WaitForWorkInv ==
  ASSUME DInv, config' = config, NEW t \in Threads, WaitForWork(t)
  PROVE  DInv'
<1>1. pc' = [pc EXCEPT ![t] = "waiting"] /\ pc[t] \in {"lock", "waiting", "woken"}
  BY DEF WaitForWork, Runs
<1>2. UNCHANGED <<q, scan, st, req, requests, rejected, mu, now, unloaded, exit, dtor, cqVars>>
  BY DEF WaitForWork, lifeVars, clientVars
<1>3. "waiting" \in PCs /\ "waiting" \in {"waiting", "woken", "after"}
  BY DEF PCs
<1> QED BY <1>1, <1>2, <1>3, LiveMove

(* WakeUp: a notification or the timer wakes the thread.                   *)
LEMMA WakeUpInv ==
  ASSUME DInv, config' = config, NEW t \in Threads, WakeUp(t)
  PROVE  DInv'
<1>1. pc' = [pc EXCEPT ![t] = "after"] /\ pc[t] \in {"lock", "waiting", "woken"}
  BY DEF WakeUp, Runs
<1>2. UNCHANGED <<q, scan, st, req, requests, rejected, mu, now, unloaded, exit, dtor, cqVars>>
  BY DEF WakeUp, lifeVars, clientVars
<1>3. "after" \in PCs /\ "after" \in {"waiting", "woken", "after"}
  BY DEF PCs
<1> QED BY <1>1, <1>2, <1>3, LiveMove

(* notify_one wakes at most one sleeping thread and touches nothing else.  *)
LEMMA NotifyInv ==
  ASSUME DInv, config' = config, NotifyOne,
         UNCHANGED <<q, scan, st, req, requests, rejected, mu, now, unloaded, exit, dtor, cqVars>>
  PROVE  DInv'
<1>1. CASE pc' = pc
  <2>1. now' \in Nat
    BY DEF DInv, ThreadsInv
  <2>2. UNCHANGED coreVars
    BY <1>1 DEF coreVars
  <2> QED BY <2>1, <2>2, StillInv
<1>2. ASSUME NEW t \in Waiting, pc' = [pc EXCEPT ![t] = "woken"] PROVE DInv'
  <2>1. t \in Threads /\ pc[t] \in {"lock", "waiting", "woken"}
    BY DEF Waiting
  <2>2. "woken" \in PCs /\ "woken" \in {"waiting", "woken", "after"}
    BY DEF PCs
  <2> QED BY <1>2, <2>1, <2>2, LiveMove
<1> QED BY <1>1, <1>2 DEF NotifyOne

(* ClientNotify: a client notifies after it has released mu_.              *)
LEMMA ClientNotifyInv ==
  ASSUME DInv, config' = config, NEW r \in Requests, ClientNotify(r)
  PROVE  DInv'
<1>1. NotifyOne
  BY DEF ClientNotify
<1>2. UNCHANGED <<q, scan, st, req, requests, rejected, mu, now, unloaded, exit, dtor, cqVars>>
  BY DEF ClientNotify, lifeVars
<1> QED BY <1>1, <1>2, NotifyInv

(* WakeOther: a thread that leaves requests behind wakes another.          *)
LEMMA WakeOtherInv ==
  ASSUME DInv, config' = config, NEW t \in Threads, WakeOther(t)
  PROVE  DInv'
<1>1. NotifyOne
  BY DEF WakeOther
<1>2. UNCHANGED <<q, scan, st, req, requests, rejected, mu, now, unloaded, exit, dtor, cqVars>>
  BY DEF WakeOther, lifeVars, clientVars
<1> QED BY <1>1, <1>2, NotifyInv

(* LoopEnd: everything is answered and the thread starts over.             *)
LEMMA LoopEndInv ==
  ASSUME DInv, config' = config, NEW t \in Threads, LoopEnd(t)
  PROVE  DInv'
<1>1. pc' = [pc EXCEPT ![t] = "top"] /\ pc[t] = "reject" /\ dtor # t /\ rejected[t] = << >>
  BY DEF LoopEnd, Runs
<1>2. UNCHANGED <<q, scan, st, req, requests, rejected, mu, now, unloaded, exit, dtor, cqVars>>
  BY DEF LoopEnd, lifeVars, clientVars
<1>3. pc \in [Threads -> PCs] /\ "top" \in PCs
  BY DEF DInv, ThreadsInv, PCs
<1>4. pc'[t] = "top" /\ \A u \in Threads : u # t => pc'[u] = pc[u]
  BY <1>1, <1>3, PcFacts
<1>5. LifeInv'
  <2>1. LifeInv /\ Threads' = Threads
    BY SameConfig DEF DInv
  <2> QED BY <1>1, <1>2, <1>4, <2>1 DEF LifeInv
<1>6. pc[t] \notin Inside \cup {"after", "execute"} /\ "top" \notin Inside \cup {"execute"}
  BY <1>1 DEF Inside, Scanning
<1> QED BY <1>1, <1>2, <1>3, <1>5, <1>6, MoveInv

(* Tick: only the clock moves.                                             *)
LEMMA TickInv ==
  ASSUME DInv, config' = config, Tick
  PROVE  DInv'
<1>1. now' \in Nat
  BY DEF Tick, DInv, ThreadsInv
<1>2. UNCHANGED coreVars
  BY DEF Tick, coreVars, lifeVars, clientVars
<1> QED BY <1>1, <1>2, StillInv

----------------------------------------------------------------------------
(* Unloading and the destructor.                                           *)
LEMMA SignalExitInv ==
  ASSUME DInv, config' = config, SignalExit
  PROVE  DInv'
<1>1. /\ q' = q /\ scan' = scan /\ st' = st /\ req' = req /\ requests' = requests
      /\ rejected' = rejected /\ mu' = mu /\ now' = now /\ cqVars' = cqVars
      /\ unloaded' = unloaded /\ dtor' = dtor /\ exit' = TRUE
      /\ dtor # "destroyed"
  BY DEF SignalExit, clientVars
<1>2. Levels' = Levels /\ Threads' = Threads
  BY SameConfig
<1>3. /\ pc \in [Threads -> PCs]
      /\ pc' = [u \in Threads |-> IF pc[u] = "waiting" THEN "woken" ELSE pc[u]]
  BY DEF SignalExit, DInv, ThreadsInv
<1>4. /\ pc' \in [Threads -> PCs]
      /\ \A u \in Threads : pc'[u] = pc[u] \/ (pc[u] = "waiting" /\ pc'[u] = "woken")
  BY <1>3 DEF PCs
<1>5. \A u \in Threads : pc'[u] = pc[u] \/ (pc[u] \notin Inside /\ pc'[u] \notin Inside)
  BY <1>4 DEF Inside, Scanning
<1>6. ThreadsInv'
  <2>1. \A u \in Threads : pc'[u] \in Inside => mu' = u
    BY <1>1, <1>5 DEF DInv, ThreadsInv, Inside
  <2>2. (\A u \in Threads : pc'[u] # "policy") => scan'.rejCnt = 0
    BY <1>1, <1>4 DEF DInv, ThreadsInv
  <2>3. \A u \in Threads :
          /\ pc'[u] \notin {"dequeue", "after", "execute"} => requests[u] = << >>
          /\ pc'[u] \in Scanning \cup {"top", "lock", "exited"} => rejected[u] = << >>
    BY <1>4 DEF DInv, ThreadsInv, Scanning
  <2> QED BY <1>1, <1>2, <1>4, <2>1, <2>2, <2>3 DEF DInv, ThreadsInv, Inside
<1>7. QueueInv'
  BY <1>1, <1>2 DEF DInv, QueueInv, NextSeq
<1>8. CursorInv'
  BY <1>1, <1>5, CursorFrame DEF DInv
<1>9. OwnersInv'
  <2>1. \A u \in Threads : pc'[u] = "execute" <=> pc[u] = "execute"
    BY <1>4
  <2> QED BY <1>1, <2>1, OwnersFrame DEF DInv
<1>10. SlotsInv'
  <2>1. \A u \in Threads : pc[u] = "after" => pc'[u] = "after"
    BY <1>4
  <2> QED BY <1>1, <2>1, SlotsFrame DEF DInv
<1>11. LifeInv'
  <2>1. \A u \in Threads : dtor = u => pc'[u] = pc[u]
    BY <1>4 DEF DInv, LifeInv
  <2> QED BY <1>1, <1>2, <2>1 DEF DInv, LifeInv
<1> QED BY <1>6, <1>7, <1>8, <1>9, <1>10, <1>11 DEF DInv

(* Only the life of the scheduler changes.                                 *)
LEMMA LifeOnly ==
  ASSUME DInv, config' = config,
         UNCHANGED <<q, scan, st, req, pc, requests, rejected, mu, now, cqVars>>,
         LifeInv'
  PROVE  DInv'
<1>1. /\ q' = q /\ scan' = scan /\ st' = st /\ req' = req /\ pc' = pc
      /\ requests' = requests /\ rejected' = rejected /\ mu' = mu /\ now' = now
      /\ cqVars' = cqVars
  OBVIOUS
<1>2. Levels' = Levels /\ Threads' = Threads
  BY SameConfig
<1>3. ThreadsInv'
  BY <1>1, <1>2 DEF DInv, ThreadsInv
<1>4. QueueInv'
  BY <1>1, <1>2 DEF DInv, QueueInv, NextSeq
<1>5. CursorInv'
  BY <1>1, CursorFrame DEF DInv
<1>6. OwnersInv'
  BY <1>1, OwnersFrame DEF DInv
<1>7. SlotsInv'
  BY <1>1, SlotsFrame DEF DInv
<1> QED BY <1>3, <1>4, <1>5, <1>6, <1>7 DEF DInv

(* Unload: the manager drops its handle, and destroys the scheduler if it  *)
(* was the last.                                                           *)
LEMMA UnloadInv ==
  ASSUME DInv, config' = config, Unload
  PROVE  DInv'
<1>1. UNCHANGED <<q, scan, st, req, pc, requests, rejected, mu, now, cqVars>>
  BY DEF Unload, clientVars
<1>2. /\ unloaded' = TRUE /\ exit' = exit /\ ~unloaded
      /\ dtor' = IF \A r \in Requests : st[r] \in Finished THEN "manager" ELSE dtor
  BY DEF Unload, DropHandle
<1>3. dtor = "none" /\ LifeInv
  BY <1>2 DEF DInv, LifeInv
<1>4. Threads' = Threads /\ Threads \cap Phases = {}
  BY SameConfig, ConfigFacts DEF DInv, ThreadsInv
<1>5. dtor' \in {"none", "manager"} /\ dtor' \notin Threads
  BY <1>2, <1>3, <1>4 DEF Phases
<1>6. dtor' # "none" => \A r \in Requests : st'[r] \in Finished
  BY <1>1, <1>2, <1>3
<1>7. LifeInv'
  BY <1>1, <1>2, <1>3, <1>4, <1>5, <1>6 DEF LifeInv, Phases
<1> QED BY <1>1, <1>7, LifeOnly

(* JoinThreads: every thread but the destructor's own has exited.          *)
LEMMA JoinThreadsInv ==
  ASSUME DInv, config' = config, JoinThreads
  PROVE  DInv'
<1>1. UNCHANGED <<q, scan, st, req, pc, requests, rejected, mu, now, cqVars>>
  BY DEF JoinThreads, clientVars
<1>2. /\ unloaded' = unloaded /\ exit' = exit /\ exit /\ dtor' = "destroyed"
      /\ dtor # "none" /\ dtor # "destroyed"
      /\ \A t \in Threads : t # dtor => pc[t] = "exited"
  BY DEF JoinThreads
<1>3. Threads' = Threads /\ "destroyed" \notin Threads /\ LifeInv
  BY SameConfig, ConfigFacts DEF DInv, ThreadsInv, Phases
<1>4. \A t \in Threads : pc[t] \in {"execute", "reject", "top", "exited"}
  BY <1>2, <1>3 DEF LifeInv
<1>5. \A t, u \in Threads : pc[t] # "exited" /\ pc[u] # "exited" => t = u
  BY <1>2
<1>6. LifeInv'
  BY <1>1, <1>2, <1>3, <1>4, <1>5 DEF LifeInv, Phases
<1> QED BY <1>1, <1>6, LifeOnly

----------------------------------------------------------------------------
(* What st[r] := v does.                                                   *)
LEMMA StFacts ==
  ASSUME NEW f \in [Requests -> States], NEW r \in Requests, NEW v \in States,
         NEW g, g = [f EXCEPT ![r] = v]
  PROVE  g \in [Requests -> States] /\ g[r] = v /\ \A x \in Requests : x # r => g[x] = f[x]
  OBVIOUS

(* What the queue and the threads hold are requests.                       *)
LEMMA OwnedAreRequests ==
  ASSUME ThreadsInv, QueueInv
  PROVE  /\ InQueue(Levels, q) \subseteq Requests /\ IdsOf(q.rejected) \subseteq Requests
         /\ \A t \in Threads : Batched(t) \subseteq Requests /\ Refused(t) \subseteq Requests
<1>1. ASSUME NEW s \in Seq(Entries(Levels)) PROVE IdsOf(s) \subseteq Requests
  <2>1. \A i \in 1..Len(s) : s[i] \in Entries(Levels)
    OBVIOUS
  <2> QED BY <2>1 DEF IdsOf, Entries
<1>2. QShape(Levels, q) /\ q.rejected \in Seq(Entries(Levels))
  BY DEF QueueInv, QShape
<1>3. \A t \in Threads : /\ requests[t] \in Seq(Entries(Levels))
                         /\ rejected[t] \in Seq(Entries(Levels))
  BY DEF ThreadsInv
<1>4. InQueue(Levels, q) \subseteq Requests
  BY <1>2, InQueueFacts
<1> QED BY <1>1, <1>2, <1>3, <1>4 DEF Batched, Refused

(* States in which no part of the scheduler holds the request.             *)
Unowned == {"new", "submitting", "refused", "timedout", "executing", "released"}

(* A request that no part of the scheduler holds changes its state.        *)
LEMMA OwnersSt ==
  ASSUME config' = config, OwnersInv, ThreadsInv, QueueInv,
         requests' = requests, rejected' = rejected, q' = q, pc' = pc,
         NEW r \in Requests, NEW v, st' = [st EXCEPT ![r] = v],
         st[r] \in Unowned, v \in Unowned,
         st[r] \in {"executing", "released"} => v \in {"executing", "released"}
  PROVE  OwnersInv'
<1>1. Levels' = Levels /\ Threads' = Threads
  BY SameConfig
<1>2. /\ st \in [Requests -> States] /\ v \in States
      /\ st[r] \notin {"queued", "expired"} /\ v \notin {"queued", "expired"}
  BY DEF ThreadsInv, States, Finished, Unowned
<1>3. st'[r] = v /\ \A x \in Requests : x # r => st'[x] = st[x]
  BY <1>2, StFacts
<1>4. \A x : st[x] \in {"queued", "expired"} /\ x \in Requests => st'[x] = st[x]
  BY <1>2, <1>3
<1>5. \A x \in Requests : st'[x] \in {"queued", "expired"} => st'[x] = st[x]
  BY <1>2, <1>3
<1>6. \A x \in Requests : st[x] \in {"executing", "released"} => st'[x] \in {"executing", "released"}
  BY <1>3
<1>7. /\ InQueue(Levels, q) \subseteq Requests
      /\ IdsOf(q.rejected) \subseteq Requests
      /\ \A t \in Threads : Batched(t) \subseteq Requests /\ Refused(t) \subseteq Requests
  BY OwnedAreRequests
<1>8. \A x \in InQueue(Levels, q) : st'[x] = "queued"
  BY <1>4, <1>7 DEF OwnersInv
<1>9. \A t \in Threads : pc[t] # "execute" =>
        \A x \in Batched(t) : st'[x] = "queued" /\ x \notin InQueue(Levels, q)
  BY <1>4, <1>7 DEF OwnersInv
<1>10. \A t \in Threads : pc[t] = "execute" =>
        \A x \in Batched(t) : st'[x] \in {"executing", "released"}
  BY <1>6, <1>7 DEF OwnersInv
<1>11. \A x \in IdsOf(q.rejected) : st'[x] = "expired"
  BY <1>4, <1>7 DEF OwnersInv
<1>12. \A t \in Threads : \A x \in Refused(t) : st'[x] = "expired" /\ x \notin IdsOf(q.rejected)
  BY <1>4, <1>7 DEF OwnersInv
<1>13. /\ \A x \in Requests : st'[x] = "queued" =>
            \/ x \in InQueue(Levels, q)
            \/ \E t \in Threads : pc[t] # "execute" /\ x \in Batched(t)
       /\ \A x \in Requests : st'[x] = "expired" =>
            x \in IdsOf(q.rejected) \/ \E t \in Threads : x \in Refused(t)
  BY <1>5 DEF OwnersInv
<1>14. \A t \in Threads : Batched(t)' = Batched(t) /\ Refused(t)' = Refused(t)
  BY DEF Batched, Refused
<1> QED BY <1>1, <1>8, <1>9, <1>10, <1>11, <1>12, <1>13, <1>14 DEF OwnersInv

(* Only the states and the objects of requests change.                     *)
LEMMA ThreadsSt ==
  ASSUME config' = config, ThreadsInv,
         UNCHANGED <<pc, requests, rejected, scan, mu, now>>,
         st' \in [Requests -> States], DOMAIN req' = Requests,
         \A r \in Requests : st'[r] = "submitting" =>
           req'[r] \in Entries(Levels) /\ req'[r].id = r
  PROVE  ThreadsInv'
<1>1. Levels' = Levels /\ Threads' = Threads
  BY SameConfig
<1>2. /\ pc' = pc /\ requests' = requests /\ rejected' = rejected /\ scan' = scan
      /\ mu' = mu /\ now' = now
  OBVIOUS
<1> QED BY <1>1, <1>2 DEF ThreadsInv

(* Slots are given to requests.                                            *)
LEMMA ScheduledAreRequests ==
  ASSUME CQInv
  PROVE  Scheduled \subseteq Requests
  BY DEF CQInv, CQTypeOK, Scheduled

(* A request in execution stays so until its last response is on its way.  *)
LEMMA SlotsSt ==
  ASSUME config' = config, SlotsInv, UNCHANGED cqVars, requests' = requests, pc' = pc,
         \A x \in Requests :
           /\ st[x] \in {"executing", "released"} => st'[x] \in {"executing", "released"}
           /\ st'[x] # "executing" => st[x] # "executing" \/ resp[x].at = "idle"
  PROVE  SlotsInv'
<1>1. Threads' = Threads /\ PreserveOrdering' = PreserveOrdering
  BY SameConfig
<1>2. CQInv' /\ CQInv
  BY NextInv DEF SlotsInv
<1>3. Scheduled' = Scheduled /\ resp' = resp /\ Scheduled \subseteq Requests
  BY <1>2, ScheduledAreRequests DEF Scheduled, cqVars
<1>4. \A x \in Scheduled :
        \/ st'[x] \in {"executing", "released"}
        \/ \E t \in Threads : pc[t] = "after" /\ x \in Batched(t)
  BY <1>3 DEF SlotsInv
<1>5. \A t \in Threads : Batched(t)' = Batched(t)
  BY DEF Batched
<1>6. \A x \in Requests : st'[x] # "executing" \/ ~PreserveOrdering => resp[x].at = "idle"
  BY DEF SlotsInv
<1> QED BY <1>1, <1>2, <1>3, <1>4, <1>5, <1>6 DEF SlotsInv

(* A request that is not finished keeps the scheduler alive; whoever drops *)
(* the last handle starts the destructor.                                  *)
LEMMA LifeDrop ==
  ASSUME config' = config, ThreadsInv, LifeInv, unloaded' = unloaded, exit' = exit, pc' = pc,
         NEW r \in Requests, st[r] \notin Finished,
         NEW by \in Threads \cup {"client", "backend"},
         by \in Threads => pc[by] \in {"execute", "reject"},
         DropHandle(st', unloaded, by)
  PROVE  LifeInv'
<1>1. Threads' = Threads /\ Threads \cap Phases = {}
  BY SameConfig, ConfigFacts DEF ThreadsInv
<1>2. dtor = "none"
  BY DEF LifeInv
<1>3. dtor' = "none" \/ (dtor' = by /\ unloaded /\ \A x \in Requests : st'[x] \in Finished)
  BY <1>2 DEF DropHandle
<1>4. dtor' \in Threads \cup Phases /\ dtor' # "destroyed"
  BY <1>1, <1>3 DEF Phases
<1>5. \A t \in Threads : dtor' = t => pc[t] \in {"execute", "reject"}
  BY <1>1, <1>3 DEF Phases
<1> QED BY <1>1, <1>3, <1>4, <1>5 DEF LifeInv

(* A request that never entered the queue, or left it, changes its state.  *)
LEMMA StepSt ==
  ASSUME DInv, config' = config,
         UNCHANGED <<q, pc, requests, rejected, scan, mu, now, cqVars>>,
         NEW r \in Requests, NEW v, st' = [st EXCEPT ![r] = v],
         st[r] \in Unowned, v \in Unowned,
         st[r] \in {"executing", "released"} <=> v \in {"executing", "released"},
         r \in Entered(st) => r \in Entered(st'),
         v # "executing" => st[r] # "executing" \/ resp[r].at = "idle",
         DOMAIN req' = Requests,
         \A x \in Requests : x # r => req'[x] = req[x],
         v = "submitting" => req'[r] \in Entries(Levels) /\ req'[r].id = r,
         LifeInv'
  PROVE  DInv'
<1>1. /\ q' = q /\ pc' = pc /\ requests' = requests /\ rejected' = rejected
      /\ scan' = scan /\ cqVars' = cqVars
  OBVIOUS
<1>2. st \in [Requests -> States] /\ v \in States
  BY DEF DInv, ThreadsInv, States, Finished, Unowned
<1>3. st' \in [Requests -> States] /\ st'[r] = v /\ \A x \in Requests : x # r => st'[x] = st[x]
  BY <1>2, StFacts
<1>4. ThreadsInv'
  <2>1. \A x \in Requests : st'[x] = "submitting" => req'[x] \in Entries(Levels) /\ req'[x].id = x
    BY <1>3 DEF DInv, ThreadsInv
  <2> QED BY <1>3, <2>1, ThreadsSt DEF DInv
<1>5. NextSeq \in Nat /\ NextSeq' \in Nat /\ NextSeq <= NextSeq'
  <2>1. \A x \in Requests : x \in Entered(st) => x \in Entered(st')
    BY <1>3 DEF Entered
  <2> QED BY <2>1, SeqGrows
<1>6. QueueInv'
  <2>1. /\ QShape(Levels, q') /\ QPlaces(Levels, q') /\ QOrder(Levels, q', NextSeq)
        /\ QCount(Levels, q', scan'.rejCnt)
    BY <1>1 DEF DInv, QueueInv
  <2> QED BY <1>5, <2>1, QueueFrom
<1>7. CursorInv'
  BY <1>1, CursorFrame DEF DInv
<1>8. OwnersInv'
  BY <1>1, OwnersSt DEF DInv
<1>9. SlotsInv'
  <2>1. \A x \in Requests :
          /\ st[x] \in {"executing", "released"} => st'[x] \in {"executing", "released"}
          /\ st'[x] # "executing" => st[x] # "executing" \/ resp[x].at = "idle"
    BY <1>3
  <2> QED BY <1>1, <2>1, SlotsSt DEF DInv
<1> QED BY <1>4, <1>6, <1>7, <1>8, <1>9 DEF DInv

----------------------------------------------------------------------------
(* The steps of clients and of the backend that leave the queue alone.     *)
LEMMA CaptureQueueStartInv ==
  ASSUME DInv, config' = config, NEW r \in Requests, CaptureQueueStart(r)
  PROVE  DInv'
<1>1. /\ UNCHANGED <<q, pc, requests, rejected, scan, mu, now, cqVars>>
      /\ unloaded' = unloaded /\ exit' = exit /\ dtor' = dtor /\ ~unloaded
      /\ st' = [st EXCEPT ![r] = "submitting"] /\ st[r] = "new"
  BY DEF CaptureQueueStart, lifeVars
<1>2. PICK k, e :
        /\ k \in RequestKinds
        /\ e = [id |-> r, batch |-> k.batch, priority |-> k.priority,
                timeout |-> k.timeout, shape |-> k.shape, start |-> now,
                expiry |-> 0, seq |-> 0]
        /\ req' = [req EXCEPT ![r] = e]
  BY DEF CaptureQueueStart
<1>3. now \in Nat /\ DOMAIN req = Requests /\ st \in [Requests -> States]
      /\ config \in DOMAIN ModelConfigs
  BY DEF DInv, ThreadsInv
<1>4. k \in [batch : Nat \ {0}, priority : Levels, timeout : Nat, shape : Nat]
  BY <1>2, <1>3, ConfigFacts
<1>5. e \in Entries(Levels) /\ e.id = r
  BY <1>2, <1>3, <1>4 DEF Entries
<1>6. DOMAIN req' = Requests /\ req'[r] = e /\ \A x \in Requests : x # r => req'[x] = req[x]
  BY <1>2, <1>3
<1>7. st[r] \in Unowned /\ "submitting" \in Unowned /\ r \notin Entered(st)
  BY <1>1 DEF Unowned, Entered
<1>8. LifeInv'
  <2>1. LifeInv /\ dtor = "none" /\ Threads' = Threads
    BY <1>1, SameConfig DEF DInv, LifeInv
  <2>2. "none" \notin Threads
    BY <1>3, ConfigFacts DEF Phases
  <2> QED BY <1>1, <2>1, <2>2 DEF LifeInv
<1> QED BY <1>1, <1>5, <1>6, <1>7, <1>8, StepSt

(* Refuse: the level is full and the client keeps its request.             *)
LEMMA RefuseInv ==
  ASSUME DInv, config' = config, NEW r \in Requests, Refuse(r)
  PROVE  DInv'
<1>1. /\ UNCHANGED <<q, pc, requests, rejected, scan, mu, now, cqVars>>
      /\ unloaded' = unloaded /\ exit' = exit
      /\ st' = [st EXCEPT ![r] = "refused"] /\ st[r] = "submitting"
      /\ req' = [req EXCEPT ![r] = NoRequest]
      /\ DropHandle(st', unloaded, "client")
  BY DEF Refuse
<1>2. DOMAIN req' = Requests /\ \A x \in Requests : x # r => req'[x] = req[x]
  BY <1>1 DEF DInv, ThreadsInv
<1>3. st[r] \in Unowned /\ "refused" \in Unowned /\ r \notin Entered(st)
  BY <1>1 DEF Unowned, Entered
<1>4. "client" \notin Threads /\ st[r] \notin Finished
  BY <1>1, ConfigFacts DEF DInv, ThreadsInv, Phases, Finished
<1>5. LifeInv'
  BY <1>1, <1>4, LifeDrop DEF DInv
<1> QED BY <1>1, <1>2, <1>3, <1>5, StepSt

(* BackendReleases: the request and its handle of the backend are gone.    *)
LEMMA BackendReleasesInv ==
  ASSUME DInv, config' = config, NEW r \in Requests, BackendReleases(r)
  PROVE  DInv'
<1>1. /\ UNCHANGED <<q, pc, requests, rejected, scan, mu, now, cqVars>>
      /\ unloaded' = unloaded /\ exit' = exit
      /\ st' = [st EXCEPT ![r] = "released"] /\ st[r] = "executing"
      /\ req' = [req EXCEPT ![r] = NoRequest]
      /\ PreserveOrdering => resp[r].at = "idle"
  BY DEF BackendReleases
<1>2. PICK by \in Executors(r) : DropHandle(st', unloaded, by)
  BY DEF BackendReleases
<1>3. DOMAIN req' = Requests /\ \A x \in Requests : x # r => req'[x] = req[x]
  BY <1>1 DEF DInv, ThreadsInv
<1>4. /\ st \in [Requests -> States] /\ "released" \in States
  BY DEF DInv, ThreadsInv, States, Finished
<1>5. st'[r] = "released"
  BY <1>1, <1>4
<1>6. st[r] \in Unowned /\ "released" \in Unowned /\ r \in Entered(st')
  BY <1>1, <1>5 DEF Unowned, Entered
<1>7. /\ by \in Threads \cup {"client", "backend"}
      /\ by \in Threads => pc[by] \in {"execute", "reject"}
  <2>1. "backend" \notin Threads
    BY ConfigFacts DEF DInv, ThreadsInv, Phases
  <2> QED BY <2>1 DEF Executors
<1>8. st[r] \notin Finished
  BY <1>1 DEF Finished
<1>9. LifeInv'
  BY <1>1, <1>2, <1>7, <1>8, LifeDrop DEF DInv
<1>10. resp[r].at = "idle"
  BY <1>1 DEF DInv, SlotsInv
<1> QED BY <1>1, <1>3, <1>6, <1>9, <1>10, StepSt

(* A response is on its way: only the completion queue moves.              *)
LEMMA BackendRespondsInv ==
  ASSUME DInv, config' = config, NEW r \in Requests, BackendResponds(r)
  PROVE  DInv'
<1>1. /\ q' = q /\ scan' = scan /\ st' = st /\ req' = req /\ pc' = pc
      /\ requests' = requests /\ rejected' = rejected /\ mu' = mu /\ now' = now
      /\ unloaded' = unloaded /\ exit' = exit /\ dtor' = dtor
      /\ st[r] = "executing" /\ PreserveOrdering /\ Respond(r)
  BY DEF BackendResponds, clientVars, lifeVars
<1>2. Levels' = Levels /\ Threads' = Threads /\ PreserveOrdering' = PreserveOrdering
  BY SameConfig
<1>3. ThreadsInv' /\ QueueInv' /\ CursorInv' /\ OwnersInv' /\ LifeInv'
  <2>1. ThreadsInv'
    BY <1>1, <1>2 DEF DInv, ThreadsInv
  <2>2. QueueInv'
    BY <1>1, <1>2 DEF DInv, QueueInv, NextSeq
  <2>3. CursorInv'
    BY <1>1, CursorFrame DEF DInv
  <2>4. OwnersInv'
    BY <1>1, OwnersFrame DEF DInv
  <2>5. LifeInv'
    BY <1>1, LifeFrame DEF DInv
  <2> QED BY <2>1, <2>2, <2>3, <2>4, <2>5
<1>4. CQInv /\ CQInv'
  <2>1. CQNext
    BY <1>1 DEF CQNext
  <2> QED BY <2>1, NextInv DEF DInv, SlotsInv
<1>5. order' = order
  BY <1>1 DEF Respond, PutResponse, EnterFinalize, CollectFront, CollectDone, SendNext,
              LeaveFinalize
<1>6. Scheduled' = Scheduled
  BY <1>5 DEF Scheduled
<1>7. \A x \in Requests : x # r => resp'[x].at = resp[x].at
  <2>1. resp \in [Requests -> RespState]
    BY <1>4 DEF CQInv, CQTypeOK
  <2>2. resp' = resp \/ \E w : resp' = [resp EXCEPT ![r] = w]
    BY <1>1 DEF Respond, PutResponse, EnterFinalize, CollectFront, CollectDone, SendNext,
                LeaveFinalize
  <2> QED BY <2>1, <2>2
<1>8. SlotsInv'
  <2>1. \A x \in Requests : st[x] # "executing" => resp'[x].at = "idle"
    BY <1>1, <1>7 DEF DInv, SlotsInv
  <2>2. \A x \in Scheduled :
          \/ st[x] \in {"executing", "released"}
          \/ \E t \in Threads : pc[t] = "after" /\ x \in Batched(t)
    BY DEF DInv, SlotsInv
  <2>3. \A t \in Threads : Batched(t)' = Batched(t)
    BY <1>1 DEF Batched
  <2> QED BY <1>1, <1>2, <1>4, <1>6, <2>1, <2>2, <2>3 DEF SlotsInv
<1> QED BY <1>3, <1>8 DEF DInv

----------------------------------------------------------------------------
(* Enqueue: the request enters the queue with the next arrival number.     *)
LEMMA EnqueueInv ==
  ASSUME DInv, config' = config, NEW r \in Requests, Enqueue(r)
  PROVE  DInv'
<1>1. /\ st[r] = "submitting" /\ mu = 0 /\ st' = [st EXCEPT ![r] = "queued"]
      /\ pc' = pc /\ requests' = requests /\ rejected' = rejected /\ scan' = scan
      /\ mu' = mu /\ now' = now /\ unloaded' = unloaded /\ exit' = exit /\ dtor' = dtor
      /\ cqVars' = cqVars
  BY DEF Enqueue, lifeVars
<1>2. PICK l, e : /\ l = req[r].priority /\ e = [req[r] EXCEPT !.seq = NextSeq]
                  /\ q' = EnqueueAt(q, l, e, now) /\ req' = [req EXCEPT ![r] = e]
  BY DEF Enqueue
<1>3. /\ config \in DOMAIN ModelConfigs /\ now \in Nat /\ DOMAIN req = Requests
      /\ st \in [Requests -> States] /\ req[r] \in Entries(Levels) /\ req[r].id = r
      /\ scan.rejCnt \in Nat
  BY <1>1 DEF DInv, ThreadsInv
<1>4. Levels' = Levels /\ Threads' = Threads
  BY SameConfig
<1>5. /\ "queued" \in States /\ st' \in [Requests -> States] /\ st'[r] = "queued"
      /\ \A x \in Requests : x # r => st'[x] = st[x]
  <2>1. "queued" \in States
    BY DEF States
  <2> QED BY <1>1, <1>3, <2>1, StFacts
<1>6. NextSeq \in Nat /\ NextSeq' = NextSeq + 1
  <2>1. Entered(st') = Entered(st) \cup {r} /\ r \notin Entered(st)
    BY <1>1, <1>5 DEF Entered
  <2>2. IsFiniteSet(Entered(st)) /\ Cardinality(Entered(st)) \in Nat
    BY CompletionQueueAssumption, FS_Subset, FS_CardinalityType DEF Entered
  <2>3. Cardinality(Entered(st')) = Cardinality(Entered(st)) + 1
    BY <2>1, <2>2, FS_AddElement
  <2>4. NextSeq = 1 + Cardinality(Entered(st)) /\ NextSeq' = 1 + Cardinality(Entered(st'))
    BY DEF NextSeq, Entered
  <2> QED BY <2>2, <2>3, <2>4
<1>7. /\ e \in Entries(Levels) /\ e.id = r /\ e.priority = l /\ e.seq = NextSeq
      /\ l \in Levels
  <2>1. \E n \in Nat : n = NextSeq
    BY <1>6
  <2> QED BY <1>2, <1>3, <2>1 DEF Entries
<1>8. r \notin InQueue(Levels, q)
  BY <1>1 DEF DInv, OwnersInv
<1>9. /\ QShape(Levels, q) /\ QPlaces(Levels, q) /\ QOrder(Levels, q, NextSeq)
      /\ QCount(Levels, q, scan.rejCnt)
  BY DEF DInv, QueueInv
<1>10. /\ QShape(Levels, q') /\ QPlaces(Levels, q') /\ QOrder(Levels, q', NextSeq + 1)
       /\ QCount(Levels, q', scan.rejCnt)
       /\ InQueue(Levels, q') = InQueue(Levels, q) \cup {r}
       /\ q'.rejected = q.rejected
       /\ q'.cursor.valid => q.cursor.valid
       /\ q'.cursor.valid /\ CursorOK(Levels, q) => CursorOK(Levels, q')
  <2>1. e.id \notin InQueue(Levels, q)
    BY <1>7, <1>8
  <2>2. PICK n \in Nat, k \in Nat, R \in {q'} : n = NextSeq /\ k = scan.rejCnt /\ R = q'
    BY <1>3, <1>6
  <2>3. /\ QOrder(Levels, q, n) /\ QCount(Levels, q, k) /\ e.seq = n
        /\ R = EnqueueAt(q, l, e, now)
    BY <1>2, <1>7, <1>9, <2>2
  <2>4. /\ QShape(Levels, R) /\ QPlaces(Levels, R) /\ QOrder(Levels, R, n + 1)
        /\ QCount(Levels, R, k)
        /\ InQueue(Levels, R) = InQueue(Levels, q) \cup {e.id}
        /\ R.rejected = q.rejected
        /\ R.cursor.valid => q.cursor.valid
        /\ R.cursor.valid /\ CursorOK(Levels, q) => CursorOK(Levels, R)
    BY <1>3, <1>7, <1>9, <2>1, <2>3, EnqueueKeeps
  <2> QED BY <1>7, <2>2, <2>4
<1>11. ThreadsInv'
  <2>1. DOMAIN req' = Requests /\ \A x \in Requests : x # r => req'[x] = req[x]
    BY <1>2, <1>3
  <2>2. \A x \in Requests : st'[x] = "submitting" => req'[x] \in Entries(Levels) /\ req'[x].id = x
    BY <1>5, <2>1 DEF DInv, ThreadsInv
  <2> QED BY <1>1, <1>5, <2>1, <2>2, ThreadsSt DEF DInv
<1>12. QueueInv'
  BY <1>1, <1>4, <1>6, <1>10 DEF QueueInv
<1>13. CursorInv'
  <2>1. \A u \in Threads : pc[u] \notin Inside
    BY <1>1, MuFacts DEF DInv
  <2>2. q.cursor.valid => CursorOK(Levels, q)
    BY <2>1 DEF DInv, CursorInv, Inside
  <2> QED BY <1>1, <1>10, <2>1, <2>2, CursorQuiet
<1>14. OwnersInv'
  <2>1. \A t \in Threads : Batched(t)' = Batched(t) /\ Refused(t)' = Refused(t)
    BY <1>1 DEF Batched, Refused
  <2>2. /\ InQueue(Levels, q) \subseteq Requests /\ IdsOf(q.rejected) \subseteq Requests
        /\ \A t \in Threads : Batched(t) \subseteq Requests /\ Refused(t) \subseteq Requests
    BY OwnedAreRequests DEF DInv
  <2>3. /\ r \notin IdsOf(q.rejected)
        /\ \A t \in Threads : r \notin Batched(t) /\ r \notin Refused(t)
    BY <1>1 DEF DInv, OwnersInv
  <2>4. \A x \in InQueue(Levels, q') : st'[x] = "queued"
    BY <1>5, <1>10, <2>2 DEF DInv, OwnersInv
  <2>5. \A t \in Threads : /\ NoRepeat(requests'[t]) /\ NoRepeat(rejected'[t])
    BY <1>1 DEF DInv, OwnersInv
  <2>6. \A t \in Threads : pc[t] # "execute" =>
          \A x \in Batched(t) : st'[x] = "queued" /\ x \notin InQueue(Levels, q')
    BY <1>5, <1>10, <2>2, <2>3 DEF DInv, OwnersInv
  <2>7. \A t \in Threads : pc[t] = "execute" =>
          \A x \in Batched(t) : st'[x] \in {"executing", "released"}
    BY <1>5, <2>2, <2>3 DEF DInv, OwnersInv
  <2>8. \A x \in IdsOf(q.rejected) : st'[x] = "expired"
    BY <1>5, <2>2, <2>3 DEF DInv, OwnersInv
  <2>9. \A t \in Threads : \A x \in Refused(t) :
          st'[x] = "expired" /\ x \notin IdsOf(q.rejected)
    BY <1>5, <2>2, <2>3 DEF DInv, OwnersInv
  <2>10. \A x \in Requests : st'[x] = "queued" =>
          \/ x \in InQueue(Levels, q')
          \/ \E t \in Threads : pc[t] # "execute" /\ x \in Batched(t)
    BY <1>5, <1>10 DEF DInv, OwnersInv
  <2>11. \A x \in Requests : st'[x] = "expired" =>
          x \in IdsOf(q.rejected) \/ \E t \in Threads : x \in Refused(t)
    BY <1>5 DEF DInv, OwnersInv
  <2>12. /\ \A t, u \in Threads : t # u /\ pc[t] # "execute" /\ pc[u] # "execute" =>
              Batched(t) \cap Batched(u) = {}
         /\ \A t, u \in Threads : t # u => Refused(t) \cap Refused(u) = {}
    BY DEF DInv, OwnersInv
  <2> QED BY <1>1, <1>4, <1>10, <2>1, <2>4, <2>5, <2>6, <2>7, <2>8, <2>9, <2>10, <2>11, <2>12
          DEF OwnersInv
<1>15. SlotsInv'
  <2>1. \A x \in Requests :
          /\ st[x] \in {"executing", "released"} => st'[x] \in {"executing", "released"}
          /\ st'[x] # "executing" => st[x] # "executing" \/ resp[x].at = "idle"
    BY <1>1, <1>5
  <2> QED BY <1>1, <2>1, SlotsSt DEF DInv
<1>16. LifeInv'
  <2>1. LifeInv /\ dtor = "none"
    BY <1>1 DEF DInv, LifeInv, Finished
  <2>2. "none" \notin Threads
    BY <1>3, ConfigFacts DEF Phases
  <2> QED BY <1>1, <1>4, <2>1, <2>2 DEF LifeInv
<1> QED BY <1>11, <1>12, <1>13, <1>14, <1>15, <1>16 DEF DInv

----------------------------------------------------------------------------
(* The rejected requests are handed from the queue to thread t.            *)
Keeps == rejected' = rejected /\ q'.rejected = q.rejected
HandsOver(t) == rejected' = [rejected EXCEPT ![t] = q.rejected] /\ q'.rejected = << >>

(* The requests stay owned once when they are handed over.                 *)
LEMMA HandOver ==
  ASSUME config' = config, ThreadsInv, OwnersInv, QueueInv, NEW t \in Threads, HandsOver(t),
         rejected[t] = << >>, st' = st, requests' = requests,
         InQueue(Levels, q') = InQueue(Levels, q),
         \A u \in Threads : pc'[u] = "execute" <=> pc[u] = "execute"
  PROVE  OwnersInv'
<1>1. Levels' = Levels /\ Threads' = Threads
  BY SameConfig
<1>2. IdsOf(<< >>) = {} /\ NoRepeat(<< >>)
  BY DEF IdsOf, NoRepeat
<1>3. /\ rejected'[t] = q.rejected
      /\ \A u \in Threads : u # t => rejected'[u] = rejected[u]
  BY DEF HandsOver, ThreadsInv
<1>4. IdsOf(q'.rejected) = {}
  BY <1>2 DEF HandsOver
<1>5. /\ Refused(t)' = IdsOf(q.rejected) /\ Refused(t) = {}
      /\ \A u \in Threads : u # t => Refused(u)' = Refused(u)
      /\ \A u \in Threads : Batched(u)' = Batched(u)
  BY <1>2, <1>3 DEF Refused, Batched
<1>6. \A u \in Threads : NoRepeat(requests'[u]) /\ NoRepeat(rejected'[u])
  BY <1>3 DEF OwnersInv, QueueInv, QPlaces
<1>7. \A u \in Threads : \A r \in Refused(u)' : st[r] = "expired"
  BY <1>5 DEF OwnersInv
<1>8. \A u, w \in Threads : u # w => Refused(u)' \cap Refused(w)' = {}
  BY <1>5 DEF OwnersInv
<1>9. \A r \in Requests : st[r] = "expired" => \E u \in Threads : r \in Refused(u)'
  BY <1>5 DEF OwnersInv
<1>10. /\ \A r \in InQueue(Levels, q) : st[r] = "queued"
       /\ \A u \in Threads : pc'[u] # "execute" =>
            \A r \in Batched(u) : st[r] = "queued" /\ r \notin InQueue(Levels, q)
       /\ \A u \in Threads : pc'[u] = "execute" =>
            \A r \in Batched(u) : st[r] \in {"executing", "released"}
       /\ \A u, w \in Threads : u # w /\ pc'[u] # "execute" /\ pc'[w] # "execute" =>
            Batched(u) \cap Batched(w) = {}
       /\ \A r \in Requests : st[r] = "queued" =>
            \/ r \in InQueue(Levels, q)
            \/ \E u \in Threads : pc'[u] # "execute" /\ r \in Batched(u)
  BY DEF OwnersInv
<1> QED BY <1>1, <1>4, <1>5, <1>6, <1>7, <1>8, <1>9, <1>10 DEF OwnersInv

(* A step of the thread that forms a batch, up to the first dequeue.       *)
LEMMA HoldStep ==
  ASSUME DInv, config' = config, NEW t \in Threads, NEW v \in PCs,
         pc' = [pc EXCEPT ![t] = v],
         UNCHANGED <<st, req, requests, now, unloaded, exit, dtor, cqVars>>,
         pc[t] \in Scanning \cup {"lock"}, v \in Inside \cup {"after", "waiting"},
         v \in Inside => mu' = t, pc[t] = "lock" => mu = 0,
         DOMAIN scan' = ScanFields, scan'.rejCnt \in Nat,
         v # "policy" => scan'.rejCnt = 0,
         QShape(Levels, q'), QPlaces(Levels, q'), QOrder(Levels, q', NextSeq),
         QCount(Levels, q', scan'.rejCnt), InQueue(Levels, q') = InQueue(Levels, q),
         Keeps \/ (HandsOver(t) /\ v \notin Scanning),
         CursorInv'
  PROVE  DInv'
<1>1. /\ st' = st /\ req' = req /\ requests' = requests /\ now' = now
      /\ unloaded' = unloaded /\ exit' = exit /\ dtor' = dtor /\ cqVars' = cqVars
  OBVIOUS
<1>2. Levels' = Levels /\ Threads' = Threads
  BY SameConfig
<1>3. pc \in [Threads -> PCs] /\ rejected \in [Threads -> Seq(Entries(Levels))]
  BY DEF DInv, ThreadsInv
<1>4. pc' \in [Threads -> PCs] /\ pc'[t] = v /\ \A u \in Threads : u # t => pc'[u] = pc[u]
  BY <1>3, PcFacts
<1>5. pc[t] \notin {"dequeue", "after", "execute", "waiting"} /\ v # "execute"
      /\ v \notin {"top", "lock", "exited"}
  BY DEF Scanning, Inside
<1>6. requests[t] = << >> /\ rejected[t] = << >>
  BY <1>5 DEF DInv, ThreadsInv
<1>7. \A u \in Threads : u # t => pc[u] \notin Inside
  <2>1. CASE pc[t] = "lock"
    BY <2>1, MuFacts DEF DInv
  <2>2. CASE pc[t] \in Inside
    BY <2>2, MuFacts DEF DInv
  <2> QED BY <2>1, <2>2 DEF Inside
<1>8. \A u \in Threads : u # t => rejected'[u] = rejected[u]
  BY <1>3 DEF Keeps, HandsOver
<1>9. ThreadsInv'
  <2>1. \A u \in Threads : pc'[u] \in Inside => mu' = u
    BY <1>4, <1>7
  <2>2. (\A u \in Threads : pc'[u] # "policy") => scan'.rejCnt = 0
    BY <1>4
  <2>3. rejected' \in [Threads -> Seq(Entries(Levels))]
    <3>1. q.rejected \in Seq(Entries(Levels))
      BY DEF DInv, QueueInv, QShape
    <3> QED BY <1>3, <3>1 DEF Keeps, HandsOver
  <2>4. \A u \in Threads :
          /\ pc'[u] \notin {"dequeue", "after", "execute"} => requests[u] = << >>
          /\ pc'[u] \in Scanning \cup {"top", "lock", "exited"} => rejected'[u] = << >>
    <3>1. pc'[t] \in Scanning \cup {"top", "lock", "exited"} => rejected'[t] = << >>
      BY <1>4, <1>5, <1>6 DEF Keeps
    <3> QED BY <1>4, <1>6, <1>8, <3>1 DEF DInv, ThreadsInv
  <2> QED BY <1>1, <1>2, <1>4, <2>1, <2>2, <2>3, <2>4 DEF DInv, ThreadsInv, Inside
<1>10. QueueInv'
  <2>1. NextSeq' = NextSeq
    BY <1>1 DEF NextSeq
  <2> QED BY <1>2, <2>1 DEF QueueInv
<1>11. OwnersInv'
  <2>1. \A u \in Threads : pc'[u] = "execute" <=> pc[u] = "execute"
    BY <1>4, <1>5
  <2>2. CASE Keeps
    BY <1>1, <2>1, <2>2, OwnersFrame DEF DInv, Keeps
  <2>3. CASE HandsOver(t)
    BY <1>1, <1>6, <2>1, <2>3, HandOver DEF DInv
  <2> QED BY <2>2, <2>3
<1>12. SlotsInv'
  <2>1. \A u \in Threads : pc[u] = "after" => pc'[u] = "after"
    BY <1>4, <1>5
  <2> QED BY <1>1, <2>1, SlotsFrame DEF DInv
<1>13. LifeInv'
  <2>1. dtor # t /\ dtor # "destroyed"
    BY DEF DInv, LifeInv, Scanning
  <2> QED BY <1>1, <1>4, <2>1, LifeFrame DEF DInv
<1> QED BY <1>9, <1>10, <1>11, <1>12, <1>13 DEF DInv

(* What holds when thread t forms a batch.                                 *)
LEMMA HolderFacts ==
  ASSUME DInv, NEW t \in Threads, pc[t] \in Scanning
  PROVE  /\ mu = t /\ \A u \in Threads : u # t => pc[u] \notin Inside
         /\ CursorOK(Levels, q)
         /\ config \in DOMAIN ModelConfigs /\ NextSeq \in Nat /\ scan.rejCnt \in Nat
         /\ DOMAIN scan = ScanFields /\ pc \in [Threads -> PCs]
         /\ QShape(Levels, q) /\ QPlaces(Levels, q) /\ QOrder(Levels, q, NextSeq)
         /\ QCount(Levels, q, scan.rejCnt)
         /\ scan.best # 0 => q.mark.count > 0
         /\ scan.grown => q.cursor.count > 0
         /\ requests[t] = << >> /\ rejected[t] = << >>
<1>1. mu = t /\ \A u \in Threads : u # t => pc[u] \notin Inside
  BY MuFacts DEF DInv, Inside
<1>2. Scans
  BY DEF Scans
<1>3. CursorOK(Levels, q) /\ (scan.best # 0 => q.mark.count > 0)
      /\ (scan.grown => q.cursor.count > 0)
  BY <1>2 DEF DInv, CursorInv
<1>4. NextSeq \in Nat
  BY CompletionQueueAssumption, FS_Subset, FS_CardinalityType DEF NextSeq
<1>5. pc[t] \notin {"dequeue", "after", "execute"}
  BY DEF Scanning
<1>6. requests[t] = << >> /\ rejected[t] = << >>
  BY <1>5 DEF DInv, ThreadsInv
<1>7. /\ config \in DOMAIN ModelConfigs /\ scan.rejCnt \in Nat
      /\ DOMAIN scan = ScanFields /\ pc \in [Threads -> PCs]
  BY DEF DInv, ThreadsInv
<1>8. /\ QShape(Levels, q) /\ QPlaces(Levels, q) /\ QOrder(Levels, q, NextSeq)
      /\ QCount(Levels, q, scan.rejCnt)
  BY DEF DInv, QueueInv
<1> QED BY <1>1, <1>3, <1>4, <1>6, <1>7, <1>8

(* The scan of a new batch.                                                *)
LEMMA NoScanFacts ==
  /\ DOMAIN NoScan = ScanFields /\ NoScan.rejCnt = 0 /\ NoScan.best = 0 /\ ~NoScan.grown
BY DEF NoScan, ScanFields

(* BeginBatch: the cursor is kept when it is valid, else the scan starts   *)
(* at the front of the queue.                                              *)
LEMMA BeginBatchInv ==
  ASSUME DInv, config' = config, NEW t \in Threads, BeginBatch(t)
  PROVE  DInv'
<1>1. /\ pc[t] = "lock" /\ mu = 0 /\ mu' = t /\ pc' = [pc EXCEPT ![t] = "policy"]
      /\ UNCHANGED <<st, req, requests, rejected, now, unloaded, exit, dtor, cqVars>>
      /\ scan' = NoScan
      /\ q' = IF IsCursorValid(q, now) THEN q ELSE ResetCursor(q)
  BY DEF BeginBatch, Runs, clientVars, lifeVars
<1>2. /\ pc \in [Threads -> PCs] /\ config \in DOMAIN ModelConfigs /\ "policy" \in PCs
  BY DEF DInv, ThreadsInv, PCs
<1>3. pc'[t] = "policy" /\ \A u \in Threads : u # t => pc'[u] = pc[u]
  BY <1>1, <1>2, PcFacts
<1>4. (\A u \in Threads : pc[u] \notin Inside) /\ scan.rejCnt = 0
  BY <1>1, MuFacts DEF DInv
<1>5. /\ QShape(Levels, q) /\ QPlaces(Levels, q) /\ QOrder(Levels, q, NextSeq)
      /\ QCount(Levels, q, 0)
  BY <1>4 DEF DInv, QueueInv
<1>6. /\ QShape(Levels, q') /\ QPlaces(Levels, q') /\ QOrder(Levels, q', NextSeq)
      /\ QCount(Levels, q', 0) /\ InQueue(Levels, q') = InQueue(Levels, q)
      /\ q'.rejected = q.rejected /\ CursorOK(Levels, q')
  <2>1. CASE IsCursorValid(q, now)
    <3>1. q.cursor.valid /\ \A u \in Threads : pc[u] # "dequeue"
      BY <1>4, <2>1 DEF IsCursorValid, Inside
    <3>2. CursorOK(Levels, q)
      BY <3>1 DEF DInv, CursorInv
    <3> QED BY <1>1, <1>5, <2>1, <3>2
  <2>2. CASE ~IsCursorValid(q, now)
    <3>1. PICK n, R : n = NextSeq /\ R = q'
      OBVIOUS
    <3>2. R = ResetCursor(q) /\ QOrder(Levels, q, n)
      BY <1>1, <1>5, <2>2, <3>1
    <3>3. /\ QShape(Levels, R) /\ QPlaces(Levels, R) /\ QOrder(Levels, R, n)
          /\ QCount(Levels, R, 0) /\ InQueue(Levels, R) = InQueue(Levels, q)
          /\ R.rejected = q.rejected /\ CursorOK(Levels, R)
      BY <1>2, <1>5, <3>2, ResetKeeps
    <3> QED BY <3>1, <3>3
  <2> QED BY <2>1, <2>2
<1>7. /\ DOMAIN scan' = ScanFields /\ scan'.rejCnt = 0 /\ scan'.best = 0 /\ ~scan'.grown
  BY <1>1, NoScanFacts
<1>8. "policy" \in Scanning /\ "policy" \in Inside
  BY DEF Scanning, Inside
<1>9. CursorInv'
  BY <1>3, <1>4, <1>6, <1>7, <1>8, CursorScans
<1>10. Keeps
  BY <1>1, <1>6 DEF Keeps
<1>11. QCount(Levels, q', scan'.rejCnt) /\ scan'.rejCnt \in Nat
  BY <1>6, <1>7
<1> QED BY <1>1, <1>2, <1>6, <1>7, <1>8, <1>9, <1>10, <1>11, HoldStep

(* NextLevel: the cursor goes to the next level.                           *)
LEMMA NextLevelInv ==
  ASSUME DInv, config' = config, NEW t \in Threads, NextLevel(t)
  PROVE  DInv'
<1>1. /\ pc[t] = "policy" /\ pc' = pc /\ mu' = mu /\ scan' = scan
      /\ UNCHANGED <<st, req, requests, rejected, now, unloaded, exit, dtor, cqVars>>
      /\ CursorSkips(q, scan.rejCnt) /\ q' = SkipLevel(q)
  BY DEF NextLevel, Runs, clientVars, lifeVars
<1>2. "policy" \in Scanning /\ "policy" \in Inside /\ "policy" \in PCs
  BY DEF Scanning, Inside, PCs
<1>3. /\ mu = t /\ \A u \in Threads : u # t => pc[u] \notin Inside
      /\ CursorOK(Levels, q)
      /\ config \in DOMAIN ModelConfigs /\ scan.rejCnt \in Nat /\ NextSeq \in Nat
      /\ DOMAIN scan = ScanFields /\ pc \in [Threads -> PCs]
      /\ QShape(Levels, q) /\ QPlaces(Levels, q) /\ QOrder(Levels, q, NextSeq)
      /\ QCount(Levels, q, scan.rejCnt)
      /\ scan.best # 0 => q.mark.count > 0
      /\ scan.grown => q.cursor.count > 0
  BY <1>1, <1>2, HolderFacts
<1>4. PICK n \in Nat, k \in Nat, R \in {q'} : n = NextSeq /\ k = scan.rejCnt /\ R = q'
  BY <1>3
<1>5. R = SkipLevel(q) /\ CursorSkips(q, k) /\ QOrder(Levels, q, n) /\ QCount(Levels, q, k)
  BY <1>1, <1>3, <1>4
<1>6. /\ QShape(Levels, R) /\ QPlaces(Levels, R) /\ QOrder(Levels, R, n)
      /\ QCount(Levels, R, k) /\ InQueue(Levels, R) = InQueue(Levels, q)
      /\ R.rejected = q.rejected /\ CursorOK(Levels, R)
      /\ R.mark = q.mark /\ R.cursor.count = q.cursor.count
  BY <1>3, <1>5, SkipKeeps
<1>7. CursorInv'
  BY <1>1, <1>2, <1>3, <1>4, <1>6, CursorScans
<1>8. Keeps
  BY <1>1, <1>4, <1>6 DEF Keeps
<1>9. pc' = [pc EXCEPT ![t] = "policy"]
  BY <1>1, <1>3
<1> QED BY <1>1, <1>2, <1>3, <1>4, <1>6, <1>7, <1>8, <1>9, HoldStep

(* EndPolicy: size_ is lowered, and the cursor points to a request or is   *)
(* at the end.                                                             *)
LEMMA EndPolicyInv ==
  ASSUME DInv, config' = config, NEW t \in Threads, EndPolicy(t)
  PROVE  DInv'
<1>1. /\ pc[t] = "policy" /\ pc' = [pc EXCEPT ![t] = "examine"] /\ mu' = mu
      /\ UNCHANGED <<st, req, requests, rejected, now, unloaded, exit, dtor, cqVars>>
      /\ ~CursorSkips(q, scan.rejCnt)
  BY DEF EndPolicy, Runs, clientVars, lifeVars
<1>2. PICK S, P :
        /\ S = PolicyApplied(q, scan.rejCnt)
        /\ P <=> (scan.grown /\ pendingBatchSize \in Preferred)
        /\ q' = (IF P THEN MarkCursor(S) ELSE S)
        /\ scan' = [scan EXCEPT !.rejCnt = 0, !.rejBatch = 0,
                      !.best = IF P THEN pendingBatchSize ELSE scan.best]
  BY DEF EndPolicy
<1>3. "policy" \in Scanning /\ "examine" \in Scanning /\ "examine" \in Inside
      /\ "examine" \in PCs
  BY DEF Scanning, Inside, PCs
<1>4. /\ mu = t /\ \A u \in Threads : u # t => pc[u] \notin Inside
      /\ CursorOK(Levels, q)
      /\ config \in DOMAIN ModelConfigs /\ scan.rejCnt \in Nat /\ NextSeq \in Nat
      /\ DOMAIN scan = ScanFields /\ pc \in [Threads -> PCs]
      /\ QShape(Levels, q) /\ QPlaces(Levels, q) /\ QOrder(Levels, q, NextSeq)
      /\ QCount(Levels, q, scan.rejCnt)
      /\ scan.best # 0 => q.mark.count > 0
      /\ scan.grown => q.cursor.count > 0
  BY <1>1, <1>3, HolderFacts
<1>5. /\ DOMAIN scan' = ScanFields /\ scan'.rejCnt = 0 /\ scan'.grown = scan.grown
      /\ ~P => scan'.best = scan.best
  BY <1>2, <1>4 DEF ScanFields
<1>6. PICK n \in Nat, k \in Nat, R \in {q'} : n = NextSeq /\ k = scan.rejCnt /\ R = q'
  BY <1>4
<1>7. S = PolicyApplied(q, k) /\ QOrder(Levels, q, n) /\ QCount(Levels, q, k)
  BY <1>2, <1>4, <1>6
<1>8. /\ QShape(Levels, S) /\ QPlaces(Levels, S) /\ QOrder(Levels, S, n)
      /\ QCount(Levels, S, 0) /\ InQueue(Levels, S) = InQueue(Levels, q)
      /\ S.rejected = q.rejected /\ S.size = q.size - k
      /\ S.cursor = q.cursor /\ S.mark = q.mark
      /\ S.queue = q.queue /\ S.delayed = q.delayed
  BY ONLY <1>4, <1>7, AppliedKeeps
<1>9. /\ QShape(Levels, R) /\ QPlaces(Levels, R) /\ QOrder(Levels, R, n)
      /\ QCount(Levels, R, 0) /\ InQueue(Levels, R) = InQueue(Levels, q)
      /\ R.rejected = q.rejected /\ R.size = q.size - k /\ R.cursor = q.cursor
      /\ R.queue = q.queue /\ R.delayed = q.delayed
      /\ R.mark = IF P THEN q.cursor ELSE q.mark
  <2>1. CASE P
    <3>1. R = MarkCursor(S)
      BY <1>2, <1>6, <2>1
    <3>2. /\ QShape(Levels, R) /\ QPlaces(Levels, R) /\ QOrder(Levels, R, n)
          /\ QCount(Levels, R, 0) /\ InQueue(Levels, R) = InQueue(Levels, S)
          /\ R.rejected = S.rejected /\ R.size = S.size
          /\ R.cursor = S.cursor /\ R.mark = S.cursor
          /\ R.queue = S.queue /\ R.delayed = S.delayed
      BY <1>8, <3>1, MarkKeeps
    <3> QED BY <1>8, <2>1, <3>2
  <2>2. CASE ~P
    BY <1>2, <1>6, <1>8, <2>2
  <2> QED BY <2>1, <2>2
<1>10. CursorOK(Levels, R)
  BY <1>4, <1>9, SameCursor
<1>11. R.cursor.count # R.size => HasAt(R, R.cursor.level, R.cursor.idx)
  <2>1. HasAt(R, R.cursor.level, R.cursor.idx) = HasAt(q, q.cursor.level, q.cursor.idx)
    BY <1>9, SameLists
  <2>2. SUFFICES ASSUME ~HasAt(q, q.cursor.level, q.cursor.idx)
                 PROVE  R.cursor.count = R.size
    BY <2>1
  <2>3. q.cursor.level \in Levels
    BY <1>4 DEF CursorOK
  <2>4. ~(q.size > q.cursor.count + k)
    BY <1>1, <1>6, <2>2, <2>3 DEF CursorSkips
  <2>5. PICK c \in Nat, m \in Nat : c = q.cursor.count /\ m = Cardinality(InQueue(Levels, q))
    BY <1>4, InQueueFacts DEF QShape
  <2>6. c <= m /\ q.size = m + k
    BY <1>4, <1>7, <2>5, FrontInQueue DEF QCount
  <2>7. ~(m + k > c + k)
    BY <2>4, <2>5, <2>6
  <2>8. c = m /\ m = m + k - k
    BY <2>6, <2>7
  <2>9. R.size = m
    BY <1>9, <2>6, <2>8
  <2> QED BY <1>9, <2>5, <2>8, <2>9
<1>12. scan'.best # 0 => R.mark.count > 0
  BY <1>2, <1>4, <1>5, <1>9
<1>13. scan'.grown => R.cursor.count > 0
  BY <1>4, <1>5, <1>9
<1>14. pc'[t] = "examine" /\ \A u \in Threads : u # t => pc'[u] = pc[u]
  BY <1>1, <1>3, <1>4, PcFacts
<1>15. CursorInv'
  <2>1. \A u \in Threads : u # t => pc'[u] \notin Inside
    BY <1>4, <1>14
  <2>2. pc'[t] \in Scanning
    BY <1>3, <1>14
  <2> QED BY <1>6, <1>10, <1>11, <1>12, <1>13, <2>1, <2>2, CursorScans
<1>16. Keeps
  BY <1>1, <1>6, <1>9 DEF Keeps
<1>17. /\ QShape(Levels, q') /\ QPlaces(Levels, q') /\ QOrder(Levels, q', NextSeq)
       /\ QCount(Levels, q', scan'.rejCnt) /\ InQueue(Levels, q') = InQueue(Levels, q)
       /\ scan'.rejCnt \in Nat
  BY <1>5, <1>6, <1>9
<1> QED BY <1>1, <1>3, <1>4, <1>5, <1>15, <1>16, <1>17, HoldStep

(* Examine: the mark is set where the batch stops being preferred; the     *)
(* request at the cursor joins the batch or ends it.                       *)
LEMMA ExamineInv ==
  ASSUME DInv, config' = config, NEW t \in Threads, Examine(t)
  PROVE  DInv'
<1>1. /\ pc[t] = "examine" /\ mu' = mu /\ ~CursorEnd(q)
      /\ UNCHANGED <<st, req, requests, rejected, now, unloaded, exit, dtor, cqVars>>
  BY DEF Examine, Runs, clientVars, lifeVars
<1>2. PICK r, S, best :
        /\ r = RequestAtCursor(q)
        /\ S = (IF BeyondPreferred(r) THEN MarkCursor(q) ELSE q)
        /\ best = (IF BeyondPreferred(r) THEN pendingBatchSize ELSE scan.best)
  OBVIOUS
<1>2b. \/ /\ q' = S /\ pc' = [pc EXCEPT ![t] = "decide"]
          /\ scan' = [scan EXCEPT !.best = best, !.sendNow = TRUE]
       \/ /\ q' = AdvanceCursor(S) /\ pc' = [pc EXCEPT ![t] = "policy"]
          /\ scan' = [scan EXCEPT !.best = best, !.grown = TRUE]
  BY <1>2 DEF Examine
<1>2a. BeyondPreferred(r) => q.cursor.count > 0
  BY DEF BeyondPreferred
<1>3. /\ "examine" \in Scanning /\ {"decide", "policy"} \subseteq Scanning \cap Inside
      /\ {"decide", "policy"} \subseteq PCs
  BY DEF Scanning, Inside, PCs
<1>4. /\ mu = t /\ \A u \in Threads : u # t => pc[u] \notin Inside
      /\ CursorOK(Levels, q)
      /\ config \in DOMAIN ModelConfigs /\ NextSeq \in Nat
      /\ DOMAIN scan = ScanFields /\ pc \in [Threads -> PCs]
      /\ QShape(Levels, q) /\ QPlaces(Levels, q) /\ QOrder(Levels, q, NextSeq)
      /\ QCount(Levels, q, scan.rejCnt)
      /\ scan.best # 0 => q.mark.count > 0
      /\ scan.grown => q.cursor.count > 0
  BY <1>1, <1>3, HolderFacts
<1>5. scan.rejCnt = 0
  <2>1. pc[t] \in Inside /\ pc[t] # "policy"
    BY <1>1 DEF Inside, Scanning
  <2> QED BY <2>1, MuFacts DEF DInv
<1>6. HasAt(q, q.cursor.level, q.cursor.idx)
  BY <1>1 DEF DInv, CursorInv, CursorEnd
<1>7. PICK n \in Nat, R \in {q'} : n = NextSeq /\ R = q'
  BY <1>4
<1>8. /\ QShape(Levels, S) /\ QPlaces(Levels, S) /\ QOrder(Levels, S, n)
      /\ QCount(Levels, S, 0) /\ InQueue(Levels, S) = InQueue(Levels, q)
      /\ S.rejected = q.rejected /\ S.cursor = q.cursor
      /\ S.queue = q.queue /\ S.delayed = q.delayed
      /\ S.mark = IF BeyondPreferred(r) THEN q.cursor ELSE q.mark
  <2>1. QOrder(Levels, q, n) /\ QCount(Levels, q, 0)
    BY <1>4, <1>5, <1>7
  <2>2. CASE BeyondPreferred(r)
    <3>1. S = MarkCursor(q)
      BY <1>2, <2>2
    <3>2. /\ QShape(Levels, S) /\ QPlaces(Levels, S) /\ QOrder(Levels, S, n)
          /\ QCount(Levels, S, 0) /\ InQueue(Levels, S) = InQueue(Levels, q)
          /\ S.rejected = q.rejected /\ S.cursor = q.cursor /\ S.mark = q.cursor
          /\ S.queue = q.queue /\ S.delayed = q.delayed
      BY <1>4, <2>1, <3>1, MarkKeeps
    <3> QED BY <2>2, <3>2
  <2>3. CASE ~BeyondPreferred(r)
    BY <1>2, <1>4, <2>1, <2>3
  <2> QED BY <2>2, <2>3
<1>9. /\ CursorOK(Levels, S) /\ HasAt(S, S.cursor.level, S.cursor.idx)
  <2>1. HasAt(S, S.cursor.level, S.cursor.idx) = HasAt(q, q.cursor.level, q.cursor.idx)
    BY <1>8, SameLists
  <2> QED BY <1>4, <1>6, <1>8, <2>1, SameCursor
<1>10. best # 0 => S.mark.count > 0
  BY <1>2, <1>2a, <1>4, <1>8
<1>11. ASSUME NEW v \in {"decide", "policy"}, pc' = [pc EXCEPT ![t] = v],
              QShape(Levels, R), QPlaces(Levels, R), QOrder(Levels, R, n),
              QCount(Levels, R, 0), InQueue(Levels, R) = InQueue(Levels, S),
              R.rejected = S.rejected, CursorOK(Levels, R), R.mark = S.mark,
              DOMAIN scan' = ScanFields, scan'.rejCnt = 0, scan'.best = best,
              scan'.grown => R.cursor.count > 0
       PROVE  DInv'
  <2>1. v \in Scanning /\ v \in Inside /\ v \in PCs
    BY <1>3
  <2>2. pc'[t] = v /\ \A u \in Threads : u # t => pc'[u] = pc[u]
    BY <1>4, <1>11, <2>1, PcFacts
  <2>3. CursorInv'
    <3>1. \A u \in Threads : u # t => pc'[u] \notin Inside
      BY <1>4, <2>2
    <3>2. pc'[t] \in Scanning /\ pc'[t] # "examine"
      BY <2>1, <2>2
    <3>3. scan'.best # 0 => q'.mark.count > 0
      BY <1>7, <1>10, <1>11
    <3> QED BY <1>7, <1>11, <3>1, <3>2, <3>3, CursorScans
  <2>4. Keeps
    BY <1>1, <1>7, <1>8, <1>11 DEF Keeps
  <2>5. /\ QShape(Levels, q') /\ QPlaces(Levels, q') /\ QOrder(Levels, q', NextSeq)
        /\ QCount(Levels, q', scan'.rejCnt) /\ InQueue(Levels, q') = InQueue(Levels, q)
        /\ scan'.rejCnt \in Nat
    BY <1>7, <1>8, <1>11
  <2>6. mu' = t
    BY <1>1, <1>4
  <2> QED BY <1>1, <1>3, <1>11, <2>1, <2>3, <2>4, <2>5, <2>6, HoldStep
<1>12. CASE /\ q' = S /\ pc' = [pc EXCEPT ![t] = "decide"]
            /\ scan' = [scan EXCEPT !.best = best, !.sendNow = TRUE]
  <2>1. /\ DOMAIN scan' = ScanFields /\ scan'.rejCnt = 0 /\ scan'.best = best
        /\ scan'.grown = scan.grown
    BY <1>4, <1>5, <1>12 DEF ScanFields
  <2>2. R = S
    BY <1>7, <1>12
  <2>3. scan'.grown => R.cursor.count > 0
    BY <1>4, <1>8, <2>1, <2>2
  <2> QED BY <1>8, <1>9, <1>11, <1>12, <2>1, <2>2, <2>3
<1>13. CASE /\ q' = AdvanceCursor(S) /\ pc' = [pc EXCEPT ![t] = "policy"]
            /\ scan' = [scan EXCEPT !.best = best, !.grown = TRUE]
  <2>1. DOMAIN scan' = ScanFields /\ scan'.rejCnt = 0 /\ scan'.best = best
    BY <1>4, <1>5, <1>13 DEF ScanFields
  <2>2. R = AdvanceCursor(S) /\ 0 \in Nat
    BY <1>7, <1>13
  <2>3. /\ QShape(Levels, R) /\ QPlaces(Levels, R) /\ QOrder(Levels, R, n)
        /\ QCount(Levels, R, 0) /\ InQueue(Levels, R) = InQueue(Levels, S)
        /\ R.rejected = S.rejected /\ CursorOK(Levels, R)
        /\ R.mark = S.mark /\ R.cursor.count = S.cursor.count + 1
    BY ZenonT(40), <1>4, <1>8, <1>9, <2>2, AdvanceKeeps
  <2>4. R.cursor.count > 0
    <3>1. S.cursor.count \in Nat
      BY <1>8 DEF QShape
    <3> QED BY <2>3, <3>1
  <2> QED BY <1>11, <1>13, <2>1, <2>3, <2>4
<1> QED BY <1>2b, <1>12, <1>13

(* The scan is over: what SendBatch, NoBatch and WaitForMore start from.   *)
LEMMA DecideFacts ==
  ASSUME DInv, NEW t \in Threads, Decides(t)
  PROVE  /\ pc[t] \in Scanning /\ scan.rejCnt = 0
         /\ QCount(Levels, q, 0) /\ q.size = Cardinality(InQueue(Levels, q))
         /\ q.cursor.count \in Nat /\ q.mark.count \in Nat /\ q.size \in Nat
         /\ q.mark.count <= q.cursor.count /\ q.cursor.count <= q.size
<1>1. pc[t] \in Scanning /\ pc[t] \in Inside /\ pc[t] # "policy"
  BY DEF Decides, Runs, Scanning, Inside
<1>2. scan.rejCnt = 0
  BY <1>1, MuFacts DEF DInv
<1>3. QShape(Levels, q) /\ QCount(Levels, q, 0) /\ CursorOK(Levels, q)
  BY <1>1, <1>2, HolderFacts
<1>4. PICK m \in Nat : m = Cardinality(InQueue(Levels, q))
  BY <1>3, InQueueFacts
<1>5. q.size = m
  BY <1>3, <1>4 DEF QCount
<1>6. q.cursor.count <= m
  BY <1>3, <1>4, FrontInQueue
<1>7. q.cursor.count \in Nat /\ q.mark.count \in Nat /\ q.mark.count <= q.cursor.count
  BY <1>3 DEF QShape, QCount
<1> QED BY <1>1, <1>2, <1>3, <1>4, <1>5, <1>6, <1>7

(* SendBatch: the batch up to the cursor, or up to the mark, is queued.    *)
LEMMA SendBatchInv ==
  ASSUME DInv, config' = config, NEW t \in Threads, SendBatch(t)
  PROVE  DInv'
<1>1. /\ Decides(t) /\ pc' = [pc EXCEPT ![t] = "dequeue"] /\ mu' = mu /\ scan' = scan
      /\ UNCHANGED <<st, req, requests, now, unloaded, exit, dtor, cqVars>>
      /\ rejected' = [rejected EXCEPT ![t] = q.rejected]
  BY DEF SendBatch, clientVars, lifeVars
<1>2. PICK S, P :
        /\ S = ReleaseRejected(q) /\ q' = (IF P THEN SetCursorToMark(S) ELSE S)
        /\ P => scan.best # 0
        /\ ~P => q.cursor.count # 0
  BY DEF SendBatch, SendPreferred
<1>3. /\ "dequeue" \in PCs /\ "dequeue" \in Inside /\ "dequeue" \notin Scanning
  BY DEF PCs, Inside, Scanning
<1>4. /\ pc[t] \in Scanning /\ scan.rejCnt = 0 /\ QCount(Levels, q, 0)
      /\ q.cursor.count \in Nat /\ q.mark.count \in Nat /\ q.size \in Nat
      /\ q.mark.count <= q.cursor.count /\ q.cursor.count <= q.size
  BY <1>1, DecideFacts
<1>5. /\ mu = t /\ \A u \in Threads : u # t => pc[u] \notin Inside
      /\ NextSeq \in Nat /\ DOMAIN scan = ScanFields /\ pc \in [Threads -> PCs]
      /\ QShape(Levels, q) /\ QPlaces(Levels, q) /\ QOrder(Levels, q, NextSeq)
      /\ scan.best # 0 => q.mark.count > 0
      /\ requests[t] = << >>
  BY <1>4, HolderFacts
<1>6. PICK n \in Nat, R \in {q'} : n = NextSeq /\ R = q'
  BY <1>5
<1>7. /\ QShape(Levels, S) /\ QPlaces(Levels, S) /\ QOrder(Levels, S, n)
      /\ QCount(Levels, S, 0) /\ InQueue(Levels, S) = InQueue(Levels, q)
      /\ S.rejected = << >> /\ S.size = q.size
      /\ S.cursor = q.cursor /\ S.mark = q.mark
  <2>1. S = ReleaseRejected(q)
    BY <1>2
  <2>2. QOrder(Levels, q, n)
    BY ONLY <1>5, <1>6
  <2> QED BY ONLY <1>4, <1>5, <2>1, <2>2, ReleaseKeeps
<1>8. /\ QShape(Levels, R) /\ QPlaces(Levels, R) /\ QOrder(Levels, R, n)
      /\ QCount(Levels, R, 0) /\ InQueue(Levels, R) = InQueue(Levels, q)
      /\ R.rejected = << >> /\ R.size = q.size
      /\ R.cursor.count = IF P THEN q.mark.count ELSE q.cursor.count
  <2>1. CASE P
    <3>1. R = SetCursorToMark(S)
      BY <1>2, <1>6, <2>1
    <3>2. /\ QShape(Levels, R) /\ QPlaces(Levels, R) /\ QOrder(Levels, R, n)
          /\ QCount(Levels, R, 0) /\ InQueue(Levels, R) = InQueue(Levels, S)
          /\ R.rejected = S.rejected /\ R.size = S.size /\ R.cursor = S.mark
      BY <1>7, <3>1, ToMarkKeeps
    <3> QED BY <1>7, <2>1, <3>2
  <2>2. CASE ~P
    BY <1>2, <1>6, <1>7, <2>2
  <2> QED BY <2>1, <2>2
<1>9. pc'[t] = "dequeue" /\ \A u \in Threads : u # t => pc'[u] = pc[u]
  BY <1>1, <1>3, <1>5, PcFacts
<1>10. CursorInv'
  <2>1. Len(requests'[t]) = 0
    BY <1>1, <1>5
  <2>2. R.cursor.count \in Nat /\ R.cursor.count > 0 /\ R.cursor.count <= R.size /\ R.size \in Nat
    BY <1>2, <1>4, <1>5, <1>8
  <2>3. \A u \in Threads : u # t => pc'[u] \notin Inside
    BY <1>5, <1>9
  <2>4. /\ Len(requests'[t]) <= q'.cursor.count /\ q'.cursor.count > 0
        /\ q'.cursor.count - Len(requests'[t]) <= q'.size
        /\ ~(Len(requests'[t]) > 0)
    BY <1>6, <2>1, <2>2
  <2> QED BY <1>9, <2>3, <2>4, CursorTakes
<1>11. HandsOver(t)
  BY <1>1, <1>6, <1>8 DEF HandsOver
<1>12. /\ QShape(Levels, q') /\ QPlaces(Levels, q') /\ QOrder(Levels, q', NextSeq)
       /\ QCount(Levels, q', scan'.rejCnt) /\ InQueue(Levels, q') = InQueue(Levels, q)
       /\ DOMAIN scan' = ScanFields /\ scan'.rejCnt = 0 /\ scan'.rejCnt \in Nat
  BY <1>1, <1>4, <1>5, <1>6, <1>8
<1>13. mu' = t /\ pc[t] # "lock"
  BY <1>1, <1>4, <1>5 DEF Scanning
<1> QED BY <1>1, <1>3, <1>4, <1>10, <1>11, <1>12, <1>13, HoldStep

(* NoBatch and WaitForMore: the thread leaves, the pending batch stays.    *)
LEMMA LeaveScan ==
  ASSUME DInv, config' = config, NEW t \in Threads, Decides(t),
         NEW v \in {"after", "waiting"}, pc' = [pc EXCEPT ![t] = v], scan' = NoScan,
         UNCHANGED <<st, req, requests, now, unloaded, exit, dtor, cqVars>>,
         rejected' = [rejected EXCEPT ![t] = q.rejected], q' = ReleaseRejected(q)
  PROVE  DInv'
<1>1. v \in PCs /\ v \notin Inside /\ v \notin Scanning
  BY DEF PCs, Inside, Scanning
<1>2. pc[t] \in Scanning /\ QCount(Levels, q, 0)
  BY DecideFacts
<1>3. /\ \A u \in Threads : u # t => pc[u] \notin Inside
      /\ CursorOK(Levels, q) /\ NextSeq \in Nat /\ pc \in [Threads -> PCs]
      /\ QShape(Levels, q) /\ QPlaces(Levels, q) /\ QOrder(Levels, q, NextSeq)
  BY <1>2, HolderFacts
<1>4. PICK n \in Nat, R \in {q'} : n = NextSeq /\ R = q'
  BY <1>3
<1>5. QOrder(Levels, q, n) /\ R = ReleaseRejected(q)
  BY <1>3, <1>4
<1>6. /\ QShape(Levels, R) /\ QPlaces(Levels, R) /\ QOrder(Levels, R, n)
      /\ QCount(Levels, R, 0) /\ InQueue(Levels, R) = InQueue(Levels, q)
      /\ R.rejected = << >> /\ R.cursor = q.cursor
      /\ R.queue = q.queue /\ R.delayed = q.delayed
  BY <1>2, <1>3, <1>5, ReleaseKeeps
<1>7. CursorOK(Levels, R)
  BY <1>3, <1>6, SameCursor
<1>8. pc'[t] = v /\ \A u \in Threads : u # t => pc'[u] = pc[u]
  BY <1>1, <1>3, PcFacts
<1>9. CursorInv'
  <2>1. \A u \in Threads : pc'[u] \notin Inside
    BY <1>1, <1>3, <1>8
  <2> QED BY <1>4, <1>7, <2>1, CursorQuiet
<1>10. HandsOver(t)
  BY <1>4, <1>6 DEF HandsOver
<1>11. /\ QShape(Levels, q') /\ QPlaces(Levels, q') /\ QOrder(Levels, q', NextSeq)
       /\ QCount(Levels, q', scan'.rejCnt) /\ InQueue(Levels, q') = InQueue(Levels, q)
       /\ DOMAIN scan' = ScanFields /\ scan'.rejCnt = 0 /\ scan'.rejCnt \in Nat
  BY <1>4, <1>6, NoScanFacts
<1>12. pc[t] # "lock"
  BY <1>2 DEF Scanning
<1> QED BY <1>1, <1>2, <1>9, <1>10, <1>11, <1>12, HoldStep

(* NoBatch: every examined request was rejected.                           *)
LEMMA NoBatchInv ==
  ASSUME DInv, config' = config, NEW t \in Threads, NoBatch(t)
  PROVE  DInv'
<1>1. /\ Decides(t) /\ pc' = [pc EXCEPT ![t] = "after"] /\ scan' = NoScan
      /\ UNCHANGED <<st, req, requests, now, unloaded, exit, dtor, cqVars>>
      /\ rejected' = [rejected EXCEPT ![t] = q.rejected] /\ q' = ReleaseRejected(q)
  BY DEF NoBatch, clientVars, lifeVars
<1> QED BY <1>1, LeaveScan

(* WaitForMore: the pending batch stays in the queue while the thread waits. *)
LEMMA WaitForMoreInv ==
  ASSUME DInv, config' = config, NEW t \in Threads, WaitForMore(t)
  PROVE  DInv'
<1>1. /\ Decides(t) /\ pc' = [pc EXCEPT ![t] = "waiting"] /\ scan' = NoScan
      /\ UNCHANGED <<st, req, requests, now, unloaded, exit, dtor, cqVars>>
      /\ rejected' = [rejected EXCEPT ![t] = q.rejected] /\ q' = ReleaseRejected(q)
  BY DEF WaitForMore, clientVars, lifeVars
<1> QED BY <1>1, LeaveScan

----------------------------------------------------------------------------
(* A queued request is put among the rejected ones.                        *)
LEMMA OwnersExpire ==
  ASSUME config' = config, ThreadsInv, QueueInv, OwnersInv,
         NEW x \in InQueue(Levels, q), st' = [st EXCEPT ![x] = "expired"],
         pc' = pc, requests' = requests, rejected' = rejected,
         InQueue(Levels, q') = InQueue(Levels, q) \ {x},
         IdsOf(q'.rejected) = IdsOf(q.rejected) \cup {x}
  PROVE  OwnersInv'
<1>1. Levels' = Levels /\ Threads' = Threads
  BY SameConfig
<1>2. /\ InQueue(Levels, q) \subseteq Requests /\ IdsOf(q.rejected) \subseteq Requests
      /\ \A t \in Threads : Batched(t) \subseteq Requests /\ Refused(t) \subseteq Requests
  BY OwnedAreRequests
<1>3. st \in [Requests -> States] /\ "expired" \in States
  BY DEF ThreadsInv, States
<1>4. st'[x] = "expired" /\ \A r \in Requests : r # x => st'[r] = st[r]
  BY <1>2, <1>3, StFacts
<1>5. st[x] = "queued"
  BY DEF OwnersInv
<1>6. \A t \in Threads : Batched(t)' = Batched(t) /\ Refused(t)' = Refused(t)
  BY DEF Batched, Refused
<1>7. /\ x \notin IdsOf(q.rejected)
      /\ \A t \in Threads : x \notin Batched(t) /\ x \notin Refused(t)
  BY <1>5 DEF OwnersInv
<1>8. \A r \in InQueue(Levels, q) \ {x} : st'[r] = "queued"
  BY <1>2, <1>4 DEF OwnersInv
<1>9. \A t \in Threads : pc[t] # "execute" =>
        \A r \in Batched(t) : st'[r] = "queued" /\ r \notin InQueue(Levels, q) \ {x}
  BY <1>2, <1>4, <1>7 DEF OwnersInv
<1>10. \A t \in Threads : pc[t] = "execute" =>
        \A r \in Batched(t) : st'[r] \in {"executing", "released"}
  BY <1>2, <1>4, <1>7 DEF OwnersInv
<1>11. \A r \in IdsOf(q.rejected) \cup {x} : st'[r] = "expired"
  BY <1>2, <1>4 DEF OwnersInv
<1>12. \A t \in Threads : \A r \in Refused(t) :
         st'[r] = "expired" /\ r \notin IdsOf(q.rejected) \cup {x}
  BY <1>2, <1>4, <1>7 DEF OwnersInv
<1>13. \A r \in Requests : st'[r] = "queued" =>
         \/ r \in InQueue(Levels, q) \ {x}
         \/ \E t \in Threads : pc[t] # "execute" /\ r \in Batched(t)
  BY <1>4 DEF OwnersInv
<1>14. \A r \in Requests : st'[r] = "expired" =>
         r \in IdsOf(q.rejected) \cup {x} \/ \E t \in Threads : r \in Refused(t)
  BY <1>4 DEF OwnersInv
<1>15. /\ \A t \in Threads : NoRepeat(requests[t]) /\ NoRepeat(rejected[t])
       /\ \A t, u \in Threads : t # u /\ pc[t] # "execute" /\ pc[u] # "execute" =>
            Batched(t) \cap Batched(u) = {}
       /\ \A t, u \in Threads : t # u => Refused(t) \cap Refused(u) = {}
  BY DEF OwnersInv
<1> QED BY <1>1, <1>6, <1>8, <1>9, <1>10, <1>11, <1>12, <1>13, <1>14, <1>15 DEF OwnersInv

(* Expire: a request behind the cursor is delayed, or rejected and still   *)
(* counted by size_.                                                       *)
LEMMA ExpireInv ==
  ASSUME DInv, config' = config, NEW t \in Threads, Expire(t)
  PROVE  DInv'
<1>1. /\ pc[t] = "policy" /\ pc' = pc /\ mu' = mu /\ req' = req /\ requests' = requests
      /\ rejected' = rejected /\ now' = now /\ unloaded' = unloaded /\ exit' = exit
      /\ dtor' = dtor /\ cqVars' = cqVars
      /\ CursorExpired(q, now) /\ q' = ExpireAtCursor(q)
  BY DEF Expire, Runs, lifeVars
<1>2. PICK e, d : /\ e = RequestAtCursor(q) /\ d = Len(q'.rejected) - Len(q.rejected)
                  /\ scan' = [scan EXCEPT !.rejCnt = scan.rejCnt + d,
                                          !.rejBatch = scan.rejBatch + d * e.batch]
                  /\ st' = (IF d = 0 THEN st ELSE [st EXCEPT ![e.id] = "expired"])
  BY DEF Expire
<1>3. "policy" \in Scanning /\ "policy" \in Inside
  BY DEF Scanning, Inside
<1>4. /\ mu = t /\ \A u \in Threads : u # t => pc[u] \notin Inside
      /\ CursorOK(Levels, q)
      /\ config \in DOMAIN ModelConfigs /\ scan.rejCnt \in Nat /\ NextSeq \in Nat
      /\ DOMAIN scan = ScanFields /\ pc \in [Threads -> PCs]
      /\ QShape(Levels, q) /\ QPlaces(Levels, q) /\ QOrder(Levels, q, NextSeq)
      /\ QCount(Levels, q, scan.rejCnt)
      /\ scan.best # 0 => q.mark.count > 0
      /\ scan.grown => q.cursor.count > 0
  BY <1>1, <1>3, HolderFacts
<1>5. PICK n \in Nat, k \in Nat, R \in {q'} : n = NextSeq /\ k = scan.rejCnt /\ R = q'
  BY <1>4
<1>6. InQueue(Levels, q) \cap IdsOf(q.rejected) = {}
  BY DEF DInv, OwnersInv
<1>7. /\ QShape(Levels, R) /\ QPlaces(Levels, R) /\ QOrder(Levels, R, n)
      /\ R.cursor = q.cursor /\ R.mark = q.mark /\ CursorOK(Levels, R)
      /\ e.id \in InQueue(Levels, q)
      /\ \/ /\ d = 0 /\ R.rejected = q.rejected
            /\ InQueue(Levels, R) = InQueue(Levels, q) /\ QCount(Levels, R, k)
         \/ /\ d = 1
            /\ IdsOf(R.rejected) = IdsOf(q.rejected) \cup {e.id}
            /\ InQueue(Levels, R) = InQueue(Levels, q) \ {e.id}
            /\ QCount(Levels, R, k + 1)
  <2>1. /\ QShape(Levels, q) /\ QPlaces(Levels, q) /\ CursorOK(Levels, q)
        /\ QOrder(Levels, q, n) /\ QCount(Levels, q, k) /\ R = ExpireAtCursor(q)
        /\ e = RequestAtCursor(q) /\ n \in Nat /\ k \in Nat /\ CursorExpired(q, now)
        /\ config \in DOMAIN ModelConfigs
    BY <1>1, <1>2, <1>4, <1>5
  <2>2. /\ QShape(Levels, R) /\ QPlaces(Levels, R) /\ QOrder(Levels, R, n)
        /\ R.cursor = q.cursor /\ R.mark = q.mark /\ CursorOK(Levels, R)
        /\ e.id \in InQueue(Levels, q)
        /\ \/ /\ Len(R.rejected) - Len(q.rejected) = 0 /\ R.rejected = q.rejected
              /\ InQueue(Levels, R) = InQueue(Levels, q) /\ QCount(Levels, R, k)
           \/ /\ Len(R.rejected) - Len(q.rejected) = 1
              /\ IdsOf(R.rejected) = IdsOf(q.rejected) \cup {e.id}
              /\ InQueue(Levels, R) = InQueue(Levels, q) \ {e.id}
              /\ QCount(Levels, R, k + 1)
    BY ONLY SMTT(20), <1>6, <2>1, ExpireKeeps
  <2> QED BY <1>2, <1>5, <2>2
<1>8. d \in {0, 1} /\ DOMAIN scan' = ScanFields /\ scan'.rejCnt = k + d
      /\ scan'.best = scan.best /\ scan'.grown = scan.grown
  <2>1. d \in {0, 1}
    BY <1>7
  <2> QED BY <1>2, <1>4, <1>5, <2>1 DEF ScanFields
<1>9. e.id \in Requests /\ st[e.id] = "queued" /\ st \in [Requests -> States]
  BY <1>4, <1>7, InQueueFacts DEF DInv, OwnersInv, ThreadsInv
<1>10. /\ st' \in [Requests -> States]
       /\ st'[e.id] \in {"queued", "expired"}
       /\ \A r \in Requests : r # e.id => st'[r] = st[r]
  <2>1. CASE d = 0
    BY <1>2, <1>9, <2>1
  <2>2. CASE d # 0
    <3>1. st' = [st EXCEPT ![e.id] = "expired"] /\ "expired" \in States
      BY <1>2, <2>2 DEF States
    <3>2. /\ st' \in [Requests -> States] /\ st'[e.id] = "expired"
          /\ \A r \in Requests : r # e.id => st'[r] = st[r]
      BY <1>9, <3>1, StFacts
    <3> QED BY <3>2
  <2> QED BY <2>1, <2>2
<1>11. Levels' = Levels /\ Threads' = Threads
  BY SameConfig
<1>12. ThreadsInv'
  <2>1. \A r \in Requests : st'[r] = "submitting" => req'[r] \in Entries(Levels) /\ req'[r].id = r
    <3>1. \A r \in Requests : st'[r] = "submitting" => st[r] = "submitting"
      BY <1>10
    <3> QED BY <1>1, <3>1 DEF DInv, ThreadsInv
  <2>2. scan'.rejCnt \in Nat
    BY <1>8
  <2>3. ~(\A u \in Threads : pc'[u] # "policy")
    BY <1>1
  <2> QED BY <1>1, <1>8, <1>10, <1>11, <2>1, <2>2, <2>3 DEF DInv, ThreadsInv
<1>13. QueueInv'
  <2>1. NextSeq' \in Nat /\ n <= NextSeq'
    <3>1. \A r \in Requests : r \in Entered(st) => r \in Entered(st')
      BY <1>10 DEF Entered
    <3> QED BY <1>5, <3>1, SeqGrows
  <2>2. QCount(Levels, q', scan'.rejCnt)
    <3>1. k + 0 = k
      OBVIOUS
    <3> QED BY <1>5, <1>7, <1>8, <3>1
  <2> QED BY <1>5, <1>7, <2>1, <2>2, QueueFrom
<1>14. CursorInv'
  BY <1>1, <1>3, <1>4, <1>5, <1>7, <1>8, CursorScans
<1>15. OwnersInv'
  <2>1. CASE d = 0
    <3>0. d # 1
      BY <2>1
    <3>1. st' = st /\ R.rejected = q.rejected /\ InQueue(Levels, R) = InQueue(Levels, q)
      BY ONLY <1>2, <1>7, <2>1, <3>0
    <3> QED BY <1>1, <1>5, <3>1, OwnersFrame DEF DInv
  <2>2. CASE d = 1
    <3>1. PICK x : x = e.id
      OBVIOUS
    <3>2. /\ x \in InQueue(Levels, q) /\ st' = [st EXCEPT ![x] = "expired"]
          /\ IdsOf(q'.rejected) = IdsOf(q.rejected) \cup {x}
          /\ InQueue(Levels, q') = InQueue(Levels, q) \ {x}
      <4>1. d # 0
        BY <2>2
      <4> QED BY ONLY <1>2, <1>5, <1>7, <2>2, <3>1, <4>1
    <3> QED BY <1>1, <3>2, OwnersExpire DEF DInv
  <2> QED BY <1>8, <2>1, <2>2
<1>16. SlotsInv'
  <2>1. \A r \in Requests :
          /\ st[r] \in {"executing", "released"} => st'[r] \in {"executing", "released"}
          /\ st'[r] # "executing" => st[r] # "executing" \/ resp[r].at = "idle"
    BY <1>9, <1>10
  <2> QED BY <1>1, <2>1, SlotsSt DEF DInv
<1>17. LifeInv'
  <2>1. LifeInv /\ dtor = "none"
    BY <1>9 DEF DInv, LifeInv, Finished
  <2>2. "none" \notin Threads
    BY <1>4, ConfigFacts DEF Phases
  <2> QED BY <1>1, <1>11, <2>1, <2>2 DEF LifeInv
<1> QED BY <1>12, <1>13, <1>14, <1>15, <1>16, <1>17 DEF DInv

----------------------------------------------------------------------------
(* The requests of a batch are given their slots: a step of the completion *)
(* queue, whose batches are of distinct requests that have no slot yet.    *)
LEMMA DelegateStep ==
  ASSUME CQInv, NEW s \in Seq(Entries(Levels)), s # << >>, NoRepeat(s),
         IdsOf(s) \cap Scheduled = {}, Delegate(s)
  PROVE  /\ UNCHANGED cqVars \/ CQNext
         /\ resp' = resp /\ Scheduled' \subseteq Scheduled \cup IdsOf(s)
<1>1. CASE ~PreserveOrdering
  <2>1. UNCHANGED cqVars
    BY <1>1 DEF Delegate
  <2>2. order' = order /\ resp' = resp
    BY <2>1 DEF cqVars
  <2> QED BY <2>1, <2>2 DEF Scheduled
<1>2. CASE PreserveOrdering
  <2>1. PICK b : b = Ids(s)
    OBVIOUS
  <2>2. PICK n \in Nat : n = Len(s) /\ n # 0
    OBVIOUS
  <2>3. /\ b \in [1..n -> Requests] /\ \A i \in 1..n : b[i] = s[i].id
    <3>1. \A i \in 1..n : s[i] \in Entries(Levels)
      BY <2>2
    <3>2. \A i \in 1..n : s[i].id \in Requests
      BY <3>1 DEF Entries
    <3> QED BY <2>1, <2>2, <3>2 DEF Ids
  <2>4. \A i, j \in 1..n : b[i] = b[j] => i = j
    BY <2>2, <2>3 DEF NoRepeat
  <2>5. n <= Cardinality(Requests)
    <3>1. b \in Injection(1..n, Requests)
      BY <2>3, <2>4 DEF Injection, IsInjective
    <3>2. Cardinality(1..n) <= Cardinality(Requests)
      BY <3>1, CompletionQueueAssumption, FS_Injection
    <3>3. Cardinality(1..n) = n
      <4>1. /\ 1 \in Int /\ n \in Int /\ ~(1 > n) /\ n - 1 + 1 = n
        BY <2>2
      <4>2. Cardinality(1..n) = IF 1 > n THEN 0 ELSE n - 1 + 1
        BY ONLY <4>1, FS_Interval
      <4> QED BY ONLY <4>1, <4>2
    <3> QED BY <3>2, <3>3
  <2>6. Cardinality(Requests) \in Nat
    BY CompletionQueueAssumption, FS_CardinalityType
  <2>7. b \in Batches
    <3>1. n \in 1..Cardinality(Requests)
      BY <2>2, <2>5, <2>6
    <3> QED BY <2>3, <3>1 DEF Batches
  <2>8. b \in Seq(Requests) /\ Len(b) = n
    BY <2>3
  <2>9. OpenSlots(b)
    BY <1>2, <2>1 DEF Delegate
  <2>10. \A i \in 1..n : b[i] \notin Scheduled
    BY <2>2, <2>3 DEF IdsOf
  <2>11. ScheduleBatch(b)
    BY <2>4, <2>8, <2>9, <2>10 DEF ScheduleBatch
  <2>12. Scheduled' \subseteq Scheduled \cup IdsOf(s)
    <3>1. order \in Seq(Requests) /\ order' = order \o b
      BY <2>9 DEF CQInv, CQTypeOK, OpenSlots
    <3>2a. PICK m \in Nat : m = Len(order)
      BY <3>1, LenProperties
    <3>2. PICK w : w = order \o b /\ m = Len(order)
      BY <3>2a
    <3>3. /\ Len(w) = m + n
          /\ \A i \in 1..m + n : w[i] = IF i <= m THEN order[i] ELSE b[i - m]
      <4>1. /\ Len(order \o b) = Len(order) + Len(b)
            /\ \A i \in 1..Len(order) + Len(b) :
                 (order \o b)[i] = IF i <= Len(order) THEN order[i] ELSE b[i - Len(order)]
        BY ONLY <2>8, <3>1, ConcatProperties, Zenon
      <4> QED BY ONLY <2>8, <3>2, <4>1
    <3>4. ASSUME NEW i \in 1..m + n PROVE w[i] \in Scheduled \cup IdsOf(s)
      <4>1. CASE i <= m
        <5>1. i \in 1..Len(order) /\ w[i] = order[i]
          BY <3>2, <3>3, <4>1
        <5> QED BY <5>1 DEF Scheduled
      <4>2. CASE ~(i <= m)
        <5>1. PICK j \in 1..n : j = i - m
          <6>1. i - m \in 1..n
            BY <4>2
          <6> QED BY <6>1
        <5>2. w[i] = b[j]
          BY <3>3, <4>2, <5>1
        <5> QED BY <2>2, <2>3, <5>2 DEF IdsOf
      <4> QED BY <4>1, <4>2
    <3>5. Scheduled' = {w[i] : i \in 1..m + n}
      BY <3>1, <3>2, <3>3 DEF Scheduled
    <3> QED BY <3>4, <3>5
  <2> QED BY <2>7, <2>9, <2>11, <2>12 DEF CQNext, OpenSlots
<1> QED BY <1>1, <1>2

(* The slots after requests of X have been given theirs.                   *)
LEMMA SlotsGrow ==
  ASSUME config' = config, SlotsInv, UNCHANGED cqVars \/ CQNext, resp' = resp, st' = st,
         NEW X, Scheduled' \subseteq Scheduled \cup X,
         \A u \in Threads : pc[u] = "after" => pc'[u] = "after" /\ requests'[u] = requests[u],
         \A x \in X : \E u \in Threads : pc'[u] = "after" /\ x \in Batched(u)'
  PROVE  SlotsInv'
<1>1. Threads' = Threads /\ PreserveOrdering' = PreserveOrdering
  BY SameConfig
<1>2. CQInv'
  BY NextInv DEF SlotsInv
<1>3. \A u \in Threads : pc[u] = "after" => Batched(u)' = Batched(u)
  BY DEF Batched
<1>4. \A x \in Scheduled \cup X :
        \/ st[x] \in {"executing", "released"}
        \/ \E u \in Threads : pc'[u] = "after" /\ x \in Batched(u)'
  BY <1>3 DEF SlotsInv
<1>5. \A r \in Requests : st[r] # "executing" \/ ~PreserveOrdering => resp[r].at = "idle"
  BY DEF SlotsInv
<1> QED BY <1>1, <1>2, <1>4, <1>5 DEF SlotsInv

(* Thread t takes request x off the queue.                                 *)
LEMMA OwnersTake ==
  ASSUME config' = config, OwnersInv, NEW t \in Threads, NEW x \in InQueue(Levels, q),
         st' = st, rejected' = rejected, q'.rejected = q.rejected,
         InQueue(Levels, q') = InQueue(Levels, q) \ {x},
         pc[t] # "execute", pc'[t] # "execute",
         Batched(t)' = Batched(t) \cup {x}, NoRepeat(requests'[t]),
         \A u \in Threads : u # t => pc'[u] = pc[u] /\ requests'[u] = requests[u]
  PROVE  OwnersInv'
<1>1. Levels' = Levels /\ Threads' = Threads
  BY SameConfig
<1>2. \A u \in Threads : u # t => Batched(u)' = Batched(u)
  BY DEF Batched
<1>3. \A u \in Threads : Refused(u)' = Refused(u)
  BY DEF Refused
<1>4. st[x] = "queued"
  BY DEF OwnersInv
<1>5. \A u \in Threads : x \notin Batched(u)
  BY <1>4 DEF OwnersInv
<1>6. \A u \in Threads : pc'[u] # "execute" =>
        \A r \in Batched(u)' : st[r] = "queued" /\ r \notin InQueue(Levels, q')
  <2>1. \A r \in Batched(t)' : st[r] = "queued" /\ r \notin InQueue(Levels, q')
    BY <1>4 DEF OwnersInv
  <2>2. \A u \in Threads : u # t /\ pc[u] # "execute" =>
          \A r \in Batched(u) : st[r] = "queued" /\ r \notin InQueue(Levels, q')
    BY DEF OwnersInv
  <2> QED BY <1>2, <2>1, <2>2
<1>7. \A u \in Threads : pc'[u] = "execute" =>
        \A r \in Batched(u)' : st[r] \in {"executing", "released"}
  BY <1>2 DEF OwnersInv
<1>8. \A u, w \in Threads : u # w /\ pc'[u] # "execute" /\ pc'[w] # "execute" =>
        Batched(u)' \cap Batched(w)' = {}
  BY <1>2, <1>5 DEF OwnersInv
<1>9. \A r \in Requests : st[r] = "queued" =>
        \/ r \in InQueue(Levels, q')
        \/ \E u \in Threads : pc'[u] # "execute" /\ r \in Batched(u)'
  <2>1. SUFFICES ASSUME NEW r \in Requests, st[r] = "queued", r \notin InQueue(Levels, q')
                 PROVE  \E u \in Threads : pc'[u] # "execute" /\ r \in Batched(u)'
    OBVIOUS
  <2>2. CASE r = x
    BY <2>2
  <2>3. CASE r # x
    <3>1. PICK u \in Threads : pc[u] # "execute" /\ r \in Batched(u)
      BY <2>1, <2>3 DEF OwnersInv
    <3> QED BY <1>2, <3>1
  <2> QED BY <2>2, <2>3
<1>10. /\ \A r \in InQueue(Levels, q') : st[r] = "queued"
       /\ \A u \in Threads : NoRepeat(requests'[u]) /\ NoRepeat(rejected[u])
       /\ \A r \in IdsOf(q.rejected) : st[r] = "expired"
       /\ \A u \in Threads : \A r \in Refused(u) :
            st[r] = "expired" /\ r \notin IdsOf(q.rejected)
       /\ \A u, w \in Threads : u # w => Refused(u) \cap Refused(w) = {}
       /\ \A r \in Requests : st[r] = "expired" =>
            r \in IdsOf(q.rejected) \/ \E u \in Threads : r \in Refused(u)
  BY DEF OwnersInv
<1> QED BY <1>1, <1>3, <1>6, <1>7, <1>8, <1>9, <1>10 DEF OwnersInv

(* What is known when a thread takes the head of the queue.                *)
LEMMA Taken ==
  ASSUME DInv, scan.rejCnt = 0, q.size > 0, q' = Dequeue(q), NEW h, h = DequeueHead(q)
  PROVE  /\ QShape(Levels, q') /\ QPlaces(Levels, q') /\ QOrder(Levels, q', NextSeq)
         /\ QCount(Levels, q', 0) /\ NextSeq \in Nat
         /\ h \in Entries(Levels) /\ h.id \in InQueue(Levels, q)
         /\ InQueue(Levels, q') = InQueue(Levels, q) \ {h.id}
         /\ q'.rejected = q.rejected /\ q'.size = q.size - 1
         /\ q'.cursor.count = q.cursor.count /\ ~q'.cursor.valid
         /\ h.priority \in Levels
         /\ \A l \in Levels : PolicySize(q, l) > 0 => h.priority <= l
         /\ \A i \in 1..Len(q.queue[h.priority]) : q.queue[h.priority][i].seq >= h.seq
<1>1. NextSeq \in Nat
  BY CompletionQueueAssumption, FS_Subset, FS_CardinalityType DEF NextSeq
<1>2. PICK n \in Nat, R \in {q'} : n = NextSeq /\ R = q'
  BY <1>1
<1>3. /\ config \in DOMAIN ModelConfigs
      /\ QShape(Levels, q) /\ QPlaces(Levels, q) /\ QOrder(Levels, q, n)
      /\ QCount(Levels, q, 0) /\ 0 \in Nat /\ R = Dequeue(q)
  BY <1>2 DEF DInv, ThreadsInv, QueueInv
<1>4. /\ QShape(Levels, R) /\ QPlaces(Levels, R) /\ QOrder(Levels, R, n)
      /\ QCount(Levels, R, 0)
      /\ h \in Entries(Levels) /\ h.id \in InQueue(Levels, q)
      /\ InQueue(Levels, R) = InQueue(Levels, q) \ {h.id}
      /\ R.rejected = q.rejected /\ R.size = q.size - 1
      /\ R.cursor.count = q.cursor.count /\ ~R.cursor.valid
      /\ h.priority \in Levels
      /\ \A l \in Levels : PolicySize(q, l) > 0 => h.priority <= l
      /\ \A i \in 1..Len(q.queue[h.priority]) : q.queue[h.priority][i].seq >= h.seq
  BY <1>3, DequeueKeeps
<1> QED BY <1>1, <1>2, <1>4

(* A queue that is not empty has requests when mu_ is free.                *)
LEMMA NotEmpty ==
  ASSUME DInv, mu = 0, ~Empty(q)
  PROVE  scan.rejCnt = 0 /\ q.size > 0
<1>1. scan.rejCnt = 0
  BY MuFacts DEF DInv
<1>2. PICK m \in Nat : m = Cardinality(InQueue(Levels, q))
  BY InQueueFacts DEF DInv, QueueInv
<1>3. q.size = m + 0
  BY <1>1, <1>2 DEF DInv, QueueInv, QCount
<1> QED BY <1>1, <1>3 DEF Empty

(* A queued request has no slot unless its batch is ready.                 *)
LEMMA NoSlotYet ==
  ASSUME DInv, NEW x, st[x] = "queued",
         \A u \in Threads : pc[u] = "after" => x \notin Batched(u)
  PROVE  x \notin Scheduled
  BY DEF DInv, SlotsInv

(* A batch of one request.                                                 *)
LEMMA Single ==
  ASSUME NEW E, NEW h \in E
  PROVE  /\ <<h>> \in Seq(E) /\ <<h>> # << >> /\ Len(<<h>>) = 1
         /\ IdsOf(<<h>>) = {h.id} /\ NoRepeat(<<h>>)
<1>1. <<h>> \in Seq(E) /\ <<h>> # << >> /\ Len(<<h>>) = 1 /\ <<h>>[1] = h
  OBVIOUS
<1>2. 1..1 = {1}
  OBVIOUS
<1> QED BY <1>1, <1>2 DEF IdsOf, NoRepeat

(* TakeOne: batching is off and the batch is the head of the queue.        *)
LEMMA TakeOneInv ==
  ASSUME DInv, config' = config, NEW t \in Threads, TakeOne(t)
  PROVE  DInv' /\ (UNCHANGED cqVars \/ CQNext)
<1>1. /\ pc[t] = "lock" /\ mu = 0 /\ ~Empty(q) /\ q' = Dequeue(q)
      /\ pc' = [pc EXCEPT ![t] = "after"] /\ mu' = mu /\ scan' = scan /\ st' = st
      /\ req' = req /\ rejected' = rejected /\ now' = now /\ unloaded' = unloaded
      /\ exit' = exit /\ dtor' = dtor
  BY DEF TakeOne, Runs, clientVars, lifeVars
<1>2. PICK h, s : /\ h = DequeueHead(q) /\ s = <<h>> /\ Delegate(s)
                  /\ requests' = [requests EXCEPT ![t] = s]
  BY DEF TakeOne
<1>3. scan.rejCnt = 0 /\ q.size > 0
  BY <1>1, NotEmpty
<1>4. /\ QShape(Levels, q') /\ QPlaces(Levels, q') /\ QOrder(Levels, q', NextSeq)
      /\ QCount(Levels, q', 0) /\ NextSeq \in Nat
      /\ h \in Entries(Levels) /\ h.id \in InQueue(Levels, q)
      /\ InQueue(Levels, q') = InQueue(Levels, q) \ {h.id}
      /\ q'.rejected = q.rejected /\ ~q'.cursor.valid
  BY <1>1, <1>2, <1>3, Taken
<1>5. s \in Seq(Entries(Levels)) /\ s # << >> /\ IdsOf(s) = {h.id} /\ NoRepeat(s)
  BY <1>2, <1>4, Single
<1>6. /\ pc \in [Threads -> PCs] /\ requests \in [Threads -> Seq(Entries(Levels))]
      /\ requests[t] = << >> /\ "after" \in PCs
  BY <1>1 DEF DInv, ThreadsInv, PCs
<1>7. /\ pc' \in [Threads -> PCs] /\ pc'[t] = "after"
      /\ \A u \in Threads : u # t => pc'[u] = pc[u]
  BY <1>1, <1>6, PcFacts
<1>8. /\ requests' \in [Threads -> Seq(Entries(Levels))] /\ requests'[t] = s
      /\ \A u \in Threads : u # t => requests'[u] = requests[u]
  BY <1>2, <1>5, <1>6
<1>9. Levels' = Levels /\ Threads' = Threads
  BY SameConfig
<1>10. \A u \in Threads : pc[u] \notin Inside
  BY <1>1, MuFacts DEF DInv
<1>11. "after" \notin Inside /\ "after" \notin Scanning
  BY DEF Inside, Scanning
<1>12. ThreadsInv'
  <2>1. \A u \in Threads : pc'[u] \notin Inside
    BY <1>7, <1>10, <1>11
  <2>2. \A u \in Threads :
          /\ pc'[u] \notin {"dequeue", "after", "execute"} => requests'[u] = << >>
          /\ pc'[u] \in Scanning \cup {"top", "lock", "exited"} => rejected[u] = << >>
    BY <1>7, <1>8, <1>11 DEF DInv, ThreadsInv
  <2> QED BY <1>1, <1>3, <1>7, <1>8, <1>9, <2>1, <2>2 DEF DInv, ThreadsInv, Inside
<1>13. QueueInv'
  <2>1. NextSeq' = NextSeq
    BY <1>1 DEF NextSeq
  <2> QED BY <1>1, <1>3, <1>4, <1>9, <2>1 DEF QueueInv
<1>14. CursorInv'
  <2>1. \A u \in Threads : pc'[u] \notin Inside
    BY <1>7, <1>10, <1>11
  <2> QED BY <1>4, <2>1, CursorQuiet
<1>15. Batched(t)' = {h.id} /\ Batched(t) = {}
  <2>1. IdsOf(<< >>) = {}
    BY DEF IdsOf
  <2> QED BY <1>5, <1>6, <1>8, <2>1 DEF Batched
<1>16. OwnersInv'
  <2>1. PICK x \in InQueue(Levels, q) : x = h.id
    BY <1>4
  <2>2. Batched(t)' = Batched(t) \cup {x} /\ InQueue(Levels, q') = InQueue(Levels, q) \ {x}
    BY <1>4, <1>15, <2>1
  <2>3. pc[t] # "execute" /\ pc'[t] # "execute" /\ NoRepeat(requests'[t])
    BY <1>1, <1>5, <1>7, <1>8
  <2> QED BY <1>1, <1>4, <1>7, <1>8, <2>2, <2>3, OwnersTake DEF DInv
<1>17. IdsOf(s) \cap Scheduled = {}
  <2>1. st[h.id] = "queued" /\ \A u \in Threads : pc[u] = "after" => h.id \notin Batched(u)
    BY <1>4 DEF DInv, OwnersInv
  <2> QED BY <1>5, <2>1, NoSlotYet
<1>18. /\ UNCHANGED cqVars \/ CQNext
       /\ resp' = resp /\ Scheduled' \subseteq Scheduled \cup IdsOf(s)
  BY <1>2, <1>5, <1>17, DelegateStep DEF DInv, SlotsInv
<1>19. SlotsInv'
  <2>1. PICK X : X = IdsOf(s)
    OBVIOUS
  <2>2. \A x \in X : \E u \in Threads : pc'[u] = "after" /\ x \in Batched(u)'
    BY <1>5, <1>7, <1>15, <2>1
  <2>3. \A u \in Threads : pc[u] = "after" => pc'[u] = "after" /\ requests'[u] = requests[u]
    BY <1>1, <1>7, <1>8
  <2>4. Scheduled' \subseteq Scheduled \cup X
    BY <1>18, <2>1
  <2> QED BY <1>1, <1>18, <2>2, <2>3, <2>4, SlotsGrow DEF DInv
<1>20. LifeInv'
  <2>1. dtor # t /\ dtor # "destroyed"
    BY <1>1 DEF DInv, LifeInv
  <2> QED BY <1>1, <1>7, <2>1, LifeFrame DEF DInv
<1> QED BY <1>12, <1>13, <1>14, <1>16, <1>18, <1>19, <1>20 DEF DInv

(* DequeueOne: the batch of thread t gains the head of the queue.          *)
LEMMA DequeueOneInv ==
  ASSUME DInv, config' = config, NEW t \in Threads, DequeueOne(t)
  PROVE  DInv'
<1>1. /\ pc[t] = "dequeue" /\ Len(requests[t]) < q.cursor.count /\ q' = Dequeue(q)
      /\ pc' = pc /\ mu' = mu /\ scan' = scan /\ st' = st
      /\ req' = req /\ rejected' = rejected /\ now' = now /\ unloaded' = unloaded
      /\ exit' = exit /\ dtor' = dtor /\ cqVars' = cqVars
  BY DEF DequeueOne, Runs, clientVars, lifeVars
<1>2. PICK h, s : /\ h = DequeueHead(q) /\ s = Append(requests[t], h)
                  /\ requests' = [requests EXCEPT ![t] = s]
  BY DEF DequeueOne
<1>3. pc[t] \in Inside /\ "dequeue" \notin Scanning
  BY <1>1 DEF Inside, Scanning
<1>4. /\ scan.rejCnt = 0 /\ mu = t /\ \A u \in Threads : u # t => pc[u] \notin Inside
  BY <1>1, <1>3, MuFacts DEF DInv
<1>5. /\ pc \in [Threads -> PCs] /\ requests \in [Threads -> Seq(Entries(Levels))]
      /\ requests[t] \in Seq(Entries(Levels))
  BY DEF DInv, ThreadsInv
<1>6. PICK k \in Nat, c \in Nat, z \in Int :
        k = Len(requests[t]) /\ c = q.cursor.count /\ z = q.size
  BY <1>5 DEF DInv, QueueInv, QShape
<1>7. k < c /\ c - k <= z
  BY <1>1, <1>6 DEF DInv, CursorInv
<1>8. q.size > 0
  <2>1. z > 0
    BY <1>7
  <2> QED BY <1>6, <2>1
<1>9. /\ QShape(Levels, q') /\ QPlaces(Levels, q') /\ QOrder(Levels, q', NextSeq)
      /\ QCount(Levels, q', 0)
      /\ h \in Entries(Levels) /\ h.id \in InQueue(Levels, q)
      /\ InQueue(Levels, q') = InQueue(Levels, q) \ {h.id}
      /\ q'.rejected = q.rejected /\ q'.size = z - 1 /\ q'.cursor.count = c
      /\ ~q'.cursor.valid
  BY <1>1, <1>2, <1>4, <1>6, <1>8, Taken
<1>10. /\ NoRepeat(requests[t]) /\ st[h.id] = "queued" /\ h.id \notin IdsOf(requests[t])
  BY <1>1, <1>9 DEF DInv, OwnersInv, Batched
<1>11. /\ s \in Seq(Entries(Levels)) /\ Len(s) = k + 1
       /\ IdsOf(s) = IdsOf(requests[t]) \cup {h.id} /\ NoRepeat(s)
  BY <1>2, <1>5, <1>6, <1>9, <1>10, AppendIds
<1>12. /\ requests' \in [Threads -> Seq(Entries(Levels))] /\ requests'[t] = s
       /\ \A u \in Threads : u # t => requests'[u] = requests[u]
  BY <1>2, <1>5, <1>11
<1>13. Levels' = Levels /\ Threads' = Threads
  BY SameConfig
<1>14. ThreadsInv'
  <2>1. \A u \in Threads :
          pc[u] \notin {"dequeue", "after", "execute"} => requests'[u] = << >>
    BY <1>1, <1>12 DEF DInv, ThreadsInv
  <2> QED BY <1>1, <1>12, <1>13, <2>1 DEF DInv, ThreadsInv
<1>15. QueueInv'
  <2>1. NextSeq' = NextSeq
    BY <1>1 DEF NextSeq
  <2> QED BY <1>1, <1>4, <1>9, <1>13, <2>1 DEF QueueInv
<1>16. CursorInv'
  <2>1. k + 1 <= c /\ c - (k + 1) <= z - 1 /\ c > 0
    BY <1>7
  <2>2. /\ Len(requests'[t]) <= q'.cursor.count /\ q'.cursor.count > 0
        /\ q'.cursor.count - Len(requests'[t]) <= q'.size
    BY <1>9, <1>11, <1>12, <2>1
  <2> QED BY <1>1, <1>4, <1>9, <2>2, CursorTakes
<1>17. OwnersInv'
  <2>1. PICK x \in InQueue(Levels, q) : x = h.id
    BY <1>9
  <2>2. Batched(t)' = Batched(t) \cup {x} /\ InQueue(Levels, q') = InQueue(Levels, q) \ {x}
    BY <1>9, <1>11, <1>12, <2>1 DEF Batched
  <2>3. pc[t] # "execute" /\ pc'[t] # "execute" /\ NoRepeat(requests'[t])
    BY <1>1, <1>11, <1>12
  <2> QED BY <1>1, <1>9, <1>12, <2>2, <2>3, OwnersTake DEF DInv
<1>18. SlotsInv'
  <2>1. PICK X : X = {}
    OBVIOUS
  <2>2. resp' = resp /\ Scheduled' \subseteq Scheduled \cup X /\ UNCHANGED cqVars
    BY <1>1 DEF cqVars, Scheduled
  <2>3. \A u \in Threads : pc[u] = "after" => pc'[u] = "after" /\ requests'[u] = requests[u]
    BY <1>1, <1>12
  <2>4. \A x \in X : \E u \in Threads : pc'[u] = "after" /\ x \in Batched(u)'
    BY <2>1
  <2> QED BY <1>1, <2>2, <2>3, <2>4, SlotsGrow DEF DInv
<1>19. LifeInv'
  BY <1>1, LifeFrame DEF DInv
<1> QED BY <1>14, <1>15, <1>16, <1>17, <1>18, <1>19 DEF DInv

(* ExtractDone: the batch is complete and its requests get their slots.    *)
LEMMA ExtractDoneInv ==
  ASSUME DInv, config' = config, NEW t \in Threads, ExtractDone(t)
  PROVE  DInv' /\ (UNCHANGED cqVars \/ CQNext)
<1>1. /\ pc[t] = "dequeue" /\ Len(requests[t]) = q.cursor.count /\ Delegate(requests[t])
      /\ pc' = [pc EXCEPT ![t] = "after"] /\ mu' = 0 /\ scan' = NoScan /\ st' = st /\ q' = q
      /\ req' = req /\ requests' = requests /\ rejected' = rejected /\ now' = now
      /\ unloaded' = unloaded /\ exit' = exit /\ dtor' = dtor
  BY DEF ExtractDone, Runs, clientVars, lifeVars
<1>2. pc[t] \in Inside /\ "after" \notin Inside /\ "after" \notin Scanning
  BY <1>1 DEF Inside, Scanning
<1>3. scan.rejCnt = 0 /\ \A u \in Threads : u # t => pc[u] \notin Inside
  BY <1>1, <1>2, MuFacts DEF DInv
<1>4. /\ pc \in [Threads -> PCs] /\ requests[t] \in Seq(Entries(Levels)) /\ "after" \in PCs
  BY DEF DInv, ThreadsInv, PCs
<1>5. /\ pc' \in [Threads -> PCs] /\ pc'[t] = "after"
      /\ \A u \in Threads : u # t => pc'[u] = pc[u]
  BY <1>1, <1>4, PcFacts
<1>6. Levels' = Levels /\ Threads' = Threads
  BY SameConfig
<1>7. q.cursor.count > 0 /\ ~q.cursor.valid
  <2>1. q.cursor.count > 0 /\ (Len(requests[t]) > 0 => ~q.cursor.valid)
    BY <1>1 DEF DInv, CursorInv
  <2> QED BY <1>1, <2>1
<1>8. \A u \in Threads : pc'[u] \notin Inside
  BY <1>2, <1>3, <1>5
<1>9. DOMAIN scan' = ScanFields /\ scan'.rejCnt = 0
  BY <1>1, NoScanFacts
<1>10. ThreadsInv'
  <2>1. \A u \in Threads :
          /\ pc'[u] \notin {"dequeue", "after", "execute"} => requests[u] = << >>
          /\ pc'[u] \in Scanning \cup {"top", "lock", "exited"} => rejected[u] = << >>
    BY ZenonT(60), <1>2, <1>5 DEF DInv, ThreadsInv
  <2> QED BY <1>1, <1>5, <1>6, <1>8, <1>9, <2>1 DEF DInv, ThreadsInv, Inside
<1>11. QueueInv'
  <2>1. NextSeq' = NextSeq /\ QCount(Levels, q, 0)
    BY <1>1, <1>3 DEF NextSeq, DInv, QueueInv
  <2> QED BY <1>1, <1>6, <1>9, <2>1 DEF DInv, QueueInv
<1>12. CursorInv'
  BY <1>1, <1>7, <1>8, CursorQuiet
<1>13. OwnersInv'
  <2>1. \A u \in Threads : pc'[u] = "execute" <=> pc[u] = "execute"
    BY <1>1, <1>5
  <2> QED BY <1>1, <2>1, OwnersFrame DEF DInv
<1>14. requests[t] # << >> /\ NoRepeat(requests[t])
  <2>1. Len(requests[t]) > 0
    BY <1>1, <1>7
  <2> QED BY <1>4, <2>1 DEF DInv, OwnersInv
<1>15. IdsOf(requests[t]) \cap Scheduled = {}
  <2>1. SUFFICES ASSUME NEW x \in IdsOf(requests[t]) PROVE x \notin Scheduled
    OBVIOUS
  <2>2. x \in Batched(t)
    BY DEF Batched
  <2>3. st[x] = "queued" /\ \A u \in Threads : pc[u] = "after" => x \notin Batched(u)
    BY <1>1, <2>2 DEF DInv, OwnersInv
  <2> QED BY <2>3, NoSlotYet
<1>16. /\ UNCHANGED cqVars \/ CQNext
       /\ resp' = resp /\ Scheduled' \subseteq Scheduled \cup IdsOf(requests[t])
  BY <1>1, <1>4, <1>14, <1>15, DelegateStep DEF DInv, SlotsInv
<1>17. SlotsInv'
  <2>1. PICK X : X = IdsOf(requests[t])
    OBVIOUS
  <2>2. Batched(t)' = X
    BY <1>1, <2>1 DEF Batched
  <2>3. \A x \in X : \E u \in Threads : pc'[u] = "after" /\ x \in Batched(u)'
    BY <1>5, <2>2
  <2>4. \A u \in Threads : pc[u] = "after" => pc'[u] = "after" /\ requests'[u] = requests[u]
    BY <1>1, <1>5
  <2>5. Scheduled' \subseteq Scheduled \cup X
    BY <1>16, <2>1
  <2> QED BY <1>1, <1>16, <2>3, <2>4, <2>5, SlotsGrow DEF DInv
<1>18. LifeInv'
  <2>1. dtor # t /\ dtor # "destroyed"
    BY <1>1 DEF DInv, LifeInv
  <2> QED BY <1>1, <1>5, <2>1, LifeFrame DEF DInv
<1> QED BY <1>10, <1>11, <1>12, <1>13, <1>16, <1>17, <1>18 DEF DInv

(* OnScheduleReturns: the thread forgets the batch it has handed over.     *)
LEMMA OnScheduleReturnsInv ==
  ASSUME DInv, config' = config, NEW t \in Threads, OnScheduleReturns(t)
  PROVE  DInv'
<1>1. /\ pc[t] = "execute" /\ dtor # t /\ pc' = [pc EXCEPT ![t] = "reject"]
      /\ requests' = [requests EXCEPT ![t] = << >>]
      /\ mu' = mu /\ scan' = scan /\ st' = st /\ q' = q
      /\ req' = req /\ rejected' = rejected /\ now' = now
      /\ unloaded' = unloaded /\ exit' = exit /\ dtor' = dtor /\ cqVars' = cqVars
  BY DEF OnScheduleReturns, Runs, clientVars, lifeVars
<1>2. /\ pc \in [Threads -> PCs] /\ requests \in [Threads -> Seq(Entries(Levels))]
      /\ "reject" \in PCs
  BY DEF DInv, ThreadsInv, PCs
<1>3. /\ pc' \in [Threads -> PCs] /\ pc'[t] = "reject"
      /\ \A u \in Threads : u # t => pc'[u] = pc[u]
  BY <1>1, <1>2, PcFacts
<1>4. /\ requests' \in [Threads -> Seq(Entries(Levels))] /\ requests'[t] = << >>
      /\ \A u \in Threads : u # t => requests'[u] = requests[u]
  BY <1>1, <1>2
<1>5. Levels' = Levels /\ Threads' = Threads
  BY SameConfig
<1>6. pc[t] \notin Inside /\ "reject" \notin Inside /\ "reject" \notin Scanning
  BY <1>1 DEF Inside, Scanning
<1>7. ThreadsInv'
  <2>1. \A u \in Threads : pc'[u] \in Inside => mu' = u
    BY <1>1, <1>3, <1>6 DEF DInv, ThreadsInv, Inside
  <2>2. (\A u \in Threads : pc'[u] # "policy") => scan'.rejCnt = 0
    BY <1>1, <1>3 DEF DInv, ThreadsInv
  <2>3. \A u \in Threads :
          /\ pc'[u] \notin {"dequeue", "after", "execute"} => requests'[u] = << >>
          /\ pc'[u] \in Scanning \cup {"top", "lock", "exited"} => rejected[u] = << >>
    <3>1. pc'[t] \notin Scanning \cup {"top", "lock", "exited"}
      BY <1>3, <1>6
    <3>2. \A u \in Threads :
            /\ pc[u] \notin {"dequeue", "after", "execute"} => requests[u] = << >>
            /\ pc[u] \in Scanning \cup {"top", "lock", "exited"} => rejected[u] = << >>
      BY DEF DInv, ThreadsInv
    <3> QED BY <1>3, <1>4, <3>1, <3>2
  <2> QED BY <1>1, <1>3, <1>4, <1>5, <2>1, <2>2, <2>3 DEF DInv, ThreadsInv, Inside
<1>8. QueueInv'
  BY <1>1, <1>5 DEF DInv, QueueInv, NextSeq
<1>9. CursorInv'
  <2>1. \A u \in Threads : /\ pc'[u] = pc[u] \/ (pc[u] \notin Inside /\ pc'[u] \notin Inside)
                           /\ pc[u] = "dequeue" => requests'[u] = requests[u]
    BY <1>1, <1>3, <1>4, <1>6
  <2> QED BY <1>1, <2>1, CursorFrame DEF DInv
<1>10. /\ Batched(t)' = {} /\ \A u \in Threads : u # t => Batched(u)' = Batched(u)
       /\ \A u \in Threads : Refused(u)' = Refused(u)
  <2>1. IdsOf(<< >>) = {}
    BY DEF IdsOf
  <2> QED BY <1>1, <1>4, <2>1 DEF Batched, Refused
<1>11. OwnersInv'
  <2>1. OwnersInv
    BY DEF DInv
  <2>2. \A u \in Threads : NoRepeat(requests'[u]) /\ NoRepeat(rejected[u])
    <3>1. NoRepeat(<< >>)
      BY DEF NoRepeat
    <3> QED BY <1>4, <2>1, <3>1 DEF OwnersInv
  <2>3. /\ \A u \in Threads : pc'[u] # "execute" =>
             \A r \in Batched(u)' : st[r] = "queued" /\ r \notin InQueue(Levels, q)
        /\ \A u \in Threads : pc'[u] = "execute" =>
             \A r \in Batched(u)' : st[r] \in {"executing", "released"}
    BY <1>3, <1>10, <2>1 DEF OwnersInv
  <2>4. \A u, w \in Threads : u # w /\ pc'[u] # "execute" /\ pc'[w] # "execute" =>
          Batched(u)' \cap Batched(w)' = {}
    BY <1>3, <1>10, <2>1 DEF OwnersInv
  <2>5. \A r \in Requests : st[r] = "queued" =>
          \/ r \in InQueue(Levels, q)
          \/ \E u \in Threads : pc'[u] # "execute" /\ r \in Batched(u)'
    BY <1>1, <1>3, <1>10, <2>1 DEF OwnersInv
  <2>6. /\ \A r \in InQueue(Levels, q) : st[r] = "queued"
        /\ \A r \in IdsOf(q.rejected) : st[r] = "expired"
        /\ \A u \in Threads : \A r \in Refused(u) :
             st[r] = "expired" /\ r \notin IdsOf(q.rejected)
        /\ \A u, w \in Threads : u # w => Refused(u) \cap Refused(w) = {}
        /\ \A r \in Requests : st[r] = "expired" =>
             r \in IdsOf(q.rejected) \/ \E u \in Threads : r \in Refused(u)
    BY <2>1 DEF OwnersInv
  <2> QED BY <1>1, <1>5, <1>10, <2>2, <2>3, <2>4, <2>5, <2>6 DEF OwnersInv
<1>12. SlotsInv'
  <2>1. PICK X : X = {}
    OBVIOUS
  <2>2. resp' = resp /\ Scheduled' \subseteq Scheduled \cup X /\ UNCHANGED cqVars
    BY <1>1 DEF cqVars, Scheduled
  <2>3. \A u \in Threads : pc[u] = "after" => pc'[u] = "after" /\ requests'[u] = requests[u]
    BY <1>1, <1>3, <1>4
  <2>4. \A x \in X : \E u \in Threads : pc'[u] = "after" /\ x \in Batched(u)'
    BY <2>1
  <2> QED BY <1>1, <2>2, <2>3, <2>4, SlotsGrow DEF DInv
<1>13. LifeInv'
  <2>1. LifeInv
    BY DEF DInv
  <2>2. dtor = "destroyed" => \A u \in Threads : pc'[u] \in {"execute", "reject", "top", "exited"}
    BY <1>3, <2>1 DEF LifeInv
  <2>3. dtor = "destroyed" =>
          \A u, w \in Threads : pc'[u] # "exited" /\ pc'[w] # "exited" => u = w
    BY <1>1, <1>3, <2>1 DEF LifeInv
  <2>4. \A u \in Threads : dtor = u => pc'[u] \in {"execute", "reject"}
    BY <1>1, <1>3, <2>1 DEF LifeInv
  <2> QED BY <1>1, <1>5, <2>1, <2>2, <2>3, <2>4 DEF LifeInv
<1> QED BY <1>7, <1>8, <1>9, <1>11, <1>12, <1>13 DEF DInv

(* OnSchedule: the batch, if there is one, is handed to the backend.       *)
LEMMA OnScheduleInv ==
  ASSUME DInv, config' = config, NEW t \in Threads, OnSchedule(t)
  PROVE  DInv'
<1>1. /\ pc[t] = "after" /\ mu' = mu /\ scan' = scan /\ q' = q
      /\ requests' = requests /\ rejected' = rejected /\ now' = now
      /\ unloaded' = unloaded /\ exit' = exit /\ dtor' = dtor /\ cqVars' = cqVars
      /\ DOMAIN req' = Requests
      /\ st' = [r \in Requests |-> IF InBatch(t, r) THEN "executing" ELSE st[r]]
      /\ \A r \in Requests : ~InBatch(t, r) => req'[r] = req[r]
  BY DEF OnSchedule, Runs, lifeVars
<1>2. PICK v : /\ v = (IF requests[t] = << >> THEN "reject" ELSE "execute")
               /\ pc' = [pc EXCEPT ![t] = v]
  BY DEF OnSchedule
<1>3. /\ pc \in [Threads -> PCs] /\ v \in PCs /\ st \in [Requests -> States]
      /\ "executing" \in States
  BY <1>2 DEF DInv, ThreadsInv, PCs, States
<1>4. /\ pc' \in [Threads -> PCs] /\ pc'[t] = v
      /\ \A u \in Threads : u # t => pc'[u] = pc[u]
  BY <1>2, <1>3, PcFacts
<1>5. \A r : InBatch(t, r) <=> r \in Batched(t)
  BY DEF InBatch, Batched, IdsOf
<1>6. /\ st' \in [Requests -> States]
      /\ \A r \in Requests : r \in Batched(t) => st'[r] = "executing"
      /\ \A r \in Requests : r \notin Batched(t) => st'[r] = st[r]
  BY <1>1, <1>3, <1>5
<1>7. Levels' = Levels /\ Threads' = Threads
  BY SameConfig
<1>8. pc[t] \notin Inside /\ v \notin Inside /\ v \notin Scanning
      /\ v \notin {"top", "lock", "exited"}
  BY <1>1, <1>2 DEF Inside, Scanning
<1>9. /\ InQueue(Levels, q) \subseteq Requests /\ IdsOf(q.rejected) \subseteq Requests
      /\ \A u \in Threads : Batched(u) \subseteq Requests /\ Refused(u) \subseteq Requests
  BY OwnedAreRequests DEF DInv
<1>10. OwnersInv /\ \A r \in Batched(t) : st[r] = "queued" /\ r \notin InQueue(Levels, q)
  BY <1>1 DEF DInv, OwnersInv
<1>11. /\ \A u \in Threads : Batched(u)' = Batched(u) /\ Refused(u)' = Refused(u)
       /\ v # "execute" => Batched(t) = {}
  <2>1. IdsOf(<< >>) = {}
    BY DEF IdsOf
  <2> QED BY <1>1, <1>2, <2>1 DEF Batched, Refused
<1>12. ThreadsInv'
  <2>1. \A u \in Threads : pc'[u] \in Inside => mu' = u
    BY <1>1, <1>4, <1>8 DEF DInv, ThreadsInv, Inside
  <2>2. (\A u \in Threads : pc'[u] # "policy") => scan'.rejCnt = 0
    BY <1>1, <1>4 DEF DInv, ThreadsInv
  <2>3. \A u \in Threads :
          /\ pc'[u] \notin {"dequeue", "after", "execute"} => requests[u] = << >>
          /\ pc'[u] \in Scanning \cup {"top", "lock", "exited"} => rejected[u] = << >>
    <3>1. \A u \in Threads :
            /\ pc[u] \notin {"dequeue", "after", "execute"} => requests[u] = << >>
            /\ pc[u] \in Scanning \cup {"top", "lock", "exited"} => rejected[u] = << >>
      BY DEF DInv, ThreadsInv
    <3>2. pc'[t] \notin {"dequeue", "after", "execute"} => requests[t] = << >>
      BY <1>2, <1>4
    <3>3. pc'[t] \notin Scanning \cup {"top", "lock", "exited"}
      BY <1>4, <1>8
    <3> QED BY <1>4, <3>1, <3>2, <3>3
  <2>4. \A r \in Requests : st'[r] = "submitting" => req'[r] \in Entries(Levels) /\ req'[r].id = r
    <3>1. \A r \in Requests : st'[r] = "submitting" => st[r] = "submitting" /\ ~InBatch(t, r)
      BY <1>5, <1>6
    <3> QED BY <1>1, <3>1 DEF DInv, ThreadsInv
  <2> QED BY <1>1, <1>4, <1>6, <1>7, <2>1, <2>2, <2>3, <2>4 DEF DInv, ThreadsInv, Inside
<1>13. QueueInv'
  <2>1. \A r \in Requests : r \in Entered(st) => r \in Entered(st')
    BY <1>6 DEF Entered
  <2>2. NextSeq \in Nat /\ NextSeq' \in Nat /\ NextSeq <= NextSeq'
    BY <2>1, SeqGrows
  <2>3. /\ QShape(Levels, q') /\ QPlaces(Levels, q') /\ QOrder(Levels, q', NextSeq)
        /\ QCount(Levels, q', scan'.rejCnt)
    BY <1>1 DEF DInv, QueueInv
  <2> QED BY <2>2, <2>3, QueueFrom
<1>14. CursorInv'
  <2>1. \A u \in Threads : pc'[u] = pc[u] \/ (pc[u] \notin Inside /\ pc'[u] \notin Inside)
    BY <1>4, <1>8
  <2> QED BY <1>1, <2>1, CursorFrame DEF DInv
<1>15. OwnersInv'
  <2>1. \A r \in InQueue(Levels, q) : st'[r] = "queued"
    BY <1>6, <1>9, <1>10 DEF OwnersInv
  <2>2. \A u \in Threads : NoRepeat(requests[u]) /\ NoRepeat(rejected[u])
    BY <1>10 DEF OwnersInv
  <2>3. \A u \in Threads : pc'[u] # "execute" =>
          \A r \in Batched(u) : st'[r] = "queued" /\ r \notin InQueue(Levels, q)
    <3>1. SUFFICES ASSUME NEW u \in Threads, pc'[u] # "execute", NEW r \in Batched(u)
                   PROVE  st'[r] = "queued" /\ r \notin InQueue(Levels, q)
      OBVIOUS
    <3>2. u # t /\ pc[u] # "execute" /\ pc[t] # "execute"
      BY <1>1, <1>4, <1>11, <3>1
    <3>3. st[r] = "queued" /\ r \notin InQueue(Levels, q) /\ r \notin Batched(t)
      BY <1>10, <3>2 DEF OwnersInv
    <3> QED BY <1>6, <1>9, <3>3
  <2>4. \A u \in Threads : pc'[u] = "execute" =>
          \A r \in Batched(u) : st'[r] \in {"executing", "released"}
    <3>1. \A r \in Batched(t) : st'[r] = "executing"
      BY <1>6, <1>9
    <3>2. \A u \in Threads : u # t /\ pc[u] = "execute" =>
            \A r \in Batched(u) : st'[r] \in {"executing", "released"}
      BY <1>6, <1>9, <1>10 DEF OwnersInv
    <3> QED BY <1>4, <3>1, <3>2
  <2>5. \A u, w \in Threads : u # w /\ pc'[u] # "execute" /\ pc'[w] # "execute" =>
          Batched(u) \cap Batched(w) = {}
    BY <1>1, <1>4, <1>10 DEF OwnersInv
  <2>6. \A r \in IdsOf(q.rejected) : st'[r] = "expired"
    <3>1. \A r \in IdsOf(q.rejected) : st[r] = "expired"
      BY <1>10 DEF OwnersInv
    <3> QED BY <1>6, <1>9, <1>10, <3>1
  <2>7. \A u \in Threads : \A r \in Refused(u) :
          st'[r] = "expired" /\ r \notin IdsOf(q.rejected)
    <3>1. \A u \in Threads : \A r \in Refused(u) :
            st[r] = "expired" /\ r \notin IdsOf(q.rejected)
      BY <1>10 DEF OwnersInv
    <3> QED BY <1>6, <1>9, <1>10, <3>1
  <2>8. \A u, w \in Threads : u # w => Refused(u) \cap Refused(w) = {}
    BY <1>10 DEF OwnersInv
  <2>9. \A r \in Requests : st'[r] = "queued" =>
          \/ r \in InQueue(Levels, q)
          \/ \E u \in Threads : pc'[u] # "execute" /\ r \in Batched(u)
    <3>1. SUFFICES ASSUME NEW r \in Requests, st'[r] = "queued", r \notin InQueue(Levels, q)
                   PROVE  \E u \in Threads : pc'[u] # "execute" /\ r \in Batched(u)
      OBVIOUS
    <3>2. r \notin Batched(t) /\ st[r] = "queued"
      BY <1>6, <3>1
    <3>3. PICK u \in Threads : pc[u] # "execute" /\ r \in Batched(u)
      BY <1>10, <3>1, <3>2 DEF OwnersInv
    <3> QED BY <1>4, <3>2, <3>3
  <2>10. \A r \in Requests : st'[r] = "expired" =>
          r \in IdsOf(q.rejected) \/ \E u \in Threads : r \in Refused(u)
    <3>1. \A r \in Requests : st'[r] = "expired" => st[r] = "expired"
      BY <1>6
    <3> QED BY <1>10, <3>1 DEF OwnersInv
  <2> QED BY <1>1, <1>7, <1>11, <2>1, <2>2, <2>3, <2>4, <2>5, <2>6, <2>7, <2>8, <2>9, <2>10
          DEF OwnersInv
<1>16. SlotsInv'
  <2>1. CQInv /\ CQInv' /\ SlotsInv
    BY <1>1, NextInv DEF DInv, SlotsInv
  <2>2. Scheduled' = Scheduled /\ resp' = resp /\ Scheduled \subseteq Requests
    BY <1>1, <2>1, ScheduledAreRequests DEF Scheduled, cqVars
  <2>3. \A x \in Scheduled :
          \/ st'[x] \in {"executing", "released"}
          \/ \E u \in Threads : pc'[u] = "after" /\ x \in Batched(u)
    <3>1. SUFFICES ASSUME NEW x \in Scheduled, x \notin Batched(t),
                          st[x] \notin {"executing", "released"}
                   PROVE  \E u \in Threads : pc'[u] = "after" /\ x \in Batched(u)
      BY <1>6, <2>2
    <3>2. PICK u \in Threads : pc[u] = "after" /\ x \in Batched(u)
      BY <2>1, <3>1 DEF SlotsInv
    <3> QED BY <1>4, <3>1, <3>2
  <2>4. \A r \in Requests : st'[r] # "executing" \/ ~PreserveOrdering => resp[r].at = "idle"
    BY <1>6, <2>1 DEF SlotsInv
  <2>5. PreserveOrdering' = PreserveOrdering
    BY SameConfig
  <2> QED BY <1>7, <1>11, <2>1, <2>2, <2>3, <2>4, <2>5 DEF SlotsInv
<1>17. LifeInv'
  <2>1. LifeInv /\ dtor # t /\ dtor # "destroyed"
    BY <1>1 DEF DInv, LifeInv
  <2>2. dtor # "none" => \A r \in Requests : st'[r] \in Finished
    <3>1. SUFFICES ASSUME dtor # "none", NEW r \in Requests PROVE st'[r] \in Finished
      OBVIOUS
    <3>2. st[r] \in Finished
      BY <2>1, <3>1 DEF LifeInv
    <3>3. r \notin Batched(t)
      BY <1>10, <3>2 DEF Finished
    <3> QED BY <1>6, <3>2, <3>3
  <2>3. \A u \in Threads : dtor = u => pc'[u] \in {"execute", "reject"}
    BY <1>4, <2>1 DEF LifeInv
  <2> QED BY <1>1, <1>7, <2>1, <2>2, <2>3 DEF LifeInv
<1> QED BY <1>12, <1>13, <1>14, <1>15, <1>16, <1>17 DEF DInv

(* RejectOne: a rejected request is answered, and may have been the last.  *)
LEMMA RejectOneInv ==
  ASSUME DInv, config' = config, NEW t \in Threads, RejectOne(t)
  PROVE  DInv'
<1>1. /\ pc[t] = "reject" /\ rejected[t] # << >> /\ pc' = pc /\ mu' = mu /\ scan' = scan
      /\ q' = q /\ requests' = requests /\ now' = now /\ unloaded' = unloaded
      /\ exit' = exit /\ cqVars' = cqVars /\ DropHandle(st', unloaded, t)
      /\ rejected' = [rejected EXCEPT ![t] = Tail(rejected[t])]
  BY DEF RejectOne, Runs
<1>2. PICK h, x : /\ h = Head(rejected[t]) /\ x = h.id
                  /\ st' = [st EXCEPT ![x] = "timedout"]
                  /\ req' = [req EXCEPT ![x] = NoRequest]
  BY DEF RejectOne
<1>3. /\ rejected \in [Threads -> Seq(Entries(Levels))]
      /\ rejected[t] \in Seq(Entries(Levels)) /\ st \in [Requests -> States]
      /\ DOMAIN req = Requests /\ OwnersInv
  BY DEF DInv, ThreadsInv
<1>4. /\ Tail(rejected[t]) \in Seq(Entries(Levels)) /\ h \in Entries(Levels)
      /\ IdsOf(rejected[t]) = IdsOf(Tail(rejected[t])) \cup {x}
      /\ NoRepeat(rejected[t]) =>
           NoRepeat(Tail(rejected[t])) /\ x \notin IdsOf(Tail(rejected[t]))
  BY <1>1, <1>2, <1>3, TailIds
<1>5. NoRepeat(Tail(rejected[t])) /\ x \notin IdsOf(Tail(rejected[t]))
  BY <1>3, <1>4 DEF OwnersInv
<1>6. x \in Requests /\ x \in Refused(t)
  BY <1>2, <1>4 DEF Entries, Refused
<1>7. st[x] = "expired" /\ x \notin IdsOf(q.rejected)
      /\ \A u \in Threads : u # t => x \notin Refused(u)
  BY <1>3, <1>6 DEF OwnersInv
<1>8. /\ st' \in [Requests -> States] /\ st'[x] = "timedout"
      /\ \A r \in Requests : r # x => st'[r] = st[r]
  <2>1. "timedout" \in States
    BY DEF States, Finished
  <2> QED BY <1>2, <1>3, <1>6, <2>1, StFacts
<1>9. /\ rejected' \in [Threads -> Seq(Entries(Levels))] /\ rejected'[t] = Tail(rejected[t])
      /\ \A u \in Threads : u # t => rejected'[u] = rejected[u]
  BY <1>1, <1>3, <1>4
<1>10. /\ Refused(t)' = Refused(t) \ {x}
       /\ \A u \in Threads : u # t => Refused(u)' = Refused(u)
       /\ \A u \in Threads : Batched(u)' = Batched(u)
  BY <1>1, <1>4, <1>5, <1>9 DEF Refused, Batched
<1>11. Levels' = Levels /\ Threads' = Threads
  BY SameConfig
<1>12. /\ InQueue(Levels, q) \subseteq Requests /\ IdsOf(q.rejected) \subseteq Requests
       /\ \A u \in Threads : Batched(u) \subseteq Requests /\ Refused(u) \subseteq Requests
  BY OwnedAreRequests DEF DInv
<1>13. ThreadsInv'
  <2>1. DOMAIN req' = Requests
    BY <1>2, <1>3
  <2>2. \A r \in Requests : st'[r] = "submitting" => req'[r] \in Entries(Levels) /\ req'[r].id = r
    <3>1. \A r \in Requests : r # x => req'[r] = req[r]
      BY <1>2, <1>3
    <3>2. \A r \in Requests : st'[r] = "submitting" => r # x /\ st[r] = "submitting"
      BY <1>8
    <3> QED BY <3>1, <3>2 DEF DInv, ThreadsInv
  <2>3. \A u \in Threads :
          pc[u] \in Scanning \cup {"top", "lock", "exited"} => rejected'[u] = << >>
    <3>1. pc[t] \notin Scanning \cup {"top", "lock", "exited"}
      BY <1>1 DEF Scanning
    <3> QED BY <1>9, <3>1 DEF DInv, ThreadsInv
  <2> QED BY <1>1, <1>8, <1>9, <1>11, <2>1, <2>2, <2>3 DEF DInv, ThreadsInv
<1>14. QueueInv'
  <2>1. \A r \in Requests : r \in Entered(st) => r \in Entered(st')
    BY <1>8 DEF Entered
  <2>2. NextSeq \in Nat /\ NextSeq' \in Nat /\ NextSeq <= NextSeq'
    BY <2>1, SeqGrows
  <2>3. /\ QShape(Levels, q') /\ QPlaces(Levels, q') /\ QOrder(Levels, q', NextSeq)
        /\ QCount(Levels, q', scan'.rejCnt)
    BY <1>1 DEF DInv, QueueInv
  <2> QED BY <2>2, <2>3, QueueFrom
<1>15. CursorInv'
  BY <1>1, CursorFrame DEF DInv
<1>16. OwnersInv'
  <2>1. \A r \in InQueue(Levels, q) : st'[r] = "queued"
    BY <1>3, <1>7, <1>8, <1>12 DEF OwnersInv
  <2>2. \A u \in Threads : NoRepeat(requests[u]) /\ NoRepeat(rejected'[u])
    BY <1>3, <1>5, <1>9 DEF OwnersInv
  <2>3. \A u \in Threads : pc[u] # "execute" =>
          \A r \in Batched(u) : st'[r] = "queued" /\ r \notin InQueue(Levels, q)
    BY <1>3, <1>7, <1>8, <1>12 DEF OwnersInv
  <2>4. \A u \in Threads : pc[u] = "execute" =>
          \A r \in Batched(u) : st'[r] \in {"executing", "released"}
    BY <1>3, <1>7, <1>8, <1>12 DEF OwnersInv
  <2>5. \A r \in IdsOf(q.rejected) : st'[r] = "expired"
    BY <1>3, <1>7, <1>8, <1>12 DEF OwnersInv
  <2>6. \A u \in Threads : \A r \in Refused(u)' :
          st'[r] = "expired" /\ r \notin IdsOf(q.rejected)
    <3>1. \A u \in Threads : \A r \in Refused(u)' : r \in Refused(u) /\ r # x
      BY <1>7, <1>10
    <3> QED BY <1>3, <1>8, <1>12, <3>1 DEF OwnersInv
  <2>7. \A u, w \in Threads : u # w => Refused(u)' \cap Refused(w)' = {}
    BY <1>3, <1>10 DEF OwnersInv
  <2>8. /\ \A r \in Requests : st'[r] = "queued" =>
             \/ r \in InQueue(Levels, q)
             \/ \E u \in Threads : pc[u] # "execute" /\ r \in Batched(u)
        /\ \A u, w \in Threads : u # w /\ pc[u] # "execute" /\ pc[w] # "execute" =>
             Batched(u) \cap Batched(w) = {}
    BY <1>3, <1>8 DEF OwnersInv
  <2>9. \A r \in Requests : st'[r] = "expired" =>
          r \in IdsOf(q.rejected) \/ \E u \in Threads : r \in Refused(u)'
    <3>1. \A r \in Requests : st'[r] = "expired" => r # x /\ st[r] = "expired"
      BY <1>8
    <3>2. \A u \in Threads : \A r \in Refused(u) : r # x => r \in Refused(u)'
      BY <1>10
    <3> QED BY <1>3, <3>1, <3>2 DEF OwnersInv
  <2> QED BY <1>1, <1>10, <1>11, <2>1, <2>2, <2>3, <2>4, <2>5, <2>6, <2>7, <2>8, <2>9
          DEF OwnersInv
<1>17. SlotsInv'
  <2>1. \A r \in Requests :
          /\ st[r] \in {"executing", "released"} => st'[r] \in {"executing", "released"}
          /\ st'[r] # "executing" => st[r] # "executing" \/ resp[r].at = "idle"
    BY <1>7, <1>8
  <2> QED BY <1>1, <2>1, SlotsSt DEF DInv
<1>18. LifeInv'
  <2>1. st[x] \notin Finished
    BY <1>7 DEF Finished
  <2> QED BY <1>1, <1>6, <2>1, LifeDrop DEF DInv
<1> QED BY <1>13, <1>14, <1>15, <1>16, <1>17, <1>18 DEF DInv

----------------------------------------------------------------------------
(* The empty queue, and its cursor, are sound.                             *)
LEMMA EmptyQueueInv ==
  ASSUME config \in DOMAIN ModelConfigs, NEW Q, Q = EmptyQueue, NEW n \in Nat
  PROVE  /\ QShape(Levels, Q) /\ QPlaces(Levels, Q) /\ QOrder(Levels, Q, n)
         /\ QCount(Levels, Q, 0) /\ CursorOK(Levels, Q)
         /\ InQueue(Levels, Q) = {} /\ Q.rejected = << >>
<1>1. /\ DOMAIN Q = QFields /\ Q.cursor = StartCursor /\ Q.mark = StartCursor
      /\ Q.rejected = << >> /\ Q.size = 0 /\ Q.front = FirstLevel
      /\ Q.queue = [l \in Levels |-> << >>] /\ Q.delayed = [l \in Levels |-> << >>]
  BY DEF EmptyQueue, QFields
<1>2. \A l \in Levels : Q.queue[l] = << >> /\ Q.delayed[l] = << >>
  BY <1>1
<1>3. << >> \in Seq(Entries(Levels)) /\ Len(<< >>) = 0 /\ 1..0 = {}
  OBVIOUS
<1>4. IdsOf(<< >>) = {} /\ NoRepeat(<< >>)
  BY <1>3 DEF IdsOf, NoRepeat
<1>5. \A l \in Levels : IdsAt(Q, l) = {}
  BY <1>2, <1>4 DEF IdsAt
<1>6. InQueue(Levels, Q) = {}
  BY <1>5 DEF InQueue
<1>7. Levels \subseteq Nat /\ FirstLevel \in Levels /\ FirstLevel \in Nat
  BY ConfigFacts
<1>8. QShape(Levels, Q)
  <2>1. Q.queue \in [Levels -> Seq(Entries(Levels))]
        /\ Q.delayed \in [Levels -> Seq(Entries(Levels))]
    BY <1>1, <1>3
  <2> QED BY <2>1, <1>1, <1>3, <1>7, StartFacts DEF QShape
<1>9. QPlaces(Levels, Q)
  BY <1>1, <1>2, <1>4, <1>5 DEF QPlaces
<1>10. QOrder(Levels, Q, n)
  BY <1>2, <1>3 DEF QOrder
<1>11. QCount(Levels, Q, 0)
  <2>1. Cardinality(InQueue(Levels, Q)) = 0
    BY <1>6, FS_EmptySet
  <2> QED BY <2>1, <1>1, <1>5, StartFacts DEF QCount
<1>12. CursorOK(Levels, Q)
  <2>1. FrontIds(Levels, Q) = {}
    <3>1. FirstIds(<< >>, 0) = {} /\ FirstIds(<< >>, 0 - 0) = {}
      BY <1>3 DEF FirstIds
    <3>2. Below(Levels, Q, FirstLevel) = {}
      BY <1>5 DEF Below
    <3>3. FrontIds(Levels, Q) = Below(Levels, Q, FirstLevel)
             \cup FirstIds(<< >>, 0) \cup FirstIds(<< >>, 0 - 0)
      BY <1>1, <1>2, <1>3, <1>7, StartFacts DEF FrontIds
    <3> QED BY <3>1, <3>2, <3>3
  <2>2. Cardinality(FrontIds(Levels, Q)) = 0
    BY <2>1, FS_EmptySet
  <2> QED BY <2>2, <1>1, <1>2, <1>3, <1>7, StartFacts DEF CursorOK, PolicySize
<1> QED BY <1>1, <1>6, <1>8, <1>9, <1>10, <1>11, <1>12

(* The scheduler starts with an empty queue and idle threads.              *)
LEMMA InitDInv == Init => DInv
<1> SUFFICES ASSUME Init PROVE DInv
  OBVIOUS
<1>1. /\ config \in DOMAIN ModelConfigs /\ now = 1 /\ mu = 0 /\ q = EmptyQueue
      /\ scan = NoScan /\ unloaded = FALSE /\ exit = FALSE /\ dtor = "none"
      /\ DOMAIN req = Requests /\ CQInit
  BY DEF Init
<1>2. /\ st \in [Requests -> {"new"}] /\ pc \in [Threads -> {"top"}]
      /\ requests = [t \in Threads |-> << >>] /\ rejected = [t \in Threads |-> << >>]
  BY DEF Init
<1>3. /\ \A r \in Requests : st[r] = "new"
      /\ \A t \in Threads : pc[t] = "top" /\ requests[t] = << >> /\ rejected[t] = << >>
  BY <1>2
<1>4. NextSeq \in Nat
  BY CompletionQueueAssumption, FS_Subset, FS_CardinalityType DEF NextSeq
<1>5. /\ QShape(Levels, q) /\ QPlaces(Levels, q) /\ QOrder(Levels, q, NextSeq)
      /\ QCount(Levels, q, 0) /\ CursorOK(Levels, q)
      /\ InQueue(Levels, q) = {} /\ q.rejected = << >>
  BY <1>1, <1>4, EmptyQueueInv
<1>6. IdsOf(<< >>) = {} /\ NoRepeat(<< >>)
  BY DEF IdsOf, NoRepeat
<1>7. /\ "top" \in PCs /\ "new" \in States /\ "new" \in Finished
      /\ "top" \notin Scanning \cup {"dequeue"}
  BY DEF PCs, States, Finished, Scanning
<1>8. ThreadsInv
  <2>1. pc \in [Threads -> PCs] /\ st \in [Requests -> States]
    BY <1>2, <1>7
  <2>2. /\ requests \in [Threads -> Seq(Entries(Levels))]
        /\ rejected \in [Threads -> Seq(Entries(Levels))]
    BY <1>2
  <2>3. DOMAIN scan = ScanFields /\ scan.rejCnt \in Nat /\ scan.rejCnt = 0
    BY <1>1, NoScanFacts
  <2> QED BY <2>1, <2>2, <2>3, <1>1, <1>3, <1>7 DEF ThreadsInv
<1>9. QueueInv
  BY <1>1, <1>5, NoScanFacts DEF QueueInv
<1>10. CursorInv
  <2>1. ~Scans
    BY <1>3, <1>7 DEF Scans
  <2> QED BY <2>1, <1>3, <1>5 DEF CursorInv
<1>11. OwnersInv
  BY <1>3, <1>5, <1>6 DEF OwnersInv, Batched, Refused
<1>12. SlotsInv
  <2>1. CQInv
    BY <1>1, InitInv
  <2>2. Scheduled = {}
    BY <1>1 DEF CQInit, Scheduled
  <2>3. \A r \in Requests : resp[r].at = "idle"
    BY <1>1 DEF CQInit
  <2> QED BY <2>1, <2>2, <2>3 DEF SlotsInv
<1>13. LifeInv
  <2>1. "none" \notin Threads /\ "none" \in Phases
    BY <1>1, ConfigFacts DEF Phases
  <2> QED BY <2>1, <1>1 DEF LifeInv
<1> QED BY <1>8, <1>9, <1>10, <1>11, <1>12, <1>13 DEF DInv

(* Every step keeps the invariant.                                         *)
LEMMA NextDInv ==
  ASSUME DInv, [Next]_vars
  PROVE  DInv'
<1>1. CASE UNCHANGED vars
  <2>1. config' = config /\ UNCHANGED coreVars /\ now' = now
    BY <1>1 DEF vars, coreVars, clientVars, lifeVars
  <2>2. now' \in Nat
    BY <2>1 DEF DInv, ThreadsInv
  <2> QED BY <2>1, <2>2, StillInv
<1>2. ASSUME config' = config, NEW r \in Requests, ClientStep(r)
      PROVE  DInv'
  BY <1>2, CaptureQueueStartInv, RefuseInv, EnqueueInv, ClientNotifyInv DEF ClientStep
<1>3. ASSUME config' = config, NEW r \in Requests, BackendStep(r)
      PROVE  DInv'
  BY <1>3, BackendRespondsInv, BackendReleasesInv DEF BackendStep
<1>4. ASSUME config' = config, NEW t \in Threads, ThreadStep(t)
      PROVE  DInv'
  BY <1>4, CheckExitInv, WaitForWorkInv, WakeUpInv, TakeOneInv, BeginBatchInv,
     ExpireInv, NextLevelInv, EndPolicyInv, ExamineInv, SendBatchInv, NoBatchInv,
     WaitForMoreInv, DequeueOneInv, ExtractDoneInv, WakeOtherInv, OnScheduleInv,
     OnScheduleReturnsInv, RejectOneInv, LoopEndInv DEF ThreadStep
<1>5. ASSUME config' = config, Unload \/ SignalExit \/ JoinThreads \/ Tick
      PROVE  DInv'
  BY <1>5, UnloadInv, SignalExitInv, JoinThreadsInv, TickInv
<1> QED BY <1>1, <1>2, <1>3, <1>4, <1>5 DEF Next

----------------------------------------------------------------------------
(* Only the steps that give out slots and the backend threads touch the    *)
(* completion queue, and they do what module CompletionQueue allows.       *)
LEMMA StepOfCompletionQueue ==
  ASSUME DInv, [Next]_vars
  PROVE  UNCHANGED cqVars \/ CQNext
<1>1. CASE UNCHANGED vars
  BY <1>1 DEF vars
<1>2. ASSUME NEW r \in Requests, ClientStep(r)
      PROVE  UNCHANGED cqVars
  BY <1>2 DEF ClientStep, CaptureQueueStart, Refuse, Enqueue, ClientNotify
<1>3. ASSUME NEW r \in Requests, BackendStep(r)
      PROVE  UNCHANGED cqVars \/ CQNext
  BY <1>3 DEF BackendStep, BackendResponds, BackendReleases, CQNext
<1>4. ASSUME config' = config, NEW t \in Threads, ThreadStep(t)
      PROVE  UNCHANGED cqVars \/ CQNext
  <2>1. CASE TakeOne(t)
    BY <1>4, <2>1, TakeOneInv
  <2>2. CASE ExtractDone(t)
    BY <1>4, <2>2, ExtractDoneInv
  <2>3. CASE \/ CheckExit(t) \/ WaitForWork(t) \/ WakeUp(t) \/ BeginBatch(t)
             \/ Expire(t) \/ NextLevel(t) \/ EndPolicy(t) \/ Examine(t)
    BY <2>3 DEF CheckExit, WaitForWork, WakeUp, BeginBatch, Expire, NextLevel,
                EndPolicy, Examine
  <2>4. CASE \/ SendBatch(t) \/ NoBatch(t) \/ WaitForMore(t) \/ DequeueOne(t)
             \/ WakeOther(t) \/ OnSchedule(t) \/ OnScheduleReturns(t)
             \/ RejectOne(t) \/ LoopEnd(t)
    BY <2>4 DEF SendBatch, NoBatch, WaitForMore, DequeueOne, WakeOther, OnSchedule,
                OnScheduleReturns, RejectOne, LoopEnd
  <2> QED BY <1>4, <2>1, <2>2, <2>3, <2>4 DEF ThreadStep
<1>5. ASSUME Unload \/ SignalExit \/ JoinThreads \/ Tick
      PROVE  UNCHANGED cqVars
  BY <1>5 DEF Unload, SignalExit, JoinThreads, Tick
<1> QED BY <1>1, <1>2, <1>3, <1>4, <1>5 DEF Next

(* A thread's batch grows only when it dequeues a request.                 *)
LEMMA LeavesByDequeue ==
  ASSUME DInv, [Next]_vars, NEW u \in Threads, Leaves(u)
  PROVE  TakeOne(u) \/ DequeueOne(u)
<1>1. requests \in [Threads -> Seq(Entries(Levels))]
  BY DEF DInv, ThreadsInv
<1>2. requests[u] \in Seq(Entries(Levels)) /\ Len(requests[u]) \in Nat
  BY <1>1
<1>3. requests'[u] # requests[u] /\ requests'[u] # << >>
  <2>1. Len(<< >>) = 0
    OBVIOUS
  <2> QED BY <1>2, <2>1 DEF Leaves
<1>4. CASE UNCHANGED vars
  BY <1>3, <1>4 DEF vars
<1>5. ASSUME NEW r \in Requests, ClientStep(r) \/ BackendStep(r)
      PROVE  requests' = requests
  BY <1>5 DEF ClientStep, CaptureQueueStart, Refuse, Enqueue, ClientNotify,
              BackendStep, BackendResponds, BackendReleases
<1>6. ASSUME NEW t \in Threads, ThreadStep(t)
      PROVE  TakeOne(u) \/ DequeueOne(u)
  <2>1. CASE TakeOne(t) \/ DequeueOne(t)
    <3>1. u # t => requests'[u] = requests[u]
      BY <2>1, <1>1 DEF TakeOne, DequeueOne
    <3> QED BY <2>1, <3>1, <1>3
  <2>2. CASE OnScheduleReturns(t)
    <3>1. requests'[u] = requests[u] \/ requests'[u] = << >>
      BY <2>2, <1>1 DEF OnScheduleReturns
    <3> QED BY <3>1, <1>3
  <2>3. CASE \/ CheckExit(t) \/ WaitForWork(t) \/ WakeUp(t) \/ BeginBatch(t)
             \/ Expire(t) \/ NextLevel(t) \/ EndPolicy(t) \/ Examine(t)
    <3>1. requests' = requests
      BY <2>3 DEF CheckExit, WaitForWork, WakeUp, BeginBatch, Expire, NextLevel,
                  EndPolicy, Examine
    <3> QED BY <3>1, <1>3
  <2>4. CASE \/ SendBatch(t) \/ NoBatch(t) \/ WaitForMore(t) \/ ExtractDone(t)
             \/ WakeOther(t) \/ OnSchedule(t) \/ RejectOne(t) \/ LoopEnd(t)
    <3>1. requests' = requests
      BY <2>4 DEF SendBatch, NoBatch, WaitForMore, ExtractDone, WakeOther, OnSchedule,
                  RejectOne, LoopEnd
    <3> QED BY <3>1, <1>3
  <2> QED BY <1>6, <2>1, <2>2, <2>3, <2>4 DEF ThreadStep
<1>7. ASSUME Unload \/ SignalExit \/ JoinThreads \/ Tick
      PROVE  requests' = requests
  BY <1>7 DEF Unload, SignalExit, JoinThreads, Tick
<1> QED BY <1>3, <1>4, <1>5, <1>6, <1>7 DEF Next

(* The request that leaves is the head of the first level that has one.    *)
LEMMA LeavesInOrder ==
  ASSUME DInv, [Next]_vars, NEW u \in Threads, Leaves(u)
  PROVE  /\ \A l \in Levels : PolicySize(q, l) > 0 => Leaving(u).priority <= l
         /\ \A i \in 1..Len(q.queue[Leaving(u).priority]) :
              q.queue[Leaving(u).priority][i].seq >= Leaving(u).seq
<1>1. TakeOne(u) \/ DequeueOne(u)
  BY LeavesByDequeue
<1>2. /\ requests \in [Threads -> Seq(Entries(Levels))]
      /\ requests[u] \in Seq(Entries(Levels))
  BY DEF DInv, ThreadsInv
<1>3. PICK h : h = DequeueHead(q)
  OBVIOUS
<1>4. scan.rejCnt = 0 /\ q.size > 0 /\ q' = Dequeue(q)
  <2>1. CASE TakeOne(u)
    <3>1. mu = 0 /\ ~Empty(q) /\ q' = Dequeue(q)
      BY <2>1 DEF TakeOne
    <3> QED BY <3>1, NotEmpty
  <2>2. CASE DequeueOne(u)
    <3>1. pc[u] = "dequeue" /\ Len(requests[u]) < q.cursor.count /\ q' = Dequeue(q)
      BY <2>2 DEF DequeueOne, Runs
    <3>2. "dequeue" \in Inside
      BY DEF Inside
    <3>3. scan.rejCnt = 0
      BY <3>1, <3>2, MuFacts DEF DInv
    <3>4. q.cursor.count - Len(requests[u]) <= q.size
      BY <3>1 DEF DInv, CursorInv
    <3>5. q.cursor.count \in Nat /\ Len(requests[u]) \in Nat /\ q.size \in Int
      BY <1>2 DEF DInv, QueueInv, QShape
    <3>6. q.size > 0
      BY ONLY <3>1, <3>4, <3>5
    <3> QED BY <3>1, <3>3, <3>6
  <2> QED BY <1>1, <2>1, <2>2
<1>5. /\ h \in Entries(Levels)
      /\ \A l \in Levels : PolicySize(q, l) > 0 => h.priority <= l
      /\ \A i \in 1..Len(q.queue[h.priority]) : q.queue[h.priority][i].seq >= h.seq
  BY <1>3, <1>4, Taken
<1>6. Leaving(u) = h
  <2>1. CASE TakeOne(u)
    <3>1. requests'[u] = <<h>>
      BY <2>1, <1>2, <1>3 DEF TakeOne
    <3> QED BY <3>1 DEF Leaving
  <2>2. CASE DequeueOne(u)
    <3>1. requests'[u] = Append(requests[u], h)
      BY <2>2, <1>2, <1>3 DEF DequeueOne
    <3> QED BY <3>1, <1>2, <1>5 DEF Leaving
  <2> QED BY <1>1, <2>1, <2>2
<1> QED BY <1>5, <1>6

(* Nothing is left in a destroyed scheduler.                               *)
LEMMA QuietInv ==
  ASSUME DInv
  PROVE  DestroyedIsQuiet
<1> SUFFICES ASSUME dtor = "destroyed" PROVE DestroyedIsQuiet
  BY DEF DestroyedIsQuiet
<1>1. /\ exit /\ \A r \in Requests : st[r] \in Finished
      /\ \A t \in Threads : pc[t] \in {"execute", "reject", "top", "exited"}
      /\ \A t, u \in Threads : pc[t] # "exited" /\ pc[u] # "exited" => t = u
  BY DEF DInv, LifeInv
<1>2. \A r \in Requests : resp[r].at = "idle"
  BY <1>1 DEF DInv, SlotsInv, Finished
<1>3. outbox = << >>
  BY <1>2 DEF DInv, SlotsInv, CQInv, OutboxHeld
<1>4. Empty(q)
  <2>1. scan.rejCnt = 0
    BY <1>1 DEF DInv, ThreadsInv
  <2>2. InQueue(Levels, q) = {}
    <3>1. InQueue(Levels, q) \subseteq Requests
      BY OwnedAreRequests DEF DInv
    <3>2. \A r \in InQueue(Levels, q) : st[r] = "queued"
      BY DEF DInv, OwnersInv
    <3>3. "queued" \notin Finished
      BY DEF Finished
    <3> QED BY <3>1, <3>2, <3>3, <1>1
  <2>3. q.size = 0
    BY <2>1, <2>2, FS_EmptySet DEF DInv, QueueInv, QCount
  <2> QED BY <2>3 DEF Empty
<1>5. Cardinality({t \in Threads : pc[t] # "exited"}) <= 1
  <2> DEFINE S == {t \in Threads : pc[t] # "exited"}
  <2>1. CASE S = {}
    <3>1. Cardinality(S) = 0
      BY <2>1, FS_EmptySet
    <3> QED BY <3>1
  <2>2. CASE S # {}
    <3>1. PICK t : t \in S
      BY <2>2
    <3>2. S = {t}
      BY <1>1, <3>1
    <3>3. Cardinality(S) = 1
      BY <3>2, FS_Singleton
    <3> QED BY <3>3
  <2> QED BY <2>1, <2>2
<1> QED BY <1>1, <1>2, <1>3, <1>4, <1>5 DEF DestroyedIsQuiet

----------------------------------------------------------------------------
(* A list without repetitions has a request in one spot or in none.        *)
LEMMA OneSpot ==
  ASSUME NEW E, NEW s \in Seq(E), NoRepeat(s), NEW r
  PROVE  /\ r \notin IdsOf(s) => Spots(s, r) = {}
         /\ r \in IdsOf(s) => \E i \in 1..Len(s) : Spots(s, r) = {i}
         /\ Cardinality(Spots(s, r)) <= 1
<1>1. r \notin IdsOf(s) => Spots(s, r) = {}
  BY DEF Spots, IdsOf
<1>2. ASSUME r \in IdsOf(s) PROVE \E i \in 1..Len(s) : Spots(s, r) = {i}
  <2>1. PICK i \in 1..Len(s) : s[i].id = r
    BY <1>2 DEF IdsOf
  <2>2. Spots(s, r) = {i}
    BY <2>1 DEF Spots, NoRepeat
  <2> QED BY <2>2
<1>3. Cardinality(Spots(s, r)) <= 1
  <2>1. CASE r \in IdsOf(s)
    <3>1. PICK i : Spots(s, r) = {i}
      BY <1>2, <2>1
    <3>2. Cardinality(Spots(s, r)) = 1
      BY <3>1, FS_Singleton
    <3> QED BY <3>2
  <2>2. CASE r \notin IdsOf(s)
    <3>1. Cardinality(Spots(s, r)) = 0
      BY <1>1, <2>2, FS_EmptySet
    <3> QED BY <3>1
  <2> QED BY <2>1, <2>2
<1> QED BY <1>1, <1>2, <1>3

\* Two lists, one after the other.
Joined(a, b) == a \o b

(* The requests of two lists, one after the other.                         *)
LEMMA JoinedIds ==
  ASSUME NEW E, NEW a \in Seq(E), NEW b \in Seq(E), NoRepeat(a), NoRepeat(b),
         IdsOf(a) \cap IdsOf(b) = {}, NEW w, w = Joined(a, b)
  PROVE  /\ w \in Seq(E) /\ NoRepeat(w) /\ IdsOf(w) = IdsOf(a) \cup IdsOf(b)
<1>1. /\ w \in Seq(E) /\ Len(w) = Len(a) + Len(b)
      /\ \A j \in 1..Len(a) + Len(b) :
           w[j] = IF j <= Len(a) THEN a[j] ELSE b[j - Len(a)]
  <2>1. a \in Seq(E) /\ b \in Seq(E)
    OBVIOUS
  <2>2. /\ a \o b \in Seq(E) /\ Len(a \o b) = Len(a) + Len(b)
        /\ \A j \in 1..Len(a) + Len(b) :
             (a \o b)[j] = IF j <= Len(a) THEN a[j] ELSE b[j - Len(a)]
    BY ONLY <2>1, ConcatProperties, Zenon
  <2>3. w = a \o b
    BY DEF Joined
  <2> QED BY ONLY <2>2, <2>3
<1>2. Len(a) \in Nat /\ Len(b) \in Nat
  OBVIOUS
<1>3. ASSUME NEW j \in 1..Len(w)
      PROVE  \/ j \in 1..Len(a) /\ w[j] = a[j]
             \/ j > Len(a) /\ j - Len(a) \in 1..Len(b) /\ w[j] = b[j - Len(a)]
  <2>1. CASE j <= Len(a)
    <3>1. j \in 1..Len(a) /\ j \in 1..Len(a) + Len(b)
      BY <1>1, <1>2, <2>1
    <3> QED BY ONLY <3>1, <1>1, <2>1
  <2>2. CASE ~(j <= Len(a))
    <3>1. j > Len(a) /\ j - Len(a) \in 1..Len(b) /\ j \in 1..Len(a) + Len(b)
      BY <1>1, <1>2, <2>2
    <3> QED BY ONLY <3>1, <1>1, <2>2
  <2> QED BY <2>1, <2>2
<1>4. \A i \in 1..Len(a) : i \in 1..Len(w) /\ w[i] = a[i]
  BY <1>1, <1>2
<1>5. ASSUME NEW i \in 1..Len(b)
      PROVE  i + Len(a) \in 1..Len(w) /\ w[i + Len(a)] = b[i]
  <2>1. i + Len(a) \in 1..Len(a) + Len(b) /\ ~(i + Len(a) <= Len(a))
        /\ (i + Len(a)) - Len(a) = i
    BY <1>2
  <2>2. w[i + Len(a)] = b[(i + Len(a)) - Len(a)]
    BY ONLY <2>1, <1>1
  <2> QED BY ONLY <2>1, <2>2, <1>1
<1>6. IdsOf(w) = IdsOf(a) \cup IdsOf(b)
  <2>1. IdsOf(w) \subseteq IdsOf(a) \cup IdsOf(b)
    BY <1>3 DEF IdsOf
  <2>2. IdsOf(a) \subseteq IdsOf(w)
    BY <1>4 DEF IdsOf
  <2>3. IdsOf(b) \subseteq IdsOf(w)
    <3>1. ASSUME NEW i \in 1..Len(b) PROVE \E k \in 1..Len(w) : b[i].id = w[k].id
      BY <1>5
    <3> QED BY <3>1 DEF IdsOf
  <2> QED BY <2>1, <2>2, <2>3
<1>7. ASSUME NEW i \in 1..Len(w), NEW j \in 1..Len(w), w[i].id = w[j].id
      PROVE  i = j
  <2>1. CASE i \in 1..Len(a) /\ w[i] = a[i] /\ j \in 1..Len(a) /\ w[j] = a[j]
    BY <2>1, <1>7 DEF NoRepeat
  <2>2. CASE /\ j > Len(a) /\ j - Len(a) \in 1..Len(b) /\ w[j] = b[j - Len(a)]
             /\ i > Len(a) /\ i - Len(a) \in 1..Len(b) /\ w[i] = b[i - Len(a)]
    <3>1. i - Len(a) = j - Len(a)
      BY <2>2, <1>7 DEF NoRepeat
    <3> QED BY <3>1, <1>2
  <2>3. CASE /\ i \in 1..Len(a) /\ w[i] = a[i]
             /\ j - Len(a) \in 1..Len(b) /\ w[j] = b[j - Len(a)]
    BY <2>3, <1>7 DEF IdsOf
  <2>4. CASE /\ j \in 1..Len(a) /\ w[j] = a[j]
             /\ i - Len(a) \in 1..Len(b) /\ w[i] = b[i - Len(a)]
    BY <2>4, <1>7 DEF IdsOf
  <2> QED BY <2>1, <2>2, <2>3, <2>4, <1>3
<1> QED BY <1>1, <1>6, <1>7 DEF NoRepeat

(* A request of the queue is in one spot of one level.                     *)
LEMMA LevelSpots ==
  ASSUME QueueInv, NEW r
  PROVE  /\ r \notin InQueue(Levels, q) => InLevels(r) = {}
         /\ r \in InQueue(Levels, q) => \E o : InLevels(r) = {o}
<1>1. ASSUME NEW l \in Levels
      PROVE  /\ r \notin IdsAt(q, l) => Spots(LevelOrder(q, l), r) = {}
             /\ r \in IdsAt(q, l) => \E i : Spots(LevelOrder(q, l), r) = {i}
  <2>1. /\ q.queue[l] \in Seq(Entries(Levels)) /\ q.delayed[l] \in Seq(Entries(Levels))
        /\ NoRepeat(q.queue[l]) /\ NoRepeat(q.delayed[l])
        /\ IdsOf(q.queue[l]) \cap IdsOf(q.delayed[l]) = {}
    BY DEF QueueInv, QShape, QPlaces
  <2>2. PICK w : w = Joined(q.queue[l], q.delayed[l])
    OBVIOUS
  <2>3. w \in Seq(Entries(Levels)) /\ NoRepeat(w) /\ IdsOf(w) = IdsAt(q, l)
    <3>1. PICK a, b : a = q.queue[l] /\ b = q.delayed[l]
      OBVIOUS
    <3>2. /\ a \in Seq(Entries(Levels)) /\ b \in Seq(Entries(Levels)) /\ NoRepeat(a)
          /\ NoRepeat(b) /\ IdsOf(a) \cap IdsOf(b) = {} /\ w = Joined(a, b)
      BY <2>1, <2>2, <3>1
    <3>3. w \in Seq(Entries(Levels)) /\ NoRepeat(w) /\ IdsOf(w) = IdsOf(a) \cup IdsOf(b)
      BY ONLY <3>2, JoinedIds
    <3> QED BY <3>1, <3>3 DEF IdsAt
  <2>4. LevelOrder(q, l) = w
    BY <2>2 DEF LevelOrder, Joined
  <2> QED BY ONLY <2>3, <2>4, OneSpot
<1>2. ASSUME r \notin InQueue(Levels, q) PROVE InLevels(r) = {}
  <2>1. \A l \in Levels : Spots(LevelOrder(q, l), r) = {}
    BY <1>1, <1>2 DEF InQueue
  <2> QED BY <2>1 DEF InLevels
<1>3. ASSUME r \in InQueue(Levels, q) PROVE \E o : InLevels(r) = {o}
  <2>1. PICK l \in Levels : r \in IdsAt(q, l)
    BY <1>3 DEF InQueue
  <2>2. PICK i : Spots(LevelOrder(q, l), r) = {i}
    BY <1>1, <2>1
  <2>3. \A k \in Levels : k # l => Spots(LevelOrder(q, k), r) = {}
    BY <1>1, <2>1 DEF QueueInv, QPlaces
  <2> DEFINE F(k) == {<<"queue", k>>} \X Spots(LevelOrder(q, k), r)
  <2>4. \A k \in Levels : k # l => F(k) = {}
    BY <2>3
  <2>5. F(l) = {<<<<"queue", l>>, i>>}
    BY <2>2
  <2>6. InLevels(r) = UNION {F(k) : k \in Levels}
    BY DEF InLevels
  <2> HIDE DEF F
  <2>7. InLevels(r) = F(l)
    BY <2>4, <2>6
  <2> QED BY <2>5, <2>7
<1> QED BY <1>2, <1>3

(* A request that awaits execution is in one spot of one batch.            *)
LEMMA BatchSpots ==
  ASSUME ThreadsInv, OwnersInv, NEW r
  PROVE  /\ (\A t \in Threads : pc[t] # "execute" => r \notin Batched(t)) => InBatches(r) = {}
         /\ \A t \in Threads : pc[t] # "execute" /\ r \in Batched(t) =>
              \E o : InBatches(r) = {o}
<1>1. ASSUME NEW t \in Threads
      PROVE  /\ r \notin Batched(t) => Spots(requests[t], r) = {}
             /\ r \in Batched(t) => \E i : Spots(requests[t], r) = {i}
  <2>1. requests[t] \in Seq(Entries(Levels)) /\ NoRepeat(requests[t])
    BY DEF ThreadsInv, OwnersInv
  <2> QED BY ONLY <2>1, OneSpot DEF Batched
<1>2. ASSUME \A t \in Threads : pc[t] # "execute" => r \notin Batched(t)
      PROVE  InBatches(r) = {}
  <2>1. \A t \in {u \in Threads : pc[u] # "execute"} : Spots(requests[t], r) = {}
    BY <1>1, <1>2
  <2> QED BY <2>1 DEF InBatches
<1>3. ASSUME NEW t \in Threads, pc[t] # "execute", r \in Batched(t)
      PROVE  \E o : InBatches(r) = {o}
  <2>1. PICK i : Spots(requests[t], r) = {i}
    BY <1>1, <1>3
  <2>2. \A u \in {v \in Threads : pc[v] # "execute"} : u # t => Spots(requests[u], r) = {}
    BY <1>1, <1>3 DEF OwnersInv
  <2>3. t \in {v \in Threads : pc[v] # "execute"}
    BY <1>3
  <2> DEFINE F(k) == {<<"batch", k>>} \X Spots(requests[k], r)
  <2>4. \A k \in {v \in Threads : pc[v] # "execute"} : k # t => F(k) = {}
    BY <2>2
  <2>5. F(t) = {<<<<"batch", t>>, i>>}
    BY <2>1
  <2>6. InBatches(r) = UNION {F(k) : k \in {v \in Threads : pc[v] # "execute"}}
    BY DEF InBatches
  <2> HIDE DEF F
  <2>7. InBatches(r) = F(t)
    BY <2>4, <2>6, <2>3
  <2> QED BY <2>5, <2>7
<1> QED BY <1>2, <1>3

(* A request that a thread will reject is in one spot of one such list.    *)
LEMMA RefusedSpots ==
  ASSUME ThreadsInv, OwnersInv, NEW r
  PROVE  /\ (\A t \in Threads : r \notin Refused(t)) => InRefused(r) = {}
         /\ \A t \in Threads : r \in Refused(t) => \E o : InRefused(r) = {o}
<1>1. ASSUME NEW t \in Threads
      PROVE  /\ r \notin Refused(t) => Spots(rejected[t], r) = {}
             /\ r \in Refused(t) => \E i : Spots(rejected[t], r) = {i}
  <2>1. rejected[t] \in Seq(Entries(Levels)) /\ NoRepeat(rejected[t])
    BY DEF ThreadsInv, OwnersInv
  <2> QED BY ONLY <2>1, OneSpot DEF Refused
<1>2. ASSUME \A t \in Threads : r \notin Refused(t)
      PROVE  InRefused(r) = {}
  <2>1. \A t \in Threads : Spots(rejected[t], r) = {}
    BY <1>1, <1>2
  <2> QED BY <2>1 DEF InRefused
<1>3. ASSUME NEW t \in Threads, r \in Refused(t)
      PROVE  \E o : InRefused(r) = {o}
  <2>1. PICK i : Spots(rejected[t], r) = {i}
    BY <1>1, <1>3
  <2>2. \A u \in Threads : u # t => Spots(rejected[u], r) = {}
    BY <1>1, <1>3 DEF OwnersInv
  <2> DEFINE F(k) == {<<"refused", k>>} \X Spots(rejected[k], r)
  <2>4. \A k \in Threads : k # t => F(k) = {}
    BY <2>2
  <2>5. F(t) = {<<<<"refused", t>>, i>>}
    BY <2>1
  <2>6. InRefused(r) = UNION {F(k) : k \in Threads}
    BY DEF InRefused
  <2> HIDE DEF F
  <2>7. InRefused(r) = F(t)
    BY <2>4, <2>6
  <2> QED BY <2>5, <2>7
<1> QED BY <1>2, <1>3

(* So is one the queue has still to hand over.                             *)
LEMMA RejectedSpots ==
  ASSUME QueueInv, NEW r
  PROVE  /\ r \notin IdsOf(q.rejected) => InRejected(r) = {}
         /\ r \in IdsOf(q.rejected) => \E o : InRejected(r) = {o}
<1>1. q.rejected \in Seq(Entries(Levels)) /\ NoRepeat(q.rejected)
  BY DEF QueueInv, QShape, QPlaces
<1>2. /\ r \notin IdsOf(q.rejected) => Spots(q.rejected, r) = {}
      /\ r \in IdsOf(q.rejected) => \E i : Spots(q.rejected, r) = {i}
  BY ONLY <1>1, OneSpot
<1>3. ASSUME NEW i, Spots(q.rejected, r) = {i} PROVE \E o : InRejected(r) = {o}
  <2>1. InRejected(r) = {<<<<"rejected">>, i>>}
    BY <1>3 DEF InRejected
  <2> QED BY <2>1
<1> QED BY <1>2, <1>3 DEF InRejected

(* Each request is owned once, or not at all.                              *)
LEMMA OwnedInv ==
  ASSUME DInv
  PROVE  OwnedOnce
<1>1. ThreadsInv /\ QueueInv /\ OwnersInv
  BY DEF DInv
<1>2. ASSUME NEW r \in Requests, NEW t \in Threads
      PROVE  Cardinality(Spots(requests[t], r)) <= 1
  <2>1. requests[t] \in Seq(Entries(Levels)) /\ NoRepeat(requests[t])
    BY <1>1 DEF ThreadsInv, OwnersInv
  <2> QED BY ONLY <2>1, OneSpot
<1>3. ASSUME NEW r \in Requests
      PROVE  Cardinality(Owners(r)) = IF st[r] \in {"queued", "expired"} THEN 1 ELSE 0
  <2>1. Owners(r) = InLevels(r) \cup InRejected(r) \cup InBatches(r) \cup InRefused(r)
    BY DEF Owners
  <2>2. /\ st[r] # "queued" => r \notin InQueue(Levels, q)
        /\ st[r] # "queued" => \A t \in Threads : pc[t] # "execute" => r \notin Batched(t)
        /\ st[r] # "expired" => r \notin IdsOf(q.rejected)
        /\ st[r] # "expired" => \A t \in Threads : r \notin Refused(t)
    BY <1>1 DEF OwnersInv
  <2>3. CASE st[r] = "queued"
    <3>1. InRejected(r) = {} /\ InRefused(r) = {}
      BY <1>1, <2>2, <2>3, RejectedSpots, RefusedSpots
    <3>2. \E o : InLevels(r) \cup InBatches(r) = {o}
      <4>1. CASE r \in InQueue(Levels, q)
        <5>1. \A t \in Threads : pc[t] # "execute" => r \notin Batched(t)
          BY <1>1, <4>1 DEF OwnersInv
        <5>2. InBatches(r) = {}
          BY <1>1, <5>1, BatchSpots
        <5>3. \E o : InLevels(r) = {o}
          BY <1>1, <4>1, LevelSpots
        <5> QED BY <5>2, <5>3
      <4>2. CASE r \notin InQueue(Levels, q)
        <5>1. PICK t \in Threads : pc[t] # "execute" /\ r \in Batched(t)
          BY <1>1, <2>3, <4>2 DEF OwnersInv
        <5>2. InLevels(r) = {}
          BY <1>1, <4>2, LevelSpots
        <5>3. \E o : InBatches(r) = {o}
          BY <1>1, <5>1, BatchSpots
        <5> QED BY <5>2, <5>3
      <4> QED BY <4>1, <4>2
    <3>3. PICK o : Owners(r) = {o}
      BY <2>1, <3>1, <3>2
    <3>4. Cardinality(Owners(r)) = 1
      BY <3>3, FS_Singleton
    <3> QED BY <3>4, <2>3
  <2>4. CASE st[r] = "expired"
    <3>1. InLevels(r) = {} /\ InBatches(r) = {}
      BY <1>1, <2>2, <2>4, LevelSpots, BatchSpots
    <3>2. \E o : InRejected(r) \cup InRefused(r) = {o}
      <4>1. CASE r \in IdsOf(q.rejected)
        <5>1. \A t \in Threads : r \notin Refused(t)
          BY <1>1, <4>1 DEF OwnersInv
        <5>2. InRefused(r) = {}
          BY <1>1, <5>1, RefusedSpots
        <5>3. \E o : InRejected(r) = {o}
          BY <1>1, <4>1, RejectedSpots
        <5> QED BY <5>2, <5>3
      <4>2. CASE r \notin IdsOf(q.rejected)
        <5>1. PICK t \in Threads : r \in Refused(t)
          BY <1>1, <2>4, <4>2 DEF OwnersInv
        <5>2. InRejected(r) = {}
          BY <1>1, <4>2, RejectedSpots
        <5>3. \E o : InRefused(r) = {o}
          BY <1>1, <5>1, RefusedSpots
        <5> QED BY <5>2, <5>3
      <4> QED BY <4>1, <4>2
    <3>3. PICK o : Owners(r) = {o}
      BY <2>1, <3>1, <3>2
    <3>4. Cardinality(Owners(r)) = 1
      BY <3>3, FS_Singleton
    <3> QED BY <3>4, <2>4
  <2>5. CASE st[r] \notin {"queued", "expired"}
    <3>1. InLevels(r) = {} /\ InBatches(r) = {} /\ InRejected(r) = {} /\ InRefused(r) = {}
      BY <1>1, <2>2, <2>5, LevelSpots, BatchSpots, RejectedSpots, RefusedSpots
    <3>2. Owners(r) = {}
      BY <2>1, <3>1
    <3>3. Cardinality(Owners(r)) = 0
      BY <3>2, FS_EmptySet
    <3> QED BY <3>3, <2>5
  <2> QED BY <2>3, <2>4, <2>5
<1> QED BY <1>2, <1>3 DEF OwnedOnce

----------------------------------------------------------------------------
(* The inductive invariant: the threads, mu_ and their locals; the queue   *)
(* and its counts; the cursor; who owns a request; the slots; the          *)
(* destructor.                                                             *)
THEOREM SchedulerSound == Spec => []DInv
<1>1. DInv /\ [Next]_vars => DInv'
  BY NextDInv
<1> QED BY <1>1, InitDInv, PTL DEF Spec

(* Every step of the scheduler, of its clients and of the backend is, with *)
(* preserve_ordering_, a step of the completion queue or leaves it alone.  *)
THEOREM SchedulerIsCompletionQueue == Spec => ImplementsCompletionQueue
<1>1. DInv /\ [Next]_vars => [PreserveOrdering => UNCHANGED cqVars \/ CQNext]_cqVars
  BY StepOfCompletionQueue
<1> QED BY <1>1, SchedulerSound, PTL DEF Spec, ImplementsCompletionQueue

(* A request leaves the queue only when no request of a higher priority is *)
(* queued, and overtakes none of its level that was not delayed.           *)
THEOREM LeaveByPriority == Spec => DequeueOrder
<1> DEFINE A == \A t \in Threads : Leaves(t) =>
                  /\ \A l \in Levels : PolicySize(q, l) > 0 => Leaving(t).priority <= l
                  /\ \A i \in 1..Len(q.queue[Leaving(t).priority]) :
                       q.queue[Leaving(t).priority][i].seq >= Leaving(t).seq
<1>1. DInv /\ [Next]_vars => A
  BY LeavesInOrder
<1>2. DInv /\ [Next]_vars => [A]_vars
  BY <1>1
<1> QED BY <1>2, SchedulerSound, PTL DEF Spec, DequeueOrder

(* When the destructor has run no thread touches the object, and no        *)
(* request and no response is left inside.                                 *)
THEOREM DestructorLeavesNothing == Spec => []DestroyedIsQuiet
  BY QuietInv, SchedulerSound, PTL

(* With preserve_ordering_ the clients of the whole scheduler receive the  *)
(* responses in the order in which their requests were scheduled, each     *)
(* once; no popped slot is written, and none is left with a response that  *)
(* nobody will send.                                                       *)
THEOREM SchedulerKeepsOrder ==
  Spec => [](InOrder /\ NothingLost /\ PoppedIsFinal /\ NoneStranded)
<1>1. DInv => CQInv
  BY DEF DInv, SlotsInv
<1>2. DInv => InOrder /\ PoppedIsFinal /\ NoneStranded
  BY <1>1, DeliveredInOrder DEF CQInv, NoneStranded, OutboxHeld, FrontSeen
<1>3. Init => NothingLost
  BY LostInit DEF Init
<1>4. DInv /\ NothingLost /\ [Next]_vars => NothingLost'
  <2> SUFFICES ASSUME DInv, NothingLost, [Next]_vars PROVE NothingLost'
    OBVIOUS
  <2>1. CQInv /\ [CQNext]_cqVars
    BY <1>1, StepOfCompletionQueue
  <2> QED BY ONLY <2>1, NothingLost, LostStep
<1> QED BY <1>2, <1>3, <1>4, SchedulerSound, PTL DEF Spec

(* Every request that entered the queue is in exactly one place: in the    *)
(* queue, in the batch of a thread that will execute it, or in a list of   *)
(* requests to reject; any other is in none of them.                       *)
THEOREM RequestsOwnedOnce == Spec => []OwnedOnce
  BY OwnedInv, SchedulerSound, PTL

----------------------------------------------------------------------------
(***************************************************************************)
(* The batches.  Requests that are in front of the others in the queue     *)
(* (Leads) leave it first.  The requests in front of the cursor, and those *)
(* in front of the mark, fit together, and what is dequeued is one of the  *)
(* two sets.  The size of a set of requests is counted as the number of    *)
(* its cells, one for each unit of batch size.                             *)
(***************************************************************************)
LeadsIn(s, F) == \A i, j \in 1..Len(s) : i < j /\ s[j].id \in F => s[i].id \in F
Leads(L, Q, F) ==
  /\ F \subseteq InQueue(L, Q)
  /\ \A l \in L :
       /\ LeadsIn(Q.queue[l], F) /\ LeadsIn(Q.delayed[l], F)
       /\ IdsOf(Q.delayed[l]) \cap F # {} => IdsOf(Q.queue[l]) \subseteq F
       /\ IdsAt(Q, l) \cap F # {} => Below(L, Q, l) \subseteq F

\* The batch size of the requests F as the objects R have them.
Cells(R, F) == UNION {{r} \X (1..R[r].batch) : r \in F}
Weighs(R, F, n) == IsFiniteSet(Cells(R, F)) /\ Cardinality(Cells(R, F)) = n

\* The requests F may form a batch of size n with configuration C.
Fits(C, R, F, n) ==
  /\ Weighs(R, F, n)
  /\ n <= C.maxBatchSize \/ Cardinality(F) <= 1
  /\ C.enforceEqualShape => \A r, s \in F : R[r].shape = R[s].shape

\* Entry e is in a list of the queue; it describes its request.
Listed(L, Q, e) ==
  \E l \in L : \/ \E i \in 1..Len(Q.queue[l]) : Q.queue[l][i] = e
               \/ \E i \in 1..Len(Q.delayed[l]) : Q.delayed[l][i] = e
Same(R, e) == e.batch = R[e.id].batch /\ e.shape = R[e.id].shape
AllSame(R, s) == \A i \in 1..Len(s) : Same(R, s[i])
QueueSame(L, R, Q) == \A e : Listed(L, Q, e) => Same(R, e)

\* The requests in front of the cursor fit, n is their size, and required is
\* one of them.
Pending(C, L, R, Q, n, required) ==
  /\ Fits(C, R, FrontIds(L, Q), n)
  /\ C.enforceEqualShape /\ Q.cursor.count > 0 => required \in FrontIds(L, Q)

\* So do those in front of the mark.
Marked(C, L, R, Q, n) ==
  \E M \in SUBSET FrontIds(L, Q) :
    Leads(L, Q, M) /\ Cardinality(M) = Q.mark.count /\ Fits(C, R, M, n)

\* What has been dequeued, s, fits with what is left to dequeue, k altogether.
Taking(C, L, R, Q, s, k) ==
  /\ Weighs(R, IdsOf(s), BatchTotal(s))
  /\ \E F \in SUBSET Requests, n \in Nat :
       /\ Leads(L, Q, F) /\ Cardinality(F) + Len(s) = k
       /\ Fits(C, R, F \cup IdsOf(s), n)

\* A batch that is handed over (BatchWellFormed).
Formed(C, s) ==
  Len(s) > 1 =>
    /\ BatchTotal(s) <= C.maxBatchSize
    /\ C.enforceEqualShape => \A i \in 1..Len(s) : s[i].shape = s[1].shape

\* pending_batch_size_ and required_equal_inputs_ describe the pending batch
\* while the cursor may be used; the size that was marked is that of the mark.
Usable == Scans \/ (q.cursor.valid /\ \A t \in Threads : pc[t] # "dequeue")
BInv ==
  /\ QueueSame(Levels, req, q)
  /\ Usable => Pending(Config, Levels, req, q, pendingBatchSize, requiredEqual)
  /\ Scans /\ scan.best # 0 => Marked(Config, Levels, req, q, scan.best)
  /\ \A t \in Threads : pc[t] = "dequeue" =>
       /\ AllSame(req, requests[t])
       /\ Taking(Config, Levels, req, q, requests[t], q.cursor.count)
  /\ \A t \in Threads : pc[t] \in {"after", "execute"} => Formed(Config, requests[t])

(* The size of a set.                                                      *)
LEMMA CellsSame ==
  ASSUME NEW R, NEW S, NEW F, \A r \in F : S[r] = R[r]
  PROVE  Cells(S, F) = Cells(R, F)
BY DEF Cells

(* No request has no size.                                                 *)
LEMMA CellsEmpty ==
  ASSUME NEW R
  PROVE  Weighs(R, {}, 0)
<1>1. Cells(R, {}) = {}
  BY DEF Cells
<1> QED BY <1>1, FS_EmptySet DEF Weighs

(* One more request adds its batch size.                                   *)
LEMMA CellsAdd ==
  ASSUME NEW R, NEW F, NEW n, Weighs(R, F, n), NEW x, x \notin F, R[x].batch \in Nat
  PROVE  n \in Nat /\ Weighs(R, F \cup {x}, n + R[x].batch)
<1>1. PICK b \in Nat : b = R[x].batch
  OBVIOUS
<1> DEFINE A == Cells(R, F)
           X == {x} \X (1..b)
<1>2. Cells(R, F \cup {x}) = A \cup X
  BY <1>1 DEF Cells
<1>3. IsFiniteSet(X) /\ Cardinality(X) = b
  <2>1. IsFiniteSet({x}) /\ Cardinality({x}) = 1
    BY FS_Singleton
  <2>2. IsFiniteSet(1..b) /\ Cardinality(1..b) = b
    <3>1. 1 \in Int /\ b \in Int /\ (IF 1 > b THEN 0 ELSE b - 1 + 1) = b
      OBVIOUS
    <3> QED BY <3>1, FS_Interval
  <2>3. IsFiniteSet(X) /\ Cardinality(X) = Cardinality({x}) * Cardinality(1..b)
    BY <2>1, <2>2, FS_Product
  <2> QED BY <2>1, <2>2, <2>3
<1>4. A \cap X = {}
  BY DEF Cells
<1> HIDE DEF A, X
<1>5. IsFiniteSet(A) /\ Cardinality(A) = n /\ n \in Nat
  BY FS_CardinalityType DEF Weighs, A
<1>6. IsFiniteSet(A \cup X) /\ Cardinality(A \cup X) = n + b
  <2>1. IsFiniteSet(A \cup X)
        /\ Cardinality(A \cup X) = Cardinality(A) + Cardinality(X) - Cardinality(A \cap X)
    BY <1>3, <1>5, FS_Union
  <2>2. Cardinality(A \cap X) = 0
    BY <1>4, FS_EmptySet
  <2> QED BY <1>3, <1>5, <2>1, <2>2
<1> QED BY <1>1, <1>2, <1>5, <1>6 DEF Weighs

----------------------------------------------------------------------------
(* BatchTotal.                                                             *)
Sums(s, f) == f = [i \in 0..Len(s) |-> IF i = 0 THEN 0 ELSE f[i - 1] + s[i].batch]

(* The total of a batch is the last of its partial sums.                   *)
LEMMA BatchTotalIs ==
  ASSUME NEW s
  PROVE  BatchTotal(s) = (CHOOSE f : Sums(s, f))[Len(s)]
BY DEF BatchTotal, Sums

(* There is one such function.                                             *)
LEMMA SumsUnique ==
  ASSUME NEW s, Len(s) \in Nat, NEW f, NEW g, Sums(s, f), Sums(s, g)
  PROVE  \A i \in 0..Len(s) : f[i] = g[i]
<1> DEFINE B == {i \in 0..Len(s) : f[i] # g[i]}
<1>1. SUFFICES ASSUME B # {} PROVE FALSE
  OBVIOUS
<1>2. PICK m \in B : \A k \in B : m <= k
  <2>1. B \subseteq Nat
    OBVIOUS
  <2> HIDE DEF B
  <2> QED BY <1>1, <2>1, LeastNat
<1>3. m \in 0..Len(s) /\ f[m] # g[m]
  BY <1>2
<1>4. /\ f[m] = IF m = 0 THEN 0 ELSE f[m - 1] + s[m].batch
      /\ g[m] = IF m = 0 THEN 0 ELSE g[m - 1] + s[m].batch
  BY <1>3 DEF Sums
<1>5. m # 0
  BY <1>3, <1>4
<1>6. m - 1 \in 0..Len(s) /\ ~(m <= m - 1)
  BY <1>3, <1>5
<1>7. f[m - 1] = g[m - 1]
  BY <1>2, <1>6
<1> QED BY <1>3, <1>4, <1>7

(* So any such function gives the total.                                   *)
LEMMA SumsTotal ==
  ASSUME NEW s, Len(s) \in Nat, NEW f, Sums(s, f)
  PROVE  BatchTotal(s) = f[Len(s)]
<1>1. Sums(s, CHOOSE g : Sums(s, g))
  OBVIOUS
<1>2. PICK g : g = CHOOSE h : Sums(s, h)
  OBVIOUS
<1>3. Sums(s, g)
  BY <1>1, <1>2
<1>4. Len(s) \in 0..Len(s)
  OBVIOUS
<1>5. g[Len(s)] = f[Len(s)]
  BY <1>3, <1>4, SumsUnique
<1> QED BY <1>2, <1>5, BatchTotalIs

(* A partial sum can be continued by one more number.                      *)
Extend(f, n, v) == [i \in 0..n |-> IF i = n THEN v ELSE f[i]]
PartSums(s, n, f) == f = [i \in 0..n |-> IF i = 0 THEN 0 ELSE f[i - 1] + s[i].batch]

(* One more request extends the partial sums.                              *)
LEMMA SumsExtend ==
  ASSUME NEW s, NEW t, NEW n \in Nat, NEW f, PartSums(s, n, f),
         \A i \in 1..n : t[i] = s[i],
         NEW g, g = Extend(f, n + 1, f[n] + t[n + 1].batch)
  PROVE  PartSums(t, n + 1, g) /\ g[n + 1] = f[n] + t[n + 1].batch
<1>1. DOMAIN g = 0..(n + 1) /\ g = [i \in 0..(n + 1) |-> g[i]]
  BY DEF Extend
<1>2. \A i \in 0..n : g[i] = f[i] /\ i # n + 1 /\ i \in 0..(n + 1)
  BY DEF Extend
<1>3. n + 1 \in 0..(n + 1) /\ n + 1 # 0 /\ (n + 1) - 1 = n /\ n \in 0..n
  OBVIOUS
<1>4. g[n + 1] = f[n] + t[n + 1].batch
  BY <1>3 DEF Extend
<1>5. ASSUME NEW i \in 0..(n + 1)
      PROVE  g[i] = IF i = 0 THEN 0 ELSE g[i - 1] + t[i].batch
  <2>1. CASE i = n + 1
    <3>1. g[(n + 1) - 1] = f[n]
      BY <1>2, <1>3
    <3> QED BY <1>3, <1>4, <2>1, <3>1
  <2>2. CASE i # n + 1
    <3>1. i \in 0..n
      BY <2>2
    <3>2. f[i] = IF i = 0 THEN 0 ELSE f[i - 1] + s[i].batch
      BY <3>1 DEF PartSums
    <3>3. CASE i = 0
      BY <1>2, <3>1, <3>2, <3>3
    <3>4. CASE i # 0
      <4>1. i \in 1..n /\ i - 1 \in 0..n
        BY <3>1, <3>4
      <4>2. g[i] = f[i] /\ g[i - 1] = f[i - 1] /\ t[i] = s[i]
        BY <1>2, <3>1, <4>1
      <4> QED BY <3>2, <3>4, <4>2
    <3> QED BY <3>3, <3>4
  <2> QED BY <2>1, <2>2
<1>6. [i \in 0..(n + 1) |-> g[i]]
        = [i \in 0..(n + 1) |-> IF i = 0 THEN 0 ELSE g[i - 1] + t[i].batch]
  BY <1>5
<1> QED BY <1>1, <1>4, <1>6 DEF PartSums

(* It exists.                                                              *)
LEMMA SumsExist ==
  ASSUME NEW s, Len(s) \in Nat
  PROVE  \E f : PartSums(s, Len(s), f)
<1> DEFINE B == {n \in Nat : ~\E f : PartSums(s, n, f)}
<1>1. SUFFICES ASSUME B # {} PROVE FALSE
  OBVIOUS
<1>2. PICK m \in B : \A k \in B : m <= k
  <2>1. B \subseteq Nat
    OBVIOUS
  <2> HIDE DEF B
  <2> QED BY <1>1, <2>1, LeastNat
<1>3. m \in Nat /\ ~\E f : PartSums(s, m, f)
  BY <1>2
<1>4. m # 0
  <2>1. PICK f : f = [i \in 0..0 |-> 0]
    OBVIOUS
  <2>2. \A i \in 0..0 : i = 0
    OBVIOUS
  <2>3. [i \in 0..0 |-> 0]
          = [i \in 0..0 |-> IF i = 0 THEN 0 ELSE f[i - 1] + s[i].batch]
    BY <2>2
  <2>4. PartSums(s, 0, f)
    BY <2>1, <2>3 DEF PartSums
  <2> QED BY <1>3, <2>4
<1>5. PICK k \in Nat : m = k + 1
  <2>1. m - 1 \in Nat /\ m = (m - 1) + 1
    BY <1>3, <1>4
  <2> QED BY <2>1
<1>6. k \notin B
  <2>1. ~(m <= k)
    BY <1>5
  <2> QED BY <1>2, <2>1
<1>7. PICK f : PartSums(s, k, f)
  BY <1>6
<1>8. PICK g : g = Extend(f, k + 1, f[k] + s[k + 1].batch)
  OBVIOUS
<1>9. \A i \in 1..k : s[i] = s[i]
  OBVIOUS
<1>10. PartSums(s, k + 1, g)
  BY <1>7, <1>8, <1>9, SumsExtend
<1> QED BY <1>3, <1>5, <1>10

(* The empty batch, and one more request.                                  *)
LEMMA TotalNone == BatchTotal(<< >>) = 0
<1>1. Len(<< >>) = 0 /\ 0 \in 0..0
  OBVIOUS
<1>2. PICK s : s = << >>
  OBVIOUS
<1>3. PICK f : PartSums(s, Len(s), f)
  BY <1>1, <1>2, SumsExist
<1>4. Sums(s, f) /\ f[0] = 0
  BY <1>1, <1>2, <1>3 DEF PartSums, Sums
<1>5. Len(s) = 0 /\ Len(s) \in Nat
  BY <1>1, <1>2
<1>6. BatchTotal(s) = f[Len(s)]
  BY <1>4, <1>5, SumsTotal
<1> QED BY <1>2, <1>4, <1>5, <1>6

(* One more request adds its batch size to the total.                      *)
LEMMA TotalAppend ==
  ASSUME NEW E, NEW s \in Seq(E), NEW e \in E, NEW t, t = Append(s, e)
  PROVE  BatchTotal(t) = BatchTotal(s) + e.batch
<1>1. PICK n \in Nat : n = Len(s)
  OBVIOUS
<1>2. Len(t) = n + 1 /\ t[n + 1] = e /\ \A i \in 1..n : t[i] = s[i]
  BY <1>1, AppendIds
<1>3. PICK f : PartSums(s, n, f)
  BY <1>1, SumsExist
<1>4. PICK g : g = Extend(f, n + 1, f[n] + t[n + 1].batch)
  OBVIOUS
<1>5. PartSums(t, n + 1, g) /\ g[n + 1] = f[n] + t[n + 1].batch
  <2>1. n \in Nat /\ \A i \in 1..n : t[i] = s[i]
    BY <1>2
  <2> QED BY ONLY <2>1, <1>3, <1>4, SumsExtend
<1>6. Sums(s, f) /\ Sums(t, g)
  BY <1>1, <1>2, <1>3, <1>5 DEF PartSums, Sums
<1>7. BatchTotal(s) = f[n] /\ BatchTotal(t) = g[n + 1]
  <2>1. Len(s) \in Nat /\ Len(t) \in Nat
    BY <1>1, <1>2
  <2>2. BatchTotal(s) = f[Len(s)]
    BY <1>6, <2>1, SumsTotal
  <2>3. BatchTotal(t) = g[Len(t)]
    BY <1>6, <2>1, SumsTotal
  <2> QED BY <1>1, <1>2, <2>2, <2>3
<1> QED BY <1>2, <1>5, <1>7

----------------------------------------------------------------------------
(* Sets of requests that fit.                                              *)
LEMMA FitsNone ==
  ASSUME NEW C, C.maxBatchSize \in Nat, NEW R
  PROVE  Fits(C, R, {}, 0)
<1>1. Weighs(R, {}, 0) /\ 0 <= C.maxBatchSize
  BY CellsEmpty
<1> QED BY <1>1 DEF Fits

(* Only the requests of the set matter.                                    *)
LEMMA FitsSame ==
  ASSUME NEW C, NEW R, NEW S, NEW F, NEW n, Fits(C, R, F, n), \A r \in F : S[r] = R[r]
  PROVE  Fits(C, S, F, n)
<1>1. Cells(S, F) = Cells(R, F)
  BY CellsSame
<1> QED BY <1>1 DEF Fits, Weighs

(* A request joins.                                                        *)
Joins(C, R, F, n, x) ==
  /\ n + R[x].batch <= C.maxBatchSize
  /\ C.enforceEqualShape => \A r \in F : R[r].shape = R[x].shape
(* A request that may join makes a larger batch.                           *)
LEMMA FitsJoin ==
  ASSUME NEW C, NEW R, NEW F, NEW n, Fits(C, R, F, n),
         NEW x, x \notin F, R[x].batch \in Nat, F = {} \/ Joins(C, R, F, n, x)
  PROVE  Fits(C, R, F \cup {x}, n + R[x].batch)
<1>1. Weighs(R, F \cup {x}, n + R[x].batch)
  BY CellsAdd DEF Fits
<1>2. CASE F = {}
  <2>1. F \cup {x} = {x} /\ Cardinality({x}) = 1
    BY <1>2, FS_Singleton
  <2>2. Cardinality(F \cup {x}) <= 1
    BY <2>1
  <2>3. \A r, s \in F \cup {x} : R[r].shape = R[s].shape
    BY <2>1
  <2> QED BY <1>1, <2>2, <2>3 DEF Fits
<1>3. CASE Joins(C, R, F, n, x)
  BY <1>1, <1>3 DEF Fits, Joins
<1> QED BY <1>2, <1>3

(* A batch of which nothing is left to dequeue may be handed over.         *)
LEMMA FitsForms ==
  ASSUME NEW C, NEW R, NEW E, NEW s \in Seq(E), NoRepeat(s), AllSame(R, s),
         Weighs(R, IdsOf(s), BatchTotal(s)), NEW n, Fits(C, R, IdsOf(s), n)
  PROVE  Formed(C, s)
<1>1. SUFFICES ASSUME Len(s) > 1
               PROVE  /\ BatchTotal(s) <= C.maxBatchSize
                      /\ C.enforceEqualShape =>
                           \A i \in 1..Len(s) : s[i].shape = s[1].shape
  BY DEF Formed
<1>2. BatchTotal(s) = n
  BY DEF Fits, Weighs
<1>3. 1 \in 1..Len(s) /\ 2 \in 1..Len(s) /\ 1 # 2 /\ Len(s) \in Nat
  BY <1>1
<1>4. s[1].id # s[2].id /\ s[1].id \in IdsOf(s) /\ s[2].id \in IdsOf(s)
  BY <1>3 DEF NoRepeat, IdsOf
<1>5. ASSUME Cardinality(IdsOf(s)) <= 1 PROVE FALSE
  <2>1. IsFiniteSet(IdsOf(s))
    <3>1. IsFiniteSet(1..Len(s))
      BY <1>3, FS_Interval
    <3>2. IdsOf(s) = {s[i].id : i \in 1..Len(s)}
      BY DEF IdsOf
    <3>3. IsFiniteSet({s[i].id : i \in 1..Len(s)})
      <4> DEFINE f == [i \in 1..Len(s) |-> s[i].id]
                 T == {s[i].id : i \in 1..Len(s)}
      <4>1. f \in [1..Len(s) -> T]
        OBVIOUS
      <4>2. \A y \in T : \E i \in 1..Len(s) : f[i] = y
        OBVIOUS
      <4>3. f \in Surjection(1..Len(s), T)
        BY <4>1, <4>2 DEF Surjection
      <4> HIDE DEF f, T
      <4>4. IsFiniteSet(T)
        BY <3>1, <4>3, FS_Surjection
      <4> QED BY <4>4 DEF T
    <3> QED BY <3>2, <3>3
  <2>2. {s[1].id, s[2].id} \subseteq IdsOf(s)
    BY <1>4
  <2>3. IsFiniteSet({s[1].id}) /\ Cardinality({s[1].id}) = 1
    BY FS_Singleton
  <2>4. Cardinality({s[1].id} \cup {s[2].id}) = 2 /\ IsFiniteSet({s[1].id} \cup {s[2].id})
    <3>1. s[2].id \notin {s[1].id}
      BY <1>4
    <3>2. Cardinality({s[1].id} \cup {s[2].id}) = Cardinality({s[1].id}) + 1
          /\ IsFiniteSet({s[1].id} \cup {s[2].id})
      BY <2>3, <3>1, FS_AddElement
    <3> QED BY <2>3, <3>2
  <2>5. {s[1].id} \cup {s[2].id} \subseteq IdsOf(s)
    BY <1>4
  <2>6. Cardinality({s[1].id} \cup {s[2].id}) <= Cardinality(IdsOf(s))
    BY <2>1, <2>5, FS_Subset
  <2>7. Cardinality(IdsOf(s)) \in Nat
    BY <2>1, FS_CardinalityType
  <2> QED BY <1>5, <2>4, <2>6, <2>7
<1>6. BatchTotal(s) <= C.maxBatchSize
  BY <1>2, <1>5 DEF Fits
<1>7. ASSUME C.enforceEqualShape, NEW i \in 1..Len(s) PROVE s[i].shape = s[1].shape
  <2>1. s[i].id \in IdsOf(s)
    BY DEF IdsOf
  <2>2. R[s[i].id].shape = R[s[1].id].shape
    BY <1>4, <1>7, <2>1 DEF Fits
  <2>3. s[i].shape = R[s[i].id].shape /\ s[1].shape = R[s[1].id].shape
    BY <1>3 DEF AllSame, Same
  <2> QED BY <2>2, <2>3
<1> QED BY <1>6, <1>7

----------------------------------------------------------------------------
(* Entries and leading requests of queues with the same lists.             *)
LEMMA SameLeads ==
  ASSUME NEW L, NEW Q, NEW R, R.queue = Q.queue, R.delayed = Q.delayed
  PROVE  /\ \A F : Leads(L, Q, F) => Leads(L, R, F)
         /\ \A e : Listed(L, R, e) => Listed(L, Q, e)
<1>1. InQueue(L, R) = InQueue(L, Q) /\ \A l : IdsAt(R, l) = IdsAt(Q, l)
  BY SameLists
<1>2. \A l : Below(L, R, l) = Below(L, Q, l)
  BY <1>1 DEF Below
<1>3. \A F : Leads(L, Q, F) => Leads(L, R, F)
  BY <1>1, <1>2 DEF Leads
<1>4. \A e : Listed(L, R, e) => Listed(L, Q, e)
  BY DEF Listed
<1> QED BY <1>3, <1>4

(* The request of an entry is queued.                                      *)
LEMMA ListedInQueue ==
  ASSUME NEW L, NEW Q, NEW e, Listed(L, Q, e)
  PROVE  e.id \in InQueue(L, Q)
BY DEF Listed, InQueue, IdsAt, IdsOf

(* The request at a place of the queue is listed.                          *)
LEMMA ListedAt ==
  ASSUME NEW L, NEW Q, QShape(L, Q), NEW l \in L, NEW i \in Nat, HasAt(Q, l, i)
  PROVE  Listed(L, Q, At(Q, l, i))
<1>1. PICK m1 \in Nat, m2 \in Nat : m1 = Len(Q.queue[l]) /\ m2 = Len(Q.delayed[l])
  BY InQueueFacts
<1>2. i < m1 + m2
  BY <1>1 DEF HasAt, PolicySize
<1>3. CASE i < m1
  <2>1. i + 1 \in 1..m1 /\ At(Q, l, i) = Q.queue[l][i + 1]
    BY <1>1, <1>3 DEF At
  <2> QED BY <1>1, <2>1 DEF Listed
<1>4. CASE ~(i < m1)
  <2>1. i - m1 + 1 \in 1..m2 /\ At(Q, l, i) = Q.delayed[l][i - m1 + 1]
    <3>1. i - m1 + 1 \in 1..m2
      BY <1>2, <1>4
    <3>2. At(Q, l, i) = Q.delayed[l][i - Len(Q.queue[l]) + 1]
      BY <1>1, <1>4 DEF At
    <3> QED BY <1>1, <3>1, <3>2
  <2> QED BY <1>1, <2>1 DEF Listed
<1> QED BY <1>3, <1>4

(* The first n of a list lead it.                                          *)
LEMMA FirstLead ==
  ASSUME NEW s, Len(s) \in Nat, NEW n \in Int, NEW F,
         \A k \in 1..Len(s) : s[k].id \in F <=> k <= n
  PROVE  LeadsIn(s, F)
BY DEF LeadsIn

(* The first n requests of a list are those at its first n places.         *)
LEMMA FirstIdsIs ==
  ASSUME NEW s, Len(s) \in Nat, NoRepeat(s), NEW n \in Int
  PROVE  \A k \in 1..Len(s) : s[k].id \in FirstIds(s, n) <=> k <= n
BY DEF NoRepeat, FirstIds

(* The requests in front of the cursor lead the queue.                     *)
LEMMA FrontLeads ==
  ASSUME config \in DOMAIN ModelConfigs, NEW Q,
         QShape(Levels, Q), QPlaces(Levels, Q), CursorOK(Levels, Q)
  PROVE  Leads(Levels, Q, FrontIds(Levels, Q))
<1>1. PICK c \in Levels, i \in Nat : c = Q.cursor.level /\ i = Q.cursor.idx
  BY DEF CursorOK
<1>2. PICK m1 \in Nat, m2 \in Nat : m1 = Len(Q.queue[c]) /\ m2 = Len(Q.delayed[c])
  BY InQueueFacts
<1>3. PICK F : F = FrontIds(Levels, Q)
  OBVIOUS
<1>4. F = Below(Levels, Q, c) \cup FirstIds(Q.queue[c], i)
            \cup FirstIds(Q.delayed[c], i - m1)
  BY <1>1, <1>2, <1>3 DEF FrontIds
<1>5. \A j \in Levels : j \in Nat /\ Len(Q.queue[j]) \in Nat /\ Len(Q.delayed[j]) \in Nat
  BY ConfigFacts, InQueueFacts
<1>6. /\ \A l \in Levels : NoRepeat(Q.queue[l]) /\ NoRepeat(Q.delayed[l])
      /\ \A l \in Levels : IdsOf(Q.queue[l]) \cap IdsOf(Q.delayed[l]) = {}
      /\ \A l, k \in Levels : l # k => IdsAt(Q, l) \cap IdsAt(Q, k) = {}
  BY DEF QPlaces
<1>7. i \in Int /\ i - m1 \in Int
  OBVIOUS
<1>8. FirstIds(Q.queue[c], i) \subseteq IdsOf(Q.queue[c])
      /\ FirstIds(Q.delayed[c], i - m1) \subseteq IdsOf(Q.delayed[c])
  BY <1>2, <1>7, FirstIdsFacts
<1>9. F \subseteq InQueue(Levels, Q)
  BY <1>3, FrontInQueue
<1>10. \A l \in Levels : l < c => IdsAt(Q, l) \subseteq F
  BY <1>4 DEF Below
<1>11. \A l \in Levels : c < l => IdsAt(Q, l) \cap F = {}
  <2>1. SUFFICES ASSUME NEW l \in Levels, c < l, NEW r \in IdsAt(Q, l), r \in F PROVE FALSE
    OBVIOUS
  <2>2. r \notin IdsAt(Q, c)
    BY <1>5, <1>6, <2>1
  <2>3. r \in Below(Levels, Q, c)
    BY <1>4, <1>8, <2>1, <2>2 DEF IdsAt
  <2>4. PICK j \in Levels : j < c /\ r \in IdsAt(Q, j)
    BY <2>3 DEF Below
  <2>5. j # l
    BY <1>5, <2>1, <2>4
  <2> QED BY <1>6, <2>1, <2>4, <2>5
<1>12. Below(Levels, Q, c) \cap IdsAt(Q, c) = {}
  <2>1. \A j \in Levels : j < c => j # c
    BY <1>5
  <2> QED BY <1>6, <2>1 DEF Below
<1>13. \A k \in 1..m1 : Q.queue[c][k].id \in F <=> k <= i
  <2>1. \A k \in 1..m1 : Q.queue[c][k].id \in FirstIds(Q.queue[c], i) <=> k <= i
    BY <1>2, <1>6, <1>7, FirstIdsIs
  <2>2. \A k \in 1..m1 : Q.queue[c][k].id \in IdsOf(Q.queue[c])
    BY <1>2 DEF IdsOf
  <2>3. \A r \in IdsOf(Q.queue[c]) : r \in F <=> r \in FirstIds(Q.queue[c], i)
    BY <1>4, <1>6, <1>8, <1>12 DEF IdsAt
  <2> QED BY <2>1, <2>2, <2>3
<1>14. \A k \in 1..m2 : Q.delayed[c][k].id \in F <=> k <= i - m1
  <2>1. \A k \in 1..m2 : Q.delayed[c][k].id \in FirstIds(Q.delayed[c], i - m1) <=> k <= i - m1
    BY <1>2, <1>6, <1>7, FirstIdsIs
  <2>2. \A k \in 1..m2 : Q.delayed[c][k].id \in IdsOf(Q.delayed[c])
    BY <1>2 DEF IdsOf
  <2>3. \A r \in IdsOf(Q.delayed[c]) : r \in F <=> r \in FirstIds(Q.delayed[c], i - m1)
    BY <1>4, <1>6, <1>8, <1>12 DEF IdsAt
  <2> QED BY <2>1, <2>2, <2>3
<1>15. ASSUME NEW l \in Levels
       PROVE  /\ LeadsIn(Q.queue[l], F) /\ LeadsIn(Q.delayed[l], F)
              /\ IdsOf(Q.delayed[l]) \cap F # {} => IdsOf(Q.queue[l]) \subseteq F
              /\ IdsAt(Q, l) \cap F # {} => Below(Levels, Q, l) \subseteq F
  <2>1. /\ \A k \in 1..Len(Q.queue[l]) : Q.queue[l][k].id \in IdsAt(Q, l)
        /\ \A k \in 1..Len(Q.delayed[l]) : Q.delayed[l][k].id \in IdsAt(Q, l)
    BY DEF IdsAt, IdsOf
  <2>2. CASE l < c
    <3>1. IdsAt(Q, l) \subseteq F
      BY <1>10, <2>2
    <3>2. LeadsIn(Q.queue[l], F) /\ LeadsIn(Q.delayed[l], F)
      BY <2>1, <3>1 DEF LeadsIn
    <3>3. \A j \in Levels : j < l => IdsAt(Q, j) \subseteq F
      BY <1>5, <1>10, <2>2
    <3>4. Below(Levels, Q, l) \subseteq F
      BY <3>3 DEF Below
    <3> QED BY <3>1, <3>2, <3>4 DEF IdsAt
  <2>3. CASE c < l
    <3>1. IdsAt(Q, l) \cap F = {}
      BY <1>11, <2>3
    <3>2. LeadsIn(Q.queue[l], F) /\ LeadsIn(Q.delayed[l], F)
      BY <2>1, <3>1 DEF LeadsIn
    <3> QED BY <3>1, <3>2 DEF IdsAt
  <2>4. CASE l = c
    <3>1. LeadsIn(Q.queue[l], F) /\ LeadsIn(Q.delayed[l], F)
      BY <1>2, <1>7, <1>13, <1>14, <2>4, FirstLead
    <3>2. ASSUME IdsOf(Q.delayed[l]) \cap F # {} PROVE IdsOf(Q.queue[l]) \subseteq F
      <4>1. PICK k \in 1..m2 : Q.delayed[c][k].id \in F
        BY <1>2, <2>4, <3>2 DEF IdsOf
      <4>2. k <= i - m1
        BY <1>14, <4>1
      <4>3. \A j \in 1..m1 : j <= i
        BY <4>1, <4>2
      <4>4. \A j \in 1..m1 : Q.queue[c][j].id \in F
        BY <1>13, <4>3
      <4> QED BY <1>2, <2>4, <4>4 DEF IdsOf
    <3>3. Below(Levels, Q, l) \subseteq F
      BY <1>4, <2>4
    <3> QED BY <3>1, <3>2, <3>3
  <2> QED BY <1>5, <2>2, <2>3, <2>4
<1>16. Leads(Levels, Q, F)
  BY <1>9, <1>15 DEF Leads
<1> QED BY <1>3, <1>16

(* The lists lose request h, or it moves behind, and the others stay.      *)
Lessened(L, Q, R, h, F) ==
  /\ \A k \in L : /\ IdsOf(R.queue[k]) = IdsOf(Q.queue[k]) \ {h}
                  /\ IdsOf(R.delayed[k]) \ {h} = IdsOf(Q.delayed[k]) \ {h}
                  /\ IdsAt(R, k) \subseteq IdsAt(Q, k)
                  /\ LeadsIn(R.queue[k], F \ {h}) /\ LeadsIn(R.delayed[k], F \ {h})
  /\ h \notin F \/ h \notin InQueue(L, R)
(* Those that lead still do when one request has left.                     *)
LEMMA LeadsLessened ==
  ASSUME NEW L, NEW Q, NEW R, NEW h, NEW F, Leads(L, Q, F), Lessened(L, Q, R, h, F)
  PROVE  Leads(L, R, F \ {h})
<1> DEFINE G == F \ {h}
<1>1. \A k \in L : IdsAt(R, k) \ {h} = IdsAt(Q, k) \ {h}
  BY DEF Lessened, IdsAt
<1>2. G \subseteq InQueue(L, R)
  <2>1. SUFFICES ASSUME NEW r \in G PROVE r \in InQueue(L, R)
    OBVIOUS
  <2>2. PICK k \in L : r \in IdsAt(Q, k)
    BY <2>1 DEF Leads, InQueue
  <2>3. r \in IdsAt(R, k)
    BY <1>1, <2>1, <2>2
  <2> QED BY <2>3 DEF InQueue
<1>3. ASSUME NEW k \in L, IdsOf(R.delayed[k]) \cap G # {}
      PROVE  IdsOf(R.queue[k]) \subseteq G
  <2>1. IdsOf(Q.delayed[k]) \cap F # {}
    BY <1>3 DEF Lessened
  <2>2. IdsOf(Q.queue[k]) \subseteq F
    BY <2>1 DEF Leads
  <2> QED BY <2>2 DEF Lessened
<1>4. ASSUME NEW k \in L, IdsAt(R, k) \cap G # {}, NEW j \in L, j < k,
             NEW r \in IdsAt(R, j)
      PROVE  r \in G
  <2>1. IdsAt(Q, k) \cap F # {}
    BY <1>4 DEF Lessened
  <2>2. r \in IdsAt(Q, j)
    BY <1>4 DEF Lessened
  <2>3. r \in Below(L, Q, k)
    BY <1>4, <2>2 DEF Below
  <2>4. r \in F
    BY <2>1, <2>3 DEF Leads
  <2>5. r \in InQueue(L, R)
    BY <1>4 DEF InQueue
  <2> QED BY <2>4, <2>5 DEF Lessened
<1>5. \A k \in L : IdsAt(R, k) \cap G # {} => Below(L, R, k) \subseteq G
  BY <1>4 DEF Below
<1>6. \A k \in L : LeadsIn(R.queue[k], G) /\ LeadsIn(R.delayed[k], G)
  BY DEF Lessened
<1> QED BY <1>2, <1>3, <1>5, <1>6 DEF Leads

(* A list without the request, and one that loses its first.               *)
LEMMA LeadsInOthers ==
  ASSUME NEW s, NEW F, LeadsIn(s, F), NEW h, h \notin IdsOf(s)
  PROVE  LeadsIn(s, F \ {h}) /\ IdsOf(s) = IdsOf(s) \ {h}
<1>1. \A i \in 1..Len(s) : s[i].id # h
  BY DEF IdsOf
<1> QED BY <1>1 DEF LeadsIn

(* The head of a list leaves it.                                           *)
LEMMA LeadsInTail ==
  ASSUME NEW E, NEW s \in Seq(E), s # << >>, NoRepeat(s), NEW F, LeadsIn(s, F),
         NEW h, h = s[1].id, NEW t, t = Tail(s)
  PROVE  /\ LeadsIn(t, F \ {h}) /\ IdsOf(t) = IdsOf(s) \ {h}
         /\ F \cap IdsOf(s) # {} => h \in F
<1>1. /\ t \in Seq(E) /\ Len(t) = Len(s) - 1 /\ Len(s) \in Nat \ {0}
      /\ \A i \in 1..Len(t) : t[i] = s[i + 1] /\ i + 1 \in 1..Len(s)
      /\ IdsOf(s) = IdsOf(t) \cup {h} /\ h \notin IdsOf(t)
  BY TailIds
<1>2. PICK n \in Nat : n = Len(t)
  <2>1. t \in Seq(E)
    BY <1>1
  <2>2. Len(t) \in Nat
    BY ONLY <2>1
  <2> QED BY <2>2
<1>3. ASSUME NEW i \in 1..n, NEW j \in 1..n, i < j, t[j].id \in F \ {h}
      PROVE  t[i].id \in F \ {h}
  <2>1. i + 1 \in 1..Len(s) /\ j + 1 \in 1..Len(s) /\ t[i] = s[i + 1] /\ t[j] = s[j + 1]
    BY <1>1, <1>2
  <2>2. i + 1 < j + 1
    BY <1>3
  <2>3. s[i + 1].id \in F
    BY <1>3, <2>1, <2>2 DEF LeadsIn
  <2>4. t[i].id \in IdsOf(t)
    BY <1>2 DEF IdsOf
  <2> QED BY <1>1, <2>1, <2>3, <2>4
<1>4. LeadsIn(t, F \ {h})
  BY <1>2, <1>3 DEF LeadsIn
<1>5. ASSUME NEW r \in IdsOf(s), r \in F PROVE h \in F
  <2>1. PICK j \in 1..Len(s) : s[j].id = r
    BY DEF IdsOf
  <2>2. CASE j = 1
    BY <1>5, <2>1, <2>2
  <2>3. CASE j # 1
    <3>1. 1 \in 1..Len(s) /\ 1 < j
      BY <1>1, <2>1, <2>3
    <3> QED BY <1>5, <2>1, <3>1 DEF LeadsIn
  <2> QED BY <2>2, <2>3
<1> QED BY <1>1, <1>4, <1>5

(* Dequeue takes the first of the leading requests.                        *)
LEMMA DequeueLeads ==
  ASSUME config \in DOMAIN ModelConfigs, NEW Q, NEW k \in Nat,
         QShape(Levels, Q), QPlaces(Levels, Q), QCount(Levels, Q, k), Q.size > k,
         NEW R, R = Dequeue(Q), NEW h, h = DequeueHead(Q)
  PROVE  /\ \A e : Listed(Levels, R, e) => Listed(Levels, Q, e)
         /\ Listed(Levels, Q, h)
         /\ \A F : Leads(Levels, Q, F) =>
              /\ F # {} => h.id \in F
              /\ Leads(Levels, R, F \ {h.id})
<1>1. PICK l \in Levels : l = DequeueLevel(Q) /\ PolicySize(Q, l) > 0
                          /\ \A j \in Levels : PolicySize(Q, j) > 0 => l <= j
  BY DequeueFinds
<1>2. /\ Q.queue[l] # << >> =>
           R.queue = Put(Q.queue, l, Tail(Q.queue[l])) /\ R.delayed = Q.delayed
      /\ Q.queue[l] = << >> =>
           R.queue = Q.queue /\ R.delayed = Put(Q.delayed, l, Tail(Q.delayed[l]))
  BY <1>1, DequeueFields
<1>3. PICK s, d : s = Q.queue[l] /\ d = Q.delayed[l]
  OBVIOUS
<1>4. /\ Q.queue \in [Levels -> Seq(Entries(Levels))]
      /\ Q.delayed \in [Levels -> Seq(Entries(Levels))]
  BY DEF QShape
<1>5. /\ s \in Seq(Entries(Levels)) /\ Len(s) \in Nat
      /\ d \in Seq(Entries(Levels)) /\ Len(d) \in Nat
  BY <1>3, <1>4
<1>6. /\ NoRepeat(s) /\ NoRepeat(d) /\ IdsOf(s) \cap IdsOf(d) = {}
      /\ \A j \in Levels : j # l => IdsAt(Q, j) \cap IdsAt(Q, l) = {}
      /\ IdsAt(Q, l) = IdsOf(s) \cup IdsOf(d)
  BY <1>3 DEF QPlaces, IdsAt
<1>7. /\ s # << >> => h = s[1] /\ 1 \in 1..Len(s)
      /\ s = << >> => d # << >> /\ h = d[1] /\ 1 \in 1..Len(d)
  <2>1. PICK m1 \in Nat, m2 \in Nat : m1 = Len(s) /\ m2 = Len(d)
    BY <1>5
  <2>2. PolicySize(Q, l) = m1 + m2
    BY <1>3, <2>1 DEF PolicySize
  <2>3. m1 + m2 > 0
    BY <1>1, <2>2
  <2>4. h = IF 0 < m1 THEN s[1] ELSE d[0 - m1 + 1]
    BY <1>1, <1>3, <2>1 DEF DequeueHead, At
  <2>5. CASE s # << >>
    <3>1. m1 # 0
      BY <1>5, <2>1, <2>5
    <3>2. 0 < m1 /\ 1 \in 1..m1
      BY <3>1
    <3> QED BY <2>1, <2>4, <2>5, <3>2
  <2>6. CASE s = << >>
    <3>1. m1 = 0
      BY <2>1, <2>6
    <3>2. ~(0 < m1) /\ 0 - m1 + 1 = 1 /\ m2 > 0 /\ 1 \in 1..m2
      BY <2>3, <3>1
    <3>3. d # << >>
      BY <2>1, <3>2
    <3> QED BY <2>1, <2>4, <2>6, <3>2, <3>3
  <2> QED BY <2>5, <2>6
<1>8. \A j \in Levels : j # l => R.queue[j] = Q.queue[j] /\ R.delayed[j] = Q.delayed[j]
  BY <1>2, <1>4 DEF Put
<1>9. CASE s # << >>
  <2>1. R.queue[l] = Tail(s) /\ R.delayed[l] = d
    BY <1>2, <1>3, <1>4, <1>9 DEF Put
  <2>2. PICK t : t = Tail(s)
    OBVIOUS
  <2>3. /\ \A i \in 1..Len(t) : t[i] = s[i + 1] /\ i + 1 \in 1..Len(s)
        /\ IdsOf(s) = IdsOf(t) \cup {s[1].id} /\ s[1].id \notin IdsOf(t)
    BY <1>5, <1>6, <1>9, <2>2, TailIds
  <2>4. h = s[1] /\ h.id \in IdsOf(s) /\ h.id \notin IdsOf(d)
    BY <1>6, <1>7, <1>9, <2>3
  <2>5. Listed(Levels, Q, h)
    BY <1>3, <1>7, <1>9 DEF Listed
  <2>6. ASSUME NEW e, Listed(Levels, R, e) PROVE Listed(Levels, Q, e)
    <3>1. PICK j \in Levels : \/ \E i \in 1..Len(R.queue[j]) : R.queue[j][i] = e
                              \/ \E i \in 1..Len(R.delayed[j]) : R.delayed[j][i] = e
      BY <2>6 DEF Listed
    <3>2. CASE j # l
      BY <1>8, <3>1, <3>2 DEF Listed
    <3>3. CASE j = l
      <4>1. CASE \E i \in 1..Len(t) : t[i] = e
        <5>1. PICK i \in 1..Len(t) : t[i] = e
          BY <4>1
        <5>2. i + 1 \in 1..Len(Q.queue[l]) /\ Q.queue[l][i + 1] = e
          BY <1>3, <2>3, <5>1
        <5> QED BY <5>2 DEF Listed
      <4>2. CASE \E i \in 1..Len(d) : d[i] = e
        BY <1>3, <4>2 DEF Listed
      <4> QED BY <2>1, <2>2, <3>1, <3>3, <4>1, <4>2
    <3> QED BY <3>2, <3>3
  <2>7. ASSUME NEW F, Leads(Levels, Q, F)
        PROVE  (F # {} => h.id \in F) /\ Leads(Levels, R, F \ {h.id})
    <3>1. LeadsIn(s, F) /\ LeadsIn(d, F) /\ (IdsOf(d) \cap F # {} => IdsOf(s) \subseteq F)
      BY <1>3, <2>7 DEF Leads
    <3>2. /\ LeadsIn(t, F \ {h.id}) /\ IdsOf(t) = IdsOf(s) \ {h.id}
          /\ F \cap IdsOf(s) # {} => h.id \in F
      BY <1>5, <1>6, <1>9, <2>2, <2>4, <3>1, LeadsInTail
    <3>3. ASSUME F # {} PROVE h.id \in F
      <4>1. PICK j \in Levels : IdsAt(Q, j) \cap F # {}
        BY <2>7, <3>3 DEF Leads, InQueue
      <4>2. l <= j
        <5>1. PolicySize(Q, j) > 0
          BY <4>1, InQueueFacts
        <5> QED BY <1>1, <5>1
      <4>3. CASE j = l
        BY <1>6, <2>4, <3>1, <3>2, <4>1, <4>3
      <4>4. CASE j # l
        <5>1. l < j
          BY <4>2, <4>4, ConfigFacts
        <5>2. IdsAt(Q, l) \subseteq Below(Levels, Q, j)
          BY <5>1 DEF Below
        <5> QED BY <1>6, <2>4, <2>7, <4>1, <5>2 DEF Leads
      <4> QED BY <4>3, <4>4
    <3>4. ASSUME NEW j \in Levels
          PROVE  /\ IdsOf(R.queue[j]) = IdsOf(Q.queue[j]) \ {h.id}
                 /\ IdsOf(R.delayed[j]) = IdsOf(Q.delayed[j]) \ {h.id}
                 /\ LeadsIn(R.queue[j], F \ {h.id}) /\ LeadsIn(R.delayed[j], F \ {h.id})
      <4>1. CASE j = l
        <5>1. LeadsIn(d, F \ {h.id}) /\ IdsOf(d) = IdsOf(d) \ {h.id}
          BY <2>4, <3>1, LeadsInOthers
        <5> QED BY <1>3, <2>1, <2>2, <3>2, <4>1, <5>1
      <4>2. CASE j # l
        <5>1. h.id \notin IdsOf(Q.queue[j]) /\ h.id \notin IdsOf(Q.delayed[j])
          BY <1>6, <2>4, <4>2 DEF IdsAt
        <5>2. LeadsIn(Q.queue[j], F) /\ LeadsIn(Q.delayed[j], F)
          BY <2>7 DEF Leads
        <5>3. /\ LeadsIn(Q.queue[j], F \ {h.id}) /\ IdsOf(Q.queue[j]) = IdsOf(Q.queue[j]) \ {h.id}
              /\ LeadsIn(Q.delayed[j], F \ {h.id})
              /\ IdsOf(Q.delayed[j]) = IdsOf(Q.delayed[j]) \ {h.id}
          BY <5>1, <5>2, LeadsInOthers
        <5> QED BY <1>8, <4>2, <5>3
      <4> QED BY <4>1, <4>2
    <3>5. Lessened(Levels, Q, R, h.id, F)
      BY <3>4 DEF Lessened, IdsAt, InQueue
    <3> QED BY <2>7, <3>3, <3>5, LeadsLessened
  <2> QED BY <2>5, <2>6, <2>7
<1>10. CASE s = << >>
  <2>1. R.queue[l] = s /\ R.delayed[l] = Tail(d)
    BY <1>2, <1>3, <1>4, <1>10 DEF Put
  <2>2. PICK t : t = Tail(d)
    OBVIOUS
  <2>3. /\ \A i \in 1..Len(t) : t[i] = d[i + 1] /\ i + 1 \in 1..Len(d)
        /\ IdsOf(d) = IdsOf(t) \cup {d[1].id} /\ d[1].id \notin IdsOf(t)
    BY <1>5, <1>6, <1>7, <1>10, <2>2, TailIds
  <2>4. h = d[1] /\ h.id \in IdsOf(d) /\ h.id \notin IdsOf(s) /\ IdsOf(s) = {}
    <3>1. 1..Len(s) = {}
      BY <1>10
    <3> QED BY <1>6, <1>7, <1>10, <2>3, <3>1 DEF IdsOf
  <2>5. Listed(Levels, Q, h)
    BY <1>3, <1>7, <1>10 DEF Listed
  <2>6. ASSUME NEW e, Listed(Levels, R, e) PROVE Listed(Levels, Q, e)
    <3>1. PICK j \in Levels : \/ \E i \in 1..Len(R.queue[j]) : R.queue[j][i] = e
                              \/ \E i \in 1..Len(R.delayed[j]) : R.delayed[j][i] = e
      BY <2>6 DEF Listed
    <3>2. CASE j # l
      BY <1>8, <3>1, <3>2 DEF Listed
    <3>3. CASE j = l
      <4>1. CASE \E i \in 1..Len(t) : t[i] = e
        <5>1. PICK i \in 1..Len(t) : t[i] = e
          BY <4>1
        <5>2. i + 1 \in 1..Len(Q.delayed[l]) /\ Q.delayed[l][i + 1] = e
          BY <1>3, <2>3, <5>1
        <5> QED BY <5>2 DEF Listed
      <4>2. CASE \E i \in 1..Len(s) : s[i] = e
        BY <1>3, <4>2 DEF Listed
      <4> QED BY <2>1, <2>2, <3>1, <3>3, <4>1, <4>2
    <3> QED BY <3>2, <3>3
  <2>7. ASSUME NEW F, Leads(Levels, Q, F)
        PROVE  (F # {} => h.id \in F) /\ Leads(Levels, R, F \ {h.id})
    <3>1. LeadsIn(s, F) /\ LeadsIn(d, F)
      BY <1>3, <2>7 DEF Leads
    <3>2. /\ LeadsIn(t, F \ {h.id}) /\ IdsOf(t) = IdsOf(d) \ {h.id}
          /\ F \cap IdsOf(d) # {} => h.id \in F
      BY <1>5, <1>6, <1>7, <1>10, <2>2, <2>4, <3>1, LeadsInTail
    <3>3. ASSUME F # {} PROVE h.id \in F
      <4>1. PICK j \in Levels : IdsAt(Q, j) \cap F # {}
        BY <2>7, <3>3 DEF Leads, InQueue
      <4>2. l <= j
        <5>1. PolicySize(Q, j) > 0
          BY <4>1, InQueueFacts
        <5> QED BY <1>1, <5>1
      <4>3. CASE j = l
        BY <1>6, <2>4, <3>2, <4>1, <4>3
      <4>4. CASE j # l
        <5>1. l < j
          BY <4>2, <4>4, ConfigFacts
        <5>2. IdsAt(Q, l) \subseteq Below(Levels, Q, j)
          BY <5>1 DEF Below
        <5> QED BY <1>6, <2>4, <2>7, <4>1, <5>2 DEF Leads
      <4> QED BY <4>3, <4>4
    <3>4. ASSUME NEW j \in Levels
          PROVE  /\ IdsOf(R.queue[j]) = IdsOf(Q.queue[j]) \ {h.id}
                 /\ IdsOf(R.delayed[j]) = IdsOf(Q.delayed[j]) \ {h.id}
                 /\ LeadsIn(R.queue[j], F \ {h.id}) /\ LeadsIn(R.delayed[j], F \ {h.id})
      <4>1. CASE j = l
        <5>1. LeadsIn(s, F \ {h.id}) /\ IdsOf(s) = IdsOf(s) \ {h.id}
          BY <2>4, <3>1, LeadsInOthers
        <5> QED BY <1>3, <2>1, <2>2, <3>2, <4>1, <5>1
      <4>2. CASE j # l
        <5>1. h.id \notin IdsOf(Q.queue[j]) /\ h.id \notin IdsOf(Q.delayed[j])
          BY <1>6, <2>4, <4>2 DEF IdsAt
        <5>2. LeadsIn(Q.queue[j], F) /\ LeadsIn(Q.delayed[j], F)
          BY <2>7 DEF Leads
        <5>3. /\ LeadsIn(Q.queue[j], F \ {h.id}) /\ IdsOf(Q.queue[j]) = IdsOf(Q.queue[j]) \ {h.id}
              /\ LeadsIn(Q.delayed[j], F \ {h.id})
              /\ IdsOf(Q.delayed[j]) = IdsOf(Q.delayed[j]) \ {h.id}
          BY <5>1, <5>2, LeadsInOthers
        <5> QED BY <1>8, <4>2, <5>3
      <4> QED BY <4>1, <4>2
    <3>5. Lessened(Levels, Q, R, h.id, F)
      BY <3>4 DEF Lessened, IdsAt, InQueue
    <3> QED BY <2>7, <3>3, <3>5, LeadsLessened
  <2> QED BY <2>5, <2>6, <2>7
<1> QED BY <1>9, <1>10

(* A list that loses one of its requests, or gains one at its end.         *)
LEMMA LeadsInWithout ==
  ASSUME NEW E, NEW s \in Seq(E), NEW i \in Nat, i < Len(s), NoRepeat(s),
         NEW w, w = Without(s, i), NEW F, LeadsIn(s, F), NEW h, h = s[i + 1].id, h \notin F
  PROVE  /\ LeadsIn(w, F) /\ IdsOf(w) = IdsOf(s) \ {h}
         /\ \A j \in 1..Len(w) : \E k \in 1..Len(s) : w[j] = s[k]
<1>1. /\ w \in Seq(E) /\ Len(w) = Len(s) - 1 /\ Len(s) \in Nat
      /\ \A j \in 1..Len(w) : w[j] = s[IF j <= i THEN j ELSE j + 1]
      /\ IdsOf(s) = IdsOf(w) \cup {h} /\ h \notin IdsOf(w)
  BY WithoutIds
<1>2. PICK n \in Nat : n = Len(w)
  <2>1. Len(w) \in Nat
    BY ONLY <1>1
  <2> QED BY <2>1
<1>3. PICK m \in Nat : m = Len(s) /\ n = m - 1
  BY <1>1, <1>2
<1> DEFINE p(j) == IF j <= i THEN j ELSE j + 1
<1>4. \A j \in 1..n : p(j) \in 1..m /\ w[j] = s[p(j)]
  <2>1. \A j \in 1..n : p(j) \in 1..m
    BY <1>3
  <2> QED BY <1>1, <1>2, <2>1
<1>5. \A j, k \in 1..n : j < k => p(j) < p(k)
  OBVIOUS
<1> HIDE DEF p
<1>6. ASSUME NEW j \in 1..n, NEW k \in 1..n, j < k, w[k].id \in F PROVE w[j].id \in F
  <2>1. p(j) \in 1..m /\ p(k) \in 1..m /\ p(j) < p(k) /\ s[p(k)].id \in F
    BY <1>4, <1>5, <1>6
  <2>2. s[p(j)].id \in F
    BY <1>3, <2>1 DEF LeadsIn
  <2> QED BY <1>4, <2>2
<1>7. LeadsIn(w, F)
  BY <1>2, <1>6 DEF LeadsIn
<1>8. \A j \in 1..Len(w) : \E k \in 1..Len(s) : w[j] = s[k]
  BY <1>2, <1>3, <1>4
<1> QED BY <1>1, <1>7, <1>8

(* A request behind a list.                                                *)
LEMMA LeadsInAppend ==
  ASSUME NEW E, NEW s \in Seq(E), NEW e \in E, NEW w, w = Append(s, e),
         NEW F, LeadsIn(s, F), e.id \notin F
  PROVE  LeadsIn(w, F)
<1>1. PICK n \in Nat : n = Len(s)
  OBVIOUS
<1>2. Len(w) = n + 1 /\ w[n + 1] = e /\ \A i \in 1..n : w[i] = s[i]
  BY <1>1, AppendIds
<1>3. ASSUME NEW i \in 1..(n + 1), NEW j \in 1..(n + 1), i < j, w[j].id \in F
      PROVE  w[i].id \in F
  <2>1. j # n + 1
    BY <1>2, <1>3
  <2>2. ASSUME NEW x \in 1..(n + 1), NEW y \in 1..(n + 1), x < y, y # n + 1
        PROVE  y \in 1..n /\ x \in 1..n
    <3>1. n \in Nat
      OBVIOUS
    <3> QED BY ONLY <2>2, <3>1
  <2>3. j \in 1..n /\ i \in 1..n
    BY ONLY <1>3, <2>1, <2>2
  <2> QED BY <1>1, <1>2, <1>3, <2>3 DEF LeadsIn
<1> QED BY <1>2, <1>3 DEF LeadsIn

(* What leads the queue without the request at the cursor still does when  *)
(* that one expires.                                                       *)
LEMMA ExpireLeads ==
  ASSUME config \in DOMAIN ModelConfigs, NEW Q,
         QShape(Levels, Q), QPlaces(Levels, Q), CursorOK(Levels, Q),
         NEW x, CursorExpired(Q, x),
         NEW R, R = ExpireAtCursor(Q), NEW e, e = RequestAtCursor(Q)
  PROVE  /\ \A y : Listed(Levels, R, y) => Listed(Levels, Q, y)
         /\ \A F : Leads(Levels, Q, F) /\ e.id \notin F => Leads(Levels, R, F)
         /\ HasAt(Q, Q.cursor.level, Q.cursor.idx)
<1>1. PICK l \in Levels, i \in Nat : l = Q.cursor.level /\ i = Q.cursor.idx
  BY DEF CursorOK
<1>2. /\ Q.queue \in [Levels -> Seq(Entries(Levels))]
      /\ Q.delayed \in [Levels -> Seq(Entries(Levels))]
  BY DEF QShape
<1>3. PICK s, d : s = Q.queue[l] /\ d = Q.delayed[l]
  OBVIOUS
<1>4. /\ s \in Seq(Entries(Levels)) /\ Len(s) \in Nat
      /\ d \in Seq(Entries(Levels)) /\ Len(d) \in Nat
  BY <1>2, <1>3
<1>5. i < Len(s) /\ e = s[i + 1] /\ i + 1 \in 1..Len(s)
  <2>1. i < Len(s)
    BY <1>1, <1>3 DEF CursorExpired, TimeoutAt
  <2>2. e = s[i + 1]
    BY <1>1, <1>3, <2>1 DEF RequestAtCursor, At
  <2> QED BY <1>4, <2>1, <2>2
<1>6. /\ R.queue = Put(Q.queue, l, Without(s, i))
      /\ \/ R.delayed = Put(Q.delayed, l, Append(d, e))
         \/ R.delayed = Q.delayed
  BY <1>1, <1>3, <1>5, ExpireFields
<1>7. PICK w, D : w = Without(s, i) /\ D = R.delayed[l]
  OBVIOUS
<1>8. /\ R.queue[l] = w /\ R.delayed[l] = D /\ (D = Append(d, e) \/ D = d)
      /\ \A j \in Levels : j # l => R.queue[j] = Q.queue[j] /\ R.delayed[j] = Q.delayed[j]
  BY <1>2, <1>3, <1>6, <1>7 DEF Put
<1>9. /\ NoRepeat(s) /\ NoRepeat(d) /\ IdsOf(s) \cap IdsOf(d) = {}
      /\ \A j \in Levels : j # l => IdsAt(Q, j) \cap IdsAt(Q, l) = {}
      /\ IdsAt(Q, l) = IdsOf(s) \cup IdsOf(d)
  BY <1>3 DEF QPlaces, IdsAt
<1>10. PICK h : h = e.id
  OBVIOUS
<1>11. h \in IdsOf(s) /\ e \in Entries(Levels) /\ h \notin IdsOf(d)
  <2>1. h \in IdsOf(s)
    BY <1>5, <1>10 DEF IdsOf
  <2>2. e \in Entries(Levels)
    BY <1>4, <1>5
  <2> QED BY <1>9, <2>1, <2>2
<1>12. /\ Append(d, e) \in Seq(Entries(Levels)) /\ Len(Append(d, e)) = Len(d) + 1
       /\ Append(d, e)[Len(d) + 1] = e
       /\ \A j \in 1..Len(d) : Append(d, e)[j] = d[j]
       /\ IdsOf(Append(d, e)) = IdsOf(d) \cup {h}
  BY <1>4, <1>10, <1>11, AppendIds
<1>13. ASSUME NEW y, Listed(Levels, R, y) PROVE Listed(Levels, Q, y)
  <2>1. PICK j \in Levels : \/ \E k \in 1..Len(R.queue[j]) : R.queue[j][k] = y
                            \/ \E k \in 1..Len(R.delayed[j]) : R.delayed[j][k] = y
    BY <1>13 DEF Listed
  <2>2. CASE j # l
    BY <1>8, <2>1, <2>2 DEF Listed
  <2>3. CASE j = l /\ \E k \in 1..Len(w) : w[k] = y
    <3>1. LeadsIn(s, {})
      BY DEF LeadsIn
    <3>2. PICK k \in 1..Len(w) : w[k] = y
      BY <2>3
    <3>3. \E p \in 1..Len(s) : w[k] = s[p]
      BY <1>4, <1>5, <1>7, <1>9, <1>10, <3>1, LeadsInWithout
    <3> QED BY <1>3, <3>2, <3>3 DEF Listed
  <2>4. CASE j = l /\ \E k \in 1..Len(D) : D[k] = y
    <3>1. PICK k \in 1..Len(D) : D[k] = y
      BY <2>4
    <3>2. CASE D = d
      BY <1>3, <3>1, <3>2 DEF Listed
    <3>3. CASE D = Append(d, e)
      <4>1. CASE k = Len(d) + 1
        <5>1. y = s[i + 1]
          BY <1>5, <1>12, <3>1, <3>3, <4>1
        <5> QED BY <1>3, <1>5, <5>1 DEF Listed
      <4>2. CASE k # Len(d) + 1
        <5>1. k \in 1..(Len(d) + 1)
          BY <1>12, <3>1, <3>3
        <5>2. k \in 1..Len(d)
          BY <1>4, <4>2, <5>1
        <5>3. d[k] = y
          BY <1>12, <3>1, <3>3, <5>2
        <5> QED BY <1>3, <5>2, <5>3 DEF Listed
      <4> QED BY <4>1, <4>2
    <3> QED BY <1>8, <3>2, <3>3
  <2> QED BY <1>8, <2>1, <2>2, <2>3, <2>4
<1>14. ASSUME NEW F, Leads(Levels, Q, F), h \notin F PROVE Leads(Levels, R, F)
  <2>1. LeadsIn(s, F) /\ LeadsIn(d, F)
    BY <1>3, <1>14 DEF Leads
  <2>2. LeadsIn(w, F) /\ IdsOf(w) = IdsOf(s) \ {h}
    BY <1>4, <1>5, <1>7, <1>9, <1>10, <1>14, <2>1, LeadsInWithout
  <2>3. LeadsIn(D, F) /\ IdsOf(D) \ {h} = IdsOf(d) \ {h} /\ IdsOf(D) \subseteq IdsOf(d) \cup {h}
    <3>1. CASE D = d
      BY <2>1, <3>1
    <3>2. CASE D = Append(d, e)
      <4>1. LeadsIn(D, F)
        BY <1>4, <1>10, <1>11, <1>14, <2>1, <3>2, LeadsInAppend
      <4> QED BY <1>12, <3>2, <4>1
    <3> QED BY <1>8, <3>1, <3>2
  <2>4. F \ {h} = F
    BY <1>14
  <2>5. ASSUME NEW j \in Levels
        PROVE  /\ IdsOf(R.queue[j]) = IdsOf(Q.queue[j]) \ {h}
               /\ IdsOf(R.delayed[j]) \ {h} = IdsOf(Q.delayed[j]) \ {h}
               /\ IdsAt(R, j) \subseteq IdsAt(Q, j)
               /\ LeadsIn(R.queue[j], F) /\ LeadsIn(R.delayed[j], F)
    <3>1. CASE j = l
      <4>1. IdsAt(R, l) = IdsOf(w) \cup IdsOf(D)
        BY <1>8 DEF IdsAt
      <4> QED BY <1>3, <1>8, <1>9, <1>11, <2>2, <2>3, <3>1, <4>1
    <3>2. CASE j # l
      <4>1. h \notin IdsAt(Q, j)
        BY <1>9, <1>11, <3>2
      <4>2. LeadsIn(Q.queue[j], F) /\ LeadsIn(Q.delayed[j], F)
        BY <1>14 DEF Leads
      <4> QED BY <1>8, <3>2, <4>1, <4>2 DEF IdsAt
    <3> QED BY <3>1, <3>2
  <2>6. Lessened(Levels, Q, R, h, F)
    BY <1>14, <2>4, <2>5 DEF Lessened
  <2>7. Leads(Levels, R, F \ {h})
    BY <1>14, <2>6, LeadsLessened
  <2> QED BY <2>4, <2>7
<1>15. HasAt(Q, Q.cursor.level, Q.cursor.idx)
  <2>1. PICK m1 \in Nat, m2 \in Nat : m1 = Len(s) /\ m2 = Len(d)
    BY <1>4
  <2>2. PolicySize(Q, l) = m1 + m2 /\ i < m1
    BY <1>3, <1>5, <2>1 DEF PolicySize
  <2>3. i < m1 + m2
    BY <2>2
  <2> QED BY <1>1, <2>2, <2>3 DEF HasAt
<1> QED BY <1>10, <1>13, <1>14, <1>15

(* An arrival.                                                             *)
LEMMA EnqueueListed ==
  ASSUME NEW L, NEW Q, QShape(L, Q), NEW l \in L, NEW e, NEW x,
         Stamped(e, l, x) \in Entries(L), NEW R, R = EnqueueAt(Q, l, e, x),
         NEW y, Listed(L, R, y)
  PROVE  Listed(L, Q, y) \/ y = Stamped(e, l, x)
<1>1. PICK a : a = Stamped(e, l, x)
  OBVIOUS
<1>2. /\ Q.queue \in [L -> Seq(Entries(L))] /\ R.delayed = Q.delayed
      /\ R.queue = [Q.queue EXCEPT ![l] = Append(Q.queue[l], a)]
  <2>1. Q.queue \in [L -> Seq(Entries(L))]
    BY DEF QShape
  <2>2. /\ R.delayed = Q.delayed
        /\ R.queue = [Q.queue EXCEPT ![l] = Append(Q.queue[l], Stamped(e, l, x))]
    BY EnqueueFields
  <2> QED BY ONLY <1>1, <2>1, <2>2
<1>3. PICK s : s = Q.queue[l]
  OBVIOUS
<1>4. s \in Seq(Entries(L)) /\ Len(s) \in Nat /\ a \in Entries(L)
  BY <1>1, <1>2, <1>3
<1>5. R.queue[l] = Append(s, a) /\ \A j \in L : j # l => R.queue[j] = Q.queue[j]
  BY <1>2, <1>3
<1>6. /\ Len(Append(s, a)) = Len(s) + 1 /\ Append(s, a)[Len(s) + 1] = a
      /\ \A j \in 1..Len(s) : Append(s, a)[j] = s[j]
  BY <1>4, AppendIds
<1>7. PICK j \in L : \/ \E k \in 1..Len(R.queue[j]) : R.queue[j][k] = y
                     \/ \E k \in 1..Len(R.delayed[j]) : R.delayed[j][k] = y
  BY DEF Listed
<1>8. CASE j # l \/ \E k \in 1..Len(R.delayed[j]) : R.delayed[j][k] = y
  BY <1>2, <1>5, <1>7, <1>8 DEF Listed
<1>9. CASE j = l /\ \E k \in 1..Len(R.queue[j]) : R.queue[j][k] = y
  <2>1. PICK k \in 1..Len(s) + 1 : Append(s, a)[k] = y
    BY <1>5, <1>6, <1>9
  <2>2. CASE k = Len(s) + 1
    BY <1>1, <1>6, <2>1, <2>2
  <2>3. CASE k # Len(s) + 1
    <3>1. k \in 1..Len(s)
      BY <1>4, <2>1, <2>3
    <3>2. s[k] = y
      BY <1>6, <2>1, <3>1
    <3> QED BY <1>3, <3>1, <3>2 DEF Listed
  <2> QED BY <2>2, <2>3
<1> QED BY <1>7, <1>8, <1>9

----------------------------------------------------------------------------
(* What the parts of BInv say does not change with the other requests'     *)
(* objects.                                                                *)
LEMMA PendingSame ==
  ASSUME NEW C, NEW L, NEW R, NEW S, NEW Q, NEW n, NEW x, Pending(C, L, R, Q, n, x),
         \A r \in FrontIds(L, Q) : S[r] = R[r]
  PROVE  Pending(C, L, S, Q, n, x)
<1>1. Fits(C, R, FrontIds(L, Q), n)
  BY DEF Pending
<1>2. Fits(C, S, FrontIds(L, Q), n)
  BY <1>1, FitsSame
<1> QED BY <1>2 DEF Pending

(* So with the mark.                                                       *)
LEMMA MarkedSame ==
  ASSUME NEW C, NEW L, NEW R, NEW S, NEW Q, NEW n, Marked(C, L, R, Q, n),
         \A r \in FrontIds(L, Q) : S[r] = R[r]
  PROVE  Marked(C, L, S, Q, n)
<1>1. PICK M \in SUBSET FrontIds(L, Q) :
        Leads(L, Q, M) /\ Cardinality(M) = Q.mark.count /\ Fits(C, R, M, n)
  BY DEF Marked
<1>2. \A r \in M : S[r] = R[r]
  BY <1>1
<1>3. Fits(C, S, M, n)
  BY <1>1, <1>2, FitsSame
<1> QED BY <1>1, <1>3 DEF Marked

(* So with the batch that is dequeued.                                     *)
LEMMA TakingSame ==
  ASSUME NEW C, NEW L, NEW R, NEW S, NEW Q, NEW s, NEW k, Taking(C, L, R, Q, s, k),
         \A r \in InQueue(L, Q) \cup IdsOf(s) : S[r] = R[r]
  PROVE  Taking(C, L, S, Q, s, k)
<1>1. Weighs(R, IdsOf(s), BatchTotal(s))
  BY DEF Taking
<1>2. Cells(S, IdsOf(s)) = Cells(R, IdsOf(s))
  BY CellsSame
<1>3. Weighs(S, IdsOf(s), BatchTotal(s))
  BY <1>1, <1>2 DEF Weighs
<1>4. PICK F \in SUBSET Requests, n \in Nat :
        /\ Leads(L, Q, F) /\ Cardinality(F) + Len(s) = k
        /\ Fits(C, R, F \cup IdsOf(s), n)
  BY DEF Taking
<1>5. \A r \in F \cup IdsOf(s) : S[r] = R[r]
  BY <1>4 DEF Leads
<1>6. PICK G : G = F \cup IdsOf(s)
  OBVIOUS
<1>7. Fits(C, S, G, n)
  BY <1>4, <1>5, <1>6, FitsSame
<1> QED BY <1>3, <1>4, <1>6, <1>7 DEF Taking

(* An entry of the queue and its request.                                  *)
LEMMA QueueSameIs ==
  ASSUME NEW L, NEW R, NEW S, NEW Q, QueueSame(L, R, Q),
         \A r \in InQueue(L, Q) : S[r] = R[r]
  PROVE  QueueSame(L, S, Q)
<1>1. ASSUME NEW e, Listed(L, Q, e) PROVE Same(S, e)
  <2>1. Same(R, e)
    BY <1>1 DEF QueueSame
  <2>2. S[e.id] = R[e.id]
    BY <1>1, ListedInQueue
  <2> QED BY <2>1, <2>2 DEF Same
<1> QED BY <1>1 DEF QueueSame

(* The empty batch is one.                                                 *)
LEMMA FormedNone ==
  ASSUME NEW C, NEW s, s = << >>
  PROVE  Formed(C, s)
<1>1. Len(s) = 0
  OBVIOUS
<1> QED BY <1>1 DEF Formed

\* The batches that are handed over in the next state.
NextFormed ==
  \A u \in Threads : pc'[u] \in {"after", "execute"} => Formed(Config, requests'[u])

(* No thread forms a batch after the step.                                 *)
LEMMA BatchesQuiet ==
  ASSUME config' = config, \A u \in Threads : pc'[u] \notin Inside,
         QueueSame(Levels, req', q'),
         q'.cursor.valid =>
           Pending(Config, Levels, req', q', pendingBatchSize', requiredEqual'),
         NextFormed
  PROVE  BInv'
<1>1. Levels' = Levels /\ Threads' = Threads /\ Config' = Config
  BY SameConfig DEF Config
<1>2. ~Scans' /\ \A u \in Threads : pc'[u] # "dequeue"
  BY <1>1 DEF Scans, Inside
<1>3. Usable' => q'.cursor.valid
  BY <1>2 DEF Usable
<1> QED BY <1>1, <1>2, <1>3 DEF BInv, NextFormed

(* Thread t is inside GetDynamicBatch after it.                            *)
LEMMA BatchesScan ==
  ASSUME config' = config, NEW t \in Threads, pc'[t] \in Scanning,
         \A u \in Threads : u # t => pc'[u] \notin Inside,
         QueueSame(Levels, req', q'),
         Pending(Config, Levels, req', q', pendingBatchSize', requiredEqual'),
         scan'.best # 0 => Marked(Config, Levels, req', q', scan'.best),
         NextFormed
  PROVE  BInv'
<1>1. Levels' = Levels /\ Threads' = Threads /\ Config' = Config
  BY SameConfig DEF Config
<1>2. \A u \in Threads : pc'[u] # "dequeue"
  BY DEF Inside, Scanning
<1> QED BY <1>1, <1>2 DEF BInv, NextFormed

(* Thread t dequeues its batch after it.                                   *)
LEMMA BatchesTake ==
  ASSUME config' = config, NEW t \in Threads, pc'[t] = "dequeue",
         \A u \in Threads : u # t => pc'[u] \notin Inside,
         QueueSame(Levels, req', q'), AllSame(req', requests'[t]),
         Taking(Config, Levels, req', q', requests'[t], q'.cursor.count),
         NextFormed
  PROVE  BInv'
<1>1. Levels' = Levels /\ Threads' = Threads /\ Config' = Config
  BY SameConfig DEF Config
<1>2. ~Scans' /\ \A u \in Threads : pc'[u] = "dequeue" => u = t
  BY <1>1 DEF Scans, Inside, Scanning
<1>3. ~Usable'
  BY <1>1, <1>2 DEF Usable
<1> QED BY <1>1, <1>2, <1>3 DEF BInv, NextFormed

\* A thread keeps its batch or gives it up.
KeepsBatch(u) ==
  /\ requests'[u] = requests[u] \/ requests'[u] = << >>
  /\ pc'[u] \in {"after", "execute"} => pc[u] \in {"after", "execute"} \/ requests'[u] = << >>

(* Then every batch that is handed over was one.                           *)
LEMMA StillFormed ==
  ASSUME BInv, \A u \in Threads : KeepsBatch(u)
  PROVE  NextFormed
<1>1. ASSUME NEW u \in Threads, pc'[u] \in {"after", "execute"}
      PROVE  Formed(Config, requests'[u])
  <2>1. CASE requests'[u] = << >>
    BY <2>1, FormedNone
  <2>2. CASE requests'[u] # << >>
    <3>1. requests'[u] = requests[u] /\ pc[u] \in {"after", "execute"}
      BY <1>1, <2>2 DEF KeepsBatch
    <3> QED BY <3>1 DEF BInv
  <2> QED BY <2>1, <2>2
<1> QED BY <1>1 DEF NextFormed

\* Thread u is inside the critical section of a batch in both states or in none.
StaysInside(u) == pc'[u] = pc[u] \/ (pc[u] \notin Inside /\ pc'[u] \notin Inside)

(* A step that leaves the queue, the pending batch and what is known of    *)
(* the queued requests alone.                                              *)
LEMMA BatchesFrame ==
  ASSUME DInv, BInv, config' = config,
         UNCHANGED <<q, scan, pendingBatchSize, requiredEqual>>,
         \A u \in Threads : StaysInside(u) /\ KeepsBatch(u),
         \A u \in Threads : pc[u] = "dequeue" => requests'[u] = requests[u],
         \A r \in InQueue(Levels, q) : req'[r] = req[r],
         \A u \in Threads : pc[u] = "dequeue" => \A r \in Batched(u) : req'[r] = req[r]
  PROVE  BInv'
<1>1. /\ Levels' = Levels /\ Threads' = Threads /\ Config' = Config
      /\ q' = q /\ scan' = scan /\ pendingBatchSize' = pendingBatchSize
      /\ requiredEqual' = requiredEqual
  BY SameConfig DEF Config
<1>2. QueueSame(Levels, req', q)
  <2>1. QueueSame(Levels, req, q)
    BY DEF BInv
  <2> QED BY <2>1, QueueSameIs
<1>3. NextFormed
  BY StillFormed
<1>4. CASE \A u \in Threads : pc[u] \notin Inside
  <2>1. \A u \in Threads : pc'[u] \notin Inside
    BY <1>4 DEF StaysInside
  <2>2. ASSUME q.cursor.valid
        PROVE  Pending(Config, Levels, req', q, pendingBatchSize, requiredEqual)
    <3>1. \A u \in Threads : pc[u] # "dequeue"
      BY <1>4 DEF Inside
    <3>2. CursorOK(Levels, q) /\ Pending(Config, Levels, req, q, pendingBatchSize, requiredEqual)
      BY <2>2, <3>1 DEF BInv, Usable, DInv, CursorInv
    <3>3. QShape(Levels, q)
      BY DEF DInv, QueueInv
    <3>4. \A r \in FrontIds(Levels, q) : req'[r] = req[r]
      BY <3>2, <3>3, FrontInQueue
    <3> QED BY <3>2, <3>4, PendingSame
  <2> QED BY <1>1, <1>2, <1>3, <2>1, <2>2, BatchesQuiet
<1>5. ASSUME NEW t \in Threads, pc[t] \in Scanning PROVE BInv'
  <2>1. /\ CursorOK(Levels, q) /\ QShape(Levels, q)
        /\ \A u \in Threads : u # t => pc[u] \notin Inside
    BY <1>5, HolderFacts
  <2>2. \A r \in FrontIds(Levels, q) : req'[r] = req[r]
    BY <2>1, FrontInQueue
  <2>3. Scans
    BY <1>5 DEF Scans
  <2>4. Pending(Config, Levels, req, q, pendingBatchSize, requiredEqual)
    BY <2>3 DEF BInv, Usable
  <2>5. Pending(Config, Levels, req', q, pendingBatchSize, requiredEqual)
    BY <2>2, <2>4, PendingSame
  <2>6. ASSUME scan.best # 0 PROVE Marked(Config, Levels, req', q, scan.best)
    <3>1. Marked(Config, Levels, req, q, scan.best)
      BY <2>3, <2>6 DEF BInv
    <3> QED BY <2>2, <3>1, MarkedSame
  <2>7. pc'[t] \in Scanning /\ \A u \in Threads : u # t => pc'[u] \notin Inside
    BY <1>5, <2>1 DEF StaysInside, Inside
  <2> QED BY <1>1, <1>2, <1>3, <2>5, <2>6, <2>7, BatchesScan
<1>6. ASSUME NEW t \in Threads, pc[t] = "dequeue" PROVE BInv'
  <2>1. pc[t] \in Inside
    BY <1>6 DEF Inside
  <2>2. \A u \in Threads : u # t => pc[u] \notin Inside
    BY <2>1, MuFacts DEF DInv
  <2>3. /\ AllSame(req, requests[t])
        /\ Taking(Config, Levels, req, q, requests[t], q.cursor.count)
    BY <1>6 DEF BInv
  <2>4. PICK s : s = requests[t]
    OBVIOUS
  <2>5. requests'[t] = s /\ \A r \in IdsOf(s) : req'[r] = req[r]
    BY <1>6, <2>4 DEF Batched
  <2>6. AllSame(req', s)
    <3>1. \A i \in 1..Len(s) : s[i].id \in IdsOf(s)
      BY DEF IdsOf
    <3> QED BY <2>3, <2>4, <2>5, <3>1 DEF AllSame, Same
  <2>7. Taking(Config, Levels, req', q, s, q.cursor.count)
    BY <2>3, <2>4, <2>5, TakingSame
  <2>8. pc'[t] = "dequeue" /\ \A u \in Threads : u # t => pc'[u] \notin Inside
    BY <1>6, <2>1, <2>2 DEF StaysInside
  <2> QED BY <1>1, <1>2, <1>3, <2>5, <2>6, <2>7, <2>8, BatchesTake
<1> QED BY <1>4, <1>5, <1>6 DEF Inside

\* What the frame of a step leaves alone.
batchFrame == <<q, scan, pendingBatchSize, requiredEqual>>

(* A step that moves threads outside the critical section.                 *)
LEMMA MoveBatches ==
  ASSUME DInv, BInv, config' = config, UNCHANGED batchFrame, UNCHANGED <<req, requests>>,
         \A u \in Threads : StaysInside(u),
         \A u \in Threads : pc'[u] \in {"after", "execute"} =>
           pc[u] \in {"after", "execute"} \/ requests[u] = << >>
  PROVE  BInv'
<1>1. req' = req /\ requests' = requests
  OBVIOUS
<1>2. \A u \in Threads : KeepsBatch(u)
  BY <1>1 DEF KeepsBatch
<1> QED BY <1>1, <1>2, BatchesFrame DEF batchFrame

(* One thread moves.                                                       *)
LEMMA MoveOne ==
  ASSUME DInv, BInv, config' = config, UNCHANGED batchFrame, UNCHANGED <<req, requests>>,
         NEW t \in Threads, NEW v \in PCs, pc' = [pc EXCEPT ![t] = v],
         pc[t] \notin Inside \cup {"after", "execute"}, v \notin Inside
  PROVE  BInv'
<1>1. pc \in [Threads -> PCs] /\ requests[t] = << >>
  BY DEF DInv, ThreadsInv, Inside
<1>2. pc'[t] = v /\ \A u \in Threads : u # t => pc'[u] = pc[u]
  BY <1>1, PcFacts
<1>3. \A u \in Threads : StaysInside(u)
  BY <1>2 DEF StaysInside
<1>4. \A u \in Threads : pc'[u] \in {"after", "execute"} =>
        pc[u] \in {"after", "execute"} \/ requests[u] = << >>
  BY <1>1, <1>2
<1> QED BY <1>3, <1>4, MoveBatches

(* notify_one.                                                             *)
LEMMA NotifyBatches ==
  ASSUME DInv, BInv, config' = config, UNCHANGED batchFrame, UNCHANGED <<req, requests>>,
         NotifyOne
  PROVE  BInv'
<1>1. CASE pc' = pc
  BY <1>1, MoveBatches DEF StaysInside
<1>2. ASSUME NEW t \in Waiting, pc' = [pc EXCEPT ![t] = "woken"] PROVE BInv'
  <2>1. t \in Threads /\ pc[t] \notin Inside \cup {"after", "execute"}
    BY DEF Waiting, Inside, Scanning
  <2>2. "woken" \in PCs /\ "woken" \notin Inside
    BY DEF PCs, Inside, Scanning
  <2> QED BY <1>2, <2>1, <2>2, MoveOne
<1> QED BY <1>1, <1>2 DEF NotifyOne

(* The steps of threads outside the critical section.                      *)
LEMMA ThreadMoves ==
  ASSUME DInv, BInv, config' = config, NEW t \in Threads,
         CheckExit(t) \/ WaitForWork(t) \/ WakeUp(t) \/ LoopEnd(t)
  PROVE  BInv'
<1>1. UNCHANGED batchFrame /\ UNCHANGED <<req, requests>>
  BY DEF CheckExit, WaitForWork, WakeUp, LoopEnd, batchVars, clientVars, batchFrame
<1>2. PICK v \in {"exited", "lock", "waiting", "after", "top"} : pc' = [pc EXCEPT ![t] = v]
  BY DEF CheckExit, WaitForWork, WakeUp, LoopEnd
<1>3. pc[t] \in {"top", "lock", "woken", "waiting", "reject"}
  BY DEF CheckExit, WaitForWork, WakeUp, LoopEnd, Runs
<1>4. pc[t] \notin Inside \cup {"after", "execute"} /\ v \in PCs /\ v \notin Inside
  BY <1>2, <1>3 DEF Inside, Scanning, PCs
<1> QED BY <1>1, <1>2, <1>4, MoveOne

(* The notifications.                                                      *)
LEMMA Notifications ==
  ASSUME DInv, BInv, config' = config,
         \/ \E t \in Threads : WakeOther(t)
         \/ \E r \in Requests : ClientNotify(r)
  PROVE  BInv'
<1>1. UNCHANGED batchFrame /\ UNCHANGED <<req, requests>> /\ NotifyOne
  BY DEF WakeOther, ClientNotify, batchVars, clientVars, batchFrame
<1> QED BY <1>1, NotifyBatches

(* The clock, the destructor and the responses.                            *)
LEMMA QuietSteps ==
  ASSUME DInv, BInv, config' = config,
         \/ Tick \/ SignalExit \/ JoinThreads \/ Unload
         \/ \E r \in Requests : BackendResponds(r)
  PROVE  BInv'
<1>1. UNCHANGED batchFrame /\ UNCHANGED <<req, requests>>
  BY DEF Tick, SignalExit, JoinThreads, Unload, BackendResponds, batchVars, clientVars,
         batchFrame
<1>2. pc' = pc \/ pc' = [t \in Threads |-> IF pc[t] = "waiting" THEN "woken" ELSE pc[t]]
  BY DEF Tick, SignalExit, JoinThreads, Unload, BackendResponds
<1>3. \A u \in Threads : pc'[u] = pc[u] \/ (pc[u] = "waiting" /\ pc'[u] = "woken")
  BY <1>2
<1>4. \A u \in Threads : StaysInside(u)
  BY <1>3 DEF StaysInside, Inside, Scanning
<1>5. \A u \in Threads : pc'[u] \in {"after", "execute"} => pc[u] \in {"after", "execute"}
  BY <1>3
<1> QED BY <1>1, <1>4, <1>5, MoveBatches

(* A stuttering step.                                                      *)
LEMMA StutterBatches ==
  ASSUME DInv, BInv, UNCHANGED vars
  PROVE  BInv'
<1>1. /\ config' = config /\ pc' = pc
      /\ UNCHANGED batchFrame /\ UNCHANGED <<req, requests>>
  BY DEF vars, batchVars, clientVars, batchFrame
<1>2. \A u \in Threads : StaysInside(u)
  BY <1>1 DEF StaysInside
<1> QED BY <1>1, <1>2, MoveBatches

(* OnScheduleReturns: the batch is done with.                              *)
LEMMA ReturnBatches ==
  ASSUME DInv, BInv, config' = config, NEW t \in Threads, OnScheduleReturns(t)
  PROVE  BInv'
<1>1. /\ UNCHANGED batchFrame /\ req' = req /\ pc[t] = "execute"
      /\ pc' = [pc EXCEPT ![t] = "reject"] /\ requests' = [requests EXCEPT ![t] = << >>]
  BY DEF OnScheduleReturns, Runs, batchVars, clientVars, batchFrame
<1>2. pc \in [Threads -> PCs] /\ "reject" \in PCs /\ DOMAIN requests = Threads
  BY DEF DInv, ThreadsInv, PCs
<1>3. pc'[t] = "reject" /\ \A u \in Threads : u # t => pc'[u] = pc[u]
  BY <1>1, <1>2, PcFacts
<1>4. requests'[t] = << >> /\ \A u \in Threads : u # t => requests'[u] = requests[u]
  BY <1>1, <1>2
<1>5. "reject" \notin Inside /\ "execute" \notin Inside
  BY DEF Inside, Scanning
<1>6. \A u \in Threads : StaysInside(u) /\ KeepsBatch(u)
  BY <1>1, <1>3, <1>4, <1>5 DEF StaysInside, KeepsBatch
<1>7. \A u \in Threads : pc[u] = "dequeue" => requests'[u] = requests[u]
  BY <1>1, <1>4
<1> QED BY <1>1, <1>6, <1>7, BatchesFrame DEF batchFrame

(* A request that is neither queued nor batched changes.                   *)
LEMMA OneRequest ==
  ASSUME DInv, BInv, config' = config, UNCHANGED batchFrame, UNCHANGED <<pc, requests>>,
         NEW x, st[x] # "queued", NEW e, req' = [req EXCEPT ![x] = e]
  PROVE  BInv'
<1>1. pc' = pc /\ requests' = requests
  OBVIOUS
<1>2. \A u \in Threads : StaysInside(u) /\ KeepsBatch(u)
  BY <1>1 DEF StaysInside, KeepsBatch
<1>3. \A r : r # x => req'[r] = req[r]
  OBVIOUS
<1>4. \A r \in InQueue(Levels, q) : r # x
  BY DEF DInv, OwnersInv
<1>5. \A u \in Threads : pc[u] = "dequeue" => \A r \in Batched(u) : r # x
  BY DEF DInv, OwnersInv
<1> QED BY <1>1, <1>2, <1>3, <1>4, <1>5, BatchesFrame DEF batchFrame

(* The steps that do so.                                                   *)
LEMMA RequestSteps ==
  ASSUME DInv, BInv, config' = config,
         \/ \E r \in Requests : CaptureQueueStart(r) \/ Refuse(r) \/ BackendReleases(r)
         \/ \E t \in Threads : RejectOne(t)
  PROVE  BInv'
<1>1. ASSUME NEW r \in Requests, CaptureQueueStart(r) PROVE BInv'
  <2>1. /\ UNCHANGED batchFrame /\ UNCHANGED <<pc, requests>> /\ st[r] # "queued"
        /\ \E e : req' = [req EXCEPT ![r] = e]
    BY <1>1 DEF CaptureQueueStart, batchVars, batchFrame
  <2> QED BY <2>1, OneRequest
<1>2. ASSUME NEW r \in Requests, Refuse(r) \/ BackendReleases(r) PROVE BInv'
  <2>1. /\ UNCHANGED batchFrame /\ UNCHANGED <<pc, requests>> /\ st[r] # "queued"
        /\ req' = [req EXCEPT ![r] = NoRequest]
    BY <1>2 DEF Refuse, BackendReleases, batchVars, batchFrame
  <2> QED BY <2>1, OneRequest
<1>3. ASSUME NEW t \in Threads, RejectOne(t) PROVE BInv'
  <2>1. PICK x : x = Head(rejected[t]).id
    OBVIOUS
  <2>2. /\ UNCHANGED batchFrame /\ UNCHANGED <<pc, requests>> /\ rejected[t] # << >>
        /\ req' = [req EXCEPT ![x] = NoRequest]
    BY <1>3, <2>1 DEF RejectOne, batchVars, batchFrame
  <2>3. st[x] # "queued"
    <3>1. rejected[t] \in Seq(Entries(Levels))
      BY DEF DInv, ThreadsInv
    <3>2. Len(rejected[t]) \in Nat /\ Len(rejected[t]) # 0
      BY <2>2, <3>1
    <3>3. 1 \in 1..Len(rejected[t]) /\ Head(rejected[t]) = rejected[t][1]
      BY <2>2, <3>1, <3>2
    <3>4. x \in Refused(t)
      BY <2>1, <3>3 DEF Refused, IdsOf
    <3>5. st[x] = "expired"
      BY <3>4 DEF DInv, OwnersInv
    <3> QED BY <3>5
  <2> QED BY <2>2, <2>3, OneRequest
<1> QED BY <1>1, <1>2, <1>3

(* OnSchedule: the batch is handed to the backend.                         *)
LEMMA ScheduleBatches ==
  ASSUME DInv, BInv, config' = config, NEW t \in Threads, OnSchedule(t)
  PROVE  BInv'
<1>1. /\ UNCHANGED batchFrame /\ requests' = requests /\ pc[t] = "after"
      /\ \A r \in Requests : ~InBatch(t, r) => req'[r] = req[r]
  BY DEF OnSchedule, Runs, batchVars, clientVars, batchFrame
<1>2. PICK v \in {"reject", "execute"} : pc' = [pc EXCEPT ![t] = v]
  BY DEF OnSchedule
<1>3. pc \in [Threads -> PCs] /\ v \in PCs
  BY DEF DInv, ThreadsInv, PCs
<1>4. pc'[t] = v /\ \A u \in Threads : u # t => pc'[u] = pc[u]
  BY <1>2, <1>3, PcFacts
<1>5. "after" \notin Inside /\ v \notin Inside
  BY DEF Inside, Scanning
<1>6. \A u \in Threads : StaysInside(u) /\ KeepsBatch(u)
  BY <1>1, <1>4, <1>5 DEF StaysInside, KeepsBatch
<1>7. \A r : InBatch(t, r) => r \in Batched(t)
  BY DEF InBatch, Batched, IdsOf
<1>8. /\ InQueue(Levels, q) \subseteq Requests
      /\ \A u \in Threads : Batched(u) \subseteq Requests
  BY OwnedAreRequests DEF DInv
<1>9. \A r \in InQueue(Levels, q) : r \notin Batched(t)
  BY <1>1 DEF DInv, OwnersInv
<1>10. \A u \in Threads : pc[u] = "dequeue" => \A r \in Batched(u) : r \notin Batched(t)
  <2>1. \A u \in Threads : pc[u] = "dequeue" => Batched(t) \cap Batched(u) = {}
    BY <1>1 DEF DInv, OwnersInv
  <2> QED BY <2>1
<1>11. /\ \A r \in InQueue(Levels, q) : req'[r] = req[r]
       /\ \A u \in Threads : pc[u] = "dequeue" => \A r \in Batched(u) : req'[r] = req[r]
  BY <1>1, <1>7, <1>8, <1>9, <1>10
<1> QED BY <1>1, <1>6, <1>11, BatchesFrame DEF batchFrame

----------------------------------------------------------------------------
(* Steps of the thread that forms a batch.  The queue P after the step     *)
(* against the queue Q before it.                                          *)
LEMMA QueueSameListed ==
  ASSUME NEW L, NEW R, NEW Q, NEW P, QueueSame(L, R, Q),
         \A e : Listed(L, P, e) => Listed(L, Q, e)
  PROVE  QueueSame(L, R, P)
BY DEF QueueSame

(* The same requests are in front of the cursor.                           *)
LEMMA PendingMoves ==
  ASSUME NEW C, NEW L, NEW R, NEW Q, NEW P, NEW n, NEW x, Pending(C, L, R, Q, n, x),
         FrontIds(L, P) = FrontIds(L, Q), P.cursor.count = Q.cursor.count
  PROVE  Pending(C, L, R, P, n, x)
BY DEF Pending

(* The mark stays where it is.                                             *)
LEMMA MarkedMoves ==
  ASSUME NEW C, NEW L, NEW R, NEW Q, NEW P, NEW n, Marked(C, L, R, Q, n),
         FrontIds(L, Q) \subseteq FrontIds(L, P), P.mark.count = Q.mark.count,
         \A F \in SUBSET FrontIds(L, Q) : Leads(L, Q, F) => Leads(L, P, F)
  PROVE  Marked(C, L, R, P, n)
<1>1. PICK M \in SUBSET FrontIds(L, Q) :
        Leads(L, Q, M) /\ Cardinality(M) = Q.mark.count /\ Fits(C, R, M, n)
  BY DEF Marked
<1>2. M \in SUBSET FrontIds(L, P) /\ Leads(L, P, M)
  BY <1>1
<1> QED BY <1>1, <1>2 DEF Marked

(* The mark is put where the cursor is.                                    *)
LEMMA MarkedHere ==
  ASSUME config \in DOMAIN ModelConfigs, NEW C, NEW R, NEW Q, NEW P, NEW n, NEW x,
         QShape(Levels, Q), QPlaces(Levels, Q), CursorOK(Levels, Q),
         Pending(C, Levels, R, Q, n, x),
         P.queue = Q.queue, P.delayed = Q.delayed, P.mark.count = Q.cursor.count,
         FrontIds(Levels, Q) \subseteq FrontIds(Levels, P)
  PROVE  Marked(C, Levels, R, P, n)
<1>1. PICK M : M = FrontIds(Levels, Q)
  OBVIOUS
<1>2. Leads(Levels, Q, M)
  BY <1>1, FrontLeads
<1>3. Leads(Levels, P, M)
  BY <1>2, SameLeads
<1>4. Cardinality(M) = P.mark.count
  BY <1>1 DEF CursorOK
<1>5. Fits(C, R, M, n)
  BY <1>1 DEF Pending
<1>6. M \in SUBSET FrontIds(Levels, P)
  BY <1>1
<1> QED BY <1>3, <1>4, <1>5, <1>6 DEF Marked

(* Nothing is in front of a cursor that counts nothing.                    *)
LEMMA PendingNone ==
  ASSUME NEW C, C.maxBatchSize \in Nat, NEW L, NEW R, NEW Q, NEW x,
         QShape(L, Q), CursorOK(L, Q), Q.cursor.count = 0
  PROVE  Pending(C, L, R, Q, 0, x)
<1>1. PICK M : M = FrontIds(L, Q)
  OBVIOUS
<1>2. M \subseteq Requests
  <2>1. M \subseteq InQueue(L, Q)
    BY <1>1, FrontInQueue
  <2> QED BY <2>1, InQueueFacts
<1>3. IsFiniteSet(M)
  BY <1>2, InQueueFacts
<1>4. Cardinality(M) = 0
  BY <1>1 DEF CursorOK
<1>5. M = {}
  BY <1>3, <1>4, FS_EmptySet
<1>6. Fits(C, R, {}, 0)
  BY FitsNone
<1>7. Fits(C, R, FrontIds(L, Q), 0)
  BY <1>1, <1>5, <1>6
<1>8. ~(Q.cursor.count > 0)
  OBVIOUS
<1> QED BY <1>7, <1>8 DEF Pending

(* max_batch_size_ is a number.                                            *)
LEMMA LimitFacts ==
  ASSUME config \in DOMAIN ModelConfigs
  PROVE  Config.maxBatchSize \in Nat /\ Config.enforceEqualShape \in BOOLEAN
BY DynamicBatchSchedulerAssumption DEF Config

(* What holds after such a step besides.                                   *)
LEMMA HoldBatches ==
  ASSUME DInv, BInv, config' = config, NEW t \in Threads, NEW v \in PCs,
         pc' = [pc EXCEPT ![t] = v], requests' = requests,
         pc[t] \in Scanning \cup {"lock"}, pc[t] = "lock" => mu = 0
  PROVE  /\ pc'[t] = v /\ \A u \in Threads : u # t => pc'[u] \notin Inside
         /\ requests[t] = << >> /\ NextFormed
<1>1. pc \in [Threads -> PCs] /\ requests[t] = << >>
  <2>1. pc[t] \notin {"dequeue", "after", "execute"}
    BY DEF Scanning
  <2> QED BY <2>1 DEF DInv, ThreadsInv
<1>2. pc'[t] = v /\ \A u \in Threads : u # t => pc'[u] = pc[u]
  BY <1>1, PcFacts
<1>3. \A u \in Threads : u # t => pc[u] \notin Inside
  BY MuFacts DEF DInv, Inside
<1>4. \A u \in Threads : KeepsBatch(u)
  BY <1>1, <1>2 DEF KeepsBatch
<1>5. NextFormed
  BY <1>4, StillFormed
<1> QED BY <1>1, <1>2, <1>3, <1>5

(* What BInv says of the thread that forms a batch.                        *)
LEMMA ScanFacts ==
  ASSUME BInv, NEW t \in Threads, pc[t] \in Scanning
  PROVE  /\ QueueSame(Levels, req, q)
         /\ Pending(Config, Levels, req, q, pendingBatchSize, requiredEqual)
         /\ scan.best # 0 => Marked(Config, Levels, req, q, scan.best)
<1>1. Scans
  BY DEF Scans
<1> QED BY <1>1 DEF BInv, Usable

(* BeginBatch: the pending batch is the one before, or empty.              *)
LEMMA BeginBatches ==
  ASSUME DInv, BInv, config' = config, NEW t \in Threads, BeginBatch(t)
  PROVE  BInv'
<1>1. /\ pc[t] = "lock" /\ mu = 0 /\ pc' = [pc EXCEPT ![t] = "policy"]
      /\ req' = req /\ requests' = requests /\ requiredEqual' = requiredEqual
      /\ scan' = NoScan
      /\ q' = IF IsCursorValid(q, now) THEN q ELSE ResetCursor(q)
      /\ pendingBatchSize' = IF IsCursorValid(q, now) THEN pendingBatchSize ELSE 0
  BY DEF BeginBatch, Runs, clientVars
<1>2. "policy" \in PCs /\ "policy" \in Scanning /\ pc[t] \in Scanning \cup {"lock"}
  BY <1>1 DEF PCs, Scanning
<1>3. /\ pc'[t] = "policy" /\ \A u \in Threads : u # t => pc'[u] \notin Inside
      /\ NextFormed
  BY <1>1, <1>2, HoldBatches
<1>4. (\A u \in Threads : pc[u] \notin Inside) /\ scan.rejCnt = 0
  BY <1>1, MuFacts DEF DInv
<1>5. /\ QShape(Levels, q) /\ QPlaces(Levels, q) /\ QOrder(Levels, q, NextSeq)
      /\ QCount(Levels, q, 0) /\ config \in DOMAIN ModelConfigs
      /\ QueueSame(Levels, req, q)
  BY <1>4 DEF DInv, QueueInv, ThreadsInv, BInv
<1>6. /\ QueueSame(Levels, req, q')
      /\ Pending(Config, Levels, req, q', pendingBatchSize', requiredEqual)
  <2>1. CASE IsCursorValid(q, now)
    <3>1. q.cursor.valid /\ \A u \in Threads : pc[u] # "dequeue"
      BY <1>4, <2>1 DEF IsCursorValid, Inside
    <3>2. Pending(Config, Levels, req, q, pendingBatchSize, requiredEqual)
      BY <3>1 DEF BInv, Usable
    <3> QED BY <1>1, <1>5, <2>1, <3>2
  <2>2. CASE ~IsCursorValid(q, now)
    <3>1. PICK n, R : n = NextSeq /\ R = q'
      OBVIOUS
    <3>2. R = ResetCursor(q) /\ QOrder(Levels, q, n) /\ pendingBatchSize' = 0
      BY <1>1, <1>5, <2>2, <3>1
    <3>3. QShape(Levels, R) /\ CursorOK(Levels, R)
      BY <1>5, <3>2, ResetKeeps
    <3>4. R.queue = q.queue /\ R.delayed = q.delayed /\ R.cursor = StartCursor
      BY <1>5, <3>2 DEF ResetCursor, QShape, QFields
    <3>5. R.cursor.count = 0
      BY <3>4, StartFacts
    <3>6. Pending(Config, Levels, req, R, 0, requiredEqual)
      BY <1>5, <3>3, <3>5, LimitFacts, PendingNone
    <3>7. QueueSame(Levels, req, R)
      BY <1>5, <3>4, SameLeads, QueueSameListed
    <3> QED BY <3>1, <3>2, <3>6, <3>7
  <2> QED BY <2>1, <2>2
<1>7. scan'.best = 0
  BY <1>1, NoScanFacts
<1>8. pc'[t] \in Scanning
  BY <1>2, <1>3
<1> QED BY <1>1, <1>3, <1>6, <1>7, <1>8, BatchesScan

(* NextLevel: the same requests are in front of the cursor.                *)
LEMMA NextLevelBatches ==
  ASSUME DInv, BInv, config' = config, NEW t \in Threads, NextLevel(t)
  PROVE  BInv'
<1>1. /\ pc[t] = "policy" /\ pc' = pc /\ scan' = scan /\ req' = req /\ requests' = requests
      /\ pendingBatchSize' = pendingBatchSize /\ requiredEqual' = requiredEqual
      /\ CursorSkips(q, scan.rejCnt) /\ q' = SkipLevel(q)
  BY DEF NextLevel, Runs, clientVars, batchVars
<1>2. "policy" \in PCs /\ "policy" \in Scanning /\ pc[t] \in Scanning
      /\ pc[t] \in Scanning \cup {"lock"} /\ pc[t] # "lock"
  BY <1>1 DEF PCs, Scanning
<1>3. /\ CursorOK(Levels, q)
      /\ config \in DOMAIN ModelConfigs /\ scan.rejCnt \in Nat /\ NextSeq \in Nat
      /\ pc \in [Threads -> PCs]
      /\ QShape(Levels, q) /\ QPlaces(Levels, q) /\ QOrder(Levels, q, NextSeq)
      /\ QCount(Levels, q, scan.rejCnt)
  BY <1>2, HolderFacts
<1>4. pc' = [pc EXCEPT ![t] = "policy"]
  BY <1>1, <1>3
<1>5. /\ pc'[t] = "policy" /\ \A u \in Threads : u # t => pc'[u] \notin Inside
      /\ NextFormed
  BY <1>1, <1>2, <1>4, HoldBatches
<1>6. PICK n \in Nat, k \in Nat, R \in {q'} : n = NextSeq /\ k = scan.rejCnt /\ R = q'
  BY <1>3
<1>7. R = SkipLevel(q) /\ CursorSkips(q, k) /\ QOrder(Levels, q, n) /\ QCount(Levels, q, k)
  BY <1>1, <1>3, <1>6
<1>8. /\ R.mark = q.mark /\ R.cursor.count = q.cursor.count
      /\ FrontIds(Levels, R) = FrontIds(Levels, q)
      /\ R.queue = q.queue /\ R.delayed = q.delayed
  BY <1>3, <1>7, SkipKeeps
<1>9. /\ QueueSame(Levels, req, q)
      /\ Pending(Config, Levels, req, q, pendingBatchSize, requiredEqual)
      /\ scan.best # 0 => Marked(Config, Levels, req, q, scan.best)
  BY <1>2, ScanFacts
<1>10. /\ \A F : Leads(Levels, q, F) => Leads(Levels, R, F)
       /\ \A e : Listed(Levels, R, e) => Listed(Levels, q, e)
  BY <1>8, SameLeads
<1>11. QueueSame(Levels, req, R)
  BY <1>9, <1>10, QueueSameListed
<1>12. Pending(Config, Levels, req, R, pendingBatchSize, requiredEqual)
  BY <1>8, <1>9, PendingMoves
<1>13. scan.best # 0 => Marked(Config, Levels, req, R, scan.best)
  BY <1>8, <1>9, <1>10, MarkedMoves
<1>14. pc'[t] \in Scanning
  BY <1>2, <1>5
<1> QED BY <1>1, <1>5, <1>6, <1>11, <1>12, <1>13, <1>14, BatchesScan

(* Expire: the request at the cursor is in front of neither the cursor nor *)
(* the mark.                                                               *)
LEMMA ExpireBatches ==
  ASSUME DInv, BInv, config' = config, NEW t \in Threads, Expire(t)
  PROVE  BInv'
<1>1. /\ pc[t] = "policy" /\ pc' = pc /\ req' = req /\ requests' = requests
      /\ pendingBatchSize' = pendingBatchSize /\ requiredEqual' = requiredEqual
      /\ CursorExpired(q, now) /\ q' = ExpireAtCursor(q)
  BY DEF Expire, Runs, batchVars
<1>2. \E a, b : scan' = [scan EXCEPT !.rejCnt = a, !.rejBatch = b]
  BY DEF Expire
<1>3. "policy" \in PCs /\ "policy" \in Scanning /\ pc[t] \in Scanning
      /\ pc[t] \in Scanning \cup {"lock"} /\ pc[t] # "lock"
  BY <1>1 DEF PCs, Scanning
<1>4. /\ CursorOK(Levels, q)
      /\ config \in DOMAIN ModelConfigs /\ scan.rejCnt \in Nat /\ NextSeq \in Nat
      /\ pc \in [Threads -> PCs] /\ DOMAIN scan = ScanFields
      /\ QShape(Levels, q) /\ QPlaces(Levels, q) /\ QOrder(Levels, q, NextSeq)
      /\ QCount(Levels, q, scan.rejCnt)
  BY <1>3, HolderFacts
<1>5. scan'.best = scan.best
  BY <1>2, <1>4 DEF ScanFields
<1>6. pc' = [pc EXCEPT ![t] = "policy"]
  BY <1>1, <1>4
<1>7. /\ pc'[t] = "policy" /\ \A u \in Threads : u # t => pc'[u] \notin Inside
      /\ NextFormed
  BY <1>1, <1>3, <1>6, HoldBatches
<1>8. PICK n \in Nat, k \in Nat, R \in {q'} : n = NextSeq /\ k = scan.rejCnt /\ R = q'
  BY <1>4
<1>9. PICK e, A : e = RequestAtCursor(q) /\ A = AdvanceCursor(q)
  OBVIOUS
<1>10. /\ R = ExpireAtCursor(q) /\ QOrder(Levels, q, n) /\ QCount(Levels, q, k)
       /\ InQueue(Levels, q) \cap IdsOf(q.rejected) = {}
  <2>1. InQueue(Levels, q) \cap IdsOf(q.rejected) = {}
    BY DEF DInv, OwnersInv
  <2> QED BY <1>1, <1>4, <1>8, <2>1
<1>11. /\ R.cursor = q.cursor /\ R.mark = q.mark
       /\ FrontIds(Levels, R) = FrontIds(Levels, q)
  BY ONLY <1>1, <1>4, <1>9, <1>10, n \in Nat, k \in Nat, ExpireKeeps
<1>12. /\ \A y : Listed(Levels, R, y) => Listed(Levels, q, y)
       /\ \A F : Leads(Levels, q, F) /\ e.id \notin F => Leads(Levels, R, F)
       /\ HasAt(q, q.cursor.level, q.cursor.idx)
  BY ONLY <1>1, <1>4, <1>9, <1>10, ExpireLeads
<1>13. RequestAtCursor(q).id \notin FrontIds(Levels, q)
  BY ONLY <1>4, <1>9, <1>10, <1>12, n \in Nat, k \in Nat, AdvanceKeeps
<1>14. /\ QueueSame(Levels, req, q)
       /\ Pending(Config, Levels, req, q, pendingBatchSize, requiredEqual)
       /\ scan.best # 0 => Marked(Config, Levels, req, q, scan.best)
  BY <1>3, ScanFacts
<1>15. \A F \in SUBSET FrontIds(Levels, q) : Leads(Levels, q, F) => Leads(Levels, R, F)
  BY <1>9, <1>12, <1>13
<1>16. QueueSame(Levels, req, R)
  BY <1>12, <1>14, QueueSameListed
<1>17. Pending(Config, Levels, req, R, pendingBatchSize, requiredEqual)
  BY <1>11, <1>14, PendingMoves
<1>18. scan.best # 0 => Marked(Config, Levels, req, R, scan.best)
  BY <1>11, <1>14, <1>15, MarkedMoves
<1>19. pc'[t] \in Scanning
  BY <1>3, <1>7
<1> QED BY <1>1, <1>5, <1>7, <1>8, <1>16, <1>17, <1>18, <1>19, BatchesScan

(* EndPolicy: the mark is put at the cursor when the batch is a preferred  *)
(* one.                                                                    *)
LEMMA EndPolicyBatches ==
  ASSUME DInv, BInv, config' = config, NEW t \in Threads, EndPolicy(t)
  PROVE  BInv'
<1>1. /\ pc[t] = "policy" /\ pc' = [pc EXCEPT ![t] = "examine"]
      /\ req' = req /\ requests' = requests
      /\ pendingBatchSize' = pendingBatchSize /\ requiredEqual' = requiredEqual
  BY DEF EndPolicy, Runs, clientVars
<1>2. PICK S, P :
        /\ S = PolicyApplied(q, scan.rejCnt)
        /\ q' = (IF P THEN MarkCursor(S) ELSE S)
        /\ scan' = [scan EXCEPT !.rejCnt = 0, !.rejBatch = 0,
                      !.best = IF P THEN pendingBatchSize ELSE scan.best]
  BY DEF EndPolicy
<1>3. "examine" \in PCs /\ "examine" \in Scanning /\ pc[t] \in Scanning
      /\ pc[t] \in Scanning \cup {"lock"} /\ pc[t] # "lock"
  BY <1>1 DEF PCs, Scanning
<1>4. /\ CursorOK(Levels, q)
      /\ config \in DOMAIN ModelConfigs /\ scan.rejCnt \in Nat /\ NextSeq \in Nat
      /\ DOMAIN scan = ScanFields
      /\ QShape(Levels, q) /\ QPlaces(Levels, q) /\ QOrder(Levels, q, NextSeq)
      /\ QCount(Levels, q, scan.rejCnt)
  BY <1>3, HolderFacts
<1>5. scan'.best = IF P THEN pendingBatchSize ELSE scan.best
  BY <1>2, <1>4 DEF ScanFields
<1>6. /\ pc'[t] = "examine" /\ \A u \in Threads : u # t => pc'[u] \notin Inside
      /\ NextFormed
  BY <1>1, <1>3, HoldBatches
<1>7. PICK n \in Nat, k \in Nat, R \in {q'} : n = NextSeq /\ k = scan.rejCnt /\ R = q'
  BY <1>4
<1>8. S = PolicyApplied(q, k) /\ QOrder(Levels, q, n) /\ QCount(Levels, q, k)
  BY <1>2, <1>4, <1>7
<1>9. /\ QShape(Levels, S) /\ QPlaces(Levels, S) /\ QOrder(Levels, S, n)
      /\ QCount(Levels, S, 0) /\ S.cursor = q.cursor /\ S.mark = q.mark
      /\ S.queue = q.queue /\ S.delayed = q.delayed
  BY ONLY <1>4, <1>8, k \in Nat, AppliedKeeps
<1>10. /\ R.cursor = q.cursor /\ R.queue = q.queue /\ R.delayed = q.delayed
       /\ R.mark = IF P THEN q.cursor ELSE q.mark
  <2>1. CASE P
    <3>1. R = MarkCursor(S)
      BY <1>2, <1>7, <2>1
    <3>2. /\ R.cursor = S.cursor /\ R.mark = S.cursor
          /\ R.queue = S.queue /\ R.delayed = S.delayed
      BY ONLY <1>9, <3>1, MarkKeeps
    <3> QED BY <1>9, <2>1, <3>2
  <2>2. CASE ~P
    BY <1>2, <1>7, <1>9, <2>2
  <2> QED BY <2>1, <2>2
<1>11. FrontIds(Levels, R) = FrontIds(Levels, q)
  BY <1>10, SameLists
<1>12. /\ \A F : Leads(Levels, q, F) => Leads(Levels, R, F)
       /\ \A e : Listed(Levels, R, e) => Listed(Levels, q, e)
  BY <1>10, SameLeads
<1>13. /\ QueueSame(Levels, req, q)
       /\ Pending(Config, Levels, req, q, pendingBatchSize, requiredEqual)
       /\ scan.best # 0 => Marked(Config, Levels, req, q, scan.best)
  BY <1>3, ScanFacts
<1>14. QueueSame(Levels, req, R)
  BY <1>12, <1>13, QueueSameListed
<1>15. Pending(Config, Levels, req, R, pendingBatchSize, requiredEqual)
  BY <1>10, <1>11, <1>13, PendingMoves
<1>16. scan'.best # 0 => Marked(Config, Levels, req, R, scan'.best)
  <2>1. CASE P
    <3>1. Marked(Config, Levels, req, R, pendingBatchSize)
      BY <1>4, <1>10, <1>11, <1>13, <2>1, MarkedHere
    <3> QED BY <1>5, <2>1, <3>1
  <2>2. CASE ~P
    <3>1. scan.best # 0 => Marked(Config, Levels, req, R, scan.best)
      BY <1>10, <1>11, <1>12, <1>13, <2>2, MarkedMoves
    <3> QED BY <1>5, <2>2, <3>1
  <2> QED BY <2>1, <2>2
<1>17. pc'[t] \in Scanning
  BY <1>3, <1>6
<1> QED BY <1>1, <1>6, <1>7, <1>14, <1>15, <1>16, <1>17, BatchesScan

(* NoBatch and WaitForMore: the pending batch stays what it is.            *)
LEMMA LeaveBatches ==
  ASSUME DInv, BInv, config' = config, NEW t \in Threads, NoBatch(t) \/ WaitForMore(t)
  PROVE  BInv'
<1>1. /\ Decides(t) /\ req' = req /\ requests' = requests
      /\ pendingBatchSize' = pendingBatchSize /\ requiredEqual' = requiredEqual
      /\ q' = ReleaseRejected(q)
  BY DEF NoBatch, WaitForMore, batchVars, clientVars
<1>2. PICK v \in {"after", "waiting"} : pc' = [pc EXCEPT ![t] = v]
  BY DEF NoBatch, WaitForMore
<1>3. v \in PCs /\ v \notin Inside
  BY DEF PCs, Inside, Scanning
<1>4. pc[t] \in Scanning /\ QCount(Levels, q, 0)
  BY <1>1, DecideFacts
<1>5. pc[t] \in Scanning \cup {"lock"} /\ pc[t] # "lock"
  BY <1>4 DEF Scanning
<1>6. /\ pc'[t] = v /\ \A u \in Threads : u # t => pc'[u] \notin Inside
      /\ NextFormed
  BY <1>1, <1>2, <1>3, <1>5, HoldBatches
<1>7. /\ QShape(Levels, q) /\ QPlaces(Levels, q) /\ QOrder(Levels, q, NextSeq)
  BY <1>4, HolderFacts
<1>8. PICK n, R : n = NextSeq /\ R = q'
  OBVIOUS
<1>9. R = ReleaseRejected(q) /\ QOrder(Levels, q, n)
  BY <1>1, <1>7, <1>8
<1>10. /\ QShape(Levels, R) /\ QPlaces(Levels, R) /\ QOrder(Levels, R, n)
       /\ QCount(Levels, R, 0) /\ R.cursor = q.cursor
       /\ R.queue = q.queue /\ R.delayed = q.delayed
  BY ONLY <1>4, <1>7, <1>9, ReleaseKeeps
<1>11. FrontIds(Levels, R) = FrontIds(Levels, q)
  BY <1>10, SameLists
<1>12. /\ QueueSame(Levels, req, q)
       /\ Pending(Config, Levels, req, q, pendingBatchSize, requiredEqual)
  BY <1>4, ScanFacts
<1>13. QueueSame(Levels, req, R)
  BY <1>10, <1>12, SameLeads, QueueSameListed
<1>14. Pending(Config, Levels, req, R, pendingBatchSize, requiredEqual)
  BY <1>10, <1>11, <1>12, PendingMoves
<1>15. \A u \in Threads : pc'[u] \notin Inside
  BY <1>3, <1>6
<1> QED BY <1>1, <1>6, <1>8, <1>13, <1>14, <1>15, BatchesQuiet

\* The request e may join the pending batch (the negation of CannotJoin).
MayJoin(C, R, Q, n, x, e) ==
  Q.cursor.count > 0 =>
    /\ n + e.batch <= C.maxBatchSize
    /\ C.enforceEqualShape => R[x].shape = e.shape

(* The pending batch with the request that joins it.                       *)
LEMMA PendingGrows ==
  ASSUME NEW C, NEW L, NEW R, NEW Q, NEW n, NEW x, Pending(C, L, R, Q, n, x),
         QShape(L, Q), CursorOK(L, Q),
         NEW e, Same(R, e), e.batch \in Nat, e.id \notin FrontIds(L, Q),
         MayJoin(C, R, Q, n, x, e),
         NEW P, FrontIds(L, P) = FrontIds(L, Q) \cup {e.id},
         NEW y, y = IF C.enforceEqualShape /\ Q.cursor.count = 0 THEN e.id ELSE x
  PROVE  Pending(C, L, R, P, n + e.batch, y)
<1>1. PICK M, i : M = FrontIds(L, Q) /\ i = e.id
  OBVIOUS
<1>2. Fits(C, R, M, n) /\ i \notin M /\ R[i].batch = e.batch /\ R[i].shape = e.shape
  BY <1>1 DEF Pending, Same
<1>3. Q.cursor.count \in Nat
  BY DEF QShape
<1>4. M \subseteq Requests /\ IsFiniteSet(M) /\ Cardinality(M) = Q.cursor.count
  <2>1. M \subseteq InQueue(L, Q)
    BY <1>1, FrontInQueue
  <2>2. M \subseteq Requests
    BY <2>1, InQueueFacts
  <2> QED BY <1>1, <2>2, InQueueFacts DEF CursorOK
<1>5. M = {} \/ Joins(C, R, M, n, i)
  <2>1. CASE Q.cursor.count = 0
    BY <1>4, <2>1, FS_EmptySet
  <2>2. CASE Q.cursor.count > 0
    <3>1. n + e.batch <= C.maxBatchSize /\ (C.enforceEqualShape => R[x].shape = e.shape)
      BY <2>2 DEF MayJoin
    <3>2. C.enforceEqualShape => x \in M
      BY <1>1, <2>2 DEF Pending
    <3>3. C.enforceEqualShape => \A r \in M : R[r].shape = R[x].shape
      BY <1>2, <3>2 DEF Fits
    <3> QED BY <1>2, <3>1, <3>3 DEF Joins
  <2> QED BY <1>3, <2>1, <2>2
<1>6. Fits(C, R, M \cup {i}, n + e.batch)
  <2>1. R[i].batch \in Nat
    BY <1>2
  <2>2. Fits(C, R, M \cup {i}, n + R[i].batch)
    BY ONLY <1>2, <1>5, <2>1, FitsJoin
  <2> QED BY ONLY <1>2, <2>2
<1>7. C.enforceEqualShape => y \in M \cup {i}
  <2>1. CASE Q.cursor.count = 0
    BY <1>1, <2>1
  <2>2. CASE Q.cursor.count > 0
    <3>1. C.enforceEqualShape => x \in M
      BY <1>1, <2>2 DEF Pending
    <3> QED BY <2>2, <3>1
  <2> QED BY <1>3, <2>1, <2>2
<1> QED BY <1>1, <1>6, <1>7 DEF Pending

(* Examine: the request at the cursor joins the batch or ends it.          *)
LEMMA ExamineBatches ==
  ASSUME DInv, BInv, config' = config, NEW t \in Threads, Examine(t)
  PROVE  BInv'
<1>1. /\ pc[t] = "examine" /\ req' = req /\ requests' = requests /\ ~CursorEnd(q)
  BY DEF Examine, Runs, clientVars
<1>2. PICK r, S, best :
        /\ r = RequestAtCursor(q)
        /\ S = (IF BeyondPreferred(r) THEN MarkCursor(q) ELSE q)
        /\ best = (IF BeyondPreferred(r) THEN pendingBatchSize ELSE scan.best)
  OBVIOUS
<1>3. \/ /\ q' = S /\ pc' = [pc EXCEPT ![t] = "decide"]
         /\ scan' = [scan EXCEPT !.best = best, !.sendNow = TRUE]
         /\ pendingBatchSize' = pendingBatchSize /\ requiredEqual' = requiredEqual
      \/ /\ ~CannotJoin(r)
         /\ q' = AdvanceCursor(S) /\ pc' = [pc EXCEPT ![t] = "policy"]
         /\ scan' = [scan EXCEPT !.best = best, !.grown = TRUE]
         /\ pendingBatchSize' = Grown(r) /\ requiredEqual' = InitRequired(r)
  BY <1>2 DEF Examine
<1>4. /\ {"decide", "policy"} \subseteq Scanning /\ {"decide", "policy"} \subseteq PCs
      /\ pc[t] \in Scanning /\ pc[t] \in Scanning \cup {"lock"} /\ pc[t] # "lock"
  BY <1>1 DEF Scanning, PCs
<1>5. /\ CursorOK(Levels, q)
      /\ config \in DOMAIN ModelConfigs /\ NextSeq \in Nat
      /\ DOMAIN scan = ScanFields
      /\ QShape(Levels, q) /\ QPlaces(Levels, q) /\ QOrder(Levels, q, NextSeq)
      /\ QCount(Levels, q, scan.rejCnt) /\ scan.rejCnt \in Nat
  BY <1>4, HolderFacts
<1>6. HasAt(q, q.cursor.level, q.cursor.idx)
  BY <1>1 DEF DInv, CursorInv, CursorEnd
<1>7. PICK n \in Nat, k \in Nat, R \in {q'} : n = NextSeq /\ k = scan.rejCnt /\ R = q'
  BY <1>5
<1>8. QOrder(Levels, q, n) /\ QCount(Levels, q, k)
  BY <1>5, <1>7
<1>9. /\ QShape(Levels, S) /\ QPlaces(Levels, S) /\ QOrder(Levels, S, n)
      /\ QCount(Levels, S, k) /\ S.cursor = q.cursor
      /\ S.queue = q.queue /\ S.delayed = q.delayed
      /\ S.mark = IF BeyondPreferred(r) THEN q.cursor ELSE q.mark
  <2>1. CASE BeyondPreferred(r)
    <3>1. S = MarkCursor(q)
      BY <1>2, <2>1
    <3>2. /\ QShape(Levels, S) /\ QPlaces(Levels, S) /\ QOrder(Levels, S, n)
          /\ QCount(Levels, S, k) /\ S.cursor = q.cursor /\ S.mark = q.cursor
          /\ S.queue = q.queue /\ S.delayed = q.delayed
      BY ONLY <1>5, <1>8, <3>1, MarkKeeps
    <3> QED BY <2>1, <3>2
  <2>2. CASE ~BeyondPreferred(r)
    BY <1>2, <1>5, <1>8, <2>2
  <2> QED BY <2>1, <2>2
<1>10. /\ FrontIds(Levels, S) = FrontIds(Levels, q)
       /\ CursorOK(Levels, S) /\ HasAt(S, S.cursor.level, S.cursor.idx)
  <2>1. HasAt(S, S.cursor.level, S.cursor.idx) = HasAt(q, q.cursor.level, q.cursor.idx)
    BY <1>9, SameLists
  <2>2. FrontIds(Levels, S) = FrontIds(Levels, q)
    BY <1>9, SameLists
  <2> QED BY <1>5, <1>6, <1>9, <2>1, <2>2, SameCursor
<1>11. RequestAtCursor(S) = r
  BY <1>2, <1>9 DEF RequestAtCursor, At
<1>12. /\ QueueSame(Levels, req, q)
       /\ Pending(Config, Levels, req, q, pendingBatchSize, requiredEqual)
       /\ scan.best # 0 => Marked(Config, Levels, req, q, scan.best)
  BY <1>4, ScanFacts
<1>13. /\ \A F : Leads(Levels, q, F) => Leads(Levels, S, F)
       /\ \A e : Listed(Levels, S, e) => Listed(Levels, q, e)
  BY <1>9, SameLeads
<1>14. QueueSame(Levels, req, S)
  BY <1>12, <1>13, QueueSameListed
<1>15. Pending(Config, Levels, req, S, pendingBatchSize, requiredEqual)
  BY <1>9, <1>10, <1>12, PendingMoves
<1>16. best # 0 => Marked(Config, Levels, req, S, best)
  <2>1. CASE BeyondPreferred(r)
    <3>1. Marked(Config, Levels, req, S, pendingBatchSize)
      BY <1>5, <1>9, <1>10, <1>12, <2>1, MarkedHere
    <3> QED BY <1>2, <2>1, <3>1
  <2>2. CASE ~BeyondPreferred(r)
    <3>1. scan.best # 0 => Marked(Config, Levels, req, S, scan.best)
      BY <1>9, <1>10, <1>12, <1>13, <2>2, MarkedMoves
    <3> QED BY <1>2, <2>2, <3>1
  <2> QED BY <2>1, <2>2
<1>17. CASE /\ q' = S /\ pc' = [pc EXCEPT ![t] = "decide"]
            /\ scan' = [scan EXCEPT !.best = best, !.sendNow = TRUE]
            /\ pendingBatchSize' = pendingBatchSize /\ requiredEqual' = requiredEqual
  <2>1. /\ pc'[t] = "decide" /\ \A u \in Threads : u # t => pc'[u] \notin Inside
        /\ NextFormed
    <3>1. "decide" \in PCs
      BY <1>4
    <3> QED BY <1>1, <1>4, <1>17, <3>1, HoldBatches
  <2>2. scan'.best = best
    BY <1>5, <1>17 DEF ScanFields
  <2>3. pc'[t] \in Scanning
    BY <1>4, <2>1
  <2> QED BY <1>1, <1>14, <1>15, <1>16, <1>17, <2>1, <2>2, <2>3, BatchesScan
<1>18. CASE /\ ~CannotJoin(r)
            /\ q' = AdvanceCursor(S) /\ pc' = [pc EXCEPT ![t] = "policy"]
            /\ scan' = [scan EXCEPT !.best = best, !.grown = TRUE]
            /\ pendingBatchSize' = Grown(r) /\ requiredEqual' = InitRequired(r)
  <2>1. /\ pc'[t] = "policy" /\ \A u \in Threads : u # t => pc'[u] \notin Inside
        /\ NextFormed
    <3>1. "policy" \in PCs
      BY <1>4
    <3> QED BY <1>1, <1>4, <1>18, <3>1, HoldBatches
  <2>2. scan'.best = best
    BY <1>5, <1>18 DEF ScanFields
  <2>3. pc'[t] \in Scanning
    BY <1>4, <2>1
  <2>4. R = AdvanceCursor(S)
    BY <1>7, <1>18
  <2>5. /\ R.mark = S.mark /\ r.id \notin FrontIds(Levels, S)
        /\ FrontIds(Levels, R) = FrontIds(Levels, S) \cup {r.id}
        /\ R.queue = S.queue /\ R.delayed = S.delayed
    <3>1. /\ R.mark = S.mark /\ RequestAtCursor(S).id \notin FrontIds(Levels, S)
          /\ FrontIds(Levels, R) = FrontIds(Levels, S) \cup {RequestAtCursor(S).id}
          /\ R.queue = S.queue /\ R.delayed = S.delayed
      BY ONLY <1>5, <1>9, <1>10, <2>4, k \in Nat, AdvanceKeeps
    <3> QED BY <1>11, <3>1
  <2>6. /\ \A F : Leads(Levels, S, F) => Leads(Levels, R, F)
        /\ \A e : Listed(Levels, R, e) => Listed(Levels, S, e)
    BY <2>5, SameLeads
  <2>7. QueueSame(Levels, req, R)
    BY <1>14, <2>6, QueueSameListed
  <2>8. best # 0 => Marked(Config, Levels, req, R, best)
    BY <1>16, <2>5, <2>6, MarkedMoves
  <2>9. Listed(Levels, q, r) /\ Same(req, r)
    <3>1. q.cursor.level \in Levels /\ q.cursor.idx \in Nat
      BY <1>5 DEF CursorOK
    <3>2. Listed(Levels, q, r)
      BY <1>2, <1>5, <1>6, <3>1, ListedAt DEF RequestAtCursor
    <3> QED BY <1>12, <3>2 DEF QueueSame
  <2>10. r.batch \in Nat
    <3>1. q.queue \in [Levels -> Seq(Entries(Levels))] /\ q.delayed \in [Levels -> Seq(Entries(Levels))]
      BY <1>5 DEF QShape
    <3>2. PICK l \in Levels : \/ \E i \in 1..Len(q.queue[l]) : q.queue[l][i] = r
                              \/ \E i \in 1..Len(q.delayed[l]) : q.delayed[l][i] = r
      BY <2>9 DEF Listed
    <3>3. q.queue[l] \in Seq(Entries(Levels)) /\ q.delayed[l] \in Seq(Entries(Levels))
      BY <3>1
    <3>4. r \in Entries(Levels)
      BY <3>2, <3>3
    <3> QED BY <3>4 DEF Entries
  <2>11. MayJoin(Config, req, q, pendingBatchSize, requiredEqual, r)
    <3>1. q.cursor.count \in Nat
      BY <1>5 DEF QShape
    <3>2. Config.maxBatchSize \in Nat
      BY <1>5, LimitFacts
    <3>3. pendingBatchSize \in Nat
      <4>1. Weighs(req, FrontIds(Levels, q), pendingBatchSize)
        BY <1>12 DEF Pending, Fits
      <4> QED BY <4>1, FS_CardinalityType DEF Weighs
    <3>4. q.cursor.count > 0 =>
            /\ ~(pendingBatchSize + r.batch > Config.maxBatchSize)
            /\ ~(Config.enforceEqualShape /\ req[requiredEqual].shape # r.shape)
      BY <1>18 DEF CannotJoin, Grown, MaxBatchSize, EnforceEqualShape
    <3>5. ~(pendingBatchSize + r.batch > Config.maxBatchSize)
            => pendingBatchSize + r.batch <= Config.maxBatchSize
      BY ONLY <2>10, <3>2, <3>3
    <3> QED BY <3>4, <3>5 DEF MayJoin
  <2>12. PICK y : y = requiredEqual'
    OBVIOUS
  <2>13. y = IF Config.enforceEqualShape /\ q.cursor.count = 0 THEN r.id ELSE requiredEqual
    BY <1>18, <2>12 DEF InitRequired, EnforceEqualShape
  <2>14. r.id \notin FrontIds(Levels, q) /\ FrontIds(Levels, R) = FrontIds(Levels, q) \cup {r.id}
    BY <1>10, <2>5
  <2>15. Pending(Config, Levels, req, R, pendingBatchSize + r.batch, y)
    BY ONLY <1>5, <1>12, <2>9, <2>10, <2>11, <2>13, <2>14, PendingGrows
  <2>16. Pending(Config, Levels, req, q', pendingBatchSize', requiredEqual')
    BY <1>7, <1>18, <2>12, <2>15 DEF Grown
  <2> QED BY <1>1, <1>7, <2>1, <2>2, <2>3, <2>7, <2>8, <2>16, BatchesScan
<1> QED BY <1>3, <1>17, <1>18

(* Nothing is dequeued yet.                                                *)
LEMMA TakingStart ==
  ASSUME NEW C, NEW L, NEW R, NEW Q, QShape(L, Q), NEW F, Leads(L, Q, F),
         NEW n, Fits(C, R, F, n), NEW k, Cardinality(F) = k, NEW s, s = << >>
  PROVE  Taking(C, L, R, Q, s, k) /\ AllSame(R, s)
<1>1. Len(s) = 0 /\ IdsOf(s) = {} /\ AllSame(R, s)
  BY DEF IdsOf, AllSame
<1>2. Weighs(R, IdsOf(s), BatchTotal(s))
  BY <1>1, CellsEmpty, TotalNone
<1>3. n \in Nat
  <2>1. Weighs(R, F, n)
    BY DEF Fits
  <2> QED BY <2>1, FS_CardinalityType DEF Weighs
<1>4. F \in SUBSET Requests /\ k \in Nat
  <2>1. F \in SUBSET Requests
    BY InQueueFacts DEF Leads
  <2> QED BY <2>1, InQueueFacts
<1>5. Cardinality(F) + Len(s) = k
  BY <1>1, <1>4
<1>6. F \cup IdsOf(s) = F
  BY <1>1
<1> QED BY <1>1, <1>2, <1>3, <1>4, <1>5, <1>6 DEF Taking

(* One more request is dequeued: it is one of those that are left.         *)
LEMMA TakingNext ==
  ASSUME NEW C, NEW L, NEW R, NEW Q, NEW P, NEW E, NEW s \in Seq(E), NEW k \in Nat,
         Taking(C, L, R, Q, s, k), AllSame(R, s), Len(s) < k,
         NEW h \in E, h.batch \in Nat, Same(R, h), h.id \notin IdsOf(s),
         NEW w, w = Append(s, h), IsFiniteSet(Requests),
         \A F : Leads(L, Q, F) => (F # {} => h.id \in F) /\ Leads(L, P, F \ {h.id})
  PROVE  Taking(C, L, R, P, w, k) /\ AllSame(R, w)
<1>1. PICK m \in Nat, i \in {h.id} : m = Len(s) /\ i = h.id
  OBVIOUS
<1>2. /\ Len(w) = m + 1 /\ w[m + 1] = h /\ \A j \in 1..m : w[j] = s[j]
      /\ IdsOf(w) = IdsOf(s) \cup {i}
  BY <1>1, AppendIds
<1>3. BatchTotal(w) = BatchTotal(s) + h.batch
  BY TotalAppend
<1>4. Weighs(R, IdsOf(s), BatchTotal(s))
  BY DEF Taking
<1>5. R[i].batch = h.batch /\ R[i].batch \in Nat /\ i \notin IdsOf(s)
  BY <1>1 DEF Same
<1>6. Weighs(R, IdsOf(w), BatchTotal(w))
  <2>1. PICK I, b : I = IdsOf(s) /\ b = BatchTotal(s)
    OBVIOUS
  <2>2. Weighs(R, I \cup {i}, b + R[i].batch)
    BY ONLY <1>4, <1>5, <2>1, CellsAdd
  <2> QED BY ONLY <1>2, <1>3, <1>5, <2>1, <2>2
<1>7. PICK F \in SUBSET Requests, n \in Nat :
        /\ Leads(L, Q, F) /\ Cardinality(F) + m = k
        /\ Fits(C, R, F \cup IdsOf(s), n)
  BY <1>1 DEF Taking
<1>8. IsFiniteSet(F) /\ Cardinality(F) \in Nat
  BY FS_Subset, FS_CardinalityType
<1>9. F # {}
  <2>1. Cardinality(F) # 0
    <3>1. m < k
      BY <1>1
    <3> QED BY ONLY <1>7, <1>8, <3>1, m \in Nat, k \in Nat
  <2> QED BY <2>1, FS_EmptySet
<1>10. PICK G : G = F \ {i}
  OBVIOUS
<1>11. i \in F /\ Leads(L, P, G)
  BY <1>1, <1>7, <1>9, <1>10
<1>12. Cardinality(G) = Cardinality(F) - 1
  BY <1>8, <1>10, <1>11, FS_RemoveElement
<1>13. Cardinality(G) + Len(w) = k
  BY ONLY <1>2, <1>7, <1>8, <1>12, m \in Nat, k \in Nat
<1>14. G \cup IdsOf(w) = F \cup IdsOf(s) /\ G \in SUBSET Requests
  BY <1>2, <1>10, <1>11
<1>15. Fits(C, R, G \cup IdsOf(w), n)
  BY <1>7, <1>14
<1>16. Taking(C, L, R, P, w, k)
  BY ONLY <1>6, <1>11, <1>13, <1>14, <1>15, n \in Nat DEF Taking
<1>17. AllSame(R, w)
  <2>1. ASSUME NEW j \in 1..(m + 1) PROVE Same(R, w[j])
    <3>1. CASE j = m + 1
      BY <1>2, <3>1
    <3>2. CASE j # m + 1
      <4>1. j \in 1..m
        BY ONLY <3>2, j \in 1..(m + 1), m \in Nat
      <4> QED BY <1>1, <1>2, <4>1 DEF AllSame
    <3> QED BY <3>1, <3>2
  <2> QED BY <1>2, <2>1 DEF AllSame
<1> QED BY <1>16, <1>17

(* The whole batch is dequeued.                                            *)
LEMMA TakingDone ==
  ASSUME NEW C, NEW L, NEW R, NEW Q, NEW E, NEW s \in Seq(E), NEW k,
         Taking(C, L, R, Q, s, k), AllSame(R, s), NoRepeat(s), Len(s) = k,
         IsFiniteSet(Requests)
  PROVE  Formed(C, s)
<1>1. PICK m \in Nat : m = Len(s)
  OBVIOUS
<1>2. PICK F \in SUBSET Requests, n \in Nat :
        Cardinality(F) + m = k /\ Fits(C, R, F \cup IdsOf(s), n)
  BY <1>1 DEF Taking
<1>3. IsFiniteSet(F) /\ Cardinality(F) \in Nat
  BY FS_Subset, FS_CardinalityType
<1>4. m = k
  BY <1>1
<1>5. Cardinality(F) = 0
  BY ONLY <1>2, <1>3, <1>4, m \in Nat
<1>6. F = {}
  BY <1>3, <1>5, FS_EmptySet
<1>7. Fits(C, R, IdsOf(s), n)
  <2>1. F \cup IdsOf(s) = IdsOf(s)
    BY <1>6
  <2> QED BY <1>2, <2>1
<1>8. Weighs(R, IdsOf(s), BatchTotal(s))
  BY DEF Taking
<1> QED BY <1>7, <1>8, FitsForms

(* SendBatch: what is to be dequeued is what is in front of the mark or of *)
(* the cursor.                                                             *)
LEMMA SendBatches ==
  ASSUME DInv, BInv, config' = config, NEW t \in Threads, SendBatch(t)
  PROVE  BInv'
<1>1. /\ Decides(t) /\ pc' = [pc EXCEPT ![t] = "dequeue"]
      /\ req' = req /\ requests' = requests
  BY DEF SendBatch, clientVars
<1>2. PICK S, P :
        /\ S = ReleaseRejected(q) /\ q' = (IF P THEN SetCursorToMark(S) ELSE S)
        /\ P => scan.best # 0
  BY DEF SendBatch, SendPreferred
<1>3. pc[t] \in Scanning /\ QCount(Levels, q, 0)
  BY <1>1, DecideFacts
<1>4. "dequeue" \in PCs /\ pc[t] \in Scanning \cup {"lock"} /\ pc[t] # "lock"
  BY <1>3 DEF PCs, Scanning
<1>5. /\ pc'[t] = "dequeue" /\ \A u \in Threads : u # t => pc'[u] \notin Inside
      /\ requests[t] = << >> /\ NextFormed
  BY <1>1, <1>4, HoldBatches
<1>6. /\ config \in DOMAIN ModelConfigs /\ CursorOK(Levels, q)
      /\ QShape(Levels, q) /\ QPlaces(Levels, q) /\ QOrder(Levels, q, NextSeq)
  BY <1>3, HolderFacts
<1>7. PICK n, R : n = NextSeq /\ R = q'
  OBVIOUS
<1>8. S = ReleaseRejected(q) /\ QOrder(Levels, q, n)
  BY <1>2, <1>6, <1>7
<1>9. /\ QShape(Levels, S) /\ QPlaces(Levels, S) /\ QOrder(Levels, S, n)
      /\ QCount(Levels, S, 0) /\ S.cursor = q.cursor /\ S.mark = q.mark
      /\ S.queue = q.queue /\ S.delayed = q.delayed
  BY ONLY <1>3, <1>6, <1>8, ReleaseKeeps
<1>10. /\ QShape(Levels, R) /\ R.queue = q.queue /\ R.delayed = q.delayed
       /\ R.cursor = IF P THEN q.mark ELSE q.cursor
  <2>1. CASE P
    <3>1. R = SetCursorToMark(S)
      BY <1>2, <1>7, <2>1
    <3>2. /\ QShape(Levels, R) /\ QPlaces(Levels, R) /\ QOrder(Levels, R, n)
          /\ QCount(Levels, R, 0) /\ R.cursor = S.mark
      BY ONLY <1>9, <3>1, ToMarkKeeps
    <3>3. R.queue = S.queue /\ R.delayed = S.delayed
      BY <1>9, <3>1 DEF SetCursorToMark, QShape, QFields
    <3> QED BY <1>9, <2>1, <3>2, <3>3
  <2>2. CASE ~P
    BY <1>2, <1>7, <1>9, <2>2
  <2> QED BY <2>1, <2>2
<1>11. /\ QueueSame(Levels, req, q)
       /\ Pending(Config, Levels, req, q, pendingBatchSize, requiredEqual)
       /\ scan.best # 0 => Marked(Config, Levels, req, q, scan.best)
  BY <1>3, ScanFacts
<1>12. /\ \A F : Leads(Levels, q, F) => Leads(Levels, R, F)
       /\ \A e : Listed(Levels, R, e) => Listed(Levels, q, e)
  BY <1>10, SameLeads
<1>13. QueueSame(Levels, req, R)
  BY <1>11, <1>12, QueueSameListed
<1>14. PICK F, m : /\ Leads(Levels, q, F) /\ Cardinality(F) = R.cursor.count
                   /\ Fits(Config, req, F, m)
  <2>1. CASE P
    <3>1. Marked(Config, Levels, req, q, scan.best)
      BY <1>2, <1>11, <2>1
    <3>2. R.cursor.count = q.mark.count
      BY <1>10, <2>1
    <3> QED BY <3>1, <3>2 DEF Marked
  <2>2. CASE ~P
    <3>1. PICK M : M = FrontIds(Levels, q)
      OBVIOUS
    <3>2. Leads(Levels, q, M)
      BY <1>6, <3>1, FrontLeads
    <3>3. Cardinality(M) = R.cursor.count
      BY <1>6, <1>10, <2>2, <3>1 DEF CursorOK
    <3>4. Fits(Config, req, M, pendingBatchSize)
      BY <1>11, <3>1 DEF Pending
    <3> QED BY <3>2, <3>3, <3>4
  <2> QED BY <2>1, <2>2
<1>15. Leads(Levels, R, F)
  BY <1>12, <1>14
<1>16. /\ Taking(Config, Levels, req, R, requests[t], R.cursor.count)
       /\ AllSame(req, requests[t])
  BY ONLY <1>5, <1>10, <1>14, <1>15, TakingStart
<1> QED BY <1>1, <1>5, <1>7, <1>13, <1>16, BatchesTake

(* DequeueOne.                                                             *)
LEMMA DequeueBatches ==
  ASSUME DInv, BInv, config' = config, NEW t \in Threads, DequeueOne(t)
  PROVE  BInv'
<1>1. /\ pc[t] = "dequeue" /\ Len(requests[t]) < q.cursor.count /\ q' = Dequeue(q)
      /\ pc' = pc /\ req' = req
  BY DEF DequeueOne, Runs, clientVars
<1>2. PICK h, s, w : /\ h = DequeueHead(q) /\ s = requests[t] /\ w = Append(s, h)
                     /\ requests' = [requests EXCEPT ![t] = w]
  BY DEF DequeueOne
<1>3. pc[t] \in Inside
  BY <1>1 DEF Inside
<1>4. /\ scan.rejCnt = 0 /\ \A u \in Threads : u # t => pc[u] \notin Inside
  BY <1>1, <1>3, MuFacts DEF DInv
<1>5. /\ requests \in [Threads -> Seq(Entries(Levels))] /\ s \in Seq(Entries(Levels))
      /\ config \in DOMAIN ModelConfigs
  BY <1>2 DEF DInv, ThreadsInv
<1>6. PICK k \in Nat, c \in Nat, z \in Int :
        k = Len(s) /\ c = q.cursor.count /\ z = q.size
  BY <1>5 DEF DInv, QueueInv, QShape
<1>7. k < c /\ c - k <= z
  BY <1>1, <1>2, <1>6 DEF DInv, CursorInv
<1>8. q.size > 0
  <2>1. z > 0
    BY <1>7
  <2> QED BY <1>6, <2>1
<1>9. /\ h \in Entries(Levels) /\ h.id \in InQueue(Levels, q) /\ q'.cursor.count = c
  BY <1>1, <1>2, <1>4, <1>6, <1>8, Taken
<1>10. h.id \notin IdsOf(s) /\ h.batch \in Nat
  <2>1. h.id \notin IdsOf(s)
    BY <1>1, <1>2, <1>9 DEF DInv, OwnersInv, Batched
  <2> QED BY <1>9, <2>1 DEF Entries
<1>11. QShape(Levels, q) /\ QPlaces(Levels, q) /\ QCount(Levels, q, 0)
  BY <1>4 DEF DInv, QueueInv
<1>12. PICK R : R = q'
  OBVIOUS
<1>13. R = Dequeue(q) /\ h = DequeueHead(q) /\ 0 \in Nat
  BY <1>1, <1>2, <1>12
<1>14. /\ \A e : Listed(Levels, R, e) => Listed(Levels, q, e)
       /\ Listed(Levels, q, h)
       /\ \A F : Leads(Levels, q, F) =>
            (F # {} => h.id \in F) /\ Leads(Levels, R, F \ {h.id})
  BY ONLY <1>5, <1>8, <1>11, <1>13, DequeueLeads
<1>15. /\ QueueSame(Levels, req, q) /\ AllSame(req, s)
       /\ Taking(Config, Levels, req, q, s, c)
  BY <1>1, <1>2, <1>6 DEF BInv
<1>16. QueueSame(Levels, req, R) /\ Same(req, h)
  <2>1. Same(req, h)
    BY <1>14, <1>15 DEF QueueSame
  <2> QED BY <1>14, <1>15, <2>1, QueueSameListed
<1>17. IsFiniteSet(Requests) /\ Len(s) < c
  BY <1>6, <1>7, CompletionQueueAssumption
<1>18. Taking(Config, Levels, req, R, w, c) /\ AllSame(req, w)
  <2>1. w = Append(s, h)
    BY <1>2
  <2> QED BY ONLY <1>5, <1>9, <1>10, <1>14, <1>15, <1>16, <1>17, <2>1, c \in Nat, TakingNext
<1>19. requests'[t] = w /\ \A u \in Threads : u # t => requests'[u] = requests[u]
  BY <1>2, <1>5
<1>20. NextFormed
  BY <1>1, <1>19 DEF NextFormed, BInv
<1> QED BY <1>1, <1>4, <1>9, <1>12, <1>16, <1>18, <1>19, <1>20, BatchesTake

(* ExtractDone: the batch is complete.                                     *)
LEMMA ExtractBatches ==
  ASSUME DInv, BInv, config' = config, NEW t \in Threads, ExtractDone(t)
  PROVE  BInv'
<1>1. /\ pc[t] = "dequeue" /\ Len(requests[t]) = q.cursor.count
      /\ pc' = [pc EXCEPT ![t] = "after"] /\ q' = q /\ req' = req /\ requests' = requests
  BY DEF ExtractDone, Runs, clientVars
<1>2. pc[t] \in Inside /\ "after" \notin Inside
  BY <1>1 DEF Inside, Scanning
<1>3. \A u \in Threads : u # t => pc[u] \notin Inside
  BY <1>2, MuFacts DEF DInv
<1>4. /\ pc \in [Threads -> PCs] /\ requests[t] \in Seq(Entries(Levels)) /\ "after" \in PCs
  BY DEF DInv, ThreadsInv, PCs
<1>5. pc'[t] = "after" /\ \A u \in Threads : u # t => pc'[u] = pc[u]
  BY <1>1, <1>4, PcFacts
<1>6. ~q.cursor.valid
  <2>1. q.cursor.count > 0 /\ (Len(requests[t]) > 0 => ~q.cursor.valid)
    BY <1>1 DEF DInv, CursorInv
  <2> QED BY <1>1, <2>1
<1>7. /\ QueueSame(Levels, req, q) /\ AllSame(req, requests[t])
      /\ Taking(Config, Levels, req, q, requests[t], q.cursor.count)
  BY <1>1 DEF BInv
<1>8. NoRepeat(requests[t]) /\ IsFiniteSet(Requests)
  BY CompletionQueueAssumption DEF DInv, OwnersInv
<1>9. Formed(Config, requests[t])
  BY ONLY <1>1, <1>4, <1>7, <1>8, TakingDone
<1>10. NextFormed
  BY <1>1, <1>5, <1>9 DEF NextFormed, BInv
<1>11. \A u \in Threads : pc'[u] \notin Inside
  BY <1>2, <1>3, <1>5
<1> QED BY <1>1, <1>6, <1>7, <1>10, <1>11, BatchesQuiet

(* TakeOne: the batch is one request.                                      *)
LEMMA TakeOneBatches ==
  ASSUME DInv, BInv, config' = config, NEW t \in Threads, TakeOne(t)
  PROVE  BInv'
<1>1. /\ pc[t] = "lock" /\ mu = 0 /\ ~Empty(q) /\ q' = Dequeue(q)
      /\ pc' = [pc EXCEPT ![t] = "after"] /\ req' = req
  BY DEF TakeOne, Runs, clientVars
<1>2. PICK h, s : /\ h = DequeueHead(q) /\ s = <<h>>
                  /\ requests' = [requests EXCEPT ![t] = s]
  BY DEF TakeOne
<1>3. scan.rejCnt = 0 /\ q.size > 0
  BY <1>1, NotEmpty
<1>4. h \in Entries(Levels) /\ ~q'.cursor.valid
  BY <1>1, <1>2, <1>3, Taken
<1>5. Len(s) = 1
  BY <1>2, <1>4, Single
<1>6. /\ pc \in [Threads -> PCs] /\ DOMAIN requests = Threads /\ "after" \in PCs
      /\ config \in DOMAIN ModelConfigs
  BY DEF DInv, ThreadsInv, PCs
<1>7. pc'[t] = "after" /\ \A u \in Threads : u # t => pc'[u] = pc[u]
  BY <1>1, <1>6, PcFacts
<1>8. requests'[t] = s /\ \A u \in Threads : u # t => requests'[u] = requests[u]
  BY <1>2, <1>6
<1>9. \A u \in Threads : pc'[u] \notin Inside
  <2>1. \A u \in Threads : pc[u] \notin Inside
    BY <1>1, MuFacts DEF DInv
  <2> QED BY <1>7, <2>1 DEF Inside, Scanning
<1>10. Formed(Config, s)
  BY <1>5 DEF Formed
<1>11. NextFormed
  BY <1>7, <1>8, <1>10 DEF NextFormed, BInv
<1>12. QShape(Levels, q) /\ QPlaces(Levels, q) /\ QCount(Levels, q, 0)
  BY <1>3 DEF DInv, QueueInv
<1>13. PICK R : R = q'
  OBVIOUS
<1>14. R = Dequeue(q) /\ h = DequeueHead(q) /\ 0 \in Nat
  BY <1>1, <1>2, <1>13
<1>15. \A e : Listed(Levels, R, e) => Listed(Levels, q, e)
  BY ONLY <1>3, <1>6, <1>12, <1>14, DequeueLeads
<1>16. QueueSame(Levels, req, R)
  <2>1. QueueSame(Levels, req, q)
    BY DEF BInv
  <2> QED BY <1>15, <2>1, QueueSameListed
<1> QED BY <1>1, <1>4, <1>9, <1>11, <1>13, <1>16, BatchesQuiet

(* Enqueue: an arrival that leaves the cursor valid is behind it.          *)
LEMMA EnqueueBatches ==
  ASSUME DInv, BInv, config' = config, NEW r \in Requests, Enqueue(r)
  PROVE  BInv'
<1>1. /\ st[r] = "submitting" /\ mu = 0 /\ pc' = pc /\ requests' = requests
      /\ pendingBatchSize' = pendingBatchSize /\ requiredEqual' = requiredEqual
  BY DEF Enqueue
<1>2. PICK l, e : /\ l = req[r].priority /\ e = [req[r] EXCEPT !.seq = NextSeq]
                  /\ q' = EnqueueAt(q, l, e, now) /\ req' = [req EXCEPT ![r] = e]
  BY DEF Enqueue
<1>3. /\ config \in DOMAIN ModelConfigs /\ now \in Nat /\ DOMAIN req = Requests
      /\ req[r] \in Entries(Levels) /\ req[r].id = r /\ scan.rejCnt \in Nat
  BY <1>1 DEF DInv, ThreadsInv
<1>4. NextSeq \in Nat
  BY CompletionQueueAssumption, FS_Subset, FS_CardinalityType DEF NextSeq
<1>5. /\ e \in Entries(Levels) /\ e.id = r /\ e.priority = l /\ e.seq = NextSeq
      /\ l \in Levels
  <2>1. \E n \in Nat : n = NextSeq
    BY <1>4
  <2> QED BY <1>2, <1>3, <2>1 DEF Entries
<1>6. e.id \notin InQueue(Levels, q)
  BY <1>1, <1>5 DEF DInv, OwnersInv
<1>7. PICK n \in Nat, k \in Nat, R \in {q'} : n = NextSeq /\ k = scan.rejCnt /\ R = q'
  BY <1>3, <1>4
<1>8. /\ QShape(Levels, q) /\ QPlaces(Levels, q) /\ QOrder(Levels, q, n)
      /\ QCount(Levels, q, k) /\ e.seq = n /\ R = EnqueueAt(q, l, e, now)
  BY <1>2, <1>5, <1>7 DEF DInv, QueueInv
<1>9. /\ R.cursor.count = q.cursor.count
      /\ R.cursor.valid => q.cursor.valid
      /\ R.cursor.valid /\ CursorOK(Levels, q) =>
           CursorOK(Levels, R) /\ FrontIds(Levels, R) = FrontIds(Levels, q)
  BY ONLY <1>3, <1>5, <1>6, <1>8, n \in Nat, k \in Nat, EnqueueKeeps
<1>10. req'[r] = e /\ \A x : x # r => req'[x] = req[x]
  BY <1>2, <1>3
<1>11. \A x \in InQueue(Levels, q) : req'[x] = req[x]
  BY <1>5, <1>6, <1>10
<1>12. QueueSame(Levels, req', R)
  <2>1. QueueSame(Levels, req', q)
    <3>1. QueueSame(Levels, req, q)
      BY DEF BInv
    <3> QED BY <1>11, <3>1, QueueSameIs
  <2>2. PICK a : a = Stamped(e, l, now)
    OBVIOUS
  <2>3. a \in Entries(Levels) /\ a.id = r /\ a.batch = e.batch /\ a.shape = e.shape
    <3>1. a \in Entries(Levels) /\ a.id = e.id
      BY <1>3, <1>5, <2>2, StampedEntry
    <3>2. a.batch = e.batch /\ a.shape = e.shape
      BY <1>5, <2>2 DEF Stamped, Entries
    <3> QED BY <1>5, <3>1, <3>2
  <2>4. Same(req', a)
    BY <1>10, <2>3 DEF Same
  <2>5. ASSUME NEW y, Listed(Levels, R, y) PROVE Same(req', y)
    <3>1. Stamped(e, l, now) \in Entries(Levels)
      BY <2>2, <2>3
    <3>2. Listed(Levels, q, y) \/ y = Stamped(e, l, now)
      BY ONLY <1>5, <1>8, <2>5, <3>1, EnqueueListed
    <3> QED BY <2>1, <2>2, <2>4, <3>2 DEF QueueSame
  <2> QED BY <2>5 DEF QueueSame
<1>13. \A u \in Threads : pc[u] \notin Inside
  BY <1>1, MuFacts DEF DInv
<1>14. ASSUME R.cursor.valid
       PROVE  Pending(Config, Levels, req', R, pendingBatchSize, requiredEqual)
  <2>1. q.cursor.valid /\ \A u \in Threads : pc[u] # "dequeue"
    BY <1>9, <1>13, <1>14 DEF Inside
  <2>2. CursorOK(Levels, q) /\ Pending(Config, Levels, req, q, pendingBatchSize, requiredEqual)
    BY <2>1 DEF BInv, Usable, DInv, CursorInv
  <2>3. FrontIds(Levels, R) = FrontIds(Levels, q)
    BY <1>9, <1>14, <2>2
  <2>4. Pending(Config, Levels, req, R, pendingBatchSize, requiredEqual)
    BY <1>9, <2>2, <2>3, PendingMoves
  <2>5. \A x \in FrontIds(Levels, R) : req'[x] = req[x]
    BY <1>8, <1>11, <2>2, <2>3, FrontInQueue
  <2> QED BY <2>4, <2>5, PendingSame
<1>15. NextFormed
  BY <1>1 DEF NextFormed, BInv
<1> QED BY <1>1, <1>7, <1>12, <1>13, <1>14, <1>15, BatchesQuiet

----------------------------------------------------------------------------
(* The batches at the start.                                               *)
LEMMA InitBInv == Init => BInv
<1> SUFFICES ASSUME Init PROVE BInv
  OBVIOUS
<1>1. config \in DOMAIN ModelConfigs /\ q = EmptyQueue /\ pendingBatchSize = 0
  BY DEF Init
<1>2. \A t \in Threads : pc[t] = "top"
  BY DEF Init
<1>3. NextSeq \in Nat
  BY CompletionQueueAssumption, FS_Subset, FS_CardinalityType DEF NextSeq
<1>4. QShape(Levels, q) /\ CursorOK(Levels, q) /\ InQueue(Levels, q) = {}
  BY <1>1, <1>3, EmptyQueueInv
<1>5. QueueSame(Levels, req, q)
  BY <1>4, ListedInQueue DEF QueueSame
<1>6. q.cursor.count = 0
  BY <1>1, StartFacts DEF EmptyQueue
<1>7. Pending(Config, Levels, req, q, 0, requiredEqual)
  BY <1>1, <1>4, <1>6, LimitFacts, PendingNone
<1>8. ~Scans
  BY <1>2 DEF Scans, Scanning
<1> QED BY <1>1, <1>2, <1>5, <1>7, <1>8 DEF BInv

(* Every step keeps it.                                                    *)
LEMMA NextBInv ==
  ASSUME DInv, BInv, [Next]_vars
  PROVE  BInv'
<1>1. CASE UNCHANGED vars
  BY <1>1, StutterBatches
<1>2. ASSUME config' = config, NEW r \in Requests, ClientStep(r) \/ BackendStep(r)
      PROVE  BInv'
  BY <1>2, RequestSteps, EnqueueBatches, Notifications, QuietSteps DEF ClientStep, BackendStep
<1>3. ASSUME config' = config, NEW t \in Threads, ThreadStep(t)
      PROVE  BInv'
  BY <1>3, ThreadMoves, TakeOneBatches, BeginBatches, ExpireBatches, NextLevelBatches,
     EndPolicyBatches, ExamineBatches, SendBatches, LeaveBatches, DequeueBatches,
     ExtractBatches, Notifications, ScheduleBatches, ReturnBatches, RequestSteps
     DEF ThreadStep
<1>4. ASSUME config' = config, Unload \/ SignalExit \/ JoinThreads \/ Tick
      PROVE  BInv'
  BY <1>4, QuietSteps
<1> QED BY <1>1, <1>2, <1>3, <1>4 DEF Next

(* A batch that thread t hands to the backend has at most max_batch_size_, *)
(* unless it is a single request, and is of one shape when the model       *)
(* requires that, whatever arrived, expired or was delayed while mu_ was   *)
(* released and the batch was pending.                                     *)
THEOREM BatchesWellFormed == Spec => []BatchWellFormed
<1>1. DInv /\ BInv /\ [Next]_vars => BInv'
  BY NextBInv
<1>2. BInv => BatchWellFormed
  BY DEF BInv, Formed, BatchWellFormed, MaxBatchSize, EnforceEqualShape
<1> QED BY <1>1, <1>2, InitBInv, SchedulerSound, PTL DEF Spec
=============================================================================
