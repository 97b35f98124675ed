------------------------ MODULE SequenceBatchProofs ------------------------
(***************************************************************************)
(* The sequence batcher is proved, for every configuration with one client *)
(* thread per sequence, any number of batchers, slots and correlation IDs  *)
(* and any plan of requests: no slot is owned twice or lost, with the      *)
(* Oldest strategy at most one request of a slot is in flight, and the     *)
(* promise of CorrelatedSequences is kept.                                 *)
(*                                                                         *)
(* BInv is the part of the invariant that both strategies share: who has   *)
(* each slot (Own), what the backlog holds (BacklogInv) and which calls    *)
(* are between the two locks (CallsInv).  PassInv adds the pass of a       *)
(* Direct thread, FlightInv the requests in flight of the Oldest strategy. *)
(***************************************************************************)
EXTENDS SequenceBatch, SequenceTheorems, FiniteSetTheorems, WellFoundedInduction,
        TLAPS

Items == Cids \X (0..MaxRequests)
Steps == {"enqueue", "notify", "next", "retry"}
CallType == [from : {"client", "reaper", "backend"}, req : Items, slot : Slots,
             step : Steps]

BaseType ==
  /\ config \in DOMAIN SequenceConfigs /\ plan \in Config.plans
  /\ sent \in [Cids -> Nat]
  /\ slotMap \in [Cids -> Slots \cup {None}]
  /\ backlogMap \in [Cids -> Requests \cup {None}]
  /\ backlog \in Seq(Seq(Requests))
  /\ ready \subseteq Slots /\ forced \subseteq Cids \X Slots
  /\ stamp \in [Cids -> {"none", "fresh", "idle"}]
  /\ calls \subseteq CallType
  /\ queues \in [Slots -> Seq(Items)]

----------------------------------------------------------------------------
\* Backlog queue q: requests of one ID that were sent, an END only as the last.
QueueOfOne(q) ==
  /\ q # << >>
  /\ \A i \in 1..Len(q) : q[i][1] = q[1][1]
  /\ \A i \in 1..Len(q) : i < Len(q) => ~End(q[i])
  /\ q[1][2] <= sent[q[1][1]]

OpenQueue(q) == ~End(q[Len(q)])

BacklogInv ==
  /\ \A k \in 1..Len(backlog) :
       /\ QueueOfOne(backlog[k])
       /\ OpenQueue(backlog[k]) => backlogMap[backlog[k][1][1]] = backlog[k][1]
  /\ \A k, l \in 1..Len(backlog) : backlog[k][1] = backlog[l][1] => k = l
  /\ \A c \in Cids : backlogMap[c] # None =>
       /\ slotMap[c] = None
       /\ \E k \in 1..Len(backlog) :
            backlog[k][1] = backlogMap[c] /\ backlog[k][1][1] = c /\ OpenQueue(backlog[k])
  /\ backlog # << >> => ready = {}

\* A client's call for a sequence that goes on leads to the slot of the
\* sequence; no ID has two of them, and none that is idle has one.
CallsInv ==
  /\ \A x \in calls :
       /\ x.from = "client" => ~IsNull(x.req) /\ stamp[x.req[1]] # "idle"
       /\ x.from = "reaper" => IsNull(x.req)
       /\ x.from = "backend" => x.step # "enqueue"
       /\ x.from = "client" /\ x.step = "enqueue" /\ ~End(x.req) =>
            slotMap[x.req[1]] = x.slot
  /\ \A x, y \in calls :
       x.from = "client" /\ y.from = "client" /\ x.req[1] = y.req[1] => x = y

----------------------------------------------------------------------------
\* The owners of slot s, kind by kind.
NoSequence(s) == \A c \in Cids : slotMap[c] # s
OneSequence(s) ==
  \E c \in Cids : slotMap[c] = s /\ \A d \in Cids : slotMap[d] = s => d = c

NoneQueued(s) == \A k \in 1..Len(queues[s]) : ~Releases(queues[s][k])
LastQueued(s) ==
  /\ queues[s] # << >> /\ Releases(queues[s][Len(queues[s])])
  /\ \A k \in 1..Len(queues[s]) : k < Len(queues[s]) => ~Releases(queues[s][k])

Coming(x, s) == x.slot = s /\ x.step = "enqueue"
NoneComing(s) == \A x \in calls : Coming(x, s) => ~Releases(x.req)
OneComing(s) ==
  \E x \in calls : /\ Coming(x, s) /\ Releases(x.req)
                   /\ \A y \in calls : Coming(y, s) /\ Releases(y.req) => y = x

NoneForced(s) == \A f \in forced : f[2] # s
OneForced(s) == \E f \in forced : f[2] = s /\ \A g \in forced : g[2] = s => g = f

Own(s) ==
  \/ /\ s \in ready /\ queues[s] = << >>
     /\ NoSequence(s) /\ NoneComing(s) /\ NoneForced(s)
  \/ /\ s \notin ready
     /\ OneSequence(s) /\ NoneQueued(s) /\ NoneComing(s) /\ NoneForced(s)
  \/ /\ s \notin ready
     /\ NoSequence(s) /\ LastQueued(s) /\ NoneComing(s) /\ NoneForced(s)
  \/ /\ s \notin ready
     /\ NoSequence(s) /\ NoneQueued(s) /\ OneComing(s) /\ NoneForced(s)
  \/ /\ s \notin ready
     /\ NoSequence(s) /\ NoneQueued(s) /\ NoneComing(s) /\ OneForced(s)

OwnInv == \A s \in Slots : Own(s)

BInv == BaseType /\ BacklogInv /\ CallsInv /\ OwnInv

----------------------------------------------------------------------------
\* The Direct thread: while it adds requests to a batch it is at a slot of its
\* own, and no force-end is at the front of a slot that it has yet to visit.
PassType ==
  [pc : {"top", "first", "second", "run", "wait"}, at : Int, max : Int, shape : Nat,
   batch : Seq(Requests \cup {None}), notified : BOOLEAN]

PassOf(b) ==
  /\ pass[b].pc \in {"top", "first"} => pass[b].at = 0
  /\ pass[b].pc = "second" =>
       /\ pass[b].at >= 0 /\ pass[b].at <= pass[b].max /\ <<b, pass[b].max>> \in Slots
       /\ \A s \in Slots :
            s[1] = b /\ s[2] >= pass[b].at /\ s[2] <= pass[b].max /\ queues[s] # << >> =>
              ~IsNull(Head(queues[s]))

PassInv ==
  /\ pass \in [Batchers -> PassType] /\ maxActive \in [Batchers -> Int]
  /\ \A b \in Batchers : PassOf(b)

----------------------------------------------------------------------------
\* The requests of slot s in flight, place by place, and the calls that are
\* about to send one.
NoneIssued(s) == \A b \in Batchers : \A k \in 1..Len(issued[b]) : issued[b][k][1] # s
OneIssued(s) ==
  \E k \in 1..Len(issued[s[1]]) :
    /\ issued[s[1]][k][1] = s
    /\ \A b \in Batchers : \A l \in 1..Len(issued[b]) :
         issued[b][l][1] = s => b = s[1] /\ l = k

NoneExecuting(s) == \A e \in executing : e[1] # s
OneExecuting(s) ==
  \E e \in executing : e[1] = s /\ \A d \in executing : d[1] = s => d = e

Returning(x, s) == x.slot = s /\ x.from = "backend" /\ x.step = "next"
NoneReturning(s) == \A x \in calls : ~Returning(x, s)
OneReturning(s) ==
  \E x \in calls : Returning(x, s) /\ \A y \in calls : Returning(y, s) => y = x

Sending(x, s) ==
  x.slot = s /\ (x.step = "retry" \/ (x.step = "next" /\ x.from # "backend"))
NoneSending(s) == \A x \in calls : ~Sending(x, s)
OneSending(s) ==
  \E x \in calls : Sending(x, s) /\ \A y \in calls : Sending(y, s) => y = x

Flight(s) ==
  \/ /\ inFlight[s] /\ OneIssued(s)
     /\ NoneExecuting(s) /\ NoneReturning(s) /\ NoneSending(s)
  \/ /\ inFlight[s] /\ OneExecuting(s)
     /\ NoneIssued(s) /\ NoneReturning(s) /\ NoneSending(s)
  \/ /\ inFlight[s] /\ OneReturning(s)
     /\ NoneIssued(s) /\ NoneExecuting(s) /\ NoneSending(s)
  \/ /\ ~inFlight[s] /\ OneSending(s)
     /\ NoneIssued(s) /\ NoneExecuting(s) /\ NoneReturning(s)
  \/ /\ ~inFlight[s] /\ NoneSending(s)
     /\ NoneIssued(s) /\ NoneExecuting(s) /\ NoneReturning(s)

\* The override of a slot belongs to the request in flight.
Overrides ==
  /\ \A b \in Batchers : \A k \in 1..Len(issued[b]) :
       corrid[issued[b][k][1]] = issued[b][k][2][1]
  /\ \A e \in executing : corrid[e[1]] = e[2][1]
  /\ \A x \in calls : x.from = "backend" /\ x.step = "next" => corrid[x.slot] = x.req[1]

\* What a call that is about to send finds in the slot.
SendersInv ==
  \A x \in calls :
    /\ x.step = "next" /\ x.from # "backend" =>
         IF Releases(x.req) THEN LastQueued(x.slot) ELSE slotMap[x.req[1]] = x.slot
    /\ x.step = "retry" => queues[x.slot] # << >> /\ ~IsNull(Head(queues[x.slot]))

FlightInv ==
  /\ inFlight \in [Slots -> BOOLEAN]
  /\ issued \in [Batchers -> Seq(Slots \X Requests)]
  /\ executing \subseteq Slots \X Requests
  /\ corrid \in [Slots -> Cids \cup {0}]
  /\ \A s \in Slots : Flight(s)
  /\ Overrides /\ SendersInv

SInv ==
  /\ BInv
  /\ Config.strategy = "direct" => PassInv
  /\ Config.strategy = "oldest" => FlightInv
----------------------------------------------------------------------------
\* The configuration and the plan are fixed, and with them the slots and the
\* flags of the requests.
LEMMA FixedMeans ==
  ASSUME Fixed
  PROVE /\ Config' = Config /\ Slots' = Slots /\ Batchers' = Batchers
        /\ Pipelined' = Pipelined
        /\ \A r : FlagsOf(r)' = FlagsOf(r)
        /\ \A r : End(r)' <=> End(r)
        /\ \A r : Releases(r)' <=> Releases(r)
BY DEF Fixed, Config, Slots, Batchers, Pipelined, FlagsOf, End, Releases, IsNull

\* What the configuration says of the plan and the slots: a plan fits the
\* bound on requests, and the slots are a grid of batchers and slot numbers.
LEMMA ConfigFits ==
  ASSUME config \in DOMAIN SequenceConfigs, plan \in Config.plans
  PROVE /\ plan \in [Cids -> Seq(Flags)]
        /\ \A c \in Cids : Len(plan[c]) <= MaxRequests
        /\ Slots \subseteq Nat \X Nat /\ Slots # {}
        /\ Config.strategy \in {"direct", "oldest"}
        /\ \E cnt \in Nat : Slots = Batchers \X (0..cnt - 1)
<1>1. Config = SequenceConfigs[config]
  BY DEF Config
<1>2. /\ Config.slots # {} /\ Config.slots \subseteq AllSlots
      /\ \E cnt \in 1..Cardinality(AllSlots) :
           Config.slots = {s[1] : s \in Config.slots} \X (0..cnt - 1)
      /\ Config.strategy \in {"direct", "oldest"}
      /\ \A p \in Config.plans :
           /\ p \in [Cids -> Seq(Flags)]
           /\ \A c \in Cids : Len(p[c]) <= MaxRequests
  BY <1>1, SequenceAssumption
<1>3. AllSlots \subseteq Nat \X Nat
  BY SequenceAssumption
<1>4. Cardinality(AllSlots) \in Nat
  BY SequenceAssumption, FS_CardinalityType
<1>5. PICK cnt \in 1..Cardinality(AllSlots) :
        Config.slots = {s[1] : s \in Config.slots} \X (0..cnt - 1)
  BY <1>2
<1>6. cnt \in Nat
  BY <1>4
<1>7. Slots = Batchers \X (0..cnt - 1)
  BY ONLY <1>5 DEF Slots, Batchers
<1>8. \E n \in Nat : Slots = Batchers \X (0..n - 1)
  BY ONLY <1>6, <1>7
<1> QED
  BY <1>2, <1>3, <1>8 DEF Slots

\* A null request has no flags, and a request of the plan has those of the
\* plan.
LEMMA FlagsFit ==
  ASSUME config \in DOMAIN SequenceConfigs, plan \in Config.plans
  PROVE /\ \A c \in Cids : ~End(Null(c)) /\ IsNull(Null(c)) /\ Releases(Null(c))
        /\ \A r \in Items : FlagsOf(r).shape \in Nat
        /\ \A r \in Items : IsNull(r) => ~End(r)
        /\ \A r \in Items : ~IsNull(r) <=> r \in Requests
        /\ Requests \subseteq Items /\ None \notin Requests /\ None \notin Slots
        /\ \A c \in Cids : Null(c) \in Items /\ Null(c)[1] = c
<1>1. plan \in [Cids -> Seq(Flags)] /\ Slots \subseteq Nat \X Nat
  BY ConfigFits
<1>2. MaxRequests \in Nat
  BY SequenceAssumption
<1>3. \A r \in Items : IsNull(r) => ~End(r)
  <2> SUFFICES ASSUME NEW r \in Items, IsNull(r) PROVE ~End(r)
    OBVIOUS
  <2>1. r[1] \in Cids /\ r[2] = 0
    BY DEF Items, IsNull
  <2>2. plan[r[1]] \in Seq(Flags)
    BY <1>1, <2>1
  <2>3. 0 \notin DOMAIN plan[r[1]]
    BY <2>2
  <2> QED
    BY <2>1, <2>3 DEF End, FlagsOf, Absent
<1>4. \A c \in Cids : Null(c) \in Items /\ Null(c)[1] = c /\ IsNull(Null(c))
  BY <1>2 DEF Items, Null, IsNull
<1>5. \A r \in Items : FlagsOf(r).shape \in Nat
  <2> SUFFICES ASSUME NEW r \in Items PROVE FlagsOf(r).shape \in Nat
    OBVIOUS
  <2>1. plan[r[1]] \in Seq(Flags)
    BY <1>1 DEF Items
  <2>2. r[2] \in DOMAIN plan[r[1]] => plan[r[1]][r[2]] \in Flags
    BY <2>1
  <2> QED
    BY <2>2 DEF FlagsOf, Absent, Flags
<1>6. \A r \in Items : ~IsNull(r) <=> r \in Requests
  BY <1>2 DEF Items, IsNull, Requests
<1>7. Requests \subseteq Items
  BY <1>2 DEF Items, Requests
<1>8. \A a, b : <<a, b>> # << >>
  OBVIOUS
<1>9. None \notin Requests
  <2>1. \A r \in Cids \X (1..MaxRequests) : r = <<r[1], r[2]>>
    OBVIOUS
  <2> QED
    BY <2>1, <1>8 DEF None, Requests
<1>10. None \notin Slots
  <2>1. \A s \in Nat \X Nat : s = <<s[1], s[2]>>
    OBVIOUS
  <2> QED
    BY <2>1, <1>1, <1>8 DEF None
<1> QED
  BY <1>3, <1>4, <1>5, <1>6, <1>7, <1>9, <1>10 DEF Releases
----------------------------------------------------------------------------
\* What a step leaves as it is for slot s.
SameSequences(s) == \A c \in Cids : slotMap'[c] = s <=> slotMap[c] = s
SameQueue(s) == queues'[s] = queues[s]
SameComing(s) == \A x : Coming(x, s) => (x \in calls' <=> x \in calls)
SameForced(s) == \A f : f[2] = s => (f \in forced' <=> f \in forced)
SameReady(s) == s \in ready' <=> s \in ready
SameOwners(s) ==
  /\ SameSequences(s) /\ SameQueue(s) /\ SameComing(s) /\ SameForced(s)
  /\ SameReady(s)

\* The sequences of a slot depend on the map alone.
LEMMA SequencesFrame ==
  ASSUME NEW s, SameSequences(s)
  PROVE /\ NoSequence(s)' <=> NoSequence(s)
        /\ OneSequence(s)' <=> OneSequence(s)
BY DEF SameSequences, NoSequence, OneSequence

\* The releasing requests of a slot's queue depend on the queue alone.
LEMMA QueueFrame ==
  ASSUME NEW s, Fixed, SameQueue(s)
  PROVE /\ NoneQueued(s)' <=> NoneQueued(s)
        /\ LastQueued(s)' <=> LastQueued(s)
<1>1. \A r : Releases(r)' <=> Releases(r)
  BY FixedMeans
<1> QED
  BY <1>1 DEF SameQueue, NoneQueued, LastQueued

\* The releasing calls to a slot depend on the calls that come to it.
LEMMA ComingFrame ==
  ASSUME NEW s, Fixed, SameComing(s)
  PROVE /\ NoneComing(s)' <=> NoneComing(s)
        /\ OneComing(s)' <=> OneComing(s)
<1>1. \A r : Releases(r)' <=> Releases(r)
  BY FixedMeans
<1>2. \A x : Coming(x, s) => (x \in calls' <=> x \in calls)
  BY DEF SameComing
<1>3. NoneComing(s)' <=> (\A x \in calls' : Coming(x, s) => ~Releases(x.req))
  BY <1>1 DEF NoneComing, Coming
<1>4. OneComing(s)' <=>
        (\E x \in calls' : /\ Coming(x, s) /\ Releases(x.req)
                           /\ \A y \in calls' : Coming(y, s) /\ Releases(y.req) => y = x)
  BY <1>1 DEF OneComing, Coming
<1>5. NoneComing(s)' <=> NoneComing(s)
  BY ONLY <1>2, <1>3 DEF NoneComing
<1>6. OneComing(s)' <=> OneComing(s)
  BY ONLY <1>2, <1>4 DEF OneComing
<1> QED
  BY <1>5, <1>6

\* The force-ends of a slot that are with the reaper.
LEMMA ForcedFrame ==
  ASSUME NEW s, SameForced(s)
  PROVE /\ NoneForced(s)' <=> NoneForced(s)
        /\ OneForced(s)' <=> OneForced(s)
BY DEF SameForced, NoneForced, OneForced

\* A step that does not touch slot s leaves it with its owner.
LEMMA OwnFrame ==
  ASSUME NEW s, Fixed, SameOwners(s), Own(s)
  PROVE Own(s)'
<1>1. /\ SameSequences(s) /\ SameQueue(s) /\ SameComing(s) /\ SameForced(s)
      /\ s \in ready' <=> s \in ready
  BY DEF SameOwners, SameReady
<1>2. /\ NoSequence(s)' <=> NoSequence(s)
      /\ OneSequence(s)' <=> OneSequence(s)
  BY <1>1, SequencesFrame
<1>3. /\ NoneQueued(s)' <=> NoneQueued(s)
      /\ LastQueued(s)' <=> LastQueued(s)
  BY <1>1, QueueFrame
<1>4. /\ NoneComing(s)' <=> NoneComing(s)
      /\ OneComing(s)' <=> OneComing(s)
  BY <1>1, ComingFrame
<1>5. /\ NoneForced(s)' <=> NoneForced(s)
      /\ OneForced(s)' <=> OneForced(s)
  BY <1>1, ForcedFrame
<1>6. queues'[s] = queues[s]
  BY <1>1 DEF SameQueue
<1>7. /\ (s \in ready /\ queues[s] = << >> /\ NoSequence(s) /\ NoneComing(s) /\ NoneForced(s))
         <=> (s \in ready /\ queues[s] = << >> /\ NoSequence(s) /\ NoneComing(s)
                /\ NoneForced(s))'
  BY <1>1, <1>2, <1>4, <1>5, <1>6
<1> QED
  BY <1>1, <1>2, <1>3, <1>4, <1>5, <1>7 DEF Own
----------------------------------------------------------------------------
(***************************************************************************)
(* The scheduler: Enqueue and the reaper.                                  *)
(***************************************************************************)
Grows == sent' \in [Cids -> Nat] /\ \A c \in Cids : sent[c] <= sent'[c]

\* A request that is sent is the next one of the plan, and no other call of
\* the same client is under way.
LEMMA SendsMeans ==
  ASSUME BaseType, ~Pipelined, NEW c \in Cids, Sends(c)
  PROVE /\ NextRequest(c) \in Requests /\ NextRequest(c)[1] = c
        /\ NextRequest(c)[2] = sent[c] + 1 /\ ~IsNull(NextRequest(c))
        /\ sent'[c] = sent[c] + 1 /\ Grows
        /\ \A x \in calls : x.from = "client" => x.req[1] # c
<1>1. plan \in [Cids -> Seq(Flags)] /\ Len(plan[c]) <= MaxRequests
  BY ConfigFits DEF BaseType
<1>2. sent \in [Cids -> Nat] /\ MaxRequests \in Nat /\ Len(plan[c]) \in Nat
  BY <1>1, SequenceAssumption DEF BaseType
<1>3. /\ sent[c] < Len(plan[c]) /\ sent' = [sent EXCEPT ![c] = @ + 1]
      /\ \A x \in calls : x.from = "client" => x.req[1] # c
  BY DEF Sends
<1>4. NextRequest(c) = <<c, sent[c] + 1>>
  BY DEF NextRequest
<1>5. sent[c] + 1 \in 1..MaxRequests
  BY <1>1, <1>2, <1>3
<1> QED
  BY <1>2, <1>3, <1>4, <1>5 DEF Requests, IsNull, Grows

\* The backlog does not depend on requests that go elsewhere.
LEMMA BacklogFrame ==
  ASSUME Fixed, BaseType, BacklogInv, Grows, UNCHANGED <<backlog, backlogMap>>,
         ready' \subseteq ready,
         \A c \in Cids : backlogMap[c] # None => slotMap'[c] = None
  PROVE BacklogInv'
<1>1. \A r : End(r)' <=> End(r)
  BY FixedMeans
<1>2. \A k \in 1..Len(backlog) : backlog[k] \in Seq(Requests)
  BY DEF BaseType
<1>3. ASSUME NEW k \in 1..Len(backlog)
      PROVE /\ QueueOfOne(backlog[k])'
            /\ OpenQueue(backlog[k])' <=> OpenQueue(backlog[k])
  <2>1. QueueOfOne(backlog[k]) /\ backlog[k] \in Seq(Requests)
    BY <1>2 DEF BacklogInv
  <2>2. backlog[k][1] \in Requests
    BY <2>1 DEF QueueOfOne
  <2>3. backlog[k][1][1] \in Cids /\ backlog[k][1][2] \in Nat
    BY <2>2, SequenceAssumption DEF Requests
  <2>4. sent[backlog[k][1][1]] \in Nat /\ sent'[backlog[k][1][1]] \in Nat
        /\ sent[backlog[k][1][1]] <= sent'[backlog[k][1][1]]
    BY <2>3 DEF BaseType, Grows
  <2>5. backlog[k][1][2] <= sent'[backlog[k][1][1]]
    BY <2>1, <2>3, <2>4 DEF QueueOfOne
  <2> QED
    BY <1>1, <2>1, <2>5 DEF QueueOfOne, OpenQueue
<1> QED
  BY <1>3 DEF BacklogInv

\* A step that adds no call and changes neither map nor queue touches no slot.
LEMMA QuietBase ==
  ASSUME Fixed, BInv, UNCHANGED <<slotMap, ready, forced, calls, queues>>
  PROVE OwnInv'
<1>1. Slots' = Slots
  BY FixedMeans
<1>2. \A s \in Slots : Own(s)'
  <2> SUFFICES ASSUME NEW s \in Slots PROVE Own(s)'
    OBVIOUS
  <2>1. SameOwners(s)
    BY DEF SameOwners, SameSequences, SameQueue, SameComing, SameForced, SameReady
  <2> QED
    BY <2>1, OwnFrame DEF BInv, OwnInv
<1> QED
  BY <1>1, <1>2 DEF OwnInv

\* A client's request that is neither a START nor of a known sequence.
LEMMA RefuseKeeps ==
  ASSUME Fixed, BInv, ~Pipelined, NEW c \in Cids, Refuse(c)
  PROVE BInv'
<1>1. Grows
  BY SendsMeans DEF Refuse, BInv
<1>2. UNCHANGED <<slotMap, backlogMap, backlog, ready, stamp, forced, calls, queues>>
  BY DEF Refuse, mapVars
<1>3. BaseType'
  <2>1. Slots' = Slots /\ Config' = Config
    BY FixedMeans
  <2> QED
    BY <1>1, <1>2, <2>1 DEF BInv, BaseType, Fixed, Grows, CallType
<1>4. BacklogInv'
  BY <1>1, <1>2, BacklogFrame DEF BInv, BacklogInv
<1>5. CallsInv'
  BY <1>2, FixedMeans DEF BInv, CallsInv, IsNull
<1>6. OwnInv'
  BY <1>2, QuietBase
<1> QED
  BY <1>3, <1>4, <1>5, <1>6 DEF BInv

\* What Enqueue leaves of an ID when it gives a request to slot t.
Assigns(c, t) ==
  /\ Sends(c) /\ ToSlot(c, t)
  /\ stamp' = [stamp EXCEPT ![c] = "fresh"]
  /\ UNCHANGED <<forced, queues>>
  /\ backlogMap[c] = None
  /\ \/ slotMap[c] = t /\ UNCHANGED ready
     \/ slotMap[c] = None /\ t \in ready /\ ready' = ready \ {t}

\* Before a slot is given a request of c it belongs to the sequence of c, or
\* is ready: no request that releases it is on its way.
LEMMA AssignableSlot ==
  ASSUME BInv, NEW c \in Cids, NEW t \in Slots, Assigns(c, t)
  PROVE /\ \A d \in Cids : slotMap[d] = t => d = c
        /\ NoneQueued(t) /\ NoneComing(t) /\ NoneForced(t) /\ t \notin ready'
<1>1. Own(t)
  BY DEF BInv, OwnInv
<1>2. CASE slotMap[c] = t /\ UNCHANGED ready
  <2>1. ~NoSequence(t)
    BY <1>2 DEF NoSequence
  <2>2. /\ t \notin ready /\ OneSequence(t) /\ NoneQueued(t) /\ NoneComing(t)
        /\ NoneForced(t)
    BY <1>1, <2>1 DEF Own
  <2>3. \A d \in Cids : slotMap[d] = t => d = c
    BY <1>2, <2>2 DEF OneSequence
  <2> QED
    BY <1>2, <2>2, <2>3
<1>3. CASE slotMap[c] = None /\ t \in ready /\ ready' = ready \ {t}
  <2>1. NoSequence(t) /\ queues[t] = << >> /\ NoneComing(t) /\ NoneForced(t)
    BY <1>1, <1>3 DEF Own
  <2>2. NoneQueued(t)
    BY <2>1 DEF NoneQueued
  <2> QED
    BY <1>3, <2>1, <2>2 DEF NoSequence
<1> QED
  BY <1>2, <1>3 DEF Assigns

\* A request that is given to a slot, on its way there.
LEMMA AssignsKeeps ==
  ASSUME Fixed, BInv, ~Pipelined, NEW c \in Cids, NEW t \in Slots, Assigns(c, t)
  PROVE BInv'
<1> DEFINE r == NextRequest(c)
           x == Call("client", r, t, "enqueue")
<1>1. /\ r \in Requests /\ r[1] = c /\ r[2] = sent[c] + 1 /\ ~IsNull(r) /\ Grows
      /\ \A y \in calls : y.from = "client" => y.req[1] # c
  BY SendsMeans DEF Assigns, BInv
<1>2. /\ slotMap' = [slotMap EXCEPT ![c] = IF End(r) THEN None ELSE t]
      /\ calls' = calls \cup {x} /\ UNCHANGED <<backlogMap, backlog, forced, queues>>
      /\ stamp' = [stamp EXCEPT ![c] = "fresh"]
      /\ backlogMap[c] = None /\ ready' \subseteq ready
      /\ slotMap[c] \in {None, t} /\ ready \subseteq ready' \cup {t}
  BY DEF Assigns, ToSlot
<1>3. Slots' = Slots /\ Config' = Config /\ \A q : (End(q)' <=> End(q)) /\ (Releases(q)' <=> Releases(q))
  BY FixedMeans
<1>4. x.from = "client" /\ x.req = r /\ x.slot = t /\ x.step = "enqueue"
  BY DEF Call
<1>5. /\ slotMap \in [Cids -> Slots \cup {None}] /\ None \notin Slots
      /\ Requests \subseteq Items
  BY FlagsFit DEF BInv, BaseType
<1>6. BaseType'
  <2>1. x \in CallType
    BY <1>1, <1>5 DEF CallType, Call, Steps
  <2>2. CallType' = CallType
    BY <1>3 DEF CallType
  <2>3. slotMap' \in [Cids -> Slots \cup {None}]
    BY <1>2, <1>5
  <2>4. stamp' \in [Cids -> {"none", "fresh", "idle"}]
    BY <1>2 DEF BInv, BaseType
  <2> QED
    BY <1>1, <1>2, <1>3, <2>1, <2>2, <2>3, <2>4 DEF BInv, BaseType, Fixed, Grows
<1>7. BacklogInv'
  <2>1. \A d \in Cids : backlogMap[d] # None => slotMap'[d] = None
    BY <1>2, <1>5 DEF BInv, BacklogInv
  <2> QED
    BY <1>1, <1>2, <2>1, BacklogFrame DEF BInv
<1>8. CallsInv'
  <2>1. \A y \in calls : y.from = "client" =>
          /\ ~IsNull(y.req) /\ stamp[y.req[1]] # "idle" /\ y.req[1] \in Cids
          /\ y.step = "enqueue" /\ ~End(y.req) => slotMap[y.req[1]] = y.slot
    BY DEF BInv, CallsInv, BaseType, CallType, Items
  <2>2. \A y \in calls : y.from = "client" =>
          stamp'[y.req[1]] # "idle" /\ slotMap'[y.req[1]] = slotMap[y.req[1]]
    BY <1>1, <1>2, <1>5, <2>1 DEF BInv, BaseType
  <2>3. stamp'[c] # "idle"
    BY <1>2 DEF BInv, BaseType
  <2>4. ~End(r) => slotMap'[c] = t
    BY <1>2, <1>5
  <2>5. \A y \in calls : /\ y.from = "reaper" => IsNull(y.req)
                         /\ y.from = "backend" => y.step # "enqueue"
    BY DEF BInv, CallsInv
  <2>6. \A y, z \in calls :
          y.from = "client" /\ z.from = "client" /\ y.req[1] = z.req[1] => y = z
    BY DEF BInv, CallsInv
  <2>7. \A y \in calls' :
          /\ y.from = "client" => ~IsNull(y.req) /\ stamp'[y.req[1]] # "idle"
          /\ y.from = "reaper" => IsNull(y.req)
          /\ y.from = "backend" => y.step # "enqueue"
          /\ y.from = "client" /\ y.step = "enqueue" /\ ~End(y.req) =>
               slotMap'[y.req[1]] = y.slot
    BY <1>1, <1>2, <1>4, <2>1, <2>2, <2>3, <2>4, <2>5
  <2>8. \A y, z \in calls' :
          y.from = "client" /\ z.from = "client" /\ y.req[1] = z.req[1] => y = z
    BY <1>1, <1>2, <1>4, <2>6
  <2> QED
    BY <1>3, <2>7, <2>8 DEF CallsInv, IsNull
<1>9. Own(t)'
  <2>1. /\ \A d \in Cids : slotMap[d] = t => d = c
        /\ NoneQueued(t) /\ NoneComing(t) /\ NoneForced(t) /\ t \notin ready'
    BY AssignableSlot
  <2>2. NoneQueued(t)' /\ NoneForced(t)'
    BY <1>2, <2>1, QueueFrame, ForcedFrame DEF SameQueue, SameForced
  <2>3. \A y \in calls : Coming(y, t) => ~Releases(y.req)
    BY <2>1 DEF NoneComing
  <2>4. CASE End(r)
    <3>1. NoSequence(t)'
      BY <1>2, <1>5, <2>1, <2>4 DEF NoSequence
    <3>2. OneComing(t)'
      <4>1. Releases(r)
        BY <2>4 DEF Releases
      <4>2. Coming(x, t)
        BY <1>4 DEF Coming
      <4>3. \A y \in calls' : Coming(y, t) /\ Releases(y.req) => y = x
        BY <1>2, <2>3
      <4> QED
        BY <1>2, <1>3, <1>4, <4>1, <4>2, <4>3 DEF OneComing, Coming
    <3> QED
      BY <2>1, <2>2, <3>1, <3>2 DEF Own
  <2>5. CASE ~End(r)
    <3>1. OneSequence(t)'
      BY <1>2, <1>5, <2>1, <2>5 DEF OneSequence
    <3>2. NoneComing(t)'
      <4>1. ~Releases(r)
        BY <1>1, <2>5 DEF Releases
      <4> QED
        BY <1>2, <1>3, <1>4, <2>3, <4>1 DEF NoneComing, Coming
    <3> QED
      BY <2>1, <2>2, <3>1, <3>2 DEF Own
  <2> QED
    BY <2>4, <2>5
<1>10. ASSUME NEW s \in Slots, s # t PROVE Own(s)'
  <2>1. SameSequences(s)
    BY <1>2, <1>5, <1>10 DEF SameSequences
  <2>2. SameComing(s)
    BY <1>2, <1>4, <1>10 DEF SameComing, Coming
  <2>3. SameQueue(s) /\ SameForced(s) /\ SameReady(s)
    BY <1>2, <1>10 DEF SameQueue, SameForced, SameReady
  <2> QED
    BY <2>1, <2>2, <2>3, OwnFrame DEF SameOwners, BInv, OwnInv
<1>11. OwnInv'
  BY <1>3, <1>9, <1>10 DEF OwnInv
<1> QED
  BY <1>6, <1>7, <1>8, <1>11 DEF BInv

\* A request of a sequence that has a slot.
LEMMA EnqueueAssignedKeeps ==
  ASSUME Fixed, BInv, ~Pipelined, NEW c \in Cids, EnqueueAssigned(c)
  PROVE BInv'
<1>1. slotMap[c] # None /\ Admits(c) /\ ToSlot(c, slotMap[c]) /\ UNCHANGED ready
  BY DEF EnqueueAssigned
<1>2. slotMap[c] \in Slots /\ backlogMap[c] = None
  BY <1>1 DEF BInv, BaseType, BacklogInv
<1>3. Assigns(c, slotMap[c])
  BY <1>1, <1>2 DEF Assigns, Admits
<1> QED
  BY <1>2, <1>3, AssignsKeeps

\* The first request of a sequence that finds a ready slot.
LEMMA EnqueueAssigningKeeps ==
  ASSUME Fixed, BInv, ~Pipelined, NEW c \in Cids, EnqueueAssigning(c)
  PROVE BInv'
<1>1. Admits(c) /\ slotMap[c] = None /\ backlogMap[c] = None
  BY DEF EnqueueAssigning, Known
<1>2. PICK t \in TopReady : ready' = ready \ {t} /\ ToSlot(c, t)
  BY DEF EnqueueAssigning
<1>3. t \in ready /\ t \in Slots
  BY DEF TopReady, BInv, BaseType
<1>4. Assigns(c, t)
  BY <1>1, <1>2, <1>3 DEF Assigns, Admits
<1> QED
  BY <1>3, <1>4, AssignsKeeps

\* The time stamp of an ID is renewed, and its requests go elsewhere: no call
\* is touched.
LEMMA FreshKeepsCalls ==
  ASSUME Fixed, BInv, NEW c \in Cids, stamp' = [stamp EXCEPT ![c] = "fresh"],
         UNCHANGED <<slotMap, calls>>
  PROVE CallsInv' /\ stamp' \in [Cids -> {"none", "fresh", "idle"}]
<1>1. \A q : End(q)' <=> End(q)
  BY FixedMeans
<1>2. stamp \in [Cids -> {"none", "fresh", "idle"}]
  BY DEF BInv, BaseType
<1>3. \A y \in calls : y.from = "client" => stamp'[y.req[1]] # "idle"
  <2>1. \A y \in calls : y.from = "client" => stamp[y.req[1]] # "idle" /\ y.req[1] \in Cids
    BY DEF BInv, CallsInv, BaseType, CallType, Items
  <2> QED
    BY <1>2, <2>1
<1> QED
  BY <1>1, <1>2, <1>3 DEF BInv, CallsInv, IsNull

\* Requests of a backlogged sequence are collected in its queue.
LEMMA EnqueueBackloggedKeeps ==
  ASSUME Fixed, BInv, ~Pipelined, NEW c \in Cids, EnqueueBacklogged(c)
  PROVE BInv'
<1> DEFINE kk == CHOOSE n \in 1..Len(backlog) : backlog[n][1] = backlogMap[c]
<1>0. PICK r \in {NextRequest(c)} : r = NextRequest(c)
  OBVIOUS
<1>1. /\ r \in Requests /\ r[1] = c /\ r[2] = sent[c] + 1 /\ ~IsNull(r) /\ Grows
      /\ \A y \in calls : y.from = "client" => y.req[1] # c
  BY <1>0, SendsMeans DEF EnqueueBacklogged, Admits, BInv
<1>2. /\ slotMap[c] = None /\ backlogMap[c] # None
      /\ backlog' = [backlog EXCEPT ![kk] = Append(@, r)]
      /\ backlogMap' = [backlogMap EXCEPT ![c] = IF End(r) THEN None ELSE @]
      /\ UNCHANGED <<slotMap, ready, calls, forced, queues>>
      /\ stamp' = [stamp EXCEPT ![c] = "fresh"]
  BY <1>0 DEF EnqueueBacklogged, Admits
<1>3. Slots' = Slots /\ Config' = Config /\ \A q : End(q)' <=> End(q)
  BY FixedMeans
<1>4. /\ backlog \in Seq(Seq(Requests)) /\ backlogMap \in [Cids -> Requests \cup {None}]
      /\ sent \in [Cids -> Nat]
  BY DEF BInv, BaseType
<1>5. PICK k \in 1..Len(backlog) :
        /\ k = kk /\ backlog[k][1] = backlogMap[c]
        /\ backlog[k][1][1] = c /\ OpenQueue(backlog[k])
  <2>1. PICK n \in 1..Len(backlog) :
          backlog[n][1] = backlogMap[c] /\ backlog[n][1][1] = c /\ OpenQueue(backlog[n])
    BY <1>2 DEF BInv, BacklogInv
  <2>2. kk \in 1..Len(backlog) /\ backlog[kk][1] = backlogMap[c]
    BY <2>1
  <2> HIDE DEF kk
  <2>3. kk = n
    BY <2>1, <2>2 DEF BInv, BacklogInv
  <2> QED
    BY <2>1, <2>2, <2>3
<1> HIDE DEF kk
<1>51. PICK q \in Seq(Requests) : q = backlog[k]
  BY <1>4
<1>6. QueueOfOne(q) /\ Len(q) \in Nat /\ Len(q) > 0 /\ q # << >>
  <2>1. QueueOfOne(q)
    BY <1>51 DEF BInv, BacklogInv
  <2> QED
    BY <2>1 DEF QueueOfOne
<1>7. /\ Append(q, r) \in Seq(Requests) /\ Len(Append(q, r)) = Len(q) + 1
      /\ \A i \in 1..Len(q) : Append(q, r)[i] = q[i]
      /\ Append(q, r)[Len(q) + 1] = r
  BY <1>1, <1>6
<1>8. /\ backlog' \in Seq(Seq(Requests)) /\ Len(backlog') = Len(backlog)
      /\ backlog'[k] = Append(q, r)
      /\ \A l \in 1..Len(backlog) : l # k => backlog'[l] = backlog[l]
  BY <1>2, <1>4, <1>5, <1>51, <1>7
<1>9. \A l \in 1..Len(backlog) : backlog'[l][1] = backlog[l][1]
  <2>1. 1 \in 1..Len(q)
    BY <1>6
  <2>2. Append(q, r)[1] = q[1]
    BY <1>7, <2>1
  <2> QED
    BY <1>51, <1>8, <2>2
<1>10. BaseType'
  <2>1. backlogMap' \in [Cids -> Requests \cup {None}]
    BY <1>2, <1>4
  <2>2. stamp' \in [Cids -> {"none", "fresh", "idle"}]
    BY <1>2, FreshKeepsCalls
  <2> QED
    BY <1>1, <1>2, <1>3, <1>8, <2>1, <2>2 DEF BInv, BaseType, Fixed, Grows, CallType
<1>11. BacklogInv'
  <2>1. ASSUME NEW l \in 1..Len(backlog)
        PROVE /\ QueueOfOne(backlog[l])'
              /\ OpenQueue(backlog[l])' <=> (IF l = k THEN ~End(r) ELSE OpenQueue(backlog[l]))
    <3>0. QueueOfOne(backlog[l])
      BY DEF BInv, BacklogInv
    <3>1. QueueOfOne(backlog[l]) /\ backlog[l] \in Seq(Requests)
      BY <1>4, <3>0
    <3>2. backlog[l][1] \in Requests
      BY <3>1 DEF QueueOfOne
    <3>3. backlog[l][1][1] \in Cids /\ backlog[l][1][2] \in Nat
      BY <3>2, SequenceAssumption DEF Requests
    <3>4. backlog[l][1][2] <= sent'[backlog[l][1][1]]
      <4>1. /\ sent[backlog[l][1][1]] \in Nat /\ sent'[backlog[l][1][1]] \in Nat
            /\ sent[backlog[l][1][1]] <= sent'[backlog[l][1][1]]
        BY <1>1, <1>4, <3>3 DEF Grows
      <4> QED
        BY <3>1, <3>3, <4>1 DEF QueueOfOne
    <3>5. CASE l # k
      BY <1>3, <1>8, <3>1, <3>4, <3>5 DEF QueueOfOne, OpenQueue
    <3>6. CASE l = k
      <4> DEFINE p == Append(q, r)
      <4>1. \A i \in 1..Len(p) : i \in 1..Len(q) \/ i = Len(q) + 1
        BY <1>6, <1>7
      <4>2. \A i \in 1..Len(q) : q[i][1] = q[1][1]
        BY <1>6 DEF QueueOfOne
      <4>3. \A i \in 1..Len(p) : p[i][1] = p[1][1]
        BY <1>1, <1>5, <1>51, <1>6, <1>7, <4>1, <4>2
      <4>4. \A i \in 1..Len(q) : ~End(q[i])
        <5>1. \A i \in 1..Len(q) : i < Len(q) \/ i = Len(q)
          BY <1>6
        <5> QED
          BY <1>5, <1>51, <1>6, <5>1 DEF QueueOfOne, OpenQueue
      <4>5. \A i \in 1..Len(p) : i < Len(p) => i \in 1..Len(q)
        BY <1>6, <1>7
      <4>6. \A i \in 1..Len(p) : i < Len(p) => ~End(p[i])
        BY <1>7, <4>4, <4>5
      <4>7. p # << >> /\ p[1] = q[1] /\ p[Len(p)] = r
        BY <1>6, <1>7
      <4>8. backlog'[k] = p
        BY <1>8
      <4>10. q[1][2] <= sent'[q[1][1]]
        BY <1>51, <3>4, <3>6
      <4> HIDE DEF p
      <4>11. QueueOfOne(backlog[k])'
        BY <1>3, <4>3, <4>6, <4>7, <4>8, <4>10 DEF QueueOfOne
      <4>12. OpenQueue(backlog[k])' <=> ~End(r)
        BY <1>3, <4>7, <4>8 DEF OpenQueue
      <4> QED
        BY <3>6, <4>11, <4>12
    <3> QED
      BY <3>5, <3>6
  <2>2. ASSUME NEW l \in 1..Len(backlog), OpenQueue(backlog[l])'
        PROVE backlogMap'[backlog'[l][1][1]] = backlog'[l][1]
    <3>1. CASE l = k
      BY <1>2, <1>4, <1>5, <1>9, <2>1, <2>2, <3>1
    <3>2. CASE l # k
      <4>1. OpenQueue(backlog[l]) /\ backlogMap[backlog[l][1][1]] = backlog[l][1]
        BY <2>1, <2>2, <3>2 DEF BInv, BacklogInv
      <4>2. backlog[l][1] # backlog[k][1]
        BY <1>5, <3>2 DEF BInv, BacklogInv
      <4>3. backlog[l][1][1] # c
        BY <1>5, <4>1, <4>2
      <4> QED
        BY <1>2, <1>4, <1>9, <4>1, <4>3, SMTT(30)
    <3> QED
      BY <3>1, <3>2
  <2>3. \A l, m \in 1..Len(backlog) : backlog'[l][1] = backlog'[m][1] => l = m
    BY <1>9 DEF BInv, BacklogInv
  <2>4. ASSUME NEW d \in Cids, backlogMap'[d] # None
        PROVE /\ slotMap'[d] = None
              /\ \E l \in 1..Len(backlog) :
                   /\ backlog'[l][1] = backlogMap'[d] /\ backlog'[l][1][1] = d
                   /\ OpenQueue(backlog[l])'
    <3>1. backlogMap'[d] = backlogMap[d] /\ (d = c => ~End(r))
      BY <1>2, <1>4, <2>4
    <3>2. PICK l \in 1..Len(backlog) :
            backlog[l][1] = backlogMap[d] /\ backlog[l][1][1] = d /\ OpenQueue(backlog[l])
      BY <2>4, <3>1 DEF BInv, BacklogInv
    <3>3. slotMap'[d] = None
      BY <1>2, <2>4, <3>1 DEF BInv, BacklogInv
    <3>4. OpenQueue(backlog[l])'
      BY <1>5, <2>1, <3>1, <3>2
    <3> QED
      BY <1>9, <3>1, <3>2, <3>3, <3>4
  <2>5. backlog' # << >> => ready' = {}
    <3>1. backlog # << >>
      BY <1>4, <1>5
    <3> QED
      BY <1>2, <3>1 DEF BInv, BacklogInv
  <2> QED
    BY <1>8, <2>1, <2>2, <2>3, <2>4, <2>5 DEF BacklogInv
<1>12. CallsInv'
  BY <1>2, FreshKeepsCalls
<1>13. OwnInv'
  BY <1>2, QuietBase
<1> QED
  BY <1>10, <1>11, <1>12, <1>13 DEF BInv

\* A new sequence that finds no ready slot has a queue of its own in the
\* backlog.
LEMMA EnqueueBackloggingKeeps ==
  ASSUME Fixed, BInv, ~Pipelined, NEW c \in Cids, EnqueueBacklogging(c)
  PROVE BInv'
<1>0. PICK r \in {NextRequest(c)} : r = NextRequest(c)
  OBVIOUS
<1>1. /\ r \in Requests /\ r[1] = c /\ r[2] = sent[c] + 1 /\ ~IsNull(r) /\ Grows
      /\ sent'[c] = sent[c] + 1
  BY <1>0, SendsMeans DEF EnqueueBacklogging, Admits, BInv
<1>2. /\ slotMap[c] = None /\ backlogMap[c] = None /\ ready = {}
      /\ backlog' = Append(backlog, <<r>>)
      /\ backlogMap' = [backlogMap EXCEPT ![c] = IF End(r) THEN None ELSE r]
      /\ UNCHANGED <<slotMap, ready, calls, forced, queues>>
      /\ stamp' = [stamp EXCEPT ![c] = "fresh"]
  BY <1>0 DEF EnqueueBacklogging, Admits, Known
<1>3. Slots' = Slots /\ Config' = Config /\ \A q : End(q)' <=> End(q)
  BY FixedMeans
<1>4. /\ backlog \in Seq(Seq(Requests)) /\ backlogMap \in [Cids -> Requests \cup {None}]
      /\ sent \in [Cids -> Nat]
  BY DEF BInv, BaseType
<1>5. <<r>> \in Seq(Requests) /\ <<r>> # << >> /\ Len(<<r>>) = 1 /\ <<r>>[1] = r
  BY <1>1
<1>6. PICK n \in Nat : n = Len(backlog)
  BY <1>4
<1>7. /\ backlog' \in Seq(Seq(Requests)) /\ Len(backlog') = n + 1
      /\ backlog'[n + 1] = <<r>>
      /\ \A l \in 1..n : backlog'[l] = backlog[l]
  BY <1>2, <1>4, <1>5, <1>6
<1>8. \A l \in 1..(n + 1) : l \in 1..n \/ l = n + 1
  OBVIOUS
<1>9. BaseType'
  <2>1. backlogMap' \in [Cids -> Requests \cup {None}]
    BY <1>1, <1>2, <1>4
  <2>2. stamp' \in [Cids -> {"none", "fresh", "idle"}]
    BY <1>2, FreshKeepsCalls
  <2> QED
    BY <1>1, <1>2, <1>3, <1>7, <2>1, <2>2 DEF BInv, BaseType, Fixed, Grows, CallType
<1>10. ASSUME NEW l \in 1..n
       PROVE /\ QueueOfOne(backlog[l])' /\ (OpenQueue(backlog[l])' <=> OpenQueue(backlog[l]))
             /\ backlog[l][1] \in Requests
             /\ backlog[l][1][2] <= sent[backlog[l][1][1]]
  <2>0. l \in 1..Len(backlog)
    BY <1>6
  <2>1. QueueOfOne(backlog[l]) /\ backlog[l] \in Seq(Requests)
    BY <1>4, <2>0 DEF BInv, BacklogInv
  <2>2. backlog[l][1] \in Requests
    BY <2>1 DEF QueueOfOne
  <2>3. backlog[l][1][1] \in Cids /\ backlog[l][1][2] \in Nat
    BY <2>2, SequenceAssumption DEF Requests
  <2>4. /\ sent[backlog[l][1][1]] \in Nat /\ sent'[backlog[l][1][1]] \in Nat
        /\ sent[backlog[l][1][1]] <= sent'[backlog[l][1][1]]
    BY <1>1, <1>4, <2>3 DEF Grows
  <2>5. backlog[l][1][2] <= sent'[backlog[l][1][1]]
    BY <2>1, <2>3, <2>4 DEF QueueOfOne
  <2> QED
    BY <1>3, <1>7, <2>1, <2>2, <2>5 DEF QueueOfOne, OpenQueue
<1>11. BacklogInv'
  <2>1. QueueOfOne(backlog[n + 1])' /\ (OpenQueue(backlog[n + 1])' <=> ~End(r))
    <3>1. r[2] <= sent'[r[1]]
      BY <1>1, <1>4
    <3>2. \A i \in 1..1 : i = 1
      OBVIOUS
    <3>3. QueueOfOne(backlog[n + 1])'
      <4>1. \A i \in 1..Len(<<r>>) : <<r>>[i] = r /\ ~(i < Len(<<r>>))
        BY <1>5, <3>2
      <4> QED
        BY <1>5, <1>7, <3>1, <4>1 DEF QueueOfOne
    <3> QED
      BY <1>3, <1>5, <1>7, <3>3 DEF OpenQueue
  <2>2. \A l \in 1..n : backlog[l][1] # r
    <3>1. sent[c] \in Nat
      BY <1>4
    <3> QED
      BY <1>1, <1>10, <3>1
  <2>3. \A l \in 1..(n + 1) : QueueOfOne(backlog[l])'
    BY <1>8, <1>10, <2>1
  <2>4. ASSUME NEW l \in 1..(n + 1), OpenQueue(backlog[l])'
        PROVE backlogMap'[backlog'[l][1][1]] = backlog'[l][1]
    <3>1. CASE l = n + 1
      <4>1. backlog'[l][1] = r /\ ~End(r)
        BY <1>5, <1>7, <2>1, <2>4, <3>1
      <4> QED
        BY <1>1, <1>2, <1>4, <4>1
    <3>2. CASE l \in 1..n
      <4>1. OpenQueue(backlog[l]) /\ backlogMap[backlog[l][1][1]] = backlog[l][1]
        BY <1>6, <1>10, <2>4, <3>2 DEF BInv, BacklogInv
      <4>2. None \notin Requests
        BY FlagsFit DEF BInv, BaseType
      <4>3. backlog[l][1][1] # c
        BY <1>2, <1>10, <3>2, <4>1, <4>2
      <4> QED
        BY <1>2, <1>4, <1>7, <3>2, <4>1, <4>3
    <3> QED
      BY <1>8, <3>1, <3>2
  <2>5. \A l, m \in 1..(n + 1) : backlog'[l][1] = backlog'[m][1] => l = m
    <3>1. \A l, m \in 1..n : backlog[l][1] = backlog[m][1] => l = m
      BY <1>6 DEF BInv, BacklogInv
    <3>2. backlog'[n + 1][1] = r
      BY <1>5, <1>7
    <3>3. \A l \in 1..n : backlog'[l][1] = backlog[l][1]
      BY <1>7
    <3> QED
      BY <1>8, <2>2, <3>1, <3>2, <3>3
  <2>6. ASSUME NEW d \in Cids, backlogMap'[d] # None
        PROVE /\ slotMap'[d] = None
              /\ \E l \in 1..(n + 1) :
                   /\ backlog'[l][1] = backlogMap'[d] /\ backlog'[l][1][1] = d
                   /\ OpenQueue(backlog[l])'
    <3>1. CASE d = c
      <4>1. ~End(r) /\ backlogMap'[d] = r
        BY <1>2, <1>4, <2>6, <3>1
      <4>2. n + 1 \in 1..(n + 1)
        OBVIOUS
      <4>3. backlog'[n + 1][1] = r
        BY <1>5, <1>7
      <4> QED
        BY <1>1, <1>2, <2>1, <3>1, <4>1, <4>2, <4>3
    <3>2. CASE d # c
      <4>1. backlogMap'[d] = backlogMap[d]
        BY <1>2, <1>4, <3>2
      <4>2. PICK l \in 1..n :
              backlog[l][1] = backlogMap[d] /\ backlog[l][1][1] = d /\ OpenQueue(backlog[l])
        BY <1>6, <2>6, <4>1 DEF BInv, BacklogInv
      <4>3. slotMap'[d] = None
        BY <1>2, <2>6, <4>1 DEF BInv, BacklogInv
      <4>4. l \in 1..(n + 1) /\ OpenQueue(backlog[l])' /\ backlog'[l] = backlog[l]
        BY <1>7, <1>10, <4>2
      <4> QED
        BY <4>1, <4>2, <4>3, <4>4
    <3> QED
      BY <3>1, <3>2
  <2>7. ready' = {}
    BY <1>2
  <2> QED
    BY <1>7, <2>3, <2>4, <2>5, <2>6, <2>7 DEF BacklogInv
<1>12. CallsInv'
  BY <1>2, FreshKeepsCalls
<1>13. OwnInv'
  BY <1>2, QuietBase
<1> QED
  BY <1>9, <1>11, <1>12, <1>13 DEF BInv

\* Time passes for an ID whose client is not in Enqueue.
LEMMA BecomesIdleKeeps ==
  ASSUME Fixed, BInv, NEW c \in Cids, BecomesIdle(c)
  PROVE BInv'
<1>1. /\ stamp' = [stamp EXCEPT ![c] = "idle"]
      /\ \A x \in calls : x.from = "client" => x.req[1] # c
      /\ UNCHANGED <<sent, slotMap, backlogMap, backlog, ready, forced, calls, queues>>
  BY DEF BecomesIdle, mapVars
<1>2. Slots' = Slots /\ Config' = Config /\ \A q : End(q)' <=> End(q)
  BY FixedMeans
<1>3. BaseType'
  BY <1>1, <1>2 DEF BInv, BaseType, Fixed, CallType
<1>4. Grows
  <2>1. sent \in [Cids -> Nat] /\ sent' = sent
    BY <1>1 DEF BInv, BaseType
  <2> QED
    BY <2>1 DEF Grows
<1>5. BacklogInv'
  BY <1>1, <1>4, BacklogFrame DEF BInv, BacklogInv
<1>6. CallsInv'
  <2>1. \A y \in calls : y.from = "client" => stamp[y.req[1]] # "idle" /\ y.req[1] \in Cids
    BY DEF BInv, CallsInv, BaseType, CallType, Items
  <2>2. \A y \in calls : y.from = "client" => stamp'[y.req[1]] # "idle"
    BY <1>1, <2>1 DEF BInv, BaseType
  <2> QED
    BY <1>1, <1>2, <2>2 DEF BInv, CallsInv, IsNull
<1>7. OwnInv'
  BY <1>1, QuietBase
<1> QED
  BY <1>3, <1>5, <1>6, <1>7 DEF BInv

\* The reaper takes the idle sequences out of their slots: each slot then has
\* the force-end that the reaper is about to enqueue.
LEMMA ReaperCheckKeeps ==
  ASSUME Fixed, BInv, ReaperCheck
  PROVE BInv'
<1>0. PICK placed \in SUBSET Cids :
        placed = {c \in Cids : stamp[c] = "idle" /\ slotMap[c] # None}
  OBVIOUS
<1>1. /\ forced = {} /\ forced' = {<<c, slotMap[c]>> : c \in placed}
      /\ slotMap' = [c \in Cids |-> IF c \in placed THEN None ELSE slotMap[c]]
      /\ UNCHANGED <<sent, backlogMap, backlog, ready, calls, queues>>
  BY <1>0 DEF ReaperCheck, ReaperBusy
<1>2. Slots' = Slots /\ Config' = Config /\ \A q : End(q)' <=> End(q)
  BY FixedMeans
<1>3. stamp' \in [Cids -> {"none", "fresh", "idle"}]
      /\ \A c \in Cids : stamp[c] # "idle" => stamp'[c] # "idle"
  <2>1. \A c \in Cids : stamp[c] \in {"none", "fresh", "idle"}
    BY DEF BInv, BaseType
  <2>2. stamp' = [c \in Cids |->
                    IF \/ c \in {d \in {e \in Cids : stamp[e] = "idle"} : slotMap[d] # None}
                       \/ c \in {e \in Cids : stamp[e] = "idle"} /\ backlogMap[c] = None
                    THEN "none" ELSE stamp[c]]
    BY DEF ReaperCheck
  <2> QED
    BY <2>1, <2>2
<1>4. slotMap \in [Cids -> Slots \cup {None}] /\ None \notin Slots
  BY FlagsFit DEF BInv, BaseType
<1>5. \A c \in placed : slotMap[c] \in Slots
  BY <1>0, <1>4
<1>6. BaseType'
  <2>1. slotMap' \in [Cids -> Slots \cup {None}]
    BY <1>1, <1>4
  <2>2. forced' \subseteq Cids \X Slots
    BY <1>1, <1>5
  <2> QED
    BY <1>1, <1>2, <1>3, <2>1, <2>2 DEF BInv, BaseType, Fixed, CallType
<1>7. BacklogInv'
  <2>1. Grows
    <3>1. sent \in [Cids -> Nat] /\ sent' = sent
      BY <1>1 DEF BInv, BaseType
    <3> QED
      BY <3>1 DEF Grows
  <2>2. \A c \in Cids : backlogMap[c] # None => slotMap'[c] = None
    BY <1>1 DEF BInv, BacklogInv
  <2> QED
    BY <1>1, <2>1, <2>2, BacklogFrame DEF BInv
<1>8. CallsInv'
  <2>1. \A y \in calls : y.from = "client" => stamp[y.req[1]] # "idle" /\ y.req[1] \in Cids
    BY DEF BInv, CallsInv, BaseType, CallType, Items
  <2>2. \A y \in calls : y.from = "client" =>
          stamp'[y.req[1]] # "idle" /\ slotMap'[y.req[1]] = slotMap[y.req[1]]
    BY <1>0, <1>1, <1>3, <2>1
  <2> QED
    BY <1>1, <1>2, <2>2 DEF BInv, CallsInv, IsNull
<1>9. ASSUME NEW s \in Slots, \A c \in placed : slotMap[c] # s
      PROVE Own(s)'
  <2>1. SameSequences(s)
    BY <1>1, <1>4, <1>9 DEF SameSequences
  <2>2. SameForced(s)
    BY <1>1, <1>9 DEF SameForced
  <2>3. SameQueue(s) /\ SameComing(s) /\ SameReady(s)
    BY <1>1 DEF SameQueue, SameComing, SameReady
  <2> QED
    BY <2>1, <2>2, <2>3, OwnFrame DEF SameOwners, BInv, OwnInv
<1>10. ASSUME NEW s \in Slots, NEW c \in placed, slotMap[c] = s
       PROVE Own(s)'
  <2>1. /\ s \notin ready /\ OneSequence(s) /\ NoneQueued(s) /\ NoneComing(s)
    <3>1. ~NoSequence(s)
      BY <1>10 DEF NoSequence
    <3> QED
      BY <3>1 DEF BInv, OwnInv, Own
  <2>2. \A d \in Cids : slotMap[d] = s => d = c
    BY <1>10, <2>1 DEF OneSequence
  <2>3. NoSequence(s)'
    BY <1>1, <1>4, <2>2 DEF NoSequence
  <2>4. NoneQueued(s)' /\ NoneComing(s)'
    BY <1>1, <2>1, QueueFrame, ComingFrame DEF SameQueue, SameComing
  <2>5. OneForced(s)'
    <3>1. <<c, s>> \in forced' /\ <<c, s>>[2] = s
      BY <1>1, <1>10
    <3>2. \A g \in forced' : g[2] = s => g = <<c, s>>
      BY <1>1, <2>2
    <3> QED
      BY <3>1, <3>2 DEF OneForced
  <2> QED
    BY <1>1, <2>1, <2>3, <2>4, <2>5 DEF Own
<1>11. OwnInv'
  BY <1>2, <1>9, <1>10 DEF OwnInv
<1> QED
  BY <1>6, <1>7, <1>8, <1>11 DEF BInv

\* The reaper is about to enqueue a force-end: the slot has the call instead.
LEMMA ReaperForceEndKeeps ==
  ASSUME Fixed, BInv, ReaperForceEnd
  PROVE BInv'
<1>1. PICK f \in forced :
        /\ forced' = forced \ {f}
        /\ calls' = calls \cup {Call("reaper", Null(f[1]), f[2], "enqueue")}
  BY DEF ReaperForceEnd
<1>2. UNCHANGED <<sent, slotMap, backlogMap, backlog, ready, stamp, queues>>
  BY DEF ReaperForceEnd, mapVars
<1>3. Slots' = Slots /\ Config' = Config
      /\ \A q : (End(q)' <=> End(q)) /\ (Releases(q)' <=> Releases(q))
  BY FixedMeans
<1>4. f \in Cids \X Slots
  BY DEF BInv, BaseType
<1>5. PICK t \in Slots : t = f[2]
  BY <1>4
<1>60. PICK x \in {Call("reaper", Null(f[1]), f[2], "enqueue")} :
         x = Call("reaper", Null(f[1]), f[2], "enqueue")
  OBVIOUS
<1>61. /\ Null(f[1]) \in Items /\ IsNull(Null(f[1])) /\ Releases(Null(f[1]))
  BY <1>4, FlagsFit DEF BInv, BaseType
<1>6. /\ x \in CallType /\ x.from = "reaper" /\ x.slot = t /\ x.step = "enqueue"
      /\ IsNull(x.req) /\ Releases(x.req)
  <2>1. x.from = "reaper" /\ x.req = Null(f[1]) /\ x.slot = t /\ x.step = "enqueue"
    BY <1>5, <1>60 DEF Call
  <2>2. x \in CallType
    BY <1>5, <1>60, <1>61 DEF CallType, Call, Steps
  <2> QED
    BY <1>61, <2>1, <2>2
<1>7. calls' = calls \cup {x}
  BY <1>1, <1>60
<1>8. BaseType'
  <2>1. CallType' = CallType
    BY <1>3 DEF CallType
  <2> QED
    BY <1>1, <1>2, <1>3, <1>6, <1>7, <2>1 DEF BInv, BaseType, Fixed
<1>9. BacklogInv'
  <2>1. Grows
    <3>1. sent \in [Cids -> Nat] /\ sent' = sent
      BY <1>2 DEF BInv, BaseType
    <3> QED
      BY <3>1 DEF Grows
  <2> QED
    BY <1>2, <2>1, BacklogFrame DEF BInv, BacklogInv
<1>10. CallsInv'
  BY <1>2, <1>3, <1>6, <1>7 DEF BInv, CallsInv, IsNull
<1>11. ASSUME NEW s \in Slots, s # t PROVE Own(s)'
  <2>1. SameComing(s)
    BY <1>6, <1>7, <1>11 DEF SameComing, Coming
  <2>2. SameForced(s)
    BY <1>1, <1>5, <1>11 DEF SameForced
  <2>3. SameSequences(s) /\ SameQueue(s) /\ SameReady(s)
    BY <1>2 DEF SameSequences, SameQueue, SameReady
  <2> QED
    BY <2>1, <2>2, <2>3, OwnFrame DEF SameOwners, BInv, OwnInv
<1>12. Own(t)'
  <2>1. ~NoneForced(t)
    BY <1>5 DEF NoneForced
  <2>2. /\ t \notin ready /\ NoSequence(t) /\ NoneQueued(t) /\ NoneComing(t) /\ OneForced(t)
    BY <2>1 DEF BInv, OwnInv, Own
  <2>3. NoSequence(t)' /\ NoneQueued(t)'
    BY <1>2, <2>2, SequencesFrame, QueueFrame DEF SameSequences, SameQueue
  <2>4. NoneForced(t)'
    BY <1>1, <1>5, <2>2 DEF NoneForced, OneForced
  <2>5. OneComing(t)'
    <3>1. \A y \in calls : Coming(y, t) => ~Releases(y.req)
      BY <2>2 DEF NoneComing
    <3>2. Coming(x, t) /\ x \in calls'
      BY <1>6, <1>7 DEF Coming
    <3>3. \A y \in calls' : Coming(y, t) /\ Releases(y.req) => y = x
      BY <1>7, <3>1
    <3> QED
      BY <1>3, <1>6, <3>2, <3>3 DEF OneComing, Coming
  <2> QED
    BY <1>2, <2>2, <2>3, <2>4, <2>5 DEF Own
<1>13. OwnInv'
  BY <1>3, <1>11, <1>12 DEF OwnInv
<1> QED
  BY <1>8, <1>9, <1>10, <1>13 DEF BInv

\* What the strategies need to know of a step of the scheduler: it adds only
\* calls of Enqueue, and the sequence of a client's call stays in its slot.
SchedulerOnly ==
  /\ UNCHANGED <<queues, corrid>>
  /\ calls \subseteq calls' /\ \A x \in calls' : x \in calls \/ x.step = "enqueue"
  /\ \A x \in calls : x.from = "client" => slotMap'[x.req[1]] = slotMap[x.req[1]]

\* Every step of the scheduler preserves the invariant that both strategies
\* share.
LEMMA SchedulerKeeps ==
  ASSUME Fixed, BInv, ~Pipelined, BaseNext
  PROVE BInv' /\ SchedulerOnly
<1>1. /\ calls \subseteq CallType /\ slotMap \in [Cids -> Slots \cup {None}]
      /\ \A x \in calls : x.from = "client" => x.req[1] \in Cids /\ stamp[x.req[1]] # "idle"
  BY DEF BInv, BaseType, CallType, Items, CallsInv
<1>2. ASSUME NEW c \in Cids, Client(c) PROVE BInv' /\ SchedulerOnly
  <2>1. CASE Refuse(c)
    <3>1. SchedulerOnly
      BY <2>1 DEF Refuse, SchedulerOnly, mapVars
    <3> QED
      BY <2>1, <3>1, RefuseKeeps
  <2>2. CASE EnqueueBacklogged(c)
    <3>1. SchedulerOnly
      BY <2>2 DEF EnqueueBacklogged, Admits, SchedulerOnly
    <3> QED
      BY <2>2, <3>1, EnqueueBackloggedKeeps
  <2>3. CASE EnqueueBacklogging(c)
    <3>1. SchedulerOnly
      BY <2>3 DEF EnqueueBacklogging, Admits, SchedulerOnly
    <3> QED
      BY <2>3, <3>1, EnqueueBackloggingKeeps
  <2>4. ASSUME NEW t, Admits(c), ToSlot(c, t) PROVE SchedulerOnly
    <3>1. \A x \in calls : x.from = "client" => x.req[1] # c
      BY <2>4, SendsMeans DEF Admits, BInv
    <3>2. /\ slotMap' = [slotMap EXCEPT ![c] = IF End(NextRequest(c)) THEN None ELSE t]
          /\ calls' = calls \cup {Call("client", NextRequest(c), t, "enqueue")}
          /\ UNCHANGED <<queues, corrid>>
      BY <2>4 DEF Admits, ToSlot
    <3>3. Call("client", NextRequest(c), t, "enqueue").step = "enqueue"
      BY DEF Call
    <3>4. \A x \in calls : x.from = "client" => slotMap'[x.req[1]] = slotMap[x.req[1]]
      BY <1>1, <3>1, <3>2
    <3> QED
      BY <3>2, <3>3, <3>4 DEF SchedulerOnly
  <2>5. CASE EnqueueAssigned(c)
    <3>1. SchedulerOnly
      BY <2>4, <2>5 DEF EnqueueAssigned
    <3> QED
      BY <2>5, <3>1, EnqueueAssignedKeeps
  <2>6. CASE EnqueueAssigning(c)
    <3>1. SchedulerOnly
      BY <2>4, <2>6 DEF EnqueueAssigning
    <3> QED
      BY <2>6, <3>1, EnqueueAssigningKeeps
  <2> QED
    BY <1>2, <2>1, <2>2, <2>3, <2>5, <2>6 DEF Client
<1>3. ASSUME NEW c \in Cids, BecomesIdle(c) PROVE BInv' /\ SchedulerOnly
  <2>1. SchedulerOnly
    BY <1>3 DEF BecomesIdle, SchedulerOnly, mapVars
  <2> QED
    BY <1>3, <2>1, BecomesIdleKeeps
<1>4. CASE ReaperCheck
  <2>1. slotMap' = [c \in Cids |->
           IF c \in {d \in {e \in Cids : stamp[e] = "idle"} : slotMap[d] # None}
           THEN None ELSE slotMap[c]]
        /\ UNCHANGED <<queues, corrid, calls>>
    BY <1>4 DEF ReaperCheck
  <2>2. SchedulerOnly
    BY <1>1, <2>1 DEF SchedulerOnly
  <2> QED
    BY <1>4, <2>2, ReaperCheckKeeps
<1>5. CASE ReaperForceEnd
  <2>1. SchedulerOnly
    BY <1>5 DEF ReaperForceEnd, SchedulerOnly, mapVars, Call
  <2> QED
    BY <1>5, <2>1, ReaperForceEndKeeps
<1> QED
  BY <1>2, <1>3, <1>4, <1>5 DEF BaseNext
----------------------------------------------------------------------------
(***************************************************************************)
(* What a batcher does with the queue of a slot: a request is appended, or *)
(* taken, or the slot is released.                                         *)
(***************************************************************************)
Leaves(x) == Return(x) \/ \E st \in Steps \ {"enqueue"} : Goto(x, st)
CalledBack(e) == calls' = calls \cup {Call("backend", e[2], e[1], "next")}
QuietCalls ==
  \/ UNCHANGED calls
  \/ \E x \in calls : x.step # "enqueue" /\ Leaves(x)
  \/ \E e \in Slots \X Requests : CalledBack(e)

KeepsSlots == \A d \in Cids : slotMap[d] # None => slotMap'[d] = slotMap[d]

\* A call goes on to another step or returns.
LEMMA LeavesKeeps ==
  ASSUME Fixed, BInv, NEW x \in calls, Leaves(x), UNCHANGED stamp, KeepsSlots
  PROVE /\ CallsInv' /\ calls' \subseteq CallType
        /\ \A y : y # x /\ y.step = "enqueue" => (y \in calls' <=> y \in calls)
        /\ x.step = "enqueue" => x \notin calls'
<1>1. calls \subseteq CallType /\ CallsInv /\ None \notin Slots
  BY FlagsFit DEF BInv, BaseType
<1>2. \A q : End(q)' <=> End(q)
  BY FixedMeans
<1>3. PICK new \in SUBSET CallType :
        /\ calls' = (calls \ {x}) \cup new
        /\ \A y \in new : /\ y.from = x.from /\ y.req = x.req /\ y.slot = x.slot
                          /\ y.step # "enqueue"
        /\ \A y, z \in new : y = z
  <2>1. CASE Return(x)
    <3>1. calls' = (calls \ {x}) \cup {}
      BY <2>1 DEF Return
    <3> WITNESS {} \in SUBSET CallType
    <3> QED
      BY <3>1
  <2>2. ASSUME NEW st \in Steps \ {"enqueue"}, Goto(x, st)
        PROVE \E new \in SUBSET CallType :
                /\ calls' = (calls \ {x}) \cup new
                /\ \A y \in new : /\ y.from = x.from /\ y.req = x.req /\ y.slot = x.slot
                                  /\ y.step # "enqueue"
                /\ \A y, z \in new : y = z
    <3>1. PICK y \in {[x EXCEPT !.step = st]} : y = [x EXCEPT !.step = st]
      OBVIOUS
    <3>2. /\ y \in CallType /\ y.from = x.from /\ y.req = x.req /\ y.slot = x.slot
          /\ y.step = st
      BY <1>1, <3>1 DEF CallType
    <3>3. calls' = (calls \ {x}) \cup {y}
      BY <2>2, <3>1 DEF Goto
    <3>4. PICK new \in SUBSET CallType : new = {y}
      BY <3>2
    <3> QED
      BY <3>2, <3>3, <3>4
  <2> QED
    BY <2>1, <2>2 DEF Leaves
<1>4. calls' \subseteq CallType
  BY <1>1, <1>3
<1>5. \A y : y # x /\ y.step = "enqueue" => (y \in calls' <=> y \in calls)
  BY <1>3
<1>6. x.step = "enqueue" => x \notin calls'
  BY <1>3
<1>7. \A y \in calls : /\ y.from = "client" => ~IsNull(y.req) /\ stamp[y.req[1]] # "idle"
                       /\ y.from = "reaper" => IsNull(y.req)
                       /\ y.from = "backend" => y.step # "enqueue"
                       /\ y.from = "client" /\ y.step = "enqueue" /\ ~End(y.req) =>
                            slotMap[y.req[1]] = y.slot
  BY <1>1 DEF CallsInv
<1>8. \A y \in calls : y.req[1] \in Cids /\ y.slot # None
  BY <1>1 DEF CallType, Items
<1>9. \A y \in calls' : /\ y.from = "client" => ~IsNull(y.req) /\ stamp[y.req[1]] # "idle"
                        /\ y.from = "reaper" => IsNull(y.req)
                        /\ y.from = "backend" => y.step # "enqueue"
  BY <1>3, <1>7
<1>10. \A y \in calls' : y.from = "client" /\ y.step = "enqueue" /\ ~End(y.req) =>
                           slotMap'[y.req[1]] = y.slot
  BY <1>3, <1>7, <1>8 DEF KeepsSlots
<1>11. \A y, z \in calls :
         y.from = "client" /\ z.from = "client" /\ y.req[1] = z.req[1] => y = z
  BY <1>1 DEF CallsInv
<1>12. \A y, z \in calls' :
         y.from = "client" /\ z.from = "client" /\ y.req[1] = z.req[1] => y = z
  BY <1>3, <1>11
<1>13. CallsInv'
  BY <1>2, <1>9, <1>10, <1>12 DEF CallsInv, IsNull
<1> QED
  BY <1>4, <1>5, <1>6, <1>13

\* A step that leaves the calls of Enqueue alone.
LEMMA QuietCallsKeep ==
  ASSUME Fixed, BInv, QuietCalls, UNCHANGED stamp, KeepsSlots
  PROVE CallsInv' /\ calls' \subseteq CallType /\ \A s : SameComing(s)
<1>1. calls \subseteq CallType /\ CallsInv /\ None \notin Slots /\ Requests \subseteq Items
  BY FlagsFit DEF BInv, BaseType
<1>2. \A q : End(q)' <=> End(q)
  BY FixedMeans
<1>3. \A y \in calls : y.from = "client" /\ slotMap[y.req[1]] = y.slot =>
                         slotMap'[y.req[1]] = y.slot
  BY <1>1 DEF CallType, Items, KeepsSlots
<1>4. CASE UNCHANGED calls
  <2>1. CallsInv'
    BY <1>1, <1>2, <1>3, <1>4 DEF CallsInv, IsNull
  <2>2. \A s : SameComing(s)
    BY <1>4 DEF SameComing
  <2> QED
    BY <1>1, <1>4, <2>1, <2>2
<1>5. ASSUME NEW x \in calls, x.step # "enqueue", Leaves(x)
      PROVE CallsInv' /\ calls' \subseteq CallType /\ \A s : SameComing(s)
  <2>1. /\ CallsInv' /\ calls' \subseteq CallType
        /\ \A y : y # x /\ y.step = "enqueue" => (y \in calls' <=> y \in calls)
    BY <1>5, LeavesKeeps
  <2> QED
    BY <1>5, <2>1 DEF SameComing, Coming
<1>6. ASSUME NEW e \in Slots \X Requests, CalledBack(e)
      PROVE CallsInv' /\ calls' \subseteq CallType /\ \A s : SameComing(s)
  <2>0. PICK y \in {Call("backend", e[2], e[1], "next")} :
          y = Call("backend", e[2], e[1], "next")
    OBVIOUS
  <2>1. y \in CallType /\ y.from = "backend" /\ y.step = "next"
    BY <1>1, <2>0 DEF CallType, Call, Steps
  <2>2. calls' = calls \cup {y}
    BY <1>6, <2>0 DEF CalledBack
  <2>3. CallsInv'
    BY <1>1, <1>2, <1>3, <2>1, <2>2 DEF CallsInv, IsNull
  <2>4. \A s : SameComing(s)
    BY <2>1, <2>2 DEF SameComing, Coming
  <2> QED
    BY <1>1, <2>1, <2>2, <2>3, <2>4
<1> QED
  BY <1>4, <1>5, <1>6 DEF QuietCalls

\* The backlog is as it was.
LEMMA BacklogStays ==
  ASSUME Fixed, BInv, UNCHANGED <<sent, slotMap, backlogMap, backlog, ready>>
  PROVE BacklogInv'
<1>1. Grows
  <2>1. sent \in [Cids -> Nat] /\ sent' = sent
    BY DEF BInv, BaseType
  <2> QED
    BY <2>1 DEF Grows
<1> QED
  BY <1>1, BacklogFrame DEF BInv, BacklogInv

\* Nothing but calls after Enqueue has changed.
LEMMA StillKeeps ==
  ASSUME Fixed, BInv, QuietCalls,
         UNCHANGED <<sent, slotMap, backlogMap, backlog, ready, stamp, forced, queues>>
  PROVE BInv'
<1>1. KeepsSlots
  BY DEF KeepsSlots
<1>2. CallsInv' /\ calls' \subseteq CallType /\ \A s : SameComing(s)
  BY <1>1, QuietCallsKeep
<1>3. Slots' = Slots /\ Config' = Config
  BY FixedMeans
<1>4. BaseType'
  BY <1>2, <1>3 DEF BInv, BaseType, Fixed, CallType
<1>5. ASSUME NEW s \in Slots PROVE Own(s)'
  <2>1. SameOwners(s)
    BY <1>2 DEF SameOwners, SameSequences, SameQueue, SameForced, SameReady
  <2> QED
    BY <2>1, OwnFrame DEF BInv, OwnInv
<1> QED
  BY <1>2, <1>3, <1>4, <1>5, BacklogStays DEF BInv, OwnInv

\* A request arrives at its slot: a releasing one is the last of the queue.
LEMMA AppendKeeps ==
  ASSUME Fixed, BInv, NEW x \in calls, x.step = "enqueue", Leaves(x),
         queues' = [queues EXCEPT ![x.slot] = Append(@, x.req)],
         UNCHANGED <<sent, slotMap, backlogMap, backlog, ready, stamp, forced>>
  PROVE BInv'
<1>1. KeepsSlots
  BY DEF KeepsSlots
<1>2. /\ CallsInv' /\ calls' \subseteq CallType
      /\ \A y : y # x /\ y.step = "enqueue" => (y \in calls' <=> y \in calls)
      /\ x \notin calls'
  BY <1>1, LeavesKeeps
<1>3. Slots' = Slots /\ Config' = Config
      /\ \A r : Releases(r)' <=> Releases(r)
  BY FixedMeans
<1>4. x \in CallType /\ queues \in [Slots -> Seq(Items)]
  BY DEF BInv, BaseType
<1>5. PICK t \in Slots, q \in Seq(Items), r \in Items : t = x.slot /\ q = queues[t] /\ r = x.req
  BY <1>4 DEF CallType
<1>6. /\ queues'[t] = Append(q, r) /\ \A s \in Slots : s # t => queues'[s] = queues[s]
      /\ queues' \in [Slots -> Seq(Items)]
  BY <1>4, <1>5
<1>7. /\ Len(Append(q, r)) = Len(q) + 1 /\ Append(q, r)[Len(q) + 1] = r
      /\ \A k \in 1..Len(q) : Append(q, r)[k] = q[k]
      /\ Append(q, r) # << >> /\ Len(q) \in Nat
      /\ \A k \in 1..(Len(q) + 1) : k \in 1..Len(q) \/ k = Len(q) + 1
  <2>1. Len(q) \in Nat /\ Append(q, r) \in Seq(Items) /\ Len(Append(q, r)) = Len(q) + 1
    OBVIOUS
  <2>2. Append(q, r) # << >>
    BY <2>1
  <2>3. \A k \in 1..(Len(q) + 1) : k \in 1..Len(q) \/ k = Len(q) + 1
    BY <2>1
  <2> QED
    BY <2>1, <2>2, <2>3
<1>8. BaseType'
  BY <1>2, <1>3, <1>6 DEF BInv, BaseType, Fixed, CallType
<1>9. ASSUME NEW s \in Slots, s # t PROVE Own(s)'
  <2>1. SameComing(s)
    BY <1>2, <1>5, <1>9 DEF SameComing, Coming
  <2>2. SameOwners(s)
    BY <1>6, <1>9, <2>1 DEF SameOwners, SameSequences, SameQueue, SameForced, SameReady
  <2> QED
    BY <2>2, OwnFrame DEF BInv, OwnInv
<1>10. Own(t)'
  <2>1. Own(t) /\ Coming(x, t)
    BY <1>5 DEF BInv, OwnInv, Coming
  <2>2. /\ NoSequence(t)' <=> NoSequence(t)
        /\ OneSequence(t)' <=> OneSequence(t)
    BY SequencesFrame DEF SameSequences
  <2>3. NoneForced(t)' <=> NoneForced(t)
    BY ForcedFrame DEF SameForced
  <2>4. CASE Releases(r)
    <3>1. ~NoneComing(t)
      BY <1>5, <2>1, <2>4 DEF NoneComing
    <3>2. /\ t \notin ready /\ NoSequence(t) /\ NoneQueued(t) /\ OneComing(t) /\ NoneForced(t)
      BY <2>1, <3>1 DEF Own
    <3>3. \A y \in calls : Coming(y, t) /\ Releases(y.req) => y = x
      BY <1>5, <2>1, <2>4, <3>2 DEF OneComing
    <3>4. NoneComing(t)'
      BY <1>2, <1>3, <3>3 DEF NoneComing, Coming
    <3>5. LastQueued(t)'
      <4>1. \A k \in 1..Len(q) : ~Releases(q[k])
        BY <1>5, <3>2 DEF NoneQueued
      <4>2. \A k \in 1..Len(Append(q, r)) : k < Len(Append(q, r)) => ~Releases(Append(q, r)[k])
        BY <1>7, <4>1
      <4>3. Releases(Append(q, r)[Len(Append(q, r))])
        BY <1>7, <2>4
      <4> QED
        BY <1>3, <1>6, <1>7, <4>2, <4>3 DEF LastQueued
    <3> QED
      BY <2>2, <2>3, <3>2, <3>4, <3>5 DEF Own
  <2>5. CASE ~Releases(r)
    <3>1. x.from = "client" /\ ~End(r) /\ r[1] \in Cids
      BY <1>4, <1>5, <2>5 DEF BInv, CallsInv, CallType, Releases, Items
    <3>2. slotMap[r[1]] = t
      BY <1>5, <3>1 DEF BInv, CallsInv
    <3>3. ~NoSequence(t)
      BY <3>1, <3>2 DEF NoSequence
    <3>4. /\ t \notin ready /\ OneSequence(t) /\ NoneQueued(t) /\ NoneComing(t) /\ NoneForced(t)
      BY <2>1, <3>3 DEF Own
    <3>5. NoneQueued(t)'
      <4>1. \A k \in 1..Len(q) : ~Releases(q[k])
        BY <1>5, <3>4 DEF NoneQueued
      <4>2. \A k \in 1..Len(Append(q, r)) : ~Releases(Append(q, r)[k])
        BY <1>7, <2>5, <4>1
      <4> QED
        BY <1>3, <1>6, <4>2 DEF NoneQueued
    <3>6. NoneComing(t)'
      BY <1>2, <1>3, <3>4 DEF NoneComing, Coming
    <3> QED
      BY <2>2, <2>3, <3>4, <3>5, <3>6 DEF Own
  <2> QED
    BY <2>4, <2>5
<1> QED
  BY <1>2, <1>3, <1>8, <1>9, <1>10, BacklogStays DEF BInv, OwnInv

\* The first request of a slot, if it does not release the slot, is taken.
LEMMA PopKeeps ==
  ASSUME Fixed, BInv, NEW t \in Slots, queues[t] # << >>,
         ~Releases(Head(queues[t])), QuietCalls,
         queues' = [queues EXCEPT ![t] = Tail(@)],
         UNCHANGED <<sent, slotMap, backlogMap, backlog, ready, stamp, forced>>
  PROVE BInv'
<1>1. KeepsSlots
  BY DEF KeepsSlots
<1>2. CallsInv' /\ calls' \subseteq CallType /\ \A s : SameComing(s)
  BY <1>1, QuietCallsKeep
<1>3. Slots' = Slots /\ Config' = Config
      /\ \A r : Releases(r)' <=> Releases(r)
  BY FixedMeans
<1>4. queues \in [Slots -> Seq(Items)]
  BY DEF BInv, BaseType
<1>5. PICK q \in Seq(Items) : q = queues[t]
  BY <1>4
<1>6. /\ queues'[t] = Tail(q) /\ \A s \in Slots : s # t => queues'[s] = queues[s]
      /\ queues' \in [Slots -> Seq(Items)]
  BY <1>4, <1>5
<1>7. /\ Len(q) \in Nat /\ Len(q) > 0 /\ Len(Tail(q)) = Len(q) - 1 /\ Head(q) = q[1]
      /\ \A k \in 1..Len(Tail(q)) : Tail(q)[k] = q[k + 1] /\ k + 1 \in 1..Len(q)
      /\ Tail(q) \in Seq(Items)
  BY <1>5
<1>8. BaseType'
  BY <1>2, <1>3, <1>6 DEF BInv, BaseType, Fixed, CallType
<1>9. ASSUME NEW s \in Slots, s # t PROVE Own(s)'
  <2>1. SameOwners(s)
    BY <1>2, <1>6, <1>9 DEF SameOwners, SameSequences, SameQueue, SameForced, SameReady
  <2> QED
    BY <2>1, OwnFrame DEF BInv, OwnInv
<1>10. Own(t)'
  <2>1. Own(t)
    BY DEF BInv, OwnInv
  <2>2. /\ NoSequence(t)' <=> NoSequence(t)
        /\ OneSequence(t)' <=> OneSequence(t)
    BY SequencesFrame DEF SameSequences
  <2>3. /\ NoneForced(t)' <=> NoneForced(t)
        /\ OneForced(t)' <=> OneForced(t)
    BY ForcedFrame DEF SameForced
  <2>4. /\ NoneComing(t)' <=> NoneComing(t)
        /\ OneComing(t)' <=> OneComing(t)
    BY <1>2, ComingFrame
  <2>5. NoneQueued(t) => NoneQueued(t)'
    <3> SUFFICES ASSUME NoneQueued(t) PROVE NoneQueued(t)'
      OBVIOUS
    <3>1. \A k \in 1..Len(q) : ~Releases(q[k])
      BY <1>5 DEF NoneQueued
    <3>2. \A k \in 1..Len(Tail(q)) : ~Releases(Tail(q)[k])
      BY <1>7, <3>1
    <3> QED
      BY <1>3, <1>6, <3>2 DEF NoneQueued
  <2>6. LastQueued(t) => LastQueued(t)'
    <3> SUFFICES ASSUME LastQueued(t) PROVE LastQueued(t)'
      OBVIOUS
    <3>1. /\ Releases(q[Len(q)]) /\ ~Releases(q[1])
          /\ \A k \in 1..Len(q) : k < Len(q) => ~Releases(q[k])
      BY <1>5, <1>7 DEF LastQueued
    <3>2. Len(q) # 1
      BY <3>1
    <3>3. Len(Tail(q)) \in 1..Len(Tail(q)) /\ Len(Tail(q)) + 1 = Len(q)
      BY <1>7, <3>2
    <3>4. Tail(q) # << >> /\ Tail(q)[Len(Tail(q))] = q[Len(q)]
      <4>1. Len(Tail(q)) # 0
        BY <1>7, <3>3
      <4>2. Tail(q) # << >>
        BY <4>1, Len(<< >>) = 0, Zenon
      <4> QED
        BY <1>7, <3>3, <4>2
    <3>5. \A k \in 1..Len(Tail(q)) : k < Len(Tail(q)) => ~Releases(Tail(q)[k])
      <4>1. \A k \in 1..Len(Tail(q)) : k < Len(Tail(q)) => k + 1 < Len(q)
        BY <1>7
      <4> QED
        BY <1>7, <3>1, <4>1
    <3> QED
      BY <1>3, <1>6, <3>1, <3>4, <3>5 DEF LastQueued
  <2>7. t \notin ready /\ t \notin ready'
    BY <2>1 DEF Own
  <2> QED
    BY <2>1, <2>2, <2>3, <2>4, <2>5, <2>6, <2>7 DEF Own
<1> QED
  BY <1>2, <1>3, <1>8, <1>9, <1>10, BacklogStays DEF BInv, OwnInv

\* ReleaseSequenceSlot when a sequence is waiting: the queue of the first one
\* in the backlog.
Waits(h) ==
  /\ backlog # << >> /\ h = Head(backlog) /\ h \in Seq(Requests) /\ h # << >>
  /\ QueueOfOne(h) /\ Last(h) = h[Len(h)] /\ Last(h)[1] = h[1][1] /\ h[1][1] \in Cids
  /\ h[1] \in Requests
  /\ OpenQueue(h) => backlogMap[h[1][1]] = h[1] /\ slotMap[h[1][1]] = None

\* The first queue of a backlog that is not empty.
LEMMA FirstWaits ==
  ASSUME BInv, backlog # << >>
  PROVE \E h \in Seq(Requests) : Waits(h)
<1>1. backlog \in Seq(Seq(Requests)) /\ None \notin Requests
  BY FlagsFit DEF BInv, BaseType
<1>2. PICK h \in Seq(Requests) : h = Head(backlog) /\ h = backlog[1] /\ 1 \in 1..Len(backlog)
  BY <1>1
<1>3. QueueOfOne(h) /\ (OpenQueue(h) => backlogMap[h[1][1]] = h[1])
  BY <1>2 DEF BInv, BacklogInv
<1>4. h # << >> /\ Len(h) \in 1..Len(h) /\ 1 \in 1..Len(h)
  BY <1>3 DEF QueueOfOne
<1>5. Last(h) = h[Len(h)]
  BY DEF Last
<1>6. h[1] \in Requests /\ h[1][1] \in Cids
  BY <1>4 DEF Requests
<1>7. Last(h)[1] = h[1][1]
  BY <1>3, <1>4, <1>5 DEF QueueOfOne
<1>8. OpenQueue(h) => slotMap[h[1][1]] = None
  BY <1>1, <1>3, <1>6 DEF BInv, BacklogInv
<1> QED
  BY <1>2, <1>3, <1>4, <1>5, <1>6, <1>7, <1>8 DEF Waits

\* The backlog without its first queue, whose sequence has got a slot.
LEMMA BacklogMovesOn ==
  ASSUME Fixed, BInv, UNCHANGED <<sent, ready>>, NEW t \in Slots, NEW h \in Seq(Requests),
         Waits(h), ReleaseSequenceSlot(t)
  PROVE /\ BacklogInv' /\ backlog' \in Seq(Seq(Requests))
        /\ backlogMap' \in [Cids -> Requests \cup {None}]
<1>1. /\ backlog \in Seq(Seq(Requests)) /\ backlogMap \in [Cids -> Requests \cup {None}]
      /\ None \notin Requests /\ slotMap \in [Cids -> Slots \cup {None}]
  BY FlagsFit DEF BInv, BaseType
<1>2. \A r : End(r)' <=> End(r)
  BY FixedMeans
<1>3. PICK c \in Cids : c = h[1][1]
  BY DEF Waits
<1>4. /\ backlog # << >> /\ h = backlog[1] /\ QueueOfOne(h)
      /\ OpenQueue(h) => backlogMap[c] = h[1] /\ slotMap[c] = None
      /\ OpenQueue(h) <=> ~End(Last(Head(backlog)))
      /\ ReleasedCid = c
  BY <1>1, <1>3 DEF Waits, OpenQueue, ReleasedCid
<1>5. /\ backlog' = Tail(backlog)
      /\ backlogMap' = IF OpenQueue(h) THEN [backlogMap EXCEPT ![c] = None] ELSE backlogMap
      /\ slotMap' = IF OpenQueue(h) THEN [slotMap EXCEPT ![c] = t] ELSE slotMap
  BY <1>4 DEF ReleaseSequenceSlot
<1>6. PICK n \in Nat : n = Len(backlog)
  BY <1>1
<1>7. /\ n > 0 /\ Len(backlog') = n - 1 /\ backlog' \in Seq(Seq(Requests))
      /\ \A k \in 1..(n - 1) : backlog'[k] = backlog[k + 1] /\ k + 1 \in 1..n
  BY <1>1, <1>4, <1>5, <1>6
<1>8. backlogMap' \in [Cids -> Requests \cup {None}]
  BY <1>1, <1>5
<1>9. ASSUME NEW k \in 1..(n - 1)
      PROVE /\ QueueOfOne(backlog[k])'
            /\ OpenQueue(backlog[k])' <=> OpenQueue(backlog[k + 1])
  <2>1. backlog'[k] = backlog[k + 1] /\ k + 1 \in 1..n
    BY <1>7
  <2>2. QueueOfOne(backlog[k + 1])
    BY <1>6, <2>1 DEF BInv, BacklogInv
  <2>3. QueueOfOne(backlog[k])'
    BY <1>2, <2>1, <2>2, SMTT(30) DEF QueueOfOne
  <2> QED
    BY <1>2, <2>1, <2>3 DEF OpenQueue
<1>10. \A k, l \in 1..n : backlog[k][1] = backlog[l][1] => k = l
  BY <1>6 DEF BInv, BacklogInv
<1>11. ASSUME NEW k \in 1..(n - 1), OpenQueue(backlog[k])'
       PROVE backlogMap'[backlog'[k][1][1]] = backlog'[k][1]
  <2>1. /\ backlog'[k] = backlog[k + 1] /\ k + 1 \in 1..n /\ OpenQueue(backlog[k + 1])
        /\ k + 1 # 1 /\ 1 \in 1..n
    <3>1. OpenQueue(backlog[k + 1])
      BY <1>9, <1>11
    <3>2. k + 1 # 1 /\ 1 \in 1..n
      BY <1>7
    <3> QED
      BY <1>7, <3>1, <3>2
  <2>2. backlogMap[backlog[k + 1][1][1]] = backlog[k + 1][1]
    BY <1>6, <2>1 DEF BInv, BacklogInv
  <2>3. backlog[k + 1][1] # h[1]
    BY <1>4, <1>10, <2>1
  <2>4. OpenQueue(h) => backlog[k + 1][1][1] # c
    BY <1>4, <2>2, <2>3
  <2>5. backlogMap'[backlog[k + 1][1][1]] = backlogMap[backlog[k + 1][1][1]]
    <3>1. backlogMap' = backlogMap \/ backlogMap' = [backlogMap EXCEPT ![c] = None]
      BY <1>5
    <3>2. backlog[k + 1] \in Seq(Requests) /\ backlog[k + 1] # << >>
      BY <1>1, <1>6, <2>1 DEF BInv, BacklogInv, QueueOfOne
    <3>3. backlog[k + 1][1][1] \in Cids
      BY <3>2 DEF Requests
    <3> QED
      BY <1>1, <1>5, <2>4, <3>3
  <2> QED
    BY <2>1, <2>2, <2>5
<1>12. \A k, l \in 1..(n - 1) : backlog'[k][1] = backlog'[l][1] => k = l
  <2> SUFFICES ASSUME NEW k \in 1..(n - 1), NEW l \in 1..(n - 1), backlog'[k][1] = backlog'[l][1]
               PROVE k = l
    OBVIOUS
  <2>1. /\ backlog[k + 1][1] = backlog[l + 1][1]
        /\ k + 1 \in 1..n /\ l + 1 \in 1..n
    BY <1>7
  <2>2. k + 1 = l + 1
    BY <1>10, <2>1
  <2> QED
    BY <2>2
<1>13. ASSUME NEW d \in Cids, backlogMap'[d] # None
       PROVE /\ slotMap'[d] = None
             /\ \E k \in 1..(n - 1) : /\ backlog'[k][1] = backlogMap'[d]
                                      /\ backlog'[k][1][1] = d /\ OpenQueue(backlog[k])'
  <2>1. backlogMap'[d] = backlogMap[d] /\ (OpenQueue(h) => d # c)
    BY <1>1, <1>5, <1>13
  <2>2. slotMap'[d] = None
    <3>1. slotMap[d] = None
      BY <1>13, <2>1 DEF BInv, BacklogInv
    <3> QED
      BY <1>1, <1>5, <2>1, <3>1
  <2>3. PICK l \in 1..n :
          backlog[l][1] = backlogMap[d] /\ backlog[l][1][1] = d /\ OpenQueue(backlog[l])
    BY <1>6, <1>13, <2>1 DEF BInv, BacklogInv
  <2>4. l # 1
    BY <1>3, <1>4, <2>1, <2>3
  <2>5. PICK k \in 1..(n - 1) : l = k + 1
    <3>1. l - 1 \in 1..(n - 1) /\ l = (l - 1) + 1
      BY <2>4
    <3> QED
      BY <3>1
  <2>6. backlog'[k] = backlog[l] /\ OpenQueue(backlog[k])'
    BY <1>7, <1>9, <2>3, <2>5
  <2> QED
    BY <2>1, <2>2, <2>3, <2>6
<1>14. ready' = {}
  BY <1>4 DEF BInv, BacklogInv
<1>15. BacklogInv'
  BY <1>7, <1>9, <1>11, <1>12, <1>13, <1>14 DEF BacklogInv
<1> QED
  BY <1>7, <1>8, <1>15

\* A slot is released: the request that releases it was the last of its queue,
\* and the slot is then ready or belongs to the first sequence of the backlog.
LEMMA VacateKeeps ==
  ASSUME Fixed, BInv, NEW t \in Slots, queues[t] # << >>,
         Releases(Head(queues[t])), QuietCalls,
         ReleaseSequenceSlot(t),
         queues' = [queues EXCEPT ![t] = ReleasedQueue(Tail(queues[t]))],
         UNCHANGED <<sent, stamp, forced>>
  PROVE /\ BInv' /\ KeepsSlots
        /\ ReleasedCid # 0 => queues'[t] # << >> /\ ~IsNull(Head(queues'[t]))
        /\ ReleasedCid = 0 => queues'[t] = << >>
<1>1. /\ queues \in [Slots -> Seq(Items)] /\ slotMap \in [Cids -> Slots \cup {None}]
      /\ Requests \subseteq Items /\ None \notin Slots
      /\ \A r \in Requests : ~IsNull(r)
  BY FlagsFit DEF BInv, BaseType
<1>2. Slots' = Slots /\ Config' = Config
      /\ \A r : Releases(r)' <=> Releases(r)
  BY FixedMeans
<1>3. PICK q \in Seq(Items) : q = queues[t]
  BY <1>1
<1>4. /\ Len(q) \in Nat /\ Len(q) > 0 /\ Head(q) = q[1]
  BY <1>3
<1>5. ~NoneQueued(t)
  <2>1. 1 \in 1..Len(q) /\ Releases(q[1])
    BY <1>3, <1>4
  <2> QED
    BY <1>3, <2>1 DEF NoneQueued
<1>6. /\ t \notin ready /\ NoSequence(t) /\ LastQueued(t) /\ NoneComing(t) /\ NoneForced(t)
  <2>1. Own(t)
    BY DEF BInv, OwnInv
  <2> QED
    BY <1>5, <2>1 DEF Own
<1>7. Tail(q) = << >>
  <2>1. Len(q) <= 1
    <3>1. \A k \in 1..Len(q) : k < Len(q) => ~Releases(q[k])
      BY <1>3, <1>6 DEF LastQueued
    <3>2. 1 \in 1..Len(q) /\ Releases(q[1])
      BY <1>3, <1>4
    <3> QED
      BY <1>4, <3>1, <3>2
  <2>2. Len(q) = 1
    BY ONLY <1>4, <2>1
  <2>3. q \in Seq(Items) /\ q # << >>
    BY <1>3
  <2>4. Len(Tail(q)) = 0 /\ Tail(q) \in Seq(Items)
    BY ONLY <2>2, <2>3, HeadTailProperties
  <2> QED
    BY ONLY <2>4, EmptySeq
<1>8. \A s \in Slots : s # t => queues'[s] = queues[s]
  BY <1>1
<1>9. CASE backlog = << >>
  <2>1. /\ queues'[t] = << >> /\ ready' = ready \cup {t} /\ ReleasedCid = 0
        /\ UNCHANGED <<slotMap, backlogMap, backlog>>
    BY <1>1, <1>3, <1>7, <1>9 DEF ReleasedQueue, ReleasedCid, ReleaseSequenceSlot
  <2>2. KeepsSlots
    BY <2>1 DEF KeepsSlots
  <2>3. CallsInv' /\ calls' \subseteq CallType /\ \A s : SameComing(s)
    BY <2>2, QuietCallsKeep
  <2>4. BaseType'
    <3>1. queues' \in [Slots -> Seq(Items)]
      BY <1>1, <1>3, <1>7, <1>9 DEF ReleasedQueue
    <3> QED
      BY <1>2, <2>1, <2>3, <3>1 DEF BInv, BaseType, Fixed, CallType
  <2>5. BacklogInv'
    <3>1. Len(backlog) = 0 /\ Len(backlog') = 0 /\ \A k \in 1..0 : FALSE
      BY <1>9, <2>1
    <3>2. \A c \in Cids : backlogMap[c] = None
      BY <3>1 DEF BInv, BacklogInv
    <3> QED
      BY <1>9, <2>1, <3>1, <3>2 DEF BacklogInv
  <2>6. Own(t)'
    <3>1. NoSequence(t)' /\ NoneComing(t)' /\ NoneForced(t)'
      BY <1>6, <2>1, <2>3, SequencesFrame, ComingFrame, ForcedFrame
         DEF SameSequences, SameForced
    <3> QED
      BY <2>1, <3>1 DEF Own
  <2>7. ASSUME NEW s \in Slots, s # t PROVE Own(s)'
    <3>1. SameOwners(s)
      BY <1>8, <2>1, <2>3, <2>7
         DEF SameOwners, SameSequences, SameQueue, SameForced, SameReady
    <3> QED
      BY <3>1, OwnFrame DEF BInv, OwnInv
  <2>8. OwnInv'
    BY <1>2, <2>6, <2>7 DEF OwnInv
  <2> QED
    BY <2>1, <2>2, <2>3, <2>4, <2>5, <2>8 DEF BInv
<1>10. CASE backlog # << >>
  <2>1. PICK h \in Seq(Requests) : Waits(h)
    BY <1>10, FirstWaits
  <2>2. PICK c \in Cids : c = h[1][1] /\ ReleasedCid = c
    BY <1>10, <2>1 DEF Waits, ReleasedCid
  <2>3. /\ slotMap' = IF OpenQueue(h) THEN [slotMap EXCEPT ![c] = t] ELSE slotMap
        /\ UNCHANGED ready /\ queues'[t] = h /\ h \in Seq(Items)
        /\ OpenQueue(h) => slotMap[c] = None
    <3>1. OpenQueue(h) <=> ~End(Last(Head(backlog)))
      BY <2>1 DEF Waits, OpenQueue
    <3>2. /\ slotMap' = IF OpenQueue(h) THEN [slotMap EXCEPT ![c] = t] ELSE slotMap
          /\ UNCHANGED ready
      BY <1>10, <2>2, <3>1 DEF ReleaseSequenceSlot
    <3>3. queues'[t] = h
      BY <1>1, <1>10, <2>1 DEF ReleasedQueue, Waits
    <3> QED
      BY <1>1, <2>1, <2>2, <3>2, <3>3 DEF Waits
  <2>4. KeepsSlots /\ slotMap' \in [Cids -> Slots \cup {None}]
    BY <1>1, <2>3 DEF KeepsSlots
  <2>5. CallsInv' /\ calls' \subseteq CallType /\ \A s : SameComing(s)
    BY <2>4, QuietCallsKeep
  <2>6. /\ BacklogInv' /\ backlog' \in Seq(Seq(Requests))
        /\ backlogMap' \in [Cids -> Requests \cup {None}]
    BY <2>1, <2>3, BacklogMovesOn
  <2>7. BaseType'
    <3>1. queues' \in [Slots -> Seq(Items)]
      BY <1>1, <2>3
    <3> QED
      BY <1>2, <2>3, <2>4, <2>5, <2>6, <3>1 DEF BInv, BaseType, Fixed, CallType
  <2>8. /\ h # << >> /\ Len(h) \in 1..Len(h) /\ 1 \in 1..Len(h)
        /\ \A k \in 1..Len(h) : h[k] \in Requests /\ ~IsNull(h[k])
        /\ \A k \in 1..Len(h) : k < Len(h) => ~Releases(h[k])
        /\ OpenQueue(h) <=> ~Releases(h[Len(h)])
    <3>1. h # << >> /\ QueueOfOne(h)
      BY <2>1 DEF Waits
    <3>2. Len(h) \in 1..Len(h) /\ 1 \in 1..Len(h)
      BY <3>1
    <3>3. \A k \in 1..Len(h) : h[k] \in Requests /\ ~IsNull(h[k])
      BY <1>1
    <3>4. \A k \in 1..Len(h) : k < Len(h) => ~Releases(h[k])
      BY <3>1, <3>3 DEF QueueOfOne, Releases
    <3>5. OpenQueue(h) <=> ~Releases(h[Len(h)])
      BY <3>2, <3>3 DEF OpenQueue, Releases
    <3> QED
      BY <3>1, <3>2, <3>3, <3>4, <3>5
  <2>9. Own(t)'
    <3>1. NoneComing(t)' /\ NoneForced(t)'
      BY <1>6, <2>5, ComingFrame, ForcedFrame DEF SameForced
    <3>2. CASE OpenQueue(h)
      <4>1. OneSequence(t)'
        BY <1>1, <1>6, <2>3, <3>2 DEF NoSequence, OneSequence
      <4>2. \A k \in 1..Len(h) : ~Releases(h[k])
        <5>1. \A k \in 1..Len(h) : k < Len(h) \/ k = Len(h)
          OBVIOUS
        <5> QED
          BY <2>8, <3>2, <5>1
      <4>3. NoneQueued(t)'
        BY <1>2, <2>3, <4>2 DEF NoneQueued
      <4> QED
        BY <1>6, <2>3, <3>1, <4>1, <4>3 DEF Own
    <3>3. CASE ~OpenQueue(h)
      <4>1. NoSequence(t)'
        BY <1>6, <2>3, <3>3 DEF NoSequence
      <4>2. LastQueued(t)'
        BY <1>2, <2>3, <2>8, <3>3 DEF LastQueued
      <4> QED
        BY <1>6, <2>3, <3>1, <4>1, <4>2 DEF Own
    <3> QED
      BY <3>2, <3>3
  <2>10. ASSUME NEW s \in Slots, s # t PROVE Own(s)'
    <3>1. SameSequences(s)
      BY <1>1, <2>3, <2>10 DEF SameSequences
    <3>2. SameOwners(s)
      BY <1>8, <2>3, <2>5, <2>10, <3>1 DEF SameOwners, SameQueue, SameForced, SameReady
    <3> QED
      BY <3>2, OwnFrame DEF BInv, OwnInv
  <2>11. OwnInv'
    BY <1>2, <2>9, <2>10 DEF OwnInv
  <2>12. queues'[t] # << >> /\ ~IsNull(Head(queues'[t]))
    BY <2>3, <2>8
  <2>13. ReleasedCid # 0
    BY <2>2, SequenceAssumption
  <2> QED
    BY <2>4, <2>5, <2>6, <2>7, <2>11, <2>12, <2>13 DEF BInv
<1> QED
  BY <1>9, <1>10
----------------------------------------------------------------------------
(***************************************************************************)
(* The Direct strategy.                                                    *)
(***************************************************************************)
\* A set of integers that is bounded has a greatest element.
LEMMA MaxOfBounded ==
  ASSUME NEW S \in SUBSET Int, NEW n \in Int, S # {}, \A x \in S : x <= n
  PROVE Max(S) \in S /\ \A x \in S : x <= Max(S)
<1> DEFINE D == {n - x : x \in S}
<1>1. D \subseteq Nat /\ D # {}
  <2>1. \A x \in S : x \in Int /\ x <= n
    OBVIOUS
  <2>2. \A x \in S : n - x \in Nat
    BY <2>1
  <2> QED
    BY <2>2
<1>2. PICK d \in D : \A e \in D : ~(<<e, d>> \in OpToRel(<, Nat))
  <2> HIDE DEF D
  <2>1. IsWellFoundedOn(OpToRel(<, Nat), Nat)
    BY NatLessThanWellFounded
  <2> QED
    BY <1>1, <2>1, WFMin
<1>3. \A e \in D : d <= e
  <2>1. \A e \in D : ~(e < d)
    BY <1>1, <1>2 DEF OpToRel
  <2> QED
    BY <1>1, <2>1
<1>4. PICK m \in S : d = n - m
  OBVIOUS
<1>5. \A x \in S : x <= m
  <2> SUFFICES ASSUME NEW x \in S PROVE x <= m
    OBVIOUS
  <2>1. d <= n - x
    BY <1>3
  <2> QED
    BY <1>4, <2>1
<1>6. \E y \in S : \A x \in S : y >= x
  BY <1>5
<1>7. Max(S) \in S /\ \A x \in S : Max(S) >= x
  BY <1>6 DEF Max
<1> QED
  BY <1>7

\* The slots of a batcher have bounded numbers, and every number below that of
\* a slot is the number of another one.
LEMMA SlotGrid ==
  ASSUME BaseType
  PROVE /\ \A s \in Slots : s[1] \in Batchers /\ s[2] \in Nat /\ s = <<s[1], s[2]>>
        /\ \E n \in Nat : \A s \in Slots : s[2] <= n
        /\ \A s \in Slots : \A i \in Nat : i <= s[2] => <<s[1], i>> \in Slots
<1>1. PICK cnt \in Nat : Slots = Batchers \X (0..cnt - 1)
  BY ConfigFits DEF BaseType
<1>2. \A s \in Slots : s[1] \in Batchers /\ s[2] \in 0..cnt - 1 /\ s = <<s[1], s[2]>>
  BY <1>1
<1>3. \A s \in Slots : s[2] \in Nat /\ s[2] <= cnt
  BY <1>2
<1>4. \A s \in Slots : \A i \in Nat : i <= s[2] => i \in 0..cnt - 1
  BY <1>2
<1>5. \A s \in Slots : \A i \in Nat : i <= s[2] => <<s[1], i>> \in Slots
  BY <1>1, <1>2, <1>4
<1> QED
  BY <1>2, <1>3, <1>5

\* max_active_seq_slot_ after a pass is a slot number or -1.
LEMMA ShrunkType ==
  ASSUME BaseType, NEW b, NEW cidOf
  PROVE Shrunk(b, cidOf) \in Int
<1> DEFINE S == {s[2] : s \in {t \in ActiveSlots(b) : cidOf[t] # 0}} \cup {-1}
<1>1. PICK n \in Nat : \A s \in Slots : s[2] \in Nat /\ s[2] <= n
  BY SlotGrid
<1>2. ActiveSlots(b) \subseteq Slots
  BY DEF ActiveSlots
<1>3. S \in SUBSET Int /\ S # {} /\ \A x \in S : x <= n
  BY <1>1, <1>2
<1>4. Shrunk(b, cidOf) = Max(S)
  BY DEF Shrunk
<1> HIDE DEF S
<1>5. Max(S) \in S
  BY <1>3, MaxOfBounded
<1> QED
  BY <1>3, <1>4, <1>5

\* A thread that does not move, with the queues that it has yet to visit
\* unchanged.
LEMMA PassFrame ==
  ASSUME Fixed, NEW b, PassOf(b), pass'[b] = pass[b],
         pass[b].pc = "second" => \A s \in Slots : s[1] = b => queues'[s] = queues[s]
  PROVE PassOf(b)'
<1>1. Slots' = Slots
  BY FixedMeans
<1> QED
  BY <1>1 DEF PassOf, IsNull

\* Only the thread of batcher b moves, and only queues of its slots change.
LEMMA OnePassMoves ==
  ASSUME Fixed, PassInv, NEW b \in Batchers, NEW p \in PassType,
         pass' = [pass EXCEPT ![b] = p], maxActive' \in [Batchers -> Int],
         \A s \in Slots : s[1] # b => queues'[s] = queues[s],
         PassOf(b)'
  PROVE PassInv'
<1>1. Batchers' = Batchers
  BY FixedMeans
<1>2. pass \in [Batchers -> PassType] /\ \A c \in Batchers : PassOf(c)
  BY DEF PassInv
<1>3. pass' \in [Batchers -> PassType] /\ \A c \in Batchers : c # b => pass'[c] = pass[c]
  BY <1>2
<1>4. \A c \in Batchers : PassOf(c)'
  <2> SUFFICES ASSUME NEW c \in Batchers, c # b PROVE PassOf(c)'
    OBVIOUS
  <2>1. \A s \in Slots : s[1] = c => queues'[s] = queues[s]
    OBVIOUS
  <2> QED
    BY <1>2, <1>3, <2>1, PassFrame
<1>5. PassType' = PassType
  BY DEF PassType
<1> QED
  BY <1>1, <1>3, <1>4, <1>5 DEF PassInv

\* An arriving request waits while a thread passes over the slots.
LEMMA DirectEnqueueKeeps ==
  ASSUME Fixed, BInv, PassInv, NEW x \in calls, DirectEnqueue(x)
  PROVE BInv' /\ PassInv'
<1>1. /\ x.step = "enqueue" /\ ~Passing(x.slot[1])
      /\ queues' = [queues EXCEPT ![x.slot] = Append(@, x.req)]
      /\ maxActive' = [maxActive EXCEPT ![x.slot[1]] = Max({@, x.slot[2]})]
      /\ UNCHANGED <<sent, slotMap, backlogMap, backlog, ready, stamp, forced, pass>>
  BY DEF DirectEnqueue, mapVars
<1>2. Leaves(x)
  BY DEF DirectEnqueue, Leaves, Steps
<1>3. BInv'
  BY <1>1, <1>2, AppendKeeps
<1>4. x.slot \in Slots /\ queues \in [Slots -> Seq(Items)]
  BY DEF BInv, BaseType, CallType
<1>5. PICK b \in Batchers : b = x.slot[1] /\ x.slot[2] \in Nat
  BY <1>4, SlotGrid DEF BInv
<1>6. /\ pass \in [Batchers -> PassType] /\ maxActive \in [Batchers -> Int]
      /\ \A c \in Batchers : PassOf(c)
  BY DEF PassInv
<1>7. maxActive' \in [Batchers -> Int]
  <2>1. {maxActive[b], x.slot[2]} \in SUBSET Int /\ {maxActive[b], x.slot[2]} # {}
    BY <1>5, <1>6
  <2>2. \E n \in Int : maxActive[b] <= n /\ x.slot[2] <= n
    BY <1>5, <1>6
  <2>3. Max({maxActive[b], x.slot[2]}) \in {maxActive[b], x.slot[2]}
    BY <2>1, <2>2, MaxOfBounded
  <2> QED
    BY <1>1, <1>5, <1>6, <2>1, <2>3
<1>8. \A s \in Slots : s[1] # b => queues'[s] = queues[s]
  BY <1>1, <1>4, <1>5
<1>9. \A c \in Batchers : PassOf(c)'
  <2> SUFFICES ASSUME NEW c \in Batchers PROVE PassOf(c)'
    OBVIOUS
  <2>1. pass[c].pc = "second" => c # b
    BY <1>1, <1>5 DEF Passing
  <2>2. pass[c].pc = "second" => \A s \in Slots : s[1] = c => queues'[s] = queues[s]
    BY <1>8, <2>1
  <2>3. pass'[c] = pass[c]
    BY <1>1
  <2> QED
    BY <1>6, <2>2, <2>3, PassFrame
<1>10. Batchers' = Batchers
  BY FixedMeans
<1>11. PassType' = PassType
  BY DEF PassType
<1>12. PassInv'
  BY <1>1, <1>6, <1>7, <1>9, <1>10, <1>11 DEF PassInv
<1> QED
  BY <1>3, <1>12

\* notify_one.
LEMMA NotifyKeeps ==
  ASSUME Fixed, BInv, PassInv, NEW x \in calls, Notify(x)
  PROVE BInv' /\ PassInv'
<1>1. /\ x.step = "notify" /\ Return(x)
      /\ pass' = [pass EXCEPT ![x.slot[1]].notified = At(x.slot[1], "wait")]
      /\ UNCHANGED <<sent, slotMap, backlogMap, backlog, ready, stamp, forced, queues,
                     maxActive>>
  BY DEF Notify, mapVars
<1>2. QuietCalls
  BY <1>1 DEF QuietCalls, Leaves
<1>3. BInv'
  BY <1>1, <1>2, StillKeeps
<1>4. x.slot \in Slots
  BY DEF BInv, BaseType, CallType
<1>5. PICK b \in Batchers : b = x.slot[1]
  BY <1>4, SlotGrid DEF BInv
<1>6. pass \in [Batchers -> PassType] /\ maxActive \in [Batchers -> Int] /\ PassOf(b)
  BY DEF PassInv
<1>7. PICK p \in PassType : p = [pass[b] EXCEPT !.notified = At(b, "wait")]
  BY <1>6 DEF PassType, At
<1>8. pass' = [pass EXCEPT ![b] = p]
  BY <1>1, <1>5, <1>6, <1>7
<1>9. p.pc = pass[b].pc /\ p.at = pass[b].at /\ p.max = pass[b].max
  BY <1>6, <1>7 DEF PassType
<1>10. PassOf(b)'
  <2>1. Slots' = Slots /\ pass'[b] = p /\ queues' = queues
    BY <1>1, <1>6, <1>8, FixedMeans
  <2> QED
    BY <1>6, <1>9, <2>1 DEF PassOf, IsNull
<1>11. PassInv'
  BY <1>1, <1>6, <1>8, <1>10, OnePassMoves
<1> QED
  BY <1>3, <1>11

\* The thread passes over a force-end: the slot is released.
LEMMA ReleaseForceEndedKeeps ==
  ASSUME Fixed, BInv, PassInv, NEW b \in Batchers, ReleaseForceEnded(b)
  PROVE BInv' /\ PassInv'
<1>1. /\ pass[b].pc \in {"top", "first"} /\ pass' = [pass EXCEPT ![b].pc = "first"]
      /\ UNCHANGED <<sent, stamp, forced, calls, maxActive>>
  BY DEF ReleaseForceEnded, FirstLoop, unlocked
<1>2. PICK s \in ForceEnded(b) : Vacate(s, Tail(queues[s]))
  BY DEF ReleaseForceEnded
<1>3. s \in Slots /\ s[1] = b /\ queues[s] # << >> /\ Releases(Head(queues[s]))
  BY DEF ForceEnded, ActiveSlots, Releases
<1>4. /\ ReleaseSequenceSlot(s)
      /\ queues' = [queues EXCEPT ![s] = ReleasedQueue(Tail(queues[s]))]
  BY <1>2 DEF Vacate
<1>5. BInv'
  <2>1. QuietCalls
    BY <1>1 DEF QuietCalls
  <2> QED
    BY <1>1, <1>3, <1>4, <2>1, VacateKeeps
<1>6. pass \in [Batchers -> PassType] /\ maxActive \in [Batchers -> Int] /\ PassOf(b)
  BY DEF PassInv
<1>7. PICK p \in PassType : p = [pass[b] EXCEPT !.pc = "first"]
  BY <1>6 DEF PassType
<1>8. pass' = [pass EXCEPT ![b] = p] /\ p.pc = "first" /\ p.at = pass[b].at
  BY <1>1, <1>6, <1>7 DEF PassType
<1>9. PassOf(b)'
  <2>1. pass'[b] = p /\ pass[b].at = 0
    BY <1>1, <1>6, <1>8 DEF PassOf
  <2> QED
    BY <1>8, <2>1 DEF PassOf
<1>10. \A t \in Slots : t[1] # b => queues'[t] = queues[t]
  <2>1. queues \in [Slots -> Seq(Items)]
    BY DEF BInv, BaseType
  <2> QED
    BY <1>3, <1>4, <2>1
<1>11. PassInv'
  BY <1>1, <1>6, <1>8, <1>9, <1>10, OnePassMoves
<1> QED
  BY <1>5, <1>11

\* A step in which only the thread of batcher b moves.
LEMMA OnlyThread ==
  ASSUME Fixed, BInv, PassInv, NEW b \in Batchers, NEW p \in PassType,
         pass' = [pass EXCEPT ![b] = p], maxActive' \in [Batchers -> Int],
         p.pc # "second", p.pc \in {"top", "first"} => p.at = 0,
         UNCHANGED <<sent, slotMap, backlogMap, backlog, ready, stamp, forced, calls, queues>>
  PROVE BInv' /\ PassInv'
<1>1. QuietCalls
  BY DEF QuietCalls
<1>2. BInv'
  BY <1>1, StillKeeps
<1>3. pass'[b] = p
  BY DEF PassInv
<1>4. PassOf(b)'
  BY <1>3 DEF PassOf
<1> QED
  BY <1>2, <1>4, OnePassMoves

\* The first loop has found a batch: no force-end is at the front of a slot
\* that the second loop will visit.
LEMMA StartBatchKeeps ==
  ASSUME Fixed, BInv, PassInv, NEW b \in Batchers, StartBatch(b)
  PROVE BInv' /\ PassInv'
<1> DEFINE M == {s[2] : s \in ReadySlots(b)}
           shape == ShapeOf(Head(queues[FirstReady(b)]))
<1>1. /\ pass[b].pc \in {"top", "first"} /\ ForceEnded(b) = {} /\ ReadySlots(b) # {}
      /\ pass' = [pass EXCEPT ![b] =
           [pass[b] EXCEPT !.pc = "second", !.max = Max(M), !.shape = shape]]
      /\ UNCHANGED <<sent, slotMap, backlogMap, backlog, ready, stamp, forced, calls, queues,
                     maxActive>>
  BY DEF StartBatch, FirstLoop, unlocked, mapVars
<1>2. BInv'
  <2>1. QuietCalls
    BY <1>1 DEF QuietCalls
  <2> QED
    BY <1>1, <2>1, StillKeeps
<1>3. /\ pass \in [Batchers -> PassType] /\ maxActive \in [Batchers -> Int]
      /\ pass[b].at = 0
  BY <1>1 DEF PassInv, PassOf
<1>4. \A s \in ReadySlots(b) : /\ s \in Slots /\ s[1] = b /\ queues[s] # << >>
                               /\ s[2] <= maxActive[b]
  BY DEF ReadySlots, ActiveSlots
<1>5. \A s \in Slots : s[2] \in Nat /\ s = <<s[1], s[2]>>
  BY SlotGrid DEF BInv
<1>6. Max(M) \in M /\ \A x \in M : x <= Max(M)
  <2>1. M \in SUBSET Int /\ M # {} /\ maxActive[b] \in Int /\ \A x \in M : x <= maxActive[b]
    BY <1>1, <1>3, <1>4, <1>5
  <2> HIDE DEF M
  <2> QED
    BY <2>1, MaxOfBounded
<1>7. PICK m \in Nat : m = Max(M) /\ <<b, m>> \in Slots /\ m <= maxActive[b]
  <2>1. PICK s \in ReadySlots(b) : s[2] = Max(M)
    BY <1>6
  <2> HIDE DEF M
  <2>2. s \in Slots /\ s[1] = b /\ s[2] \in Nat /\ s = <<b, s[2]>> /\ s[2] <= maxActive[b]
    BY <1>4, <1>5
  <2> QED
    BY <2>1, <2>2
<1>8. shape \in Nat
  <2>1. FirstReady(b) \in ReadySlots(b)
    <3>1. \E s \in ReadySlots(b) : \A t \in ReadySlots(b) : s[2] <= t[2]
      <4> DEFINE N == {0 - s[2] : s \in ReadySlots(b)}
      <4>1. N \in SUBSET Int /\ N # {} /\ \A x \in N : x <= 0
        BY <1>1, <1>4, <1>5
      <4>2. Max(N) \in N /\ \A x \in N : x <= Max(N)
        <5> HIDE DEF N
        <5> QED
          BY <4>1, MaxOfBounded
      <4>3. PICK s \in ReadySlots(b) : Max(N) = 0 - s[2]
        BY <4>2
      <4>4. \A t \in ReadySlots(b) : 0 - t[2] <= 0 - s[2]
        BY <4>2, <4>3
      <4>5. \A t \in ReadySlots(b) : s[2] <= t[2]
        BY <1>4, <1>5, <4>4
      <4> QED
        BY <4>5
    <3> QED
      BY <3>1 DEF FirstReady
  <2>2. queues[FirstReady(b)] \in Seq(Items) /\ queues[FirstReady(b)] # << >>
    BY <1>4, <2>1 DEF BInv, BaseType
  <2>3. Head(queues[FirstReady(b)]) \in Items
    BY <2>2
  <2> QED
    BY <2>3, FlagsFit DEF ShapeOf, BInv, BaseType
<1>80. PICK z \in Nat : z = shape
  BY <1>8
<1>9. PICK p \in PassType :
        p = [pass[b] EXCEPT !.pc = "second", !.max = m, !.shape = z]
  <2>1. pass[b] \in PassType /\ m \in Int
    BY <1>3
  <2> QED
    BY <2>1 DEF PassType
<1>10. /\ pass' = [pass EXCEPT ![b] = p] /\ p.pc = "second" /\ p.at = 0 /\ p.max = m
  <2> HIDE DEF shape, M
  <2> QED
    BY <1>1, <1>3, <1>7, <1>80, <1>9 DEF PassType
<1>11. ASSUME NEW s \in Slots, s[1] = b, s[2] <= m, queues[s] # << >>
       PROVE ~IsNull(Head(queues[s]))
  <2>1. s[2] <= maxActive[b]
    BY <1>3, <1>5, <1>7, <1>11
  <2>2. s \in ActiveSlots(b)
    BY <1>11, <2>1 DEF ActiveSlots
  <2> QED
    BY <1>1, <1>11, <2>2 DEF ForceEnded
<1>12. PassOf(b)'
  <2>1. Slots' = Slots /\ pass'[b] = p /\ queues' = queues
    BY <1>1, <1>3, <1>10, FixedMeans
  <2>2. ~(p.pc \in {"top", "first"}) /\ p.at >= 0 /\ p.at <= p.max /\ <<b, p.max>> \in Slots
    BY <1>7, <1>10
  <2> QED
    BY <1>10, <1>11, <2>1, <2>2 DEF PassOf, IsNull
<1>13. PassInv'
  BY <1>1, <1>3, <1>10, <1>12, OnePassMoves
<1> QED
  BY <1>2, <1>13

\* The end of a pass without a batch.
LEMMA DeferKeeps ==
  ASSUME Fixed, BInv, PassInv, NEW b \in Batchers, Defer(b)
  PROVE BInv' /\ PassInv'
<1>1. /\ maxActive' = [maxActive EXCEPT ![b] = Shrunk(b, activeCid)]
      /\ pass' = [pass EXCEPT ![b] = Waiting]
      /\ UNCHANGED <<sent, slotMap, backlogMap, backlog, ready, stamp, forced, calls, queues>>
  BY DEF Defer, unlocked, mapVars
<1>2. Waiting \in PassType /\ Waiting.pc = "wait"
  <2>1. Top \in PassType
    BY DEF Top, PassType
  <2> QED
    BY <2>1 DEF Waiting, PassType
<1>3. maxActive' \in [Batchers -> Int]
  <2>1. Shrunk(b, activeCid) \in Int
    BY ShrunkType DEF BInv
  <2> QED
    BY <1>1, <2>1 DEF PassInv
<1> QED
  BY <1>1, <1>2, <1>3, OnlyThread

\* The thread starts again, after a batch or a wait.
LEMMA BackToTop ==
  ASSUME Fixed, BInv, PassInv, NEW b \in Batchers, pass' = [pass EXCEPT ![b] = Top],
         UNCHANGED <<sent, slotMap, backlogMap, backlog, ready, stamp, forced, calls, queues,
                     maxActive>>
  PROVE BInv' /\ PassInv'
<1>1. Top \in PassType /\ Top.pc = "top" /\ Top.at = 0
  BY DEF Top, PassType
<1>2. maxActive' \in [Batchers -> Int]
  BY DEF PassInv
<1> QED
  BY <1>1, <1>2, OnlyThread

\* The second loop adds a request, or a null request, to the batch: the slots
\* that it has yet to visit are as they were.
LEMMA AddsKeepsPass ==
  ASSUME Fixed, BInv, PassInv, NEW b \in Batchers, NEW r \in Requests \cup {None}, Adds(b, r),
         \A s \in Slots : s # <<b, pass[b].at>> => queues'[s] = queues[s]
  PROVE PassInv'
<1>1. /\ pass \in [Batchers -> PassType] /\ maxActive \in [Batchers -> Int]
      /\ PassOf(b) /\ pass[b].pc = "second"
  BY DEF PassInv, Adds, At
<1>2. pass[b] \in PassType /\ pass[b].at \in Int /\ pass[b].max \in Int
  BY <1>1 DEF PassType
<1>3. PICK ends \in BOOLEAN : ends <=> pass[b].at = pass[b].max
  OBVIOUS
<1>30. PICK w \in {"run", "second"} : w = IF ends THEN "run" ELSE "second"
  OBVIOUS
<1>31. PICK new \in Seq(Requests \cup {None}) : new = Append(pass[b].batch, r)
  <2>1. pass[b].batch \in Seq(Requests \cup {None})
    BY <1>2 DEF PassType
  <2>2. Append(pass[b].batch, r) \in Seq(Requests \cup {None})
    BY <2>1, AppendProperties
  <2> QED
    BY <2>2
<1>32. PICK i \in Int : i = pass[b].at + 1
  BY <1>2
<1>4. PICK p \in PassType : p = [pass[b] EXCEPT !.at = i, !.batch = new, !.pc = w]
  <2>1. w \in {"top", "first", "second", "run", "wait"}
    OBVIOUS
  <2> QED
    BY <1>2, <2>1 DEF PassType
<1>5. /\ p.at = pass[b].at + 1 /\ p.pc = (IF ends THEN "run" ELSE "second")
      /\ p.max = pass[b].max
  BY <1>2, <1>30, <1>32, <1>4 DEF PassType
<1>6. pass' = [pass EXCEPT ![b] = p]
  BY <1>3, <1>30, <1>31, <1>32, <1>4 DEF Adds
<1>7. maxActive' \in [Batchers -> Int]
  <2>1. Shrunk(b, activeCid') \in Int
    BY ShrunkType DEF BInv
  <2>2. maxActive' = maxActive \/ maxActive' = [maxActive EXCEPT ![b] = Shrunk(b, activeCid')]
    BY DEF Adds
  <2> QED
    BY <1>1, <2>1, <2>2
<1>8. Slots' = Slots /\ pass'[b] = p
  BY <1>1, <1>6, FixedMeans
<1>9. PassOf(b)'
  <2>1. CASE ends
    BY <1>5, <1>8, <2>1 DEF PassOf
  <2>2. CASE ~ends
    <3>1. /\ pass[b].at >= 0 /\ pass[b].at <= pass[b].max /\ <<b, pass[b].max>> \in Slots
          /\ \A s \in Slots :
               s[1] = b /\ s[2] >= pass[b].at /\ s[2] <= pass[b].max /\ queues[s] # << >> =>
                 ~IsNull(Head(queues[s]))
      BY <1>1 DEF PassOf
    <3>2. p.pc = "second" /\ p.at >= 0 /\ p.at <= p.max
      BY <1>2, <1>3, <1>5, <2>2, <3>1
    <3>3. ASSUME NEW s \in Slots, s[1] = b, s[2] >= p.at, s[2] <= p.max, queues'[s] # << >>
          PROVE ~IsNull(Head(queues'[s]))
      <4>1. s[2] \in Nat
        BY SlotGrid DEF BInv
      <4>2. s[2] >= pass[b].at /\ s # <<b, pass[b].at>>
        BY <1>2, <1>5, <3>3, <4>1
      <4> QED
        BY <1>5, <3>1, <3>3, <4>2
    <3> QED
      BY <1>5, <1>8, <3>1, <3>2, <3>3 DEF PassOf, IsNull
  <2> QED
    BY <2>1, <2>2
<1>10. \A s \in Slots : s[1] # b => queues'[s] = queues[s]
  OBVIOUS
<1> QED
  BY <1>6, <1>7, <1>9, <1>10, OnePassMoves

\* Where the second loop is, there is a slot.
LEMMA AtSlot ==
  ASSUME BInv, PassInv, NEW b \in Batchers, At(b, "second")
  PROVE /\ <<b, pass[b].at>> \in Slots
        /\ queues[<<b, pass[b].at>>] # << >> => ~IsNull(Head(queues[<<b, pass[b].at>>]))
<1>1. /\ pass[b].at >= 0 /\ pass[b].at <= pass[b].max /\ <<b, pass[b].max>> \in Slots
      /\ \A s \in Slots :
           s[1] = b /\ s[2] >= pass[b].at /\ s[2] <= pass[b].max /\ queues[s] # << >> =>
             ~IsNull(Head(queues[s]))
  BY DEF PassInv, PassOf, At
<1>2. pass[b].at \in Int /\ pass[b].max \in Int
  BY DEF PassInv, PassType
<1>3. PICK i \in Nat : i = pass[b].at
  BY <1>1, <1>2
<1>4. PICK m \in Nat : m = pass[b].max
  BY <1>1, <1>2
<1>5. <<b, m>> \in Slots /\ i <= m /\ <<b, m>>[1] = b /\ <<b, m>>[2] = m
  BY <1>1, <1>3, <1>4
<1>6. <<b, i>> \in Slots
  BY <1>5, SlotGrid DEF BInv
<1>7. <<b, i>>[1] = b /\ <<b, i>>[2] >= i /\ <<b, i>>[2] <= m
  BY <1>5
<1> QED
  BY <1>1, <1>3, <1>4, <1>6, <1>7

\* A null request keeps the position of a slot that takes no part.
LEMMA AddNullKeeps ==
  ASSUME Fixed, BInv, PassInv, NEW b \in Batchers, AddNull(b)
  PROVE BInv' /\ PassInv'
<1>1. /\ UNCHANGED <<sent, slotMap, backlogMap, backlog, ready, stamp, forced, calls, queues>>
      /\ Adds(b, None)
  BY DEF AddNull, unlocked, mapVars
<1>2. QuietCalls
  BY <1>1 DEF QuietCalls
<1>3. BInv'
  BY <1>1, <1>2, StillKeeps
<1>4. PassInv'
  BY <1>1, AddsKeepsPass
<1> QED
  BY <1>3, <1>4

\* The first request of a slot joins the batch; an END releases the slot.
LEMMA AddRequestKeeps ==
  ASSUME Fixed, BInv, PassInv, NEW b \in Batchers, AddRequest(b)
  PROVE BInv' /\ PassInv'
<1>1. At(b, "second") /\ queues[<<b, pass[b].at>>] # << >>
  BY DEF AddRequest, Excluded
<1>2. PICK t \in Slots : t = <<b, pass[b].at>>
  BY <1>1, AtSlot
<1>3. PICK r \in Items : r = Head(queues[t])
  <2>1. queues[t] \in Seq(Items) /\ queues[t] # << >>
    BY <1>1, <1>2 DEF BInv, BaseType
  <2> QED
    BY <2>1
<1>4. ~IsNull(r)
  BY <1>1, <1>2, <1>3, AtSlot
<1>5. r \in Requests
  BY <1>4, FlagsFit DEF BInv, BaseType
<1>6. /\ IF End(r) THEN Vacate(t, Tail(queues[t]))
         ELSE /\ queues' = [queues EXCEPT ![t] = Tail(@)]
              /\ UNCHANGED <<mapVars, activeCid>>
      /\ UNCHANGED <<sent, stamp, forced, calls>> /\ Adds(b, r)
  BY <1>2, <1>3 DEF AddRequest, unlocked
<1>7. QuietCalls
  BY <1>6 DEF QuietCalls
<1>8. queues[t] # << >> /\ queues \in [Slots -> Seq(Items)]
  BY <1>1, <1>2 DEF BInv, BaseType
<1>9. CASE End(r)
  <2>1. /\ ReleaseSequenceSlot(t)
        /\ queues' = [queues EXCEPT ![t] = ReleasedQueue(Tail(queues[t]))]
    BY <1>6, <1>9 DEF Vacate
  <2>2. Releases(Head(queues[t]))
    BY <1>3, <1>9 DEF Releases
  <2>3. BInv'
    BY <1>6, <1>7, <1>8, <2>1, <2>2, VacateKeeps
  <2>4. \A s \in Slots : s # <<b, pass[b].at>> => queues'[s] = queues[s]
    BY <1>2, <1>8, <2>1
  <2>5. PassInv'
    BY <1>5, <1>6, <2>4, AddsKeepsPass
  <2> QED
    BY <2>3, <2>5
<1>10. CASE ~End(r)
  <2>1. /\ queues' = [queues EXCEPT ![t] = Tail(@)]
        /\ UNCHANGED <<slotMap, backlogMap, backlog, ready>>
    BY <1>6, <1>10 DEF mapVars
  <2>2. ~Releases(Head(queues[t]))
    BY <1>3, <1>4, <1>10 DEF Releases
  <2>3. BInv'
    BY <1>6, <1>7, <1>8, <2>1, <2>2, PopKeeps
  <2>4. \A s \in Slots : s # <<b, pass[b].at>> => queues'[s] = queues[s]
    BY <1>2, <1>8, <2>1
  <2>5. PassInv'
    BY <1>5, <1>6, <2>4, AddsKeepsPass
  <2> QED
    BY <2>3, <2>5
<1> QED
  BY <1>9, <1>10

\* Every step with the Direct strategy preserves the invariant.
LEMMA DirectKeeps ==
  ASSUME BInv, PassInv, ~Pipelined, DirectNext
  PROVE BInv' /\ PassInv'
<1>1. Fixed
  BY DEF DirectNext
<1>2. CASE BaseNext /\ UNCHANGED directVars
  <2>1. BInv' /\ SchedulerOnly
    BY <1>1, <1>2, SchedulerKeeps
  <2>2. UNCHANGED <<queues, pass, maxActive>>
    BY <1>2, <2>1 DEF SchedulerOnly, directVars
  <2>3. Batchers' = Batchers /\ PassType' = PassType
    BY <1>1, FixedMeans DEF PassType
  <2>4. \A b \in Batchers : PassOf(b)'
    BY <1>1, <2>2, PassFrame DEF PassInv
  <2> QED
    BY <2>1, <2>2, <2>3, <2>4 DEF PassInv
<1>3. ASSUME NEW x \in calls, DirectEnqueue(x) \/ Notify(x) PROVE BInv' /\ PassInv'
  BY <1>1, <1>3, DirectEnqueueKeeps, NotifyKeeps
<1>4. ASSUME NEW b \in Batchers, Thread(b) \/ Wake(b) PROVE BInv' /\ PassInv'
  <2>1. CASE OnSchedule(b)
    <3>1. /\ pass' = [pass EXCEPT ![b] = Top]
          /\ UNCHANGED <<sent, slotMap, backlogMap, backlog, ready, stamp, forced, calls, queues,
                         maxActive>>
      BY <2>1 DEF OnSchedule, mapVars
    <3> QED
      BY <1>1, <3>1, BackToTop
  <2>2. CASE Wake(b)
    <3>1. /\ pass' = [pass EXCEPT ![b] = Top]
          /\ UNCHANGED <<sent, slotMap, backlogMap, backlog, ready, stamp, forced, calls, queues,
                         maxActive>>
      BY <2>2 DEF Wake, mapVars, unlocked
    <3> QED
      BY <1>1, <3>1, BackToTop
  <2> QED
    BY <1>1, <1>4, <2>1, <2>2, ReleaseForceEndedKeeps, StartBatchKeeps, DeferKeeps,
       AddNullKeeps, AddRequestKeeps DEF Thread
<1>5. ASSUME NEW s \in Slots, BecomesOverdue(s) PROVE BInv' /\ PassInv'
  <2>1. UNCHANGED <<sent, slotMap, backlogMap, backlog, ready, stamp, forced, calls, queues,
                    pass, maxActive>>
    BY <1>5 DEF BecomesOverdue, mapVars
  <2>2. QuietCalls
    BY <2>1 DEF QuietCalls
  <2>3. BInv'
    BY <1>1, <2>1, <2>2, StillKeeps
  <2>4. Batchers' = Batchers /\ PassType' = PassType
    BY <1>1, FixedMeans DEF PassType
  <2>5. \A b \in Batchers : PassOf(b)'
    BY <1>1, <2>1, PassFrame DEF PassInv
  <2> QED
    BY <2>1, <2>3, <2>4, <2>5 DEF PassInv
<1> QED
  BY <1>2, <1>3, <1>4, <1>5 DEF DirectNext, DirectBatching
----------------------------------------------------------------------------
(***************************************************************************)
(* The Oldest strategy.                                                    *)
(***************************************************************************)
\* What a step leaves as it is of the requests of slot s in flight.
SameTurns(s) ==
  \A x : x.slot = s /\ x.step # "enqueue" => (x \in calls' <=> x \in calls)
SameExecuting(s) == \A e : e[1] = s => (e \in executing' <=> e \in executing)
KeepsIssued(s) ==
  /\ NoneIssued(s) => NoneIssued(s)'
  /\ OneIssued(s) => OneIssued(s)'

\* The calls of CompleteAndNext for a slot.
LEMMA TurnsFrame ==
  ASSUME NEW s, SameTurns(s)
  PROVE /\ NoneReturning(s)' <=> NoneReturning(s)
        /\ OneReturning(s)' <=> OneReturning(s)
        /\ NoneSending(s)' <=> NoneSending(s)
        /\ OneSending(s)' <=> OneSending(s)
<1>1. \A x : Returning(x, s) \/ Sending(x, s) => (x \in calls' <=> x \in calls)
  BY DEF SameTurns, Returning, Sending
<1>2. /\ NoneReturning(s)' <=> NoneReturning(s)
      /\ OneReturning(s)' <=> OneReturning(s)
  BY <1>1 DEF NoneReturning, OneReturning, Returning
<1>3. /\ NoneSending(s)' <=> NoneSending(s)
      /\ OneSending(s)' <=> OneSending(s)
  BY <1>1 DEF NoneSending, OneSending, Sending
<1> QED
  BY <1>2, <1>3

\* A step that does not touch the requests of slot s in flight.
LEMMA FlightFrame ==
  ASSUME NEW s, Flight(s), inFlight'[s] = inFlight[s], KeepsIssued(s), SameExecuting(s),
         SameTurns(s)
  PROVE Flight(s)'
<1>1. /\ NoneReturning(s)' <=> NoneReturning(s)
      /\ OneReturning(s)' <=> OneReturning(s)
      /\ NoneSending(s)' <=> NoneSending(s)
      /\ OneSending(s)' <=> OneSending(s)
  BY TurnsFrame
<1>2. /\ NoneExecuting(s)' <=> NoneExecuting(s)
      /\ OneExecuting(s)' <=> OneExecuting(s)
  BY DEF SameExecuting, NoneExecuting, OneExecuting
<1> QED
  BY <1>1, <1>2 DEF Flight, KeepsIssued

\* The queues of the dynamic batchers are as they were.
LEMMA IssuedStays ==
  ASSUME NEW s, Fixed, UNCHANGED issued
  PROVE KeepsIssued(s)
<1>1. Batchers' = Batchers
  BY FixedMeans
<1> QED
  BY <1>1 DEF KeepsIssued, NoneIssued, OneIssued

\* The call that takes a turn is the only one for its slot, and no request of
\* the slot is in the dynamic batcher or the backend.
LEMMA TurnMeans ==
  ASSUME BInv, FlightInv, NEW x \in calls, Turn(x)
  PROVE /\ NoneIssued(x.slot) /\ NoneExecuting(x.slot) /\ x.slot \in Slots
        /\ \A y \in calls : Returning(y, x.slot) \/ Sending(y, x.slot) => y = x
        /\ Returning(x, x.slot) \/ Sending(x, x.slot)
        /\ x.step # "enqueue"
<1>1. PICK t \in Slots : t = x.slot
  BY DEF BInv, BaseType, CallType
<1>2. Flight(t)
  BY DEF FlightInv
<1>3. x.step \in {"next", "retry"}
  BY DEF Turn
<1>4. CASE Returning(x, t)
  <2>1. ~NoneReturning(t)
    BY <1>4 DEF NoneReturning
  <2>2. OneReturning(t) /\ NoneIssued(t) /\ NoneExecuting(t) /\ NoneSending(t)
    BY <1>2, <2>1 DEF Flight
  <2>3. \A y \in calls : Returning(y, t) \/ Sending(y, t) => y = x
    BY <1>4, <2>2 DEF OneReturning, NoneSending
  <2> QED
    BY <1>1, <1>3, <1>4, <2>2, <2>3
<1>5. CASE Sending(x, t)
  <2>1. ~NoneSending(t)
    BY <1>5 DEF NoneSending
  <2>2. OneSending(t) /\ NoneIssued(t) /\ NoneExecuting(t) /\ NoneReturning(t)
    BY <1>2, <2>1 DEF Flight
  <2>3. \A y \in calls : Returning(y, t) \/ Sending(y, t) => y = x
    BY <1>5, <2>2 DEF OneSending, NoneReturning
  <2> QED
    BY <1>1, <1>3, <1>5, <2>2, <2>3
<1>6. Returning(x, t) \/ Sending(x, t)
  BY <1>1, <1>3 DEF Returning, Sending
<1> QED
  BY <1>4, <1>5, <1>6

\* After the turn of call x: it returns or takes another turn.
AfterTurn(x) ==
  \/ Return(x)
  \/ Goto(x, "retry") /\ queues'[x.slot] # << >> /\ ~IsNull(Head(queues'[x.slot]))

\* The calls after a turn: x, if it takes another one, and those that were
\* there before.
LEMMA TurnCalls ==
  ASSUME BInv, FlightInv, NEW x \in calls, Turn(x), AfterTurn(x)
  PROVE /\ \A y \in calls' : (y \in calls /\ y # x) \/ (y.slot = x.slot /\ y.step = "retry")
        /\ \A s : s # x.slot => SameTurns(s)
        /\ NoneReturning(x.slot)'
        /\ Return(x) => NoneSending(x.slot)'
        /\ ~Return(x) => OneSending(x.slot)'
<1>1. x \in CallType
  BY DEF BInv, BaseType
<1>2. \A y \in calls : Returning(y, x.slot) \/ Sending(y, x.slot) => y = x
  BY TurnMeans
<1>3. CASE Return(x)
  <2>1. calls' = calls \ {x}
    BY <1>3 DEF Return
  <2>2. \A y \in calls' : y \in calls /\ y # x
    BY <2>1
  <2>3. \A s : s # x.slot => SameTurns(s)
    BY <2>1 DEF SameTurns
  <2>4. NoneReturning(x.slot)' /\ NoneSending(x.slot)'
    BY <1>2, <2>1 DEF NoneReturning, NoneSending, Returning, Sending
  <2> QED
    BY <1>3, <2>2, <2>3, <2>4
<1>4. CASE ~Return(x) /\ Goto(x, "retry")
  <2>1. PICK z \in {[x EXCEPT !.step = "retry"]} : z = [x EXCEPT !.step = "retry"]
    OBVIOUS
  <2>2. z.slot = x.slot /\ z.step = "retry" /\ z.from = x.from
    BY <1>1, <2>1 DEF CallType
  <2>3. calls' = (calls \ {x}) \cup {z}
    BY <1>4, <2>1 DEF Goto
  <2>4. \A y \in calls' : (y \in calls /\ y # x) \/ (y.slot = x.slot /\ y.step = "retry")
    BY <2>2, <2>3
  <2>5. \A s : s # x.slot => SameTurns(s)
    BY <2>2, <2>3 DEF SameTurns
  <2>6. NoneReturning(x.slot)'
    BY <1>2, <2>2, <2>3 DEF NoneReturning, Returning
  <2>7. OneSending(x.slot)'
    <3>1. Sending(z, x.slot) /\ z \in calls'
      BY <2>2, <2>3 DEF Sending
    <3>2. \A y \in calls' : Sending(y, x.slot) => y = z
      BY <1>2, <2>3
    <3> QED
      BY <3>1, <3>2 DEF OneSending, Sending
  <2> QED
    BY <1>4, <2>4, <2>5, <2>6, <2>7
<1> QED
  BY <1>3, <1>4 DEF AfterTurn

\* What the calls that are about to send find in their slots, after a turn in
\* another slot or of their own.
LEMMA SendersKeep ==
  ASSUME Fixed, BInv, FlightInv, NEW x \in calls, Turn(x), AfterTurn(x), KeepsSlots,
         \A s \in Slots : s # x.slot => queues'[s] = queues[s]
  PROVE SendersInv'
<1>1. \A r : Releases(r)' <=> Releases(r)
  BY FixedMeans
<1>2. /\ \A y \in calls' : (y \in calls /\ y # x) \/ (y.slot = x.slot /\ y.step = "retry")
      /\ Return(x) => NoneSending(x.slot)'
  BY TurnCalls
<1>3. \A y \in calls : Sending(y, x.slot) => y = x
  BY TurnMeans
<1>4. \A y \in calls : y \in CallType /\ y.slot \in Slots /\ y.slot # None /\ y.req[1] \in Cids
  BY FlagsFit DEF BInv, BaseType, CallType, Items
<1>5. SendersInv
  BY DEF FlightInv
<1>6. ASSUME NEW y \in calls', y.step = "next", y.from # "backend"
      PROVE IF Releases(y.req)' THEN LastQueued(y.slot)' ELSE slotMap'[y.req[1]] = y.slot
  <2>1. y \in calls /\ y # x
    BY <1>2, <1>6
  <2>2. y.slot # x.slot
    BY <1>3, <1>6, <2>1 DEF Sending
  <2>3. IF Releases(y.req) THEN LastQueued(y.slot) ELSE slotMap[y.req[1]] = y.slot
    BY <1>5, <1>6, <2>1 DEF SendersInv
  <2>4. LastQueued(y.slot)' <=> LastQueued(y.slot)
    BY <1>4, <2>1, <2>2, QueueFrame DEF SameQueue
  <2>5. slotMap[y.req[1]] = y.slot => slotMap'[y.req[1]] = y.slot
    BY <1>4, <2>1 DEF KeepsSlots
  <2> QED
    BY <1>1, <2>3, <2>4, <2>5
<1>7. ASSUME NEW y \in calls', y.step = "retry"
      PROVE queues'[y.slot] # << >> /\ ~IsNull(Head(queues'[y.slot]))
  <2>1. CASE y.slot = x.slot
    <3>1. Sending(y, x.slot)
      BY <1>7, <2>1 DEF Sending
    <3>2. ~NoneSending(x.slot)'
      BY <1>7, <3>1 DEF NoneSending, Sending
    <3> QED
      BY <1>2, <2>1, <3>2 DEF AfterTurn
  <2>2. CASE y.slot # x.slot
    <3>1. y \in calls
      BY <1>2, <2>2
    <3>2. queues[y.slot] # << >> /\ ~IsNull(Head(queues[y.slot]))
      BY <1>5, <1>7, <3>1 DEF SendersInv
    <3> QED
      BY <1>4, <2>2, <3>1, <3>2
  <2> QED
    BY <2>1, <2>2
<1> QED
  BY <1>6, <1>7 DEF SendersInv, IsNull

\* A turn that sends nothing: the slot has no request in flight.
LEMMA TurnEnds ==
  ASSUME Fixed, BInv, FlightInv, NEW x \in calls, Turn(x), AfterTurn(x), KeepsSlots,
         \A s \in Slots : s # x.slot => queues'[s] = queues[s],
         inFlight' = [inFlight EXCEPT ![x.slot] = FALSE],
         UNCHANGED <<corrid, issued, executing>>
  PROVE FlightInv'
<1>1. Slots' = Slots /\ Batchers' = Batchers
  BY FixedMeans
<1>2. inFlight \in [Slots -> BOOLEAN] /\ x.slot \in Slots
  BY TurnMeans DEF FlightInv
<1>3. PICK t \in Slots : t = x.slot
  BY <1>2
<1>4. inFlight' \in [Slots -> BOOLEAN] /\ ~inFlight'[t]
      /\ \A s \in Slots : s # t => inFlight'[s] = inFlight[s]
  BY <1>2, <1>3
<1>5. /\ NoneIssued(t) /\ NoneExecuting(t)
  BY <1>3, TurnMeans
<1>6. /\ \A y \in calls' : (y \in calls /\ y # x) \/ (y.slot = t /\ y.step = "retry")
      /\ \A s : s # t => SameTurns(s)
      /\ NoneReturning(t)' /\ (NoneSending(t)' \/ OneSending(t)')
  BY <1>3, TurnCalls
<1>7. Flight(t)'
  <2>1. NoneIssued(t)'
    BY <1>5, IssuedStays DEF KeepsIssued
  <2>2. NoneExecuting(t)'
    BY <1>5 DEF NoneExecuting
  <2> QED
    BY <1>4, <1>6, <2>1, <2>2 DEF Flight
<1>8. ASSUME NEW s \in Slots, s # t PROVE Flight(s)'
  <2>1. KeepsIssued(s)
    BY IssuedStays
  <2>2. SameExecuting(s)
    BY DEF SameExecuting
  <2>3. Flight(s)
    BY DEF FlightInv
  <2> QED
    BY <1>4, <1>6, <1>8, <2>1, <2>2, <2>3, FlightFrame
<1>9. Overrides'
  BY <1>1, <1>6 DEF FlightInv, Overrides
<1>10. SendersInv'
  BY SendersKeep
<1> QED
  BY <1>1, <1>4, <1>7, <1>8, <1>9, <1>10 DEF FlightInv

\* A turn that sends request r: it is the only one of its slot in flight.
LEMMA TurnIssues ==
  ASSUME Fixed, BInv, FlightInv, NEW x \in calls, Turn(x), Return(x), KeepsSlots,
         \A s \in Slots : s # x.slot => queues'[s] = queues[s],
         NEW r \in Requests,
         inFlight' = [inFlight EXCEPT ![x.slot] = TRUE],
         issued' = [issued EXCEPT ![x.slot[1]] = Append(@, <<x.slot, r>>)],
         corrid' = [corrid EXCEPT ![x.slot] = r[1]],
         UNCHANGED executing
  PROVE FlightInv'
<1>1. Slots' = Slots /\ Batchers' = Batchers
  BY FixedMeans
<1>2. /\ inFlight \in [Slots -> BOOLEAN] /\ x.slot \in Slots
      /\ issued \in [Batchers -> Seq(Slots \X Requests)]
      /\ executing \subseteq Slots \X Requests
      /\ corrid \in [Slots -> Cids \cup {0}]
  BY TurnMeans DEF FlightInv
<1>3. PICK t \in Slots : t = x.slot
  BY <1>2
<1>4. PICK b \in Batchers : b = t[1]
  BY SlotGrid DEF BInv
<1>50. PICK e \in {<<t, r>>} : e = <<t, r>>
  OBVIOUS
<1>5. e \in Slots \X Requests /\ e = <<t, r>> /\ e[1] = t /\ e[2] = r
  BY <1>50
<1>6. PICK q \in Seq(Slots \X Requests) : q = issued[b]
  BY <1>2
<1>7. /\ inFlight' \in [Slots -> BOOLEAN] /\ inFlight'[t]
      /\ \A s \in Slots : s # t => inFlight'[s] = inFlight[s]
  BY <1>2, <1>3
<1>8. /\ Append(q, e) \in Seq(Slots \X Requests) /\ Len(q) \in Nat
      /\ Len(Append(q, e)) = Len(q) + 1 /\ Append(q, e)[Len(q) + 1] = e
      /\ \A k \in 1..Len(q) : Append(q, e)[k] = q[k]
  BY <1>5, AppendProperties
<1>9. /\ issued' \in [Batchers -> Seq(Slots \X Requests)]
      /\ issued'[b] = Append(q, e)
      /\ \A c \in Batchers : c # b => issued'[c] = issued[c]
  BY <1>2, <1>3, <1>4, <1>5, <1>6, <1>8
<1>10. ASSUME NEW c \in Batchers, NEW k \in 1..Len(issued'[c])
       PROVE \/ k \in 1..Len(issued[c]) /\ issued'[c][k] = issued[c][k]
             \/ c = b /\ k = Len(q) + 1 /\ issued'[c][k] = e
  <2>1. CASE c # b
    BY <1>9, <2>1
  <2>2. CASE c = b
    <3>1. k \in 1..(Len(q) + 1)
      BY <1>8, <1>9, <2>2
    <3>2. k \in 1..Len(q) \/ k = Len(q) + 1
      BY <1>8, <3>1
    <3> QED
      BY <1>6, <1>8, <1>9, <2>2, <3>2
  <2> QED
    BY <2>1, <2>2
<1>11. \A c \in Batchers : \A k \in 1..Len(issued[c]) :
         k \in 1..Len(issued'[c]) /\ issued'[c][k] = issued[c][k]
  <2> SUFFICES ASSUME NEW c \in Batchers, NEW k \in 1..Len(issued[c])
               PROVE k \in 1..Len(issued'[c]) /\ issued'[c][k] = issued[c][k]
    OBVIOUS
  <2>1. CASE c # b
    BY <1>9, <2>1
  <2>2. CASE c = b
    <3>1. k \in 1..Len(q)
      BY <1>6, <2>2
    <3>2. k \in 1..(Len(q) + 1)
      BY <1>8, <3>1
    <3> QED
      BY <1>6, <1>8, <1>9, <2>2, <3>1, <3>2
  <2> QED
    BY <2>1, <2>2
<1>12. Len(q) + 1 \in 1..Len(issued'[b]) /\ issued'[b][Len(q) + 1] = e
  BY <1>8, <1>9
<1>13. NoneIssued(t) /\ NoneExecuting(t)
  BY <1>3, TurnMeans
<1>14. AfterTurn(x)
  BY DEF AfterTurn
<1>15. /\ \A y \in calls' : (y \in calls /\ y # x) \/ (y.slot = t /\ y.step = "retry")
       /\ \A s : s # t => SameTurns(s)
       /\ NoneReturning(t)' /\ NoneSending(t)'
  BY <1>3, <1>14, TurnCalls
<1>16. Flight(t)'
  <2>1. OneIssued(t)'
    <3>1. \A c \in Batchers : \A l \in 1..Len(issued'[c]) :
            issued'[c][l][1] = t => c = b /\ l = Len(q) + 1
      <4> SUFFICES ASSUME NEW c \in Batchers, NEW l \in 1..Len(issued'[c]),
                          issued'[c][l][1] = t
                   PROVE c = b /\ l = Len(q) + 1
        OBVIOUS
      <4>1. CASE l \in 1..Len(issued[c]) /\ issued'[c][l] = issued[c][l]
        BY <1>13, <4>1 DEF NoneIssued
      <4> QED
        BY <1>10, <4>1
    <3> QED
      <4>1. \E k \in 1..Len(issued'[t[1]]) :
              /\ issued'[t[1]][k][1] = t
              /\ \A c \in Batchers : \A l \in 1..Len(issued'[c]) :
                   issued'[c][l][1] = t => c = t[1] /\ l = k
        BY ONLY <1>4, <1>5, <1>12, <3>1
      <4>2. Batchers' = Batchers
        BY <1>1
      <4> QED
        BY ONLY <4>1, <4>2 DEF OneIssued
  <2>2. NoneExecuting(t)'
    BY <1>13 DEF NoneExecuting
  <2> QED
    BY <1>7, <1>15, <2>1, <2>2 DEF Flight
<1>17. ASSUME NEW s \in Slots, s # t PROVE Flight(s)'
  <2>1. NoneIssued(s) => NoneIssued(s)'
    BY <1>1, <1>5, <1>10, <1>17 DEF NoneIssued
  <2>2. ASSUME OneIssued(s) PROVE OneIssued(s)'
    <3>1. s[1] \in Batchers
      BY SlotGrid DEF BInv
    <3>2. PICK k \in 1..Len(issued[s[1]]) :
            /\ issued[s[1]][k][1] = s
            /\ \A c \in Batchers : \A l \in 1..Len(issued[c]) :
                 issued[c][l][1] = s => c = s[1] /\ l = k
      BY <2>2 DEF OneIssued
    <3>3. k \in 1..Len(issued'[s[1]]) /\ issued'[s[1]][k][1] = s
      BY <1>11, <3>1, <3>2
    <3>4. \A c \in Batchers : \A l \in 1..Len(issued'[c]) :
            issued'[c][l][1] = s => c = s[1] /\ l = k
      BY <1>5, <1>10, <1>17, <3>2
    <3> QED
      BY <1>1, <3>3, <3>4 DEF OneIssued
  <2>3. KeepsIssued(s)
    BY <2>1, <2>2 DEF KeepsIssued
  <2>4. SameExecuting(s)
    BY DEF SameExecuting
  <2>5. Flight(s)
    BY DEF FlightInv
  <2> QED
    BY <1>7, <1>15, <1>17, <2>3, <2>4, <2>5, FlightFrame
<1>18. /\ corrid' \in [Slots -> Cids \cup {0}] /\ corrid'[t] = r[1]
       /\ \A s \in Slots : s # t => corrid'[s] = corrid[s]
  BY <1>2, <1>3 DEF Requests
<1>19. Overrides'
  <2>1. \A c \in Batchers : \A k \in 1..Len(issued'[c]) :
          corrid'[issued'[c][k][1]] = issued'[c][k][2][1]
    <3> SUFFICES ASSUME NEW c \in Batchers, NEW k \in 1..Len(issued'[c])
                 PROVE corrid'[issued'[c][k][1]] = issued'[c][k][2][1]
      OBVIOUS
    <3>1. CASE issued'[c][k] = e
      BY <1>5, <1>18, <3>1
    <3>2. CASE k \in 1..Len(issued[c]) /\ issued'[c][k] = issued[c][k]
      <4>1. issued[c][k][1] # t
        BY <1>13, <3>2 DEF NoneIssued
      <4>2. issued[c][k] \in Slots \X Requests
        BY <1>2, <3>2
      <4>3. corrid[issued[c][k][1]] = issued[c][k][2][1]
        BY <3>2 DEF FlightInv, Overrides
      <4> QED
        BY <1>18, <3>2, <4>1, <4>2, <4>3
    <3> QED
      BY <1>10, <3>1, <3>2
  <2>2. \A d \in executing' : corrid'[d[1]] = d[2][1]
    <3>1. \A d \in executing : d[1] # t /\ d[1] \in Slots /\ corrid[d[1]] = d[2][1]
      BY <1>2, <1>13 DEF NoneExecuting, FlightInv, Overrides
    <3> QED
      BY <1>18, <3>1
  <2>3. \A y \in calls' : y.from = "backend" /\ y.step = "next" => corrid'[y.slot] = y.req[1]
    <3> SUFFICES ASSUME NEW y \in calls', y.from = "backend", y.step = "next"
                 PROVE corrid'[y.slot] = y.req[1]
      OBVIOUS
    <3>1. y \in calls /\ y.slot # t
      BY <1>15 DEF NoneReturning, Returning
    <3>2. y.slot \in Slots /\ corrid[y.slot] = y.req[1]
      BY <3>1 DEF FlightInv, Overrides, BInv, BaseType, CallType
    <3> QED
      BY <1>18, <3>1, <3>2
  <2> QED
    BY <1>1, <2>1, <2>2, <2>3 DEF Overrides
<1>20. SendersInv'
  BY <1>14, SendersKeep
<1> QED
  BY <1>1, <1>2, <1>7, <1>9, <1>16, <1>17, <1>18, <1>19, <1>20 DEF FlightInv

\* Enqueue with the Oldest strategy: the caller sends the request itself only
\* when nothing is in flight, and then it is the only one to do so.
LEMMA OldestEnqueueKeeps ==
  ASSUME Fixed, BInv, FlightInv, NEW x \in calls, OldestEnqueue(x)
  PROVE BInv' /\ FlightInv'
<1>1. /\ x.step = "enqueue" /\ ~Looping(x.slot[1])
      /\ queues' = [queues EXCEPT ![x.slot] = Append(@, x.req)]
      /\ IF inFlight[x.slot] THEN Return(x) ELSE Goto(x, "next")
      /\ UNCHANGED <<sent, slotMap, backlogMap, backlog, ready, stamp, forced, corrid,
                     inFlight, issued, executing>>
  BY DEF OldestEnqueue, mapVars
<1>2. BInv'
  <2>1. Leaves(x)
    BY <1>1 DEF Leaves, Steps
  <2> QED
    BY <1>1, <2>1, AppendKeeps
<1>3. Slots' = Slots /\ Batchers' = Batchers /\ \A r : Releases(r)' <=> Releases(r)
  BY FixedMeans
<1>4. x \in CallType /\ queues \in [Slots -> Seq(Items)] /\ inFlight \in [Slots -> BOOLEAN]
  BY DEF BInv, BaseType, FlightInv
<1>5. PICK t \in Slots : t = x.slot
  BY <1>4 DEF CallType
<1>6. \A s \in Slots : s # t => queues'[s] = queues[s]
  BY <1>1, <1>4, <1>5
<1>7. Flight(t) /\ Own(t) /\ Coming(x, t) /\ SendersInv
  BY <1>1, <1>5 DEF FlightInv, BInv, OwnInv, Coming
<1>8. NoneSending(t)
  <2> SUFFICES ASSUME NEW y \in calls, Sending(y, t) PROVE FALSE
    BY DEF NoneSending
  <2>1. y.slot = t /\ y.step = "next" /\ y.from # "backend"
    BY <1>1, <1>5 DEF Sending, Looping
  <2>2. y.req[1] \in Cids /\ x.req[1] \in Cids /\ y.from \in {"client", "reaper"}
    BY <2>1 DEF BInv, BaseType, CallType, Items
  <2>3. IF Releases(y.req) THEN LastQueued(t) ELSE slotMap[y.req[1]] = t
    BY <1>7, <2>1 DEF SendersInv
  <2>4. LastQueued(t) => ~NoneQueued(t)
    <3> SUFFICES ASSUME LastQueued(t) PROVE ~NoneQueued(t)
      OBVIOUS
    <3>1. queues[t] \in Seq(Items) /\ queues[t] # << >> /\ Releases(queues[t][Len(queues[t])])
      BY <1>4 DEF LastQueued
    <3>2. Len(queues[t]) \in 1..Len(queues[t])
      BY <3>1
    <3> QED
      BY <3>1, <3>2 DEF NoneQueued
  <2>5. CASE Releases(x.req)
    <3>1. ~NoneComing(t)
      BY <1>7, <2>5 DEF NoneComing
    <3>2. NoSequence(t) /\ NoneQueued(t)
      BY <1>7, <3>1 DEF Own
    <3> QED
      BY <2>2, <2>3, <2>4, <3>2 DEF NoSequence
  <2>6. CASE ~Releases(x.req)
    <3>1. x.from = "client" /\ ~End(x.req)
      BY <1>1, <1>4, <2>6 DEF BInv, CallsInv, CallType, Releases
    <3>2. slotMap[x.req[1]] = t
      BY <1>1, <1>5, <3>1 DEF BInv, CallsInv
    <3>3. ~NoSequence(t)
      BY <2>2, <3>2 DEF NoSequence
    <3>4. OneSequence(t) /\ NoneQueued(t)
      BY <1>7, <3>3 DEF Own
    <3>5. ~Releases(y.req) /\ slotMap[y.req[1]] = t
      BY <2>3, <2>4, <3>4
    <3>6. y.from = "client"
      BY <2>2, <3>5 DEF BInv, CallsInv, Releases
    <3>7. y.req[1] = x.req[1]
      BY <2>2, <3>2, <3>4, <3>5 DEF OneSequence
    <3>8. y = x
      BY <3>1, <3>6, <3>7 DEF BInv, CallsInv
    <3> QED
      BY <1>1, <2>1, <3>8
  <2> QED
    BY <2>5, <2>6
<1>9. \A s : s # t => SameTurns(s)
  <2>1. CASE inFlight[x.slot]
    BY <1>1, <1>5, <2>1 DEF Return, SameTurns
  <2>2. CASE ~inFlight[x.slot]
    <3>1. [x EXCEPT !.step = "next"].slot = t
      BY <1>4, <1>5 DEF CallType
    <3> QED
      BY <1>1, <1>5, <2>2, <3>1 DEF Goto, SameTurns
  <2> QED
    BY <2>1, <2>2
<1>10. ASSUME NEW s \in Slots, s # t PROVE Flight(s)'
  <2>1. KeepsIssued(s)
    BY <1>1, IssuedStays
  <2>2. SameExecuting(s)
    BY <1>1 DEF SameExecuting
  <2>3. Flight(s)
    BY DEF FlightInv
  <2> QED
    BY <1>1, <1>9, <1>10, <2>1, <2>2, <2>3, FlightFrame
<1>11. ASSUME NEW y \in calls, y # x
       PROVE /\ y.step = "next" /\ y.from # "backend" =>
                  IF Releases(y.req)' THEN LastQueued(y.slot)' ELSE slotMap'[y.req[1]] = y.slot
             /\ y.step = "retry" => queues'[y.slot] # << >> /\ ~IsNull(Head(queues'[y.slot]))
  <2>1. y.slot \in Slots
    BY DEF BInv, BaseType, CallType
  <2>2. CASE y.slot = t
    BY <1>8, <2>2 DEF NoneSending, Sending
  <2>3. CASE y.slot # t
    <3>1. LastQueued(y.slot)' <=> LastQueued(y.slot)
      BY <1>6, <2>1, <2>3, QueueFrame DEF SameQueue
    <3>2. /\ y.step = "next" /\ y.from # "backend" =>
               IF Releases(y.req) THEN LastQueued(y.slot) ELSE slotMap[y.req[1]] = y.slot
          /\ y.step = "retry" => queues[y.slot] # << >> /\ ~IsNull(Head(queues[y.slot]))
      BY <1>7 DEF SendersInv
    <3> QED
      BY <1>1, <1>3, <1>6, <2>1, <2>3, <3>1, <3>2
  <2> QED
    BY <2>2, <2>3
<1>12. CASE inFlight[t]
  <2>1. calls' = calls \ {x}
    BY <1>1, <1>5, <1>12 DEF Return
  <2>2. Flight(t)'
    <3>1. SameTurns(t)
      BY <1>1, <2>1 DEF SameTurns
    <3>2. KeepsIssued(t) /\ SameExecuting(t)
      BY <1>1, IssuedStays DEF SameExecuting
    <3> QED
      BY <1>1, <1>7, <3>1, <3>2, FlightFrame
  <2>3. Overrides'
    BY <1>1, <1>3, <2>1 DEF FlightInv, Overrides
  <2>4. SendersInv'
    BY <1>11, <2>1 DEF SendersInv, IsNull
  <2>5. \A s \in Slots : Flight(s)'
    BY <1>10, <2>2
  <2>6. FlightInv'
    BY <1>1, <1>3, <2>3, <2>4, <2>5 DEF FlightInv
  <2> QED
    BY <1>2, <2>6
<1>13. CASE ~inFlight[t]
  <2>0. PICK z \in {[x EXCEPT !.step = "next"]} : z = [x EXCEPT !.step = "next"]
    OBVIOUS
  <2>1. /\ z \in CallType /\ z.from = x.from /\ z.req = x.req /\ z.slot = t /\ z.step = "next"
    BY <1>4, <1>5, <2>0 DEF CallType, Steps
  <2>2. calls' = (calls \ {x}) \cup {z}
    BY <1>1, <1>5, <1>13, <2>0 DEF Goto
  <2>3. z.from # "backend"
    BY <1>1, <2>1 DEF BInv, CallsInv
  <2>4. NoneIssued(t) /\ NoneExecuting(t) /\ NoneReturning(t)
    BY <1>7, <1>13 DEF Flight
  <2>5. Flight(t)'
    <3>1. NoneIssued(t)' /\ NoneExecuting(t)'
      BY <1>1, <2>4, IssuedStays DEF KeepsIssued, NoneExecuting
    <3>2. NoneReturning(t)'
      BY <2>2, <2>3, <2>4 DEF NoneReturning, Returning
    <3>3. OneSending(t)'
      <4>1. Sending(z, t) /\ z \in calls'
        BY <2>1, <2>2, <2>3 DEF Sending
      <4>2. \A y \in calls' : Sending(y, t) => y = z
        BY <1>8, <2>2 DEF NoneSending
      <4> QED
        BY <4>1, <4>2 DEF OneSending, Sending
    <3> QED
      BY <1>1, <1>13, <3>1, <3>2, <3>3 DEF Flight
  <2>6. Overrides'
    BY <1>1, <1>3, <2>2, <2>3 DEF FlightInv, Overrides
  <2>7. IF Releases(z.req)' THEN LastQueued(z.slot)' ELSE slotMap'[z.req[1]] = z.slot
    <3>1. CASE Releases(x.req)
      <4>1. ~NoneQueued(t)'
        <5>1. PICK q \in Seq(Items) : q = queues[t]
          BY <1>4
        <5>2. queues'[t] = Append(q, x.req) /\ x.req \in Items
          BY <1>1, <1>4, <1>5, <5>1 DEF CallType
        <5>3. /\ Len(Append(q, x.req)) \in 1..Len(Append(q, x.req))
              /\ Append(q, x.req)[Len(Append(q, x.req))] = x.req
          BY <5>2
        <5> QED
          BY <1>3, <3>1, <5>2, <5>3 DEF NoneQueued
      <4>2. queues'[t] # << >>
        BY <1>1, <1>4, <1>5 DEF CallType
      <4>3. Own(t)'
        BY <1>2, <1>3 DEF BInv, OwnInv
      <4>4. LastQueued(t)'
        BY <4>1, <4>2, <4>3 DEF Own
      <4> QED
        BY <1>3, <2>1, <3>1, <4>4
    <3>2. CASE ~Releases(x.req)
      <4>1. x.from = "client" /\ ~End(x.req)
        BY <1>1, <1>4, <3>2 DEF BInv, CallsInv, CallType, Releases
      <4>2. slotMap[x.req[1]] = t
        BY <1>1, <1>5, <4>1 DEF BInv, CallsInv
      <4> QED
        BY <1>1, <1>3, <2>1, <3>2, <4>2
    <3> QED
      BY <3>1, <3>2
  <2>8. SendersInv'
    BY <1>11, <2>1, <2>2, <2>7 DEF SendersInv, IsNull
  <2>9. \A s \in Slots : Flight(s)'
    BY <1>10, <2>5
  <2>10. FlightInv'
    BY <1>1, <1>3, <2>6, <2>8, <2>9 DEF FlightInv
  <2> QED
    BY <1>2, <2>10
<1> QED
  BY <1>12, <1>13

\* The queue of the slot is empty.
LEMMA NothingNextKeeps ==
  ASSUME Fixed, BInv, FlightInv, NEW x \in calls, NothingNext(x)
  PROVE BInv' /\ FlightInv'
<1>1. /\ Turn(x) /\ Return(x) /\ inFlight' = [inFlight EXCEPT ![x.slot] = FALSE]
      /\ UNCHANGED <<sent, slotMap, backlogMap, backlog, ready, stamp, forced, queues, corrid,
                     issued, executing>>
  BY DEF NothingNext, mapVars
<1>2. x.step # "enqueue"
  BY <1>1 DEF Turn
<1>3. QuietCalls
  BY <1>1, <1>2 DEF QuietCalls, Leaves
<1>4. BInv'
  BY <1>1, <1>3, StillKeeps
<1>5. AfterTurn(x) /\ KeepsSlots
  BY <1>1 DEF AfterTurn, KeepsSlots
<1>6. FlightInv'
  BY <1>1, <1>5, TurnEnds
<1> QED
  BY <1>4, <1>6

\* The next request is a force-end: the slot goes to a sequence of the
\* backlog, whose first request is looked at in another turn.
LEMMA ForceEndNextKeeps ==
  ASSUME Fixed, BInv, FlightInv, NEW x \in calls, ForceEndNext(x)
  PROVE BInv' /\ FlightInv'
<1>1. /\ Turn(x) /\ queues[x.slot] # << >> /\ IsNull(Head(queues[x.slot]))
      /\ inFlight' = [inFlight EXCEPT ![x.slot] = FALSE]
      /\ ReleaseSequenceSlot(x.slot)
      /\ queues' = [queues EXCEPT ![x.slot] = ReleasedQueue(Tail(queues[x.slot]))]
      /\ IF ReleasedCid # 0 THEN Goto(x, "retry") ELSE Return(x)
      /\ UNCHANGED <<sent, stamp, forced, corrid, issued, executing>>
  BY DEF ForceEndNext
<1>2. x.step # "enqueue"
  BY <1>1 DEF Turn
<1>3. QuietCalls
  <2>1. Leaves(x)
    BY <1>1 DEF Leaves, Steps
  <2> QED
    BY <1>2, <2>1 DEF QuietCalls
<1>4. PICK t \in Slots : t = x.slot
  BY DEF BInv, BaseType, CallType
<1>5. Releases(Head(queues[t]))
  BY <1>1, <1>4 DEF Releases
<1>6. /\ BInv' /\ KeepsSlots
      /\ ReleasedCid # 0 => queues'[t] # << >> /\ ~IsNull(Head(queues'[t]))
  BY <1>1, <1>3, <1>4, <1>5, VacateKeeps
<1>7. AfterTurn(x)
  BY <1>1, <1>4, <1>6 DEF AfterTurn
<1>8. \A s \in Slots : s # x.slot => queues'[s] = queues[s]
  BY <1>1 DEF BInv, BaseType
<1>9. FlightInv'
  BY <1>1, <1>6, <1>7, <1>8, TurnEnds
<1> QED
  BY <1>6, <1>9

\* The next request is given to the dynamic batcher; an END releases the slot.
LEMMA IssueNextKeeps ==
  ASSUME Fixed, BInv, FlightInv, NEW x \in calls, IssueNext(x)
  PROVE BInv' /\ FlightInv'
<1>1. PICK t \in Slots : t = x.slot
  BY DEF BInv, BaseType, CallType
<1>2. queues[t] # << >> /\ Turn(x) /\ queues \in [Slots -> Seq(Items)]
  BY <1>1 DEF IssueNext, BInv, BaseType
<1>3. PICK r \in Items : r = Head(queues[t])
  BY <1>2
<1>4. /\ ~IsNull(r) /\ corrid' = [corrid EXCEPT ![t] = r[1]]
      /\ inFlight' = [inFlight EXCEPT ![t] = TRUE]
      /\ issued' = [issued EXCEPT ![t[1]] = Append(@, <<t, r>>)]
      /\ IF End(r)
         THEN /\ ReleaseSequenceSlot(t)
              /\ queues' = [queues EXCEPT ![t] = ReleasedQueue(Tail(queues[t]))]
         ELSE /\ queues' = [queues EXCEPT ![t] = Tail(@)]
              /\ UNCHANGED mapVars
      /\ Return(x) /\ UNCHANGED <<sent, stamp, forced, executing>>
  BY <1>1, <1>3 DEF IssueNext
<1>5. r \in Requests
  BY <1>4, FlagsFit DEF BInv, BaseType
<1>6. x.step # "enqueue"
  BY <1>2 DEF Turn
<1>7. QuietCalls
  BY <1>4, <1>6 DEF QuietCalls, Leaves
<1>8. \A s \in Slots : s # t => queues'[s] = queues[s]
  BY <1>2, <1>4
<1>9. BInv' /\ KeepsSlots
  <2>1. CASE End(r)
    <3>1. Releases(Head(queues[t]))
      BY <1>3, <2>1 DEF Releases
    <3>2. /\ ReleaseSequenceSlot(t)
          /\ queues' = [queues EXCEPT ![t] = ReleasedQueue(Tail(queues[t]))]
          /\ UNCHANGED <<sent, stamp, forced>>
      BY <1>4, <2>1
    <3> QED
      BY <1>2, <1>7, <3>1, <3>2, VacateKeeps
  <2>2. CASE ~End(r)
    <3>1. ~Releases(Head(queues[t]))
      BY <1>3, <1>4, <2>2 DEF Releases
    <3>2. /\ queues' = [queues EXCEPT ![t] = Tail(@)]
          /\ UNCHANGED <<sent, slotMap, backlogMap, backlog, ready, stamp, forced>>
      BY <1>4, <2>2 DEF mapVars
    <3>3. KeepsSlots
      BY <3>2 DEF KeepsSlots
    <3> QED
      BY <1>2, <1>7, <3>1, <3>2, <3>3, PopKeeps
  <2> QED
    BY <2>1, <2>2
<1>10. FlightInv'
  BY <1>1, <1>2, <1>4, <1>5, <1>8, <1>9, TurnIssues
<1> QED
  BY <1>9, <1>10

\* The backend releases a request and calls back for its slot.
LEMMA ReleaseRequestKeeps ==
  ASSUME Fixed, BInv, FlightInv, NEW e \in executing, ReleaseRequest(e)
  PROVE BInv' /\ FlightInv'
<1>1. /\ executing' = executing \ {e}
      /\ calls' = calls \cup {Call("backend", e[2], e[1], "next")}
      /\ UNCHANGED <<sent, slotMap, backlogMap, backlog, ready, stamp, forced, queues, corrid,
                     inFlight, issued>>
  BY DEF ReleaseRequest, mapVars
<1>2. e \in Slots \X Requests
  BY DEF FlightInv
<1>3. BInv'
  <2>1. QuietCalls
    BY <1>1, <1>2 DEF QuietCalls, CalledBack
  <2> QED
    BY <1>1, <2>1, StillKeeps
<1>4. Slots' = Slots /\ Batchers' = Batchers /\ \A r : Releases(r)' <=> Releases(r)
  BY FixedMeans
<1>5. PICK t \in Slots : t = e[1]
  BY <1>2
<1>6. PICK y \in {Call("backend", e[2], e[1], "next")} :
        y = Call("backend", e[2], e[1], "next")
  OBVIOUS
<1>7. y.from = "backend" /\ y.req = e[2] /\ y.slot = t /\ y.step = "next"
  BY <1>5, <1>6 DEF Call
<1>8. calls' = calls \cup {y}
  BY <1>1, <1>6
<1>9. /\ inFlight[t] /\ OneExecuting(t)
      /\ NoneIssued(t) /\ NoneReturning(t) /\ NoneSending(t)
  <2>1. ~NoneExecuting(t) /\ Flight(t)
    BY <1>5 DEF NoneExecuting, FlightInv
  <2> QED
    BY <2>1 DEF Flight
<1>10. Flight(t)'
  <2>1. NoneIssued(t)'
    BY <1>1, <1>9, IssuedStays DEF KeepsIssued
  <2>2. NoneExecuting(t)'
    BY <1>1, <1>5, <1>9 DEF OneExecuting, NoneExecuting
  <2>3. OneReturning(t)'
    <3>1. Returning(y, t) /\ y \in calls'
      BY <1>7, <1>8 DEF Returning
    <3>2. \A z \in calls' : Returning(z, t) => z = y
      BY <1>8, <1>9 DEF NoneReturning
    <3> QED
      BY <3>1, <3>2 DEF OneReturning, Returning
  <2>4. NoneSending(t)'
    BY <1>7, <1>8, <1>9 DEF NoneSending, Sending
  <2> QED
    BY <1>1, <1>9, <2>1, <2>2, <2>3, <2>4 DEF Flight
<1>11. ASSUME NEW s \in Slots, s # t PROVE Flight(s)'
  <2>1. KeepsIssued(s)
    BY <1>1, IssuedStays
  <2>2. SameExecuting(s)
    BY <1>1, <1>5, <1>11 DEF SameExecuting
  <2>3. SameTurns(s)
    BY <1>7, <1>8, <1>11 DEF SameTurns
  <2>4. Flight(s)
    BY DEF FlightInv
  <2> QED
    BY <1>1, <2>1, <2>2, <2>3, <2>4, FlightFrame
<1>12. Overrides'
  <2>1. corrid[e[1]] = e[2][1]
    BY DEF FlightInv, Overrides
  <2> QED
    BY <1>1, <1>4, <1>5, <1>7, <1>8, <2>1 DEF FlightInv, Overrides
<1>13. SendersInv'
  <2>1. \A s \in Slots : LastQueued(s)' <=> LastQueued(s)
    BY <1>1, QueueFrame DEF SameQueue
  <2>2. \A z \in calls : z.slot \in Slots
    BY DEF BInv, BaseType, CallType
  <2> QED
    BY <1>1, <1>4, <1>7, <1>8, <2>1, <2>2 DEF FlightInv, SendersInv, IsNull
<1>14. FlightInv'
  BY <1>1, <1>4, <1>10, <1>11, <1>12, <1>13 DEF FlightInv
<1> QED
  BY <1>3, <1>14

\* A step of the scheduler leaves the requests in flight alone.
LEMMA SchedulerKeepsFlight ==
  ASSUME Fixed, BInv, FlightInv, SchedulerOnly, UNCHANGED oldestVars
  PROVE FlightInv'
<1>1. /\ UNCHANGED <<queues, corrid, inFlight, issued, executing>>
      /\ calls \subseteq calls' /\ \A x \in calls' : x \in calls \/ x.step = "enqueue"
      /\ \A x \in calls : x.from = "client" => slotMap'[x.req[1]] = slotMap[x.req[1]]
  BY DEF SchedulerOnly, oldestVars
<1>2. Slots' = Slots /\ Batchers' = Batchers /\ \A r : Releases(r)' <=> Releases(r)
  BY FixedMeans
<1>3. ASSUME NEW s \in Slots PROVE Flight(s)'
  <2>1. KeepsIssued(s)
    BY <1>1, IssuedStays
  <2>2. SameExecuting(s)
    BY <1>1 DEF SameExecuting
  <2>3. SameTurns(s)
    BY <1>1 DEF SameTurns
  <2>4. Flight(s)
    BY DEF FlightInv
  <2> QED
    BY <1>1, <2>1, <2>2, <2>3, <2>4, FlightFrame
<1>4. Overrides'
  BY <1>1, <1>2 DEF FlightInv, Overrides
<1>5. SendersInv'
  <2>1. \A s \in Slots : LastQueued(s)' <=> LastQueued(s)
    BY <1>1, QueueFrame DEF SameQueue
  <2>2. \A z \in calls : z.slot \in Slots /\ z.from \in {"client", "reaper", "backend"}
    BY DEF BInv, BaseType, CallType
  <2>3. \A z \in calls : z.from = "reaper" => Releases(z.req)
    BY DEF BInv, CallsInv, Releases
  <2>4. SendersInv
    BY DEF FlightInv
  <2>5. ASSUME NEW x \in calls', x.step = "next", x.from # "backend"
        PROVE IF Releases(x.req)' THEN LastQueued(x.slot)' ELSE slotMap'[x.req[1]] = x.slot
    <3>1. x \in calls
      BY <1>1, <2>5
    <3>2. IF Releases(x.req) THEN LastQueued(x.slot) ELSE slotMap[x.req[1]] = x.slot
      BY <2>4, <2>5, <3>1 DEF SendersInv
    <3> QED
      BY <1>1, <1>2, <2>1, <2>2, <2>3, <2>5, <3>1, <3>2
  <2>6. \A x \in calls' : x.step = "retry" =>
          queues'[x.slot] # << >> /\ ~IsNull(Head(queues'[x.slot]))
    BY <1>1, <2>4 DEF SendersInv
  <2> QED
    BY <2>5, <2>6 DEF SendersInv, IsNull
<1> QED
  BY <1>1, <1>2, <1>3, <1>4, <1>5 DEF FlightInv

\* A queue is cut in two.
LEMMA CutQueue ==
  ASSUME NEW S, NEW q \in Seq(S), NEW n \in 1..Len(q)
  PROVE /\ Range(SubSeq(q, 1, n)) = {q[i] : i \in 1..n}
        /\ SubSeq(q, n + 1, Len(q)) \in Seq(S)
        /\ Len(SubSeq(q, n + 1, Len(q))) = Len(q) - n
        /\ \A i \in 1..(Len(q) - n) :
             SubSeq(q, n + 1, Len(q))[i] = q[n + i] /\ n + i \in 1..Len(q)
<1>1. Len(q) \in Nat /\ n \in Nat /\ n >= 1 /\ n <= Len(q)
  OBVIOUS
<1>2. /\ SubSeq(q, 1, n) \in Seq(S) /\ Len(SubSeq(q, 1, n)) = n
      /\ \A i \in 1..n : SubSeq(q, 1, n)[i] = q[i]
  BY <1>1
<1>3. DOMAIN SubSeq(q, 1, n) = 1..n
  BY <1>2
<1>4. Range(SubSeq(q, 1, n)) = {q[i] : i \in 1..n}
  BY <1>2, <1>3 DEF Range
<1>5. /\ SubSeq(q, n + 1, Len(q)) \in Seq(S)
      /\ Len(SubSeq(q, n + 1, Len(q))) = Len(q) - n
  BY <1>1
<1>6. \A i \in 1..(Len(q) - n) : SubSeq(q, n + 1, Len(q))[i] = q[n + i] /\ n + i \in 1..Len(q)
  BY <1>1
<1> QED
  BY <1>4, <1>5, <1>6

\* The dynamic batcher gives a batch to the backend.
LEMMA ExecuteBatchKeeps ==
  ASSUME Fixed, BInv, FlightInv, NEW b \in Batchers, ExecuteBatch(b)
  PROVE BInv' /\ FlightInv'
<1>0. PICK n \in 1..Len(issued[b]) :
        /\ executing' = executing \cup Range(SubSeq(issued[b], 1, n))
        /\ issued' = [issued EXCEPT ![b] = SubSeq(@, n + 1, Len(@))]
        /\ UNCHANGED <<sent, slotMap, backlogMap, backlog, ready, stamp, forced, calls, queues,
                       corrid, inFlight>>
  BY DEF ExecuteBatch, mapVars
<1>1. /\ issued \in [Batchers -> Seq(Slots \X Requests)]
      /\ executing \subseteq Slots \X Requests
  BY DEF FlightInv
<1>2. PICK q \in Seq(Slots \X Requests) : q = issued[b]
  BY <1>1
<1>3. n \in 1..Len(q) /\ n \in Nat /\ Len(q) \in Nat
  BY <1>2
<1>4. PICK rest \in Seq(Slots \X Requests) :
        /\ rest = SubSeq(q, n + 1, Len(q)) /\ Len(rest) = Len(q) - n
        /\ \A i \in 1..(Len(q) - n) : rest[i] = q[n + i] /\ n + i \in 1..Len(q)
  <2>1. /\ SubSeq(q, n + 1, Len(q)) \in Seq(Slots \X Requests)
        /\ Len(SubSeq(q, n + 1, Len(q))) = Len(q) - n
        /\ \A i \in 1..(Len(q) - n) :
             SubSeq(q, n + 1, Len(q))[i] = q[n + i] /\ n + i \in 1..Len(q)
    BY <1>3, CutQueue
  <2>2. PICK y \in {SubSeq(q, n + 1, Len(q))} : y = SubSeq(q, n + 1, Len(q))
    OBVIOUS
  <2>3. y \in Seq(Slots \X Requests) /\ Len(y) = Len(q) - n
        /\ \A i \in 1..(Len(q) - n) : y[i] = q[n + i] /\ n + i \in 1..Len(q)
    BY ONLY <2>1, <2>2
  <2> QED
    BY ONLY <2>2, <2>3
<1>5. executing' = executing \cup {q[i] : i \in 1..n}
  BY <1>0, <1>2, <1>3, CutQueue
<1>6. issued'[b] = rest /\ issued' \in [Batchers -> Seq(Slots \X Requests)]
      /\ \A c \in Batchers : c # b => issued'[c] = issued[c]
  <2>1. issued' = [issued EXCEPT ![b] = rest]
    BY <1>0, <1>2, <1>4
  <2> QED
    BY <1>1, <2>1
<1>7. \A i \in 1..n : i \in 1..Len(q)
  BY <1>3
<1>8. BInv'
  <2>1. QuietCalls
    BY <1>0 DEF QuietCalls
  <2> QED
    BY <1>0, <2>1, StillKeeps
<1>9. Slots' = Slots /\ Batchers' = Batchers /\ \A r : Releases(r)' <=> Releases(r)
  BY FixedMeans
<1>10. executing' \subseteq Slots \X Requests
  <2>1. \A i \in 1..Len(q) : q[i] \in Slots \X Requests
    OBVIOUS
  <2> QED
    BY <1>1, <1>5, <1>7, <2>1
<1>11. ASSUME NEW c \in Batchers, NEW l \in 1..Len(issued'[c])
       PROVE \/ c # b /\ l \in 1..Len(issued[c]) /\ issued'[c][l] = issued[c][l]
             \/ c = b /\ n + l \in 1..Len(issued[c]) /\ issued'[c][l] = issued[c][n + l]
  <2>1. CASE c # b
    BY <1>6, <2>1
  <2>2. CASE c = b
    <3>1. l \in 1..(Len(q) - n)
      BY <1>4, <1>6, <2>2
    <3> QED
      BY <1>2, <1>4, <1>6, <2>2, <3>1
  <2> QED
    BY <2>1, <2>2
<1>12. ASSUME NEW s \in Slots PROVE Flight(s)'
  <2>1. Flight(s) /\ s[1] \in Batchers
    BY SlotGrid DEF FlightInv, BInv
  <2>2. /\ NoneReturning(s)' <=> NoneReturning(s)
        /\ OneReturning(s)' <=> OneReturning(s)
        /\ NoneSending(s)' <=> NoneSending(s)
        /\ OneSending(s)' <=> OneSending(s)
    BY <1>0, TurnsFrame DEF SameTurns
  <2>3. CASE NoneIssued(s)
    <3>1. NoneIssued(s)'
      <4>1. ASSUME NEW c \in Batchers, NEW l \in 1..Len(issued'[c]) PROVE issued'[c][l][1] # s
        <5>1. CASE c # b /\ l \in 1..Len(issued[c]) /\ issued'[c][l] = issued[c][l]
          BY <2>3, <5>1 DEF NoneIssued
        <5>2. CASE c = b /\ n + l \in 1..Len(issued[c]) /\ issued'[c][l] = issued[c][n + l]
          BY <2>3, <5>2 DEF NoneIssued
        <5> QED
          BY <1>11, <5>1, <5>2
      <4> QED
        BY <1>9, <4>1 DEF NoneIssued
    <3>2. \A i \in 1..n : q[i][1] # s
      BY <1>2, <1>7, <2>3 DEF NoneIssued
    <3>3. SameExecuting(s)
      BY <1>5, <3>2 DEF SameExecuting
    <3>4. KeepsIssued(s)
      <4>1. ~OneIssued(s)
        BY <2>1, <2>3 DEF NoneIssued, OneIssued
      <4> QED
        BY <3>1, <4>1 DEF KeepsIssued
    <3>5. SameTurns(s)
      BY <1>0 DEF SameTurns
    <3> QED
      BY <1>0, <2>1, <3>3, <3>4, <3>5, FlightFrame
  <2>4. CASE ~NoneIssued(s)
    <3>1. inFlight[s] /\ OneIssued(s) /\ NoneExecuting(s) /\ NoneReturning(s) /\ NoneSending(s)
      BY <2>1, <2>4 DEF Flight
    <3>2. PICK k \in 1..Len(issued[s[1]]) :
            /\ issued[s[1]][k][1] = s
            /\ \A c \in Batchers : \A l \in 1..Len(issued[c]) :
                 issued[c][l][1] = s => c = s[1] /\ l = k
      BY <3>1 DEF OneIssued
    <3>3. k \in Nat /\ k >= 1
      OBVIOUS
    <3>4. CASE s[1] = b /\ k <= n
      <4>1. NoneIssued(s)'
        <5>1. ASSUME NEW c \in Batchers, NEW l \in 1..Len(issued'[c]), issued'[c][l][1] = s
              PROVE FALSE
          <6>1. CASE c # b
            BY <1>11, <3>2, <3>4, <5>1, <6>1
          <6>2. CASE c = b
            <7>1. n + l \in 1..Len(issued[c]) /\ issued[c][n + l][1] = s
              BY <1>11, <5>1, <6>2
            <7>2. n + l = k
              BY <3>2, <7>1
            <7>3. l \in Nat /\ l >= 1
              OBVIOUS
            <7> QED
              BY <1>3, <3>3, <3>4, <7>2, <7>3
          <6> QED
            BY <6>1, <6>2
        <5> QED
          BY <1>9, <5>1 DEF NoneIssued
      <4>2. OneExecuting(s)'
        <5>1. k \in 1..n /\ q[k][1] = s
          BY <1>2, <3>2, <3>3, <3>4
        <5>2. q[k] \in executing'
          BY <1>5, <5>1
        <5>3. \A i \in 1..n : q[i][1] = s => i = k
          BY <1>2, <1>7, <3>2
        <5>4. \A d \in executing' : d[1] = s => d = q[k]
          BY <1>5, <3>1, <5>3 DEF NoneExecuting
        <5> QED
          BY <5>1, <5>2, <5>4 DEF OneExecuting
      <4> QED
        BY <1>0, <2>2, <3>1, <4>1, <4>2 DEF Flight
    <3>5. CASE ~(s[1] = b /\ k <= n)
      <4>1. NoneExecuting(s)'
        <5>1. \A i \in 1..n : q[i][1] # s
          <6> SUFFICES ASSUME NEW i \in 1..n, q[i][1] = s PROVE FALSE
            OBVIOUS
          <6>1. b = s[1] /\ i = k
            BY <1>2, <1>7, <3>2
          <6> QED
            BY <1>3, <3>5, <6>1
        <5> QED
          BY <1>5, <3>1, <5>1 DEF NoneExecuting
      <4>2. OneIssued(s)'
        <5>1. CASE s[1] # b
          <6>1. issued'[s[1]] = issued[s[1]]
            BY <1>6, <2>1, <5>1
          <6>2. \A c \in Batchers : \A l \in 1..Len(issued'[c]) :
                  issued'[c][l][1] = s => c = s[1] /\ l = k
            <7> SUFFICES ASSUME NEW c \in Batchers, NEW l \in 1..Len(issued'[c]),
                                issued'[c][l][1] = s
                         PROVE c = s[1] /\ l = k
              OBVIOUS
            <7>1. CASE c # b /\ l \in 1..Len(issued[c]) /\ issued'[c][l] = issued[c][l]
              BY <3>2, <7>1
            <7>2. CASE c = b /\ n + l \in 1..Len(issued[c]) /\ issued'[c][l] = issued[c][n + l]
              <8>1. issued[c][n + l][1] = s
                BY <7>2
              <8> QED
                BY <3>2, <5>1, <7>2, <8>1
            <7> QED
              BY <1>11, <7>1, <7>2
          <6>3. \E l \in 1..Len(issued'[s[1]]) :
                  /\ issued'[s[1]][l][1] = s
                  /\ \A c \in Batchers : \A i \in 1..Len(issued'[c]) :
                       issued'[c][i][1] = s => c = s[1] /\ i = l
            BY ONLY <3>2, <6>1, <6>2
          <6>4. Batchers' = Batchers
            BY <1>9
          <6> QED
            BY ONLY <6>3, <6>4 DEF OneIssued
        <5>2. CASE s[1] = b
          <6>1. k \in 1..Len(q) /\ k > n
            BY <1>2, <1>3, <3>2, <3>3, <3>5, <5>2
          <6>2. PICK j \in 1..(Len(q) - n) : k = n + j
            <7>1. k - n \in 1..(Len(q) - n) /\ k = n + (k - n)
              BY <1>3, <6>1
            <7> QED
              BY <7>1
          <6>3. j \in 1..Len(issued'[s[1]]) /\ issued'[s[1]][j][1] = s
            BY <1>2, <1>4, <1>6, <3>2, <5>2, <6>2
          <6>4. ASSUME NEW c \in Batchers, NEW l \in 1..Len(issued'[c]), issued'[c][l][1] = s
                PROVE c = s[1] /\ l = j
            <7>1. c = b
              BY <1>11, <3>2, <5>2, <6>4
            <7>2. n + l \in 1..Len(issued[c]) /\ issued[c][n + l][1] = s
              BY <1>11, <6>4, <7>1
            <7>3. n + l = k
              BY <3>2, <7>2
            <7>4. l \in Nat /\ j \in Nat
              OBVIOUS
            <7> QED
              BY <1>3, <5>2, <6>2, <7>1, <7>3, <7>4
          <6> QED
            BY <1>9, <6>3, <6>4 DEF OneIssued
        <5> QED
          BY <5>1, <5>2
      <4> QED
        BY <1>0, <2>2, <3>1, <4>1, <4>2 DEF Flight
    <3> QED
      BY <3>4, <3>5
  <2> QED
    BY <2>3, <2>4
<1>13. Overrides'
  <2>1. \A c \in Batchers : \A k \in 1..Len(issued[c]) :
          corrid[issued[c][k][1]] = issued[c][k][2][1]
    BY DEF FlightInv, Overrides
  <2>2. \A c \in Batchers : \A l \in 1..Len(issued'[c]) :
          corrid'[issued'[c][l][1]] = issued'[c][l][2][1]
    <3> SUFFICES ASSUME NEW c \in Batchers, NEW l \in 1..Len(issued'[c])
                 PROVE corrid'[issued'[c][l][1]] = issued'[c][l][2][1]
      OBVIOUS
    <3>1. CASE c # b /\ l \in 1..Len(issued[c]) /\ issued'[c][l] = issued[c][l]
      BY <1>0, <2>1, <3>1
    <3>2. CASE c = b /\ n + l \in 1..Len(issued[c]) /\ issued'[c][l] = issued[c][n + l]
      <4>1. corrid[issued[c][n + l][1]] = issued[c][n + l][2][1]
        BY <2>1, <3>2
      <4> QED
        BY <1>0, <3>2, <4>1
    <3> QED
      BY <1>11, <3>1, <3>2
  <2>3. \A d \in executing' : corrid'[d[1]] = d[2][1]
    BY <1>0, <1>2, <1>5, <1>7, <2>1 DEF FlightInv, Overrides
  <2> QED
    BY <1>0, <1>9, <2>2, <2>3 DEF FlightInv, Overrides
<1>14. SendersInv'
  <2>1. \A s \in Slots : LastQueued(s)' <=> LastQueued(s)
    BY <1>0, QueueFrame DEF SameQueue
  <2>2. \A z \in calls : z.slot \in Slots
    BY DEF BInv, BaseType, CallType
  <2> QED
    BY <1>0, <1>9, <2>1, <2>2 DEF FlightInv, SendersInv, IsNull
<1>15. FlightInv'
  BY <1>0, <1>6, <1>9, <1>10, <1>12, <1>13, <1>14 DEF FlightInv
<1> QED
  BY <1>8, <1>15

\* Every step with the Oldest strategy preserves the invariant.
LEMMA OldestKeeps ==
  ASSUME BInv, FlightInv, ~Pipelined, OldestNext
  PROVE BInv' /\ FlightInv'
<1>1. Fixed
  BY DEF OldestNext
<1>2. CASE BaseNext /\ UNCHANGED oldestVars
  BY <1>1, <1>2, SchedulerKeeps, SchedulerKeepsFlight
<1>3. ASSUME NEW x \in calls, OldestEnqueue(x) \/ CompleteAndNext(x) PROVE BInv' /\ FlightInv'
  BY <1>1, <1>3, OldestEnqueueKeeps, NothingNextKeeps, ForceEndNextKeeps, IssueNextKeeps
     DEF CompleteAndNext
<1> QED
  BY <1>1, <1>2, <1>3, ExecuteBatchKeeps, ReleaseRequestKeeps DEF OldestNext, OldestBatching
----------------------------------------------------------------------------
\* No slot is assigned at the start, and nothing is queued or called.
LEMMA InitKeeps ==
  ASSUME Init
  PROVE SInv
<1>1. BaseInit
  BY DEF Init, DirectInit, OldestInit
<1>2. config \in DOMAIN SequenceConfigs /\ plan \in Config.plans
  BY <1>1 DEF BaseInit
<1>3. None \notin Slots /\ 0 \in Nat
  BY <1>2, FlagsFit
<1>4. BaseType
  <2>1. << >> \in Seq(Seq(Requests)) /\ << >> \in Seq(Items)
    BY EmptySeq
  <2> QED
    BY <1>1, <2>1 DEF BaseInit, BaseType
<1>5. BacklogInv
  <2>1. backlog = << >> /\ Len(backlog) = 0 /\ \A c \in Cids : backlogMap[c] = None
    BY <1>1 DEF BaseInit
  <2>2. 1..Len(backlog) = {}
    BY <2>1
  <2> QED
    BY <2>1, <2>2 DEF BacklogInv
<1>6. CallsInv
  BY <1>1 DEF BaseInit, CallsInv
<1>7. ASSUME NEW s \in Slots PROVE Own(s)
  <2>1. s \in ready /\ queues[s] = << >> /\ calls = {} /\ forced = {}
    BY <1>1 DEF BaseInit
  <2>2. \A c \in Cids : slotMap[c] # s
    BY <1>1, <1>3 DEF BaseInit
  <2> QED
    BY <2>1, <2>2 DEF Own, NoSequence, NoneComing, NoneForced
<1>8. BInv
  BY <1>4, <1>5, <1>6, <1>7 DEF BInv, OwnInv
<1>9. Config.strategy = "direct" => PassInv
  <2> SUFFICES ASSUME Config.strategy = "direct" PROVE PassInv
    OBVIOUS
  <2>1. pass = [b \in Batchers |-> Top] /\ maxActive = [b \in Batchers |-> -1]
    BY DEF Init, DirectInit
  <2>2. << >> \in Seq(Requests \cup {None}) /\ -1 \in Int /\ 0 \in Int
    BY EmptySeq
  <2>3. Top \in PassType /\ Top.pc = "top" /\ Top.at = 0
    BY <2>2 DEF Top, PassType
  <2>4. \A b \in Batchers : PassOf(b)
    BY <2>1, <2>3 DEF PassOf
  <2> QED
    BY <2>1, <2>2, <2>3, <2>4 DEF PassInv
<1>10. Config.strategy = "oldest" => FlightInv
  <2> SUFFICES ASSUME Config.strategy = "oldest" PROVE FlightInv
    OBVIOUS
  <2>1. /\ inFlight = [s \in Slots |-> FALSE] /\ issued = [b \in Batchers |-> << >>]
        /\ executing = {} /\ calls = {} /\ corrid = [s \in Slots |-> 0]
    BY DEF Init, OldestInit, BaseInit
  <2>2. << >> \in Seq(Slots \X Requests)
    BY EmptySeq
  <2>3. issued \in [Batchers -> Seq(Slots \X Requests)]
        /\ \A b \in Batchers : 1..Len(issued[b]) = {}
    BY <2>1, <2>2
  <2>4. ASSUME NEW s \in Slots PROVE Flight(s)
    <3>1. NoneIssued(s)
      BY <2>3 DEF NoneIssued
    <3>2. NoneExecuting(s) /\ NoneReturning(s) /\ NoneSending(s) /\ ~inFlight[s]
      BY <2>1 DEF NoneExecuting, NoneReturning, NoneSending
    <3> QED
      BY <3>1, <3>2 DEF Flight
  <2>5. Overrides /\ SendersInv
    BY <2>1, <2>3 DEF Overrides, SendersInv
  <2>6. inFlight \in [Slots -> BOOLEAN] /\ corrid \in [Slots -> Cids \cup {0}]
    BY <2>1
  <2> QED
    BY <2>1, <2>3, <2>4, <2>5, <2>6 DEF FlightInv
<1> QED
  BY <1>8, <1>9, <1>10 DEF SInv

\* A step that changes nothing.
LEMMA StutterKeeps ==
  ASSUME SInv, UNCHANGED vars
  PROVE SInv'
<1>1. /\ UNCHANGED <<config, plan, sent, slotMap, backlogMap, backlog, ready, stamp, forced,
                     calls, queues, corrid>>
      /\ UNCHANGED directVars /\ UNCHANGED oldestVars
  BY DEF vars, baseVars, mapVars
<1>2. Fixed /\ QuietCalls /\ BInv
  BY <1>1 DEF Fixed, QuietCalls, SInv
<1>3. BInv'
  BY <1>1, <1>2, StillKeeps
<1>4. Config' = Config /\ Batchers' = Batchers
  BY <1>2, FixedMeans
<1>5. CASE Config.strategy = "direct" /\ PassInv
  <2>1. UNCHANGED <<queues, pass, maxActive>>
    BY <1>1 DEF directVars
  <2>2. PassType' = PassType
    BY DEF PassType
  <2>3. \A b \in Batchers : PassOf(b)'
    BY <1>2, <1>5, <2>1, PassFrame DEF PassInv
  <2>4. PassInv'
    BY <1>4, <1>5, <2>1, <2>2, <2>3 DEF PassInv
  <2> QED
    BY <1>3, <1>4, <1>5, <2>4 DEF SInv
<1>6. CASE Config.strategy = "oldest" /\ FlightInv
  <2>1. SchedulerOnly
    BY <1>1 DEF SchedulerOnly
  <2>2. FlightInv'
    BY <1>1, <1>2, <1>6, <2>1, SchedulerKeepsFlight
  <2> QED
    BY <1>3, <1>4, <1>6, <2>2 DEF SInv
<1>7. Config.strategy \in {"direct", "oldest"}
  BY <1>2, ConfigFits DEF BInv, BaseType
<1> QED
  BY <1>5, <1>6, <1>7 DEF SInv

\* SInv holds in every state of a batcher each of whose sequences is sent by
\* one thread: SequenceBatchScheduler's Enqueue and reaper, and the threads of
\* either strategy, preserve it.
THEOREM SequencesInvariant == Spec => [](~Pipelined => SInv)
<1>1. Init => (~Pipelined => SInv)
  BY InitKeeps
<1>2. (~Pipelined => SInv) /\ [Next]_vars => (~Pipelined => SInv)'
  <2> SUFFICES ASSUME ~Pipelined => SInv, [Next]_vars, ~Pipelined' PROVE SInv'
    OBVIOUS
  <2>1. Fixed
    BY DEF Next, DirectNext, OldestNext, vars, baseVars, Fixed
  <2>2. Config' = Config /\ ~Pipelined
    BY <2>1, FixedMeans
  <2>3. SInv /\ BInv
    BY <2>2 DEF SInv
  <2>4. CASE Config.strategy = "direct" /\ DirectNext
    <3>1. BInv' /\ PassInv'
      BY <2>2, <2>3, <2>4, DirectKeeps DEF SInv
    <3> QED
      BY <2>2, <2>4, <3>1 DEF SInv
  <2>5. CASE Config.strategy = "oldest" /\ OldestNext
    <3>1. BInv' /\ FlightInv'
      BY <2>2, <2>3, <2>5, OldestKeeps DEF SInv
    <3> QED
      BY <2>2, <2>5, <3>1 DEF SInv
  <2>6. CASE UNCHANGED vars
    BY <2>3, <2>6, StutterKeeps
  <2> QED
    BY <2>4, <2>5, <2>6 DEF Next
<1> QED
  BY <1>1, <1>2, PTL DEF Spec
----------------------------------------------------------------------------
\* The parts of Owners.
SequencesOf(s) == {<<"sequence", c>> : c \in {d \in Cids : slotMap[d] = s}}
QueuedOf(s) ==
  {<<"queue", n>> : n \in {k \in 1..Len(queues[s]) : Releases(queues[s][k])}}
ComingOf(s) ==
  {<<"call", x>> : x \in {y \in calls : y.slot = s /\ y.step = "enqueue"
                                          /\ Releases(y.req)}}
ForcedOf(s) == {<<"forced", f>> : f \in {g \in forced : g[2] = s}}
ReadyOf(s) == {<<"ready", t>> : t \in {u \in ready : u = s}}

\* Each part is empty or has one member, as the invariant says.
LEMMA OwnersByKind ==
  ASSUME NEW s
  PROVE /\ Owners(s) = SequencesOf(s) \cup QueuedOf(s) \cup ComingOf(s) \cup ForcedOf(s)
                         \cup ReadyOf(s)
        /\ NoSequence(s) => SequencesOf(s) = {}
        /\ OneSequence(s) => \E o : SequencesOf(s) = {o}
        /\ NoneComing(s) => ComingOf(s) = {}
        /\ OneComing(s) => \E o : ComingOf(s) = {o}
        /\ NoneForced(s) => ForcedOf(s) = {}
        /\ OneForced(s) => \E o : ForcedOf(s) = {o}
        /\ s \in ready => ReadyOf(s) = {<<"ready", s>>}
        /\ s \notin ready => ReadyOf(s) = {}
<1>1. Owners(s) = SequencesOf(s) \cup QueuedOf(s) \cup ComingOf(s) \cup ForcedOf(s)
                    \cup ReadyOf(s)
  BY DEF Owners, SequencesOf, QueuedOf, ComingOf, ForcedOf, ReadyOf
<1>2. NoSequence(s) => SequencesOf(s) = {}
  BY DEF NoSequence, SequencesOf
<1>3. ASSUME OneSequence(s) PROVE \E o : SequencesOf(s) = {o}
  <2>1. PICK c \in Cids : slotMap[c] = s /\ \A d \in Cids : slotMap[d] = s => d = c
    BY <1>3 DEF OneSequence
  <2>2. SequencesOf(s) = {<<"sequence", c>>}
    BY <2>1 DEF SequencesOf
  <2> QED
    BY <2>2
<1>4. NoneComing(s) => ComingOf(s) = {}
  BY DEF NoneComing, Coming, ComingOf
<1>5. ASSUME OneComing(s) PROVE \E o : ComingOf(s) = {o}
  <2>1. PICK x \in calls :
          /\ x.slot = s /\ x.step = "enqueue" /\ Releases(x.req)
          /\ \A y \in calls : y.slot = s /\ y.step = "enqueue" /\ Releases(y.req) => y = x
    BY <1>5 DEF OneComing, Coming
  <2>2. ComingOf(s) = {<<"call", x>>}
    BY <2>1 DEF ComingOf
  <2> QED
    BY <2>2
<1>6. NoneForced(s) => ForcedOf(s) = {}
  BY DEF NoneForced, ForcedOf
<1>7. ASSUME OneForced(s) PROVE \E o : ForcedOf(s) = {o}
  <2>1. PICK f \in forced : f[2] = s /\ \A g \in forced : g[2] = s => g = f
    BY <1>7 DEF OneForced
  <2>2. ForcedOf(s) = {<<"forced", f>>}
    BY <2>1 DEF ForcedOf
  <2> QED
    BY <2>2
<1>8. s \in ready => ReadyOf(s) = {<<"ready", s>>}
  BY DEF ReadyOf
<1>9. s \notin ready => ReadyOf(s) = {}
  BY DEF ReadyOf
<1> QED
  BY <1>1, <1>2, <1>3, <1>4, <1>5, <1>6, <1>7, <1>8, <1>9

\* The releasing requests in the queue of a slot.
LEMMA QueuedByKind ==
  ASSUME BaseType, NEW s \in Slots
  PROVE /\ NoneQueued(s) => QueuedOf(s) = {}
        /\ queues[s] = << >> => QueuedOf(s) = {}
        /\ LastQueued(s) => \E o : QueuedOf(s) = {o}
<1>1. PICK q \in Seq(Items) : q = queues[s]
  BY DEF BaseType
<1>2. NoneQueued(s) => QueuedOf(s) = {}
  BY DEF NoneQueued, QueuedOf
<1>3. queues[s] = << >> => QueuedOf(s) = {}
  BY DEF QueuedOf
<1>4. ASSUME LastQueued(s) PROVE \E o : QueuedOf(s) = {o}
  <2>1. q # << >> /\ Releases(q[Len(q)])
        /\ \A k \in 1..Len(q) : k < Len(q) => ~Releases(q[k])
    BY <1>1, <1>4 DEF LastQueued
  <2>2. Len(q) \in 1..Len(q)
    BY <2>1, EmptySeq
  <2>3. \A k \in 1..Len(q) : Releases(q[k]) <=> k = Len(q)
    BY <2>1
  <2>4. QueuedOf(s) = {<<"queue", Len(q)>>}
    BY <1>1, <2>2, <2>3 DEF QueuedOf
  <2> QED
    BY <2>4
<1> QED
  BY <1>2, <1>3, <1>4

\* The invariant says that a slot has one owner, and that nothing is on its
\* way to one that is ready.
LEMMA OwnedOnceFollows ==
  ASSUME BInv
  PROVE SlotOwnedOnce
<1> SUFFICES ASSUME NEW s \in Slots
             PROVE /\ Cardinality(Owners(s)) = 1
                   /\ s \in ready =>
                        /\ queues[s] = << >> /\ backlog = << >>
                        /\ ~\E x \in calls : x.slot = s /\ x.step = "enqueue"
  BY DEF SlotOwnedOnce
<1>1. Own(s) /\ BaseType
  BY DEF BInv, OwnInv
<1>2. /\ NoneQueued(s) => QueuedOf(s) = {}
      /\ queues[s] = << >> => QueuedOf(s) = {}
      /\ LastQueued(s) => \E o : QueuedOf(s) = {o}
  BY <1>1, QueuedByKind
<1>3. \E o : Owners(s) = {o}
  <2>1. CASE s \in ready /\ queues[s] = << >> /\ NoSequence(s) /\ NoneComing(s) /\ NoneForced(s)
    <3>1. Owners(s) = {<<"ready", s>>}
      BY <1>2, <2>1, OwnersByKind
    <3> QED
      BY <3>1
  <2>2. CASE /\ s \notin ready /\ OneSequence(s)
             /\ NoneQueued(s) /\ NoneComing(s) /\ NoneForced(s)
    <3>1. Owners(s) = SequencesOf(s)
      BY <1>2, <2>2, OwnersByKind
    <3> QED
      BY <2>2, <3>1, OwnersByKind
  <2>3. CASE /\ s \notin ready /\ NoSequence(s)
             /\ LastQueued(s) /\ NoneComing(s) /\ NoneForced(s)
    <3>1. Owners(s) = QueuedOf(s)
      BY <1>2, <2>3, OwnersByKind
    <3> QED
      BY <1>2, <2>3, <3>1
  <2>4. CASE /\ s \notin ready /\ NoSequence(s)
             /\ NoneQueued(s) /\ OneComing(s) /\ NoneForced(s)
    <3>1. Owners(s) = ComingOf(s)
      BY <1>2, <2>4, OwnersByKind
    <3> QED
      BY <2>4, <3>1, OwnersByKind
  <2>5. CASE /\ s \notin ready /\ NoSequence(s)
             /\ NoneQueued(s) /\ NoneComing(s) /\ OneForced(s)
    <3>1. Owners(s) = ForcedOf(s)
      BY <1>2, <2>5, OwnersByKind
    <3> QED
      BY <2>5, <3>1, OwnersByKind
  <2> QED
    BY <1>1, <2>1, <2>2, <2>3, <2>4, <2>5 DEF Own
<1>4. Cardinality(Owners(s)) = 1
  BY <1>3, FS_Singleton
<1>5. ASSUME s \in ready
      PROVE /\ queues[s] = << >> /\ backlog = << >>
            /\ ~\E x \in calls : x.slot = s /\ x.step = "enqueue"
  <2>1. queues[s] = << >> /\ NoSequence(s) /\ NoneComing(s)
    BY <1>1, <1>5 DEF Own
  <2>2. backlog = << >>
    BY <1>5 DEF BInv, BacklogInv
  <2>3. ASSUME NEW x \in calls, x.slot = s, x.step = "enqueue" PROVE FALSE
    <3>1. ~Releases(x.req)
      BY <2>1, <2>3 DEF NoneComing, Coming
    <3>2. x \in CallType /\ ~IsNull(x.req) /\ ~End(x.req)
      BY <3>1, <1>1 DEF Releases, BaseType
    <3>3. x.from \in {"client", "reaper", "backend"} /\ x.req[1] \in Cids
      BY <3>2 DEF CallType, Items
    <3>4. x.from = "client"
      BY <2>3, <3>2, <3>3 DEF BInv, CallsInv
    <3>5. slotMap[x.req[1]] = s
      BY <2>3, <3>2, <3>4 DEF BInv, CallsInv
    <3> QED
      BY <2>1, <3>3, <3>5 DEF NoSequence
  <2> QED
    BY <2>1, <2>2, <2>3
<1> QED
  BY <1>4, <1>5

\* Each place has none or one, and their override is that of the slot.
LEMMA FlightByPlace ==
  ASSUME BInv, FlightInv, NEW s \in Slots
  PROVE /\ InFlightOf(s) = IssuedOf(s) \cup ExecutingOf(s) \cup ReturningOf(s)
        /\ NoneIssued(s) => IssuedOf(s) = {}
        /\ OneIssued(s) => \E e : IssuedOf(s) = {e} /\ corrid[s] = e[2][1]
        /\ NoneExecuting(s) => ExecutingOf(s) = {}
        /\ OneExecuting(s) => \E e : ExecutingOf(s) = {e} /\ corrid[s] = e[2][1]
        /\ NoneReturning(s) => ReturningOf(s) = {}
        /\ OneReturning(s) => \E e : ReturningOf(s) = {e} /\ corrid[s] = e[2][1]
<1>1. InFlightOf(s) = IssuedOf(s) \cup ExecutingOf(s) \cup ReturningOf(s)
  BY DEF InFlightOf
<1>2. \A b \in Batchers : Range(issued[b]) = {issued[b][k] : k \in 1..Len(issued[b])}
  BY DEF FlightInv, Range
<1>3. \A e : e \in IssuedOf(s) <=>
               e[1] = s /\ \E b \in Batchers : \E k \in 1..Len(issued[b]) : e = issued[b][k]
  <2> DEFINE F(b) == Range(issued[b])
  <2>1. IssuedOf(s) = {e \in UNION {F(b) : b \in Batchers} : e[1] = s}
    BY DEF IssuedOf
  <2>2. \A b \in Batchers : \A e : e \in F(b) <=> \E k \in 1..Len(issued[b]) : e = issued[b][k]
    BY <1>2
  <2> HIDE DEF F
  <2> QED
    BY ONLY <2>1, <2>2
<1>4. NoneIssued(s) => IssuedOf(s) = {}
  BY <1>3 DEF NoneIssued
<1>5. ASSUME OneIssued(s) PROVE \E e : IssuedOf(s) = {e} /\ corrid[s] = e[2][1]
  <2>1. PICK k \in 1..Len(issued[s[1]]) :
          /\ issued[s[1]][k][1] = s
          /\ \A b \in Batchers : \A l \in 1..Len(issued[b]) :
               issued[b][l][1] = s => b = s[1] /\ l = k
    BY <1>5 DEF OneIssued
  <2>2. s[1] \in Batchers
    BY SlotGrid DEF BInv
  <2>3. IssuedOf(s) = {issued[s[1]][k]}
    BY <1>3, <2>1, <2>2
  <2>4. corrid[s] = issued[s[1]][k][2][1]
    BY <2>1, <2>2 DEF FlightInv, Overrides
  <2> QED
    BY <2>3, <2>4
<1>6. NoneExecuting(s) => ExecutingOf(s) = {}
  BY DEF NoneExecuting, ExecutingOf
<1>7. ASSUME OneExecuting(s) PROVE \E e : ExecutingOf(s) = {e} /\ corrid[s] = e[2][1]
  <2>1. PICK e \in executing : e[1] = s /\ \A d \in executing : d[1] = s => d = e
    BY <1>7 DEF OneExecuting
  <2>2. ExecutingOf(s) = {e}
    BY <2>1 DEF ExecutingOf
  <2>3. corrid[s] = e[2][1]
    BY <2>1 DEF FlightInv, Overrides
  <2> QED
    BY <2>2, <2>3
<1>8. NoneReturning(s) => ReturningOf(s) = {}
  BY DEF NoneReturning, Returning, ReturningOf
<1>9. ASSUME OneReturning(s) PROVE \E e : ReturningOf(s) = {e} /\ corrid[s] = e[2][1]
  <2>1. PICK x \in calls :
          /\ x.slot = s /\ x.from = "backend" /\ x.step = "next"
          /\ \A y \in calls : y.slot = s /\ y.from = "backend" /\ y.step = "next" => y = x
    BY <1>9 DEF OneReturning, Returning
  <2>2. ReturningOf(s) = {<<s, x.req>>}
    BY <2>1 DEF ReturningOf
  <2>3. corrid[s] = x.req[1]
    BY <2>1 DEF FlightInv, Overrides
  <2>4. corrid[s] = <<s, x.req>>[2][1]
    BY <2>3
  <2> QED
    BY <2>2, <2>4
<1> QED
  BY <1>1, <1>4, <1>5, <1>6, <1>7, <1>8, <1>9

\* The invariant says that one request of a slot at most is in flight.
LEMMA OneInFlightFollows ==
  ASSUME BInv, FlightInv
  PROVE OneInFlight
<1>1. ASSUME NEW s \in Slots
      PROVE \/ inFlight[s] /\ \E e : InFlightOf(s) = {e} /\ corrid[s] = e[2][1]
            \/ ~inFlight[s] /\ InFlightOf(s) = {}
  <2>1. Flight(s)
    BY DEF FlightInv
  <2>2. CASE inFlight[s] /\ OneIssued(s) /\ NoneExecuting(s) /\ NoneReturning(s)
    <3>1. InFlightOf(s) = IssuedOf(s)
      BY <2>2, FlightByPlace
    <3> QED
      BY <2>2, <3>1, FlightByPlace
  <2>3. CASE inFlight[s] /\ OneExecuting(s) /\ NoneIssued(s) /\ NoneReturning(s)
    <3>1. InFlightOf(s) = ExecutingOf(s)
      BY <2>3, FlightByPlace
    <3> QED
      BY <2>3, <3>1, FlightByPlace
  <2>4. CASE inFlight[s] /\ OneReturning(s) /\ NoneIssued(s) /\ NoneExecuting(s)
    <3>1. InFlightOf(s) = ReturningOf(s)
      BY <2>4, FlightByPlace
    <3> QED
      BY <2>4, <3>1, FlightByPlace
  <2>5. CASE ~inFlight[s] /\ NoneIssued(s) /\ NoneExecuting(s) /\ NoneReturning(s)
    <3>1. InFlightOf(s) = {}
      BY <2>5, FlightByPlace
    <3> QED
      BY <2>5, <3>1
  <2> QED
    BY <2>1, <2>2, <2>3, <2>4, <2>5 DEF Flight
<1>2. ASSUME NEW s \in Slots
      PROVE /\ Cardinality(InFlightOf(s)) <= 1
            /\ inFlight[s] <=> InFlightOf(s) # {}
            /\ \A e \in InFlightOf(s) : corrid[s] = e[2][1]
  <2>1. CASE inFlight[s] /\ \E e : InFlightOf(s) = {e} /\ corrid[s] = e[2][1]
    <3>1. PICK e : InFlightOf(s) = {e} /\ corrid[s] = e[2][1]
      BY <2>1
    <3>2. Cardinality(InFlightOf(s)) = 1
      BY <3>1, FS_Singleton
    <3> QED
      BY <2>1, <3>1, <3>2
  <2>2. CASE ~inFlight[s] /\ InFlightOf(s) = {}
    <3>1. Cardinality(InFlightOf(s)) = 0
      BY <2>2, FS_EmptySet
    <3> QED
      BY <2>2, <3>1
  <2> QED
    BY <1>1, <2>1, <2>2
<1> QED
  BY <1>2 DEF OneInFlight, AtMostOneScheduled

\* SlotsSound holds whenever each sequence is sent by one thread: no slot is
\* given to two sequences, released twice or lost, nothing is on its way to a
\* ready slot, and with the Oldest strategy at most one request of a slot is in
\* flight, as in_flight_ says, and the override of the slot is its own.
THEOREM SequencesSlotsSound == Spec => [](~Pipelined => SlotsSound)
<1>1. (~Pipelined => SInv) => (~Pipelined => SlotsSound)
  BY OwnedOnceFollows, OneInFlightFollows DEF SInv, SlotsSound
<1> QED
  BY <1>1, SequencesInvariant, PTL

----------------------------------------------------------------------------
(***************************************************************************)
(* The batcher keeps the promise of CorrelatedSequences.                   *)
(*                                                                         *)
(* SInv says who has a slot.  LInv adds the line of requests of a slot:    *)
(* the one in the hand of the batcher, which it is about to run, then the  *)
(* queue, then the call that is on its way to the queue.  A request is in  *)
(* one place only (SeatInv), every request of a line is preceded by the    *)
(* one before it in its sequence (QueueLine, CallLine, TailLine), and what *)
(* is in the hand may run next (HandInv).                                  *)
(***************************************************************************)
\* The request of slot s that a Direct thread has put into its batch, or that
\* the dynamic batcher of the Oldest strategy has and the backend has not.
DirectHand(s) ==
  {r \in Requests :
     \E k \in 1..Len(pass[s[1]].batch) : k = s[2] + 1 /\ pass[s[1]].batch[k] = r}
OldestHand(s) ==
  {r \in Requests : \E k \in 1..Len(issued[s[1]]) : issued[s[1]][k] = <<s, r>>}
Hand(s) == IF Config.strategy = "direct" THEN DirectHand(s) ELSE OldestHand(s)

Before(r) == <<r[1], r[2] - 1>>
First(r) == r = sessionOf[r]       \* r begins its sequence
Latest(c) == <<c, sent[c]>>        \* the request of c that was sent last

----------------------------------------------------------------------------
\* What happened so far: the requests of a sequence follow each other, and
\* they run in that order.
HistType ==
  /\ sessionOf \in [Requests -> Requests \cup {None}]
  /\ current \in [Cids -> Requests \cup {None}]
  /\ refused \subseteq Requests /\ ran \subseteq Requests
  /\ last = [s \in AllSlots |-> last[s]]

Answered(r) == sessionOf[r] # None \/ r \in refused

SessionsInv ==
  \A r \in Requests : sessionOf[r] # None =>
    /\ sessionOf[r][1] = r[1] /\ sessionOf[r][2] <= r[2]
    /\ ~First(r) => Before(r) \in Requests /\ sessionOf[Before(r)] = sessionOf[r]

RanInv ==
  \A r \in ran :
    /\ sessionOf[r] # None
    /\ \A q \in Requests : sessionOf[q] = sessionOf[r] /\ q[2] < r[2] => q \in ran

OpenInv ==
  \A c \in Cids : Known(c) =>
    /\ Latest(c) \in Requests /\ sessionOf[Latest(c)] = current[c]
    /\ current[c] # None

HistInv ==
  /\ HistType
  /\ \A r \in Requests : r[2] <= sent[r[1]] <=> Answered(r)
  /\ SessionsInv /\ RanInv /\ OpenInv

----------------------------------------------------------------------------
\* Request r is in a hand, a queue, on its way to a queue, or in the backlog.
InHand(r, w) == w \in Slots /\ r \in Hand(w)
InQueue(r, w) == w \in Slots /\ \E i \in 1..Len(queues[w]) : queues[w][i] = r
InCall(r, w) == \E x \in calls : Coming(x, w) /\ x.req = r
InBacklog(r, w) ==
  \E k \in 1..Len(backlog) :
    backlog[k][1] = w /\ \E i \in 1..Len(backlog[k]) : backlog[k][i] = r
In(r, kind, w) ==
  \/ kind = "hand" /\ InHand(r, w)
  \/ kind = "queue" /\ InQueue(r, w)
  \/ kind = "call" /\ InCall(r, w)
  \/ kind = "backlog" /\ InBacklog(r, w)

\* A request waits in one place, was admitted and has not run.
OneSeat(r) ==
  \A k, w, l, v : In(r, k, w) /\ In(r, l, v) => k = l /\ w = v
Pends(r) == sessionOf[r] # None /\ r \notin ran
Seat(r) == OneSeat(r) /\ \A k, w : In(r, k, w) => Pends(r)
SeatInv == \A r \in Requests : Seat(r)

----------------------------------------------------------------------------
\* Request p is the last one that left the queue of slot s.
JustLeft(s, p) ==
  \/ p \in Hand(s)
  \/ Hand(s) = {} /\ p \in ran /\ last[s] = sessionOf[p]

\* Request p is the last one in the line of slot s, but for a call.
Lies(s, p) ==
  IF queues[s] = << >> THEN JustLeft(s, p) ELSE queues[s][Len(queues[s])] = p

\* The requests in q are of one ID and follow each other.
Numbered(q) ==
  \A i \in 1..Len(q) :
    /\ q[i][1] = q[1][1]
    /\ ~IsNull(q[i]) => q[i][2] = q[1][2] + (i - 1)

HandOf(s) ==
  \A r \in Hand(s) :
    /\ corrid[s] = r[1] /\ \A q \in Hand(s) : q = r
    /\ ~First(r) => Before(r) \in ran /\ last[s] = sessionOf[r]

QueueLine(s) ==
  /\ Numbered(queues[s])
  /\ queues[s] # << >> /\ ~IsNull(queues[s][1]) /\ ~First(queues[s][1]) =>
       JustLeft(s, Before(queues[s][1]))

OfOwner(s, c) == queues[s] # << >> => queues[s][1][1] = c

CallLine(x) ==
  /\ x.from = "client" => x.req = Latest(x.req[1])
  /\ x.from = "client" /\ x.step = "enqueue" =>
       /\ IF First(x.req) THEN queues[x.slot] = << >>
                          ELSE Lies(x.slot, Before(x.req))
       /\ End(x.req) => ~Known(x.req[1])
  /\ x.from = "reaper" /\ x.step = "enqueue" => OfOwner(x.slot, x.req[1])

Calling(c) == \E x \in calls : x.from = "client" /\ x.step = "enqueue" /\ x.req[1] = c

TailLine(c) == slotMap[c] # None => Calling(c) \/ Lies(slotMap[c], Latest(c))

BacklogLine(q) ==
  /\ First(q[1]) /\ Numbered(q)
  /\ OpenQueue(q) => q[Len(q)] = Latest(q[1][1])

HandInv == \A s \in Slots : HandOf(s)
LineInv ==
  /\ \A s \in Slots : QueueLine(s)
  /\ \A x \in calls : CallLine(x)
  /\ \A f \in forced : OfOwner(f[2], f[1])
  /\ \A c \in Cids : TailLine(c)
  /\ \A k \in 1..Len(backlog) : BacklogLine(backlog[k])

\* What a Direct thread has put into its batch.
BatchOf(b) ==
  /\ pass[b].pc \in {"top", "first", "wait"} => pass[b].batch = << >>
  /\ pass[b].pc = "second" => Len(pass[b].batch) = pass[b].at
  /\ \A k \in 1..Len(pass[b].batch) : <<b, k - 1>> \in Slots
BatchInv ==
  /\ \A b \in Batchers : BatchOf(b)
  /\ corrid \in [Slots -> Cids \cup {0}] /\ activeCid \in [Slots -> Cids \cup {0}]
  /\ \A s \in Slots : queues[s] # << >> => activeCid[s] = queues[s][1][1]

LInv ==
  /\ HistInv /\ SeatInv /\ HandInv /\ LineInv
  /\ Config.strategy = "direct" => BatchInv
----------------------------------------------------------------------------
\* Requests are pairs of an ID and a number.
LEMMA RequestFacts ==
  /\ MaxRequests \in Nat /\ None \notin Requests
  /\ \A r \in Requests :
       /\ r[1] \in Cids /\ r[2] \in Nat /\ 1 <= r[2] /\ r[2] <= MaxRequests
       /\ r = <<r[1], r[2]>> /\ ~IsNull(r)
  /\ \A c \in Cids, n \in Nat : 1 <= n /\ n <= MaxRequests => <<c, n>> \in Requests
  /\ \A q, r \in Requests : q[1] = r[1] /\ q[2] = r[2] => q = r
<1>1. MaxRequests \in Nat
  BY SequenceAssumption
<1>2. \A r \in Requests :
        /\ r[1] \in Cids /\ r[2] \in Nat /\ 1 <= r[2] /\ r[2] <= MaxRequests
        /\ r = <<r[1], r[2]>>
  BY <1>1 DEF Requests
<1>3. \A c \in Cids, n \in Nat : 1 <= n /\ n <= MaxRequests => <<c, n>> \in Requests
  BY <1>1 DEF Requests
<1>4. \A a, b : <<a, b>> # << >>
  OBVIOUS
<1>5. None \notin Requests
  BY <1>2, <1>4 DEF None
<1>6. \A q, r \in Requests : q[1] = r[1] /\ q[2] = r[2] => q = r
  BY <1>2
<1> QED
  BY <1>1, <1>2, <1>3, <1>5, <1>6 DEF IsNull

KeepsSessions == \A p \in Requests : sessionOf[p] # None => sessionOf'[p] = sessionOf[p]
KeepsFirst == \A p \in Requests : sessionOf[p] # None => (First(p)' <=> First(p))

\* The flags of a request are those of the plan.
LEMMA FlagsFixed ==
  ASSUME Fixed
  PROVE /\ [r \in Requests |-> [start |-> Start(r), end |-> End(r)]]' =
             [r \in Requests |-> [start |-> Start(r), end |-> End(r)]]
        /\ \A r : Start(r)' <=> Start(r)
BY FixedMeans DEF Start, End

\* The promise does not see a step that leaves open sequences and history as
\* they are.
LEMMA Unseen ==
  ASSUME Fixed, UNCHANGED history, \A c \in Cids : Known(c)' <=> Known(c)
  PROVE UNCHANGED Promise!vars
<1>1. UNCHANGED <<sessionOf, current, refused, ran, last>>
  BY DEF history
<1>2. Open' = Open
  BY <1>1 DEF Open
<1> QED
  BY <1>1, <1>2, FlagsFixed DEF Promise!vars

\* History stays as it is, and no sequence is opened.
LEMMA HistStays ==
  ASSUME HistInv, UNCHANGED <<sent, history>>, \A c \in Cids : Known(c)' => Known(c)
  PROVE HistInv'
<1>1. UNCHANGED <<sent, sessionOf, current, refused, ran, last>>
  BY DEF history
<1>2. HistType' /\ (\A r \in Requests : r[2] <= sent[r[1]] <=> Answered(r))'
  BY <1>1 DEF HistInv, HistType, Answered
<1>3. SessionsInv' /\ RanInv'
  BY <1>1 DEF HistInv, SessionsInv, RanInv, First
<1>4. OpenInv'
  BY <1>1 DEF HistInv, OpenInv, Latest
<1> QED
  BY <1>2, <1>3, <1>4 DEF HistInv

\* What a client has not sent has not been answered.
LEMMA NotYetAnswered ==
  ASSUME BaseType, HistInv, NEW c \in Cids, NextRequest(c) \in Requests,
         NextRequest(c)[1] = c, NextRequest(c)[2] = sent[c] + 1
  PROVE /\ sessionOf[NextRequest(c)] = None /\ NextRequest(c) \notin refused
        /\ NextRequest(c) \notin ran
        /\ Promise!Offered(NextRequest(c))
<1>0. PICK r \in Requests : r = NextRequest(c)
  OBVIOUS
<1>1. r[1] = c /\ r[2] = sent[c] + 1 /\ sent[c] \in Nat
  BY <1>0 DEF BaseType
<1>2. ~Answered(r)
  BY <1>1 DEF HistInv
<1>3. r \notin ran
  BY <1>2 DEF HistInv, RanInv, Answered
<1>4. \A q \in Requests : q[1] = r[1] /\ q[2] < r[2] => Answered(q)
  <2> SUFFICES ASSUME NEW q \in Requests, q[1] = r[1], q[2] < r[2] PROVE Answered(q)
    OBVIOUS
  <2>1. q[2] \in Nat /\ q[2] <= sent[q[1]]
    BY <1>1, RequestFacts
  <2> QED
    BY <2>1 DEF HistInv
<1> QED
  BY <1>0, <1>2, <1>3, <1>4 DEF Answered, Promise!Offered
----------------------------------------------------------------------------
\* A request is answered: the next one of c, and no other.
LEMMA AnswersNext ==
  ASSUME BaseType, HistInv, NEW c \in Cids, NEW r \in Requests,
         r[1] = c, r[2] = sent[c] + 1, sent' = [sent EXCEPT ![c] = @ + 1],
         \A q \in Requests : q # r => (Answered(q)' <=> Answered(q)), Answered(r)'
  PROVE (\A q \in Requests : q[2] <= sent[q[1]] <=> Answered(q))'
<1> SUFFICES ASSUME NEW q \in Requests PROVE q[2] <= sent'[q[1]] <=> Answered(q)'
  BY DEF Requests
<1>1. sent \in [Cids -> Nat] /\ sent'[c] = sent[c] + 1
      /\ \A d \in Cids : d # c => sent'[d] = sent[d]
  BY DEF BaseType
<1>2. q[1] \in Cids /\ q[2] \in Nat /\ sent[c] \in Nat
  BY <1>1, RequestFacts
<1>3. CASE q = r
  BY <1>1, <1>2, <1>3
<1>4. CASE q # r
  <2>1. q[1] = c => q[2] # sent[c] + 1
    BY <1>4, RequestFacts
  <2>2. q[2] <= sent'[q[1]] <=> q[2] <= sent[q[1]]
    BY <1>1, <1>2, <2>1
  <2> QED
    BY <1>4, <2>2 DEF HistInv
<1> QED
  BY <1>3, <1>4

\* A request that neither begins a sequence nor is of a known one is refused,
\* as promised.
LEMMA RefuseKept ==
  ASSUME Fixed, BInv, HistInv, ~Pipelined, NEW c \in Cids, Refuse(c)
  PROVE HistInv' /\ Promise!Next /\ KeepsSessions
<1>0. PICK r \in {NextRequest(c)} : r = NextRequest(c)
  OBVIOUS
<1>1. r \in Requests /\ r[1] = c /\ r[2] = sent[c] + 1 /\ BaseType
  BY <1>0, SendsMeans DEF Refuse, BInv
<1>2. /\ sent' = [sent EXCEPT ![c] = @ + 1] /\ ~Start(r) /\ ~Known(c)
      /\ refused' = refused \cup {r}
      /\ UNCHANGED <<sessionOf, current, ran, last, slotMap, backlogMap>>
  BY <1>0 DEF Refuse, Sends, mapVars
<1>3. Promise!Offered(r)
  BY <1>0, <1>1, NotYetAnswered
<1>4. \A d \in Cids : Known(d)' <=> Known(d)
  BY <1>2 DEF Known
<1>5. Open' = Open
  BY <1>2, <1>4 DEF Open
<1>6. Open[c] = None
  BY <1>2 DEF Open
<1>7. Promise!Refuse(r)
  BY <1>1, <1>2, <1>3, <1>5, <1>6, FlagsFixed DEF Promise!Refuse, Promise!Start
<1>8. (\A q \in Requests : q[2] <= sent[q[1]] <=> Answered(q))'
  <2>1. (\A q \in Requests : q # r => (Answered(q)' <=> Answered(q))) /\ Answered(r)'
    BY <1>2 DEF Answered
  <2> QED
    BY <1>1, <1>2, <2>1, AnswersNext
<1>9. HistType' /\ SessionsInv' /\ RanInv'
  BY <1>1, <1>2 DEF HistInv, HistType, SessionsInv, RanInv, First
<1>10. OpenInv'
  <2>1. sent \in [Cids -> Nat]
    BY <1>1 DEF BaseType
  <2>2. \A d \in Cids : d # c => Latest(d)' = Latest(d)
    BY <1>2, <2>1 DEF Latest
  <2> QED
    BY <1>2, <1>4, <2>2 DEF HistInv, OpenInv
<1> QED
  BY <1>1, <1>2, <1>7, <1>8, <1>9, <1>10 DEF HistInv, Promise!Next, KeepsSessions

\* What Enqueue leaves of an ID whose request it takes.
Takes(c) ==
  /\ \A d \in Cids : d # c => (Known(d)' <=> Known(d))
  /\ Known(c)' <=> ~End(NextRequest(c))

\* A request that is admitted begins a sequence or continues the open one, as
\* promised.
LEMMA AdmitKept ==
  ASSUME Fixed, BInv, HistInv, ~Pipelined, NEW c \in Cids, Admits(c), Takes(c)
  PROVE /\ HistInv' /\ Promise!Next /\ KeepsSessions
        /\ sessionOf'[NextRequest(c)] # None
        /\ Known(c) => /\ sessionOf'[NextRequest(c)] # NextRequest(c)
                       /\ Latest(c) = Before(NextRequest(c))
        /\ ~Known(c) => sessionOf'[NextRequest(c)] = NextRequest(c)
<1>0. PICK r \in {NextRequest(c)} : r = NextRequest(c)
  OBVIOUS
<1>1. /\ r \in Requests /\ r[1] = c /\ r[2] = sent[c] + 1 /\ BaseType
      /\ r = <<c, sent[c] + 1>> /\ sent[c] \in Nat
  BY <1>0, SendsMeans DEF Admits, BInv, BaseType, NextRequest
<1>2. PICK g \in {IF Known(c) THEN current[c] ELSE r} : g = IF Known(c) THEN current[c] ELSE r
  OBVIOUS
<1>3. /\ sent' = [sent EXCEPT ![c] = @ + 1] /\ (Start(r) \/ Known(c))
      /\ sessionOf' = [sessionOf EXCEPT ![r] = g]
      /\ current' = [current EXCEPT ![c] = g]
      /\ UNCHANGED <<refused, ran, last>>
  BY <1>0, <1>2 DEF Admits, Sends
<1>4. /\ Promise!Offered(r) /\ sessionOf[r] = None /\ r \notin refused /\ r \notin ran
  BY <1>0, <1>1, NotYetAnswered
<1>5. /\ sessionOf \in [Requests -> Requests \cup {None}]
      /\ current \in [Cids -> Requests \cup {None}]
      /\ sent \in [Cids -> Nat]
  BY <1>1 DEF HistInv, HistType, BaseType
<1>6. Known(c) => /\ Latest(c) \in Requests /\ sessionOf[Latest(c)] = g /\ g \in Requests
                  /\ Latest(c) = Before(r) /\ g[1] = c /\ g[2] <= sent[c]
  <2> SUFFICES ASSUME Known(c) PROVE /\ Latest(c) \in Requests /\ sessionOf[Latest(c)] = g
                                     /\ g \in Requests /\ Latest(c) = Before(r)
                                     /\ g[1] = c /\ g[2] <= sent[c]
    OBVIOUS
  <2>1. Latest(c) \in Requests /\ sessionOf[Latest(c)] = g /\ g # None
    BY <1>2 DEF HistInv, OpenInv
  <2>2. Latest(c)[1] = c /\ Latest(c)[2] = sent[c]
    BY DEF Latest
  <2>3. g \in Requests /\ g[1] = c /\ g[2] <= sent[c]
    BY <1>5, <2>1, <2>2 DEF HistInv, SessionsInv
  <2>4. Latest(c) = Before(r)
    BY <1>1 DEF Latest, Before
  <2> QED
    BY <2>1, <2>3, <2>4
<1>7. /\ g \in Requests /\ g[1] = c /\ g[2] <= r[2] /\ g # None
      /\ Known(c) => g # r
      /\ ~Known(c) => g = r
  <2>1. None \notin Requests
    BY RequestFacts
  <2>2. CASE Known(c)
    <3>1. g \in Requests /\ g[1] = c /\ g[2] <= sent[c] /\ g[2] \in Nat
      BY <1>6, <2>2, RequestFacts
    <3> QED
      BY <1>1, <2>1, <2>2, <3>1
  <2>3. CASE ~Known(c)
    BY <1>1, <1>2, <2>1, <2>3, RequestFacts
  <2> QED
    BY <2>2, <2>3
<1>8. sessionOf'[r] = g /\ \A q \in Requests : q # r => sessionOf'[q] = sessionOf[q]
  BY <1>1, <1>3, <1>5
<1>9. KeepsSessions
  BY <1>4, <1>8 DEF KeepsSessions
<1>10. (\A q \in Requests : q[2] <= sent[q[1]] <=> Answered(q))'
  <2>1. (\A q \in Requests : q # r => (Answered(q)' <=> Answered(q))) /\ Answered(r)'
    BY <1>3, <1>7, <1>8 DEF Answered
  <2> QED
    BY <1>1, <1>3, <2>1, AnswersNext
<1>11. HistType'
  BY <1>1, <1>3, <1>5, <1>7 DEF HistInv, HistType
<1>12. SessionsInv'
  <2> SUFFICES ASSUME NEW q \in Requests, sessionOf'[q] # None
               PROVE /\ sessionOf'[q][1] = q[1] /\ sessionOf'[q][2] <= q[2]
                     /\ q # sessionOf'[q] => /\ Before(q) \in Requests
                                             /\ sessionOf'[Before(q)] = sessionOf'[q]
    BY DEF SessionsInv, First, Before
  <2>1. CASE q = r
    <3>1. g # r => Known(c)
      BY <1>7
    <3>2. Before(r) # r
      BY <1>1 DEF Before
    <3> QED
      BY <1>1, <1>6, <1>7, <1>8, <2>1, <3>1, <3>2
  <2>2. CASE q # r
    <3>1. sessionOf'[q] = sessionOf[q] /\ sessionOf[q] # None
      BY <1>8, <2>2
    <3>2. /\ sessionOf[q][1] = q[1] /\ sessionOf[q][2] <= q[2]
          /\ q # sessionOf[q] => Before(q) \in Requests /\ sessionOf[Before(q)] = sessionOf[q]
      BY <3>1 DEF HistInv, SessionsInv, First
    <3>3. q # sessionOf[q] => Before(q) # r
      BY <1>4, <3>1, <3>2
    <3> QED
      BY <1>8, <3>1, <3>2, <3>3
  <2> QED
    BY <2>1, <2>2
<1>13. RanInv'
  <2> SUFFICES ASSUME NEW p \in ran
               PROVE /\ sessionOf'[p] # None
                     /\ \A q \in Requests :
                          sessionOf'[q] = sessionOf'[p] /\ q[2] < p[2] => q \in ran
    BY <1>3 DEF RanInv
  <2>1. p \in Requests /\ p # r /\ sessionOf[p] # None /\ sessionOf'[p] = sessionOf[p]
    BY <1>4, <1>8 DEF HistInv, HistType, RanInv
  <2> SUFFICES ASSUME NEW q \in Requests, sessionOf'[q] = sessionOf'[p], q[2] < p[2]
               PROVE q \in ran
    BY <2>1
  <2>2. q # r
    <3> SUFFICES ASSUME q = r PROVE FALSE
      OBVIOUS
    <3>1. sessionOf[p] = g /\ p[1] = c
      BY <1>7, <1>8, <2>1 DEF HistInv, SessionsInv
    <3>2. p[2] <= sent[c]
      BY <2>1, <3>1 DEF HistInv, Answered
    <3>3. p[2] \in Nat
      BY <2>1, RequestFacts
    <3> QED
      BY <1>1, <3>2, <3>3
  <2> QED
    BY <1>8, <2>1, <2>2 DEF HistInv, RanInv
<1>14. OpenInv'
  <2> SUFFICES ASSUME NEW d \in Cids, Known(d)'
               PROVE /\ Latest(d)' \in Requests /\ sessionOf'[Latest(d)'] = current'[d]
                     /\ current'[d] # None
    BY DEF OpenInv
  <2>1. CASE d = c
    <3>1. Latest(c)' = r /\ current'[c] = g
      BY <1>1, <1>3, <1>5 DEF Latest
    <3> QED
      BY <1>1, <1>7, <1>8, <2>1, <3>1
  <2>2. CASE d # c
    <3>1. Known(d)
      BY <2>2 DEF Takes
    <3>2. Latest(d)' = Latest(d) /\ current'[d] = current[d] /\ Latest(d) # r
      BY <1>1, <1>3, <1>5, <2>2 DEF Latest
    <3> QED
      BY <1>8, <3>1, <3>2 DEF HistInv, OpenInv
  <2> QED
    BY <2>1, <2>2
<1>15. HistInv'
  BY <1>10, <1>11, <1>12, <1>13, <1>14 DEF HistInv
<1>16. Open' = [Open EXCEPT ![c] = IF End(r) THEN None ELSE g]
  <2>1. Known(c)' <=> ~End(r)
    BY <1>0 DEF Takes
  <2>2. \A d \in Cids : d # c => Open'[d] = Open[d]
    BY <1>3, <1>5 DEF Takes, Open
  <2>3. Open'[c] = IF End(r) THEN None ELSE g
    BY <1>3, <1>5, <2>1 DEF Open
  <2> QED
    BY <2>2, <2>3 DEF Open
<1>17. Open[c] = IF Known(c) THEN g ELSE None
  BY <1>2 DEF Open
<1>18. Promise!Admitted(r, g)
  BY <1>1, <1>3, <1>16, FlagsFixed DEF Promise!Admitted, Promise!End
<1>19. Promise!Begin(r) \/ Promise!Continue(r)
  <2>1. CASE Known(c)
    BY <1>1, <1>4, <1>7, <1>17, <1>18, <2>1 DEF Promise!Continue
  <2>2. CASE ~Known(c)
    BY <1>1, <1>3, <1>4, <1>7, <1>17, <1>18, <2>2 DEF Promise!Begin, Promise!Start
  <2> QED
    BY <2>1, <2>2
<1>20. Promise!Next
  BY <1>1, <1>19 DEF Promise!Next
<1> QED
  BY <1>0, <1>6, <1>7, <1>8, <1>9, <1>15, <1>20
----------------------------------------------------------------------------
(***************************************************************************)
(* What a step does not touch.                                             *)
(***************************************************************************)
SameHands == \A s \in Slots : Hand(s)' = Hand(s)
KeepsLeft(s) == \A p : JustLeft(s, p) => JustLeft(s, p)'

\* A hand depends on the batches of the threads or on what was issued.
LEMMA HandsStay ==
  ASSUME Fixed, \/ Config.strategy = "direct" /\ UNCHANGED pass
                \/ Config.strategy # "direct" /\ UNCHANGED issued
  PROVE SameHands
<1>1. Config' = Config
  BY FixedMeans
<1>2. \A s : Hand(s)' = Hand(s)
  BY <1>1 DEF Hand, DirectHand, OldestHand
<1> QED
  BY <1>2 DEF SameHands

\* Requests that were admitted keep their sequence.
LEMMA SessionsStay ==
  ASSUME KeepsSessions
  PROVE KeepsFirst
BY DEF KeepsSessions, KeepsFirst, First

\* The request that left a queue last is still that.
LEMMA LeftStays ==
  ASSUME HistInv, KeepsSessions, NEW s, Hand(s)' = Hand(s), last'[s] = last[s],
         UNCHANGED ran
  PROVE KeepsLeft(s)
<1> SUFFICES ASSUME NEW p, JustLeft(s, p) PROVE JustLeft(s, p)'
  BY DEF KeepsLeft
<1>1. p \in ran => sessionOf'[p] = sessionOf[p]
  BY DEF HistInv, HistType, RanInv, KeepsSessions
<1> QED
  BY <1>1 DEF JustLeft

\* The line of a queue that is not touched.
LEMMA QueueLineStays ==
  ASSUME BaseType, SeatInv, KeepsFirst, NEW s \in Slots, queues'[s] = queues[s],
         KeepsLeft(s), QueueLine(s)
  PROVE QueueLine(s)'
<1>1. PICK q \in Seq(Items) : q = queues[s]
  BY DEF BaseType
<1>2. CASE q # << >> /\ ~IsNull(q[1])
  <2>1. q[1] \in Items /\ 1 \in 1..Len(q)
    BY <1>2
  <2>2. q[1] \in Requests
    BY <1>2, <2>1, FlagsFit DEF BaseType
  <2>3. InQueue(q[1], s)
    BY <1>1, <2>1 DEF InQueue
  <2>4. In(q[1], "queue", s)
    BY <2>3 DEF In
  <2>5. sessionOf[q[1]] # None
    BY <2>2, <2>4 DEF SeatInv, Seat, Pends
  <2>6. First(q[1])' <=> First(q[1])
    BY <2>2, <2>5 DEF KeepsFirst
  <2>7. Numbered(q) /\ (~First(q[1]) => JustLeft(s, Before(q[1])))
    BY <1>1, <1>2 DEF QueueLine
  <2>8. Numbered(q) /\ (~First(q[1])' => JustLeft(s, Before(q[1]))')
    BY <2>6, <2>7 DEF KeepsLeft
  <2> QED
    BY <1>1, <2>8 DEF QueueLine, First, JustLeft, Before, Numbered, IsNull
<1>3. CASE ~(q # << >> /\ ~IsNull(q[1]))
  BY <1>1, <1>3 DEF QueueLine, Numbered, IsNull
<1> QED
  BY <1>2, <1>3

\* Who is last in a line that is not touched.
LEMMA LiesStays ==
  ASSUME NEW s, queues'[s] = queues[s], KeepsLeft(s), NEW p, Lies(s, p)
  PROVE Lies(s, p)'
BY DEF Lies, KeepsLeft

\* A call whose slot is not touched.
LEMMA CallLineStays ==
  ASSUME Fixed, BaseType, CallsInv, SeatInv, KeepsFirst, NEW x \in calls,
         queues'[x.slot] = queues[x.slot],
         x.step = "enqueue" => KeepsLeft(x.slot),
         x.from = "client" => /\ sent'[x.req[1]] = sent[x.req[1]]
                              /\ Known(x.req[1])' => Known(x.req[1]),
         CallLine(x)
  PROVE CallLine(x)'
<1>1. x.from = "client" => x.req = Latest(x.req[1])'
  BY DEF CallLine, Latest
<1>2. x.from = "reaper" /\ x.step = "enqueue" => OfOwner(x.slot, x.req[1])'
  BY DEF CallLine, OfOwner
<1>3. CASE x.from = "client" /\ x.step = "enqueue"
  <2>1. x.req \in Items /\ ~IsNull(x.req)
    BY <1>3 DEF BaseType, CallType, CallsInv
  <2>2. x.req \in Requests
    BY <2>1, FlagsFit DEF BaseType
  <2>3. InCall(x.req, x.slot)
    BY <1>3 DEF InCall, Coming
  <2>4. In(x.req, "call", x.slot)
    BY <2>3 DEF In
  <2>5. First(x.req)' <=> First(x.req)
    BY <2>2, <2>4 DEF SeatInv, Seat, Pends, KeepsFirst
  <2>6. ~First(x.req) => Lies(x.slot, Before(x.req))'
    BY <1>3, LiesStays DEF CallLine
  <2>7. End(x.req)' <=> End(x.req)
    BY FixedMeans
  <2>8. IF First(x.req)' THEN queues'[x.slot] = << >> ELSE Lies(x.slot, Before(x.req))'
    BY <1>3, <2>5, <2>6 DEF CallLine
  <2>9. End(x.req)' => ~Known(x.req[1])'
    BY <1>3, <2>7 DEF CallLine
  <2> QED
    BY <1>1, <1>2, <2>8, <2>9 DEF CallLine, First, Before
<1>4. CASE ~(x.from = "client" /\ x.step = "enqueue")
  BY <1>1, <1>2, <1>4 DEF CallLine
<1> QED
  BY <1>3, <1>4

\* A queue of the backlog that is not touched.
LEMMA BacklogLineStays ==
  ASSUME Fixed, BaseType, SeatInv, KeepsFirst, NEW k \in 1..Len(backlog),
         NEW q, q = backlog[k], QueueOfOne(q), BacklogLine(q),
         OpenQueue(q) => sent'[q[1][1]] = sent[q[1][1]]
  PROVE BacklogLine(q)'
<1>1. q \in Seq(Requests) /\ q # << >>
  BY DEF BaseType, QueueOfOne
<1>2. q[1] \in Requests /\ 1 \in 1..Len(q)
  BY <1>1
<1>3. InBacklog(q[1], q[1])
  BY <1>2 DEF InBacklog
<1>4. In(q[1], "backlog", q[1])
  BY <1>3 DEF In
<1>5. First(q[1])' <=> First(q[1])
  BY <1>2, <1>4 DEF SeatInv, Seat, Pends, KeepsFirst
<1>6. OpenQueue(q)' <=> OpenQueue(q)
  BY FixedMeans DEF OpenQueue
<1>7. OpenQueue(q)' => q[Len(q)] = Latest(q[1][1])'
  BY <1>6 DEF BacklogLine, Latest
<1>8. First(q[1])' /\ Numbered(q)
  BY <1>5 DEF BacklogLine
<1> QED
  BY <1>7, <1>8 DEF BacklogLine, First, Numbered, IsNull

\* A request that keeps its seat or leaves it.
LEMMA SeatStays ==
  ASSUME NEW r, Seat(r), \A k, w : In(r, k, w)' => In(r, k, w), Pends(r) => Pends(r)'
  PROVE Seat(r)'
<1>1. OneSeat(r)'
  <2> SUFFICES ASSUME NEW k, NEW w, NEW l, NEW v, In(r, k, w)', In(r, l, v)'
               PROVE k = l /\ w = v
    BY DEF OneSeat
  <2> QED
    BY DEF Seat, OneSeat
<1> QED
  BY <1>1 DEF Seat

\* A request that takes a seat has no other.
LEMMA SeatTaken ==
  ASSUME NEW r, NEW k, NEW w, \A l, v : In(r, l, v)' => l = k /\ v = w, Pends(r)'
  PROVE Seat(r)'
<1>1. OneSeat(r)'
  <2> SUFFICES ASSUME NEW l, NEW v, NEW m, NEW u, In(r, l, v)', In(r, m, u)'
               PROVE l = m /\ v = u
    BY DEF OneSeat
  <2> QED
    OBVIOUS
<1> QED
  BY <1>1 DEF Seat

\* Request r is nowhere but there.
Only(r, k, w) == \A l, v : In(r, l, v) => l = k /\ v = w

\* A request that goes to another seat has no other.
LEMMA SeatMoved ==
  ASSUME NEW r, NEW k, NEW w, Only(r, k, w)', Pends(r)'
  PROVE Seat(r)'
BY SeatTaken DEF Only

\* What is in a hand that is not touched.
LEMMA HandOfStays ==
  ASSUME SeatInv, KeepsSessions, NEW s \in Slots, Hand(s)' = Hand(s),
         corrid'[s] = corrid[s], last'[s] = last[s], ran \subseteq ran', HandOf(s)
  PROVE HandOf(s)'
<1> SUFFICES ASSUME NEW r \in Hand(s)
             PROVE /\ corrid'[s] = r[1] /\ \A q \in Hand(s) : q = r
                   /\ r # sessionOf'[r] => Before(r) \in ran' /\ last'[s] = sessionOf'[r]
  BY DEF HandOf, First, Before
<1>1. r \in Requests
  BY DEF Hand, DirectHand, OldestHand
<1>2. InHand(r, s)
  BY DEF InHand
<1>3. In(r, "hand", s)
  BY <1>2 DEF In
<1>4. sessionOf'[r] = sessionOf[r]
  BY <1>1, <1>3 DEF SeatInv, Seat, Pends, KeepsSessions
<1> QED
  BY <1>4 DEF HandOf, First

\* The end of the line of an ID that is not touched.
LEMMA TailLineStays ==
  ASSUME NEW d \in Cids, sent'[d] = sent[d], slotMap'[d] \in {slotMap[d], None},
         Calling(d) => Calling(d)',
         slotMap[d] # None => /\ queues'[slotMap[d]] = queues[slotMap[d]]
                              /\ KeepsLeft(slotMap[d]),
         TailLine(d)
  PROVE TailLine(d)'
<1> SUFFICES ASSUME slotMap'[d] # None, ~Calling(d)' PROVE Lies(slotMap[d], Latest(d))'
  BY DEF TailLine
<1>1. PICK s : s = slotMap[d]
  OBVIOUS
<1>2. PICK p : p = Latest(d)
  OBVIOUS
<1>3. s # None /\ slotMap'[d] = s /\ Latest(d)' = p
  BY <1>1, <1>2 DEF Latest
<1>4. Lies(s, p)
  BY <1>1, <1>2, <1>3 DEF TailLine
<1>5. Lies(s, p)'
  BY <1>1, <1>3, <1>4, LiesStays
<1> QED
  BY <1>3, <1>5

\* A client sends a request: the lines of other IDs.
LEMMA OthersStay ==
  ASSUME Fixed, BInv, LineInv, SeatInv, KeepsFirst, NEW c \in Cids,
         \A y \in calls : y.from = "client" => y.req[1] # c,
         \A d \in Cids : d # c =>
           sent'[d] = sent[d] /\ slotMap'[d] = slotMap[d] /\ (Known(d)' <=> Known(d)),
         UNCHANGED <<queues, forced>>, calls \subseteq calls',
         \A s \in Slots : KeepsLeft(s)
  PROVE /\ \A s \in Slots : QueueLine(s)'
        /\ \A x \in calls : CallLine(x)'
        /\ (\A f \in forced : OfOwner(f[2], f[1]))'
        /\ \A d \in Cids : d # c => TailLine(d)'
        /\ \A k \in 1..Len(backlog) : \A q :
             q = backlog[k] /\ (q[1][1] # c \/ ~OpenQueue(q)) => BacklogLine(q)'
<1>1. BaseType /\ CallsInv /\ BacklogInv
  BY DEF BInv
<1>2. \A s \in Slots : QueueLine(s)'
  BY <1>1, QueueLineStays DEF LineInv
<1>3. ASSUME NEW x \in calls PROVE CallLine(x)'
  <2>1. x.slot \in Slots /\ x.req[1] \in Cids
    BY <1>1 DEF BaseType, CallType, Items
  <2>2. CallLine(x)
    BY DEF LineInv
  <2>3. x.from = "client" => /\ sent'[x.req[1]] = sent[x.req[1]]
                             /\ Known(x.req[1])' => Known(x.req[1])
    BY <2>1
  <2>4. queues'[x.slot] = queues[x.slot] /\ KeepsLeft(x.slot)
    BY <2>1
  <2> QED
    BY <1>1, <2>2, <2>3, <2>4, CallLineStays
<1>4. (\A f \in forced : OfOwner(f[2], f[1]))'
  BY DEF LineInv, OfOwner
<1>5. ASSUME NEW d \in Cids, d # c PROVE TailLine(d)'
  <2>1. Calling(d) => Calling(d)'
    BY DEF Calling
  <2>2. slotMap[d] # None => slotMap[d] \in Slots
    BY <1>1 DEF BaseType
  <2>3. slotMap[d] # None => queues'[slotMap[d]] = queues[slotMap[d]] /\ KeepsLeft(slotMap[d])
    BY <2>2
  <2>4. sent'[d] = sent[d] /\ slotMap'[d] \in {slotMap[d], None} /\ TailLine(d)
    BY <1>5 DEF LineInv
  <2> QED
    BY <2>1, <2>3, <2>4, TailLineStays
<1>6. ASSUME NEW k \in 1..Len(backlog), NEW q, q = backlog[k], q[1][1] # c \/ ~OpenQueue(q)
      PROVE BacklogLine(q)'
  <2>1. QueueOfOne(q) /\ BacklogLine(q)
    BY <1>1, <1>6 DEF BacklogInv, LineInv
  <2>2. q \in Seq(Requests) /\ q # << >>
    BY <1>1, <1>6, <2>1 DEF BaseType, QueueOfOne
  <2>3. q[1] \in Requests
    BY <2>2
  <2>4. q[1][1] \in Cids
    BY <2>3, RequestFacts
  <2>5. OpenQueue(q) => sent'[q[1][1]] = sent[q[1][1]]
    BY <1>6, <2>4
  <2> QED
    BY <1>1, <1>6, <2>1, <2>5, BacklogLineStays
<1> QED
  BY <1>2, <1>3, <1>4, <1>5, <1>6

\* A step of the scheduler does not touch what is in the hands or has run.
LEMMA HandsKept ==
  ASSUME Fixed, HistInv, SeatInv, HandInv, KeepsSessions, SameHands,
         UNCHANGED <<corrid, ran, last>>
  PROVE HandInv' /\ \A s \in Slots : KeepsLeft(s)
<1>1. \A s \in Slots : KeepsLeft(s)
  BY LeftStays DEF SameHands
<1>2. \A s \in Slots : HandOf(s)'
  BY HandOfStays DEF SameHands, HandInv
<1>3. Slots' = Slots
  BY FixedMeans
<1> QED
  BY <1>1, <1>2, <1>3 DEF HandInv

\* The backlog has no queue that takes requests of an ID that is not mapped to
\* one.
LEMMA NoneOpen ==
  ASSUME BInv, NEW c \in Cids, backlogMap[c] = None
  PROVE \A k \in 1..Len(backlog) : backlog[k][1][1] # c \/ ~OpenQueue(backlog[k])
<1> SUFFICES ASSUME NEW k \in 1..Len(backlog), backlog[k][1][1] = c, OpenQueue(backlog[k])
             PROVE FALSE
  OBVIOUS
<1>1. backlogMap[c] = backlog[k][1] /\ QueueOfOne(backlog[k])
  BY DEF BInv, BacklogInv
<1>2. backlog[k] \in Seq(Requests) /\ backlog[k] # << >>
  BY <1>1 DEF BInv, BaseType, QueueOfOne
<1>3. backlog[k][1] \in Requests
  BY <1>2
<1> QED
  BY <1>1, <1>3, RequestFacts

\* A refused request: it joins no line.
LEMMA RefuseLines ==
  ASSUME Fixed, BInv, ~Pipelined, HistInv, SeatInv, HandInv, LineInv,
         NEW c \in Cids, Refuse(c), SameHands
  PROVE SeatInv' /\ HandInv' /\ LineInv'
<1>1. KeepsSessions /\ KeepsFirst
  BY RefuseKept, SessionsStay
<1>2. /\ UNCHANGED <<slotMap, backlogMap, backlog, forced, calls, queues, corrid, sessionOf,
                     ran, last>>
      /\ ~Known(c) /\ sent' = [sent EXCEPT ![c] = @ + 1]
      /\ \A y \in calls : y.from = "client" => y.req[1] # c
      /\ sent \in [Cids -> Nat]
  BY SendsMeans DEF Refuse, Sends, mapVars, BInv, BaseType
<1>3. HandInv' /\ \A s \in Slots : KeepsLeft(s)
  BY <1>1, <1>2, HandsKept
<1>4. Slots' = Slots
  BY FixedMeans
<1>5. SeatInv'
  <2> SUFFICES ASSUME NEW r \in Requests PROVE Seat(r)'
    BY DEF SeatInv
  <2>1. \A k, w : In(r, k, w)' => In(r, k, w)
    BY <1>2, <1>4 DEF In, InHand, InQueue, InCall, InBacklog, Coming, SameHands
  <2>2. Pends(r)' <=> Pends(r)
    BY <1>2 DEF Pends
  <2> QED
    BY <2>1, <2>2, SeatStays DEF SeatInv
<1>6. \A d \in Cids : d # c =>
        sent'[d] = sent[d] /\ slotMap'[d] = slotMap[d] /\ (Known(d)' <=> Known(d))
  BY <1>2 DEF Known
<1>7. /\ \A s \in Slots : QueueLine(s)'
      /\ \A x \in calls : CallLine(x)'
      /\ (\A f \in forced : OfOwner(f[2], f[1]))'
      /\ \A d \in Cids : d # c => TailLine(d)'
      /\ \A k \in 1..Len(backlog) : \A q :
           q = backlog[k] /\ (q[1][1] # c \/ ~OpenQueue(q)) => BacklogLine(q)'
  BY <1>1, <1>2, <1>3, <1>6, OthersStay
<1>8. TailLine(c)'
  BY <1>2 DEF TailLine, Known
<1>9. \A k \in 1..Len(backlog) : backlog[k][1][1] # c \/ ~OpenQueue(backlog[k])
  BY <1>2, NoneOpen DEF Known
<1>10. \A k \in 1..Len(backlog) : BacklogLine(backlog[k])'
  BY <1>2, <1>7, <1>9
<1>11. LineInv'
  BY <1>2, <1>4, <1>7, <1>8, <1>10 DEF LineInv
<1> QED
  BY <1>3, <1>5, <1>11

\* A request on its way to the slot of its sequence.
LEMMA AssignLines ==
  ASSUME Fixed, BInv, ~Pipelined, HistInv, SeatInv, HandInv, LineInv,
         NEW c \in Cids, NEW t \in Slots, Admits(c), Assigns(c, t), SameHands,
         UNCHANGED corrid
  PROVE HistInv' /\ SeatInv' /\ HandInv' /\ LineInv' /\ Promise!Next
<1>0. PICK r \in {NextRequest(c)} : r = NextRequest(c)
  OBVIOUS
<1>1. PICK x \in {Call("client", r, t, "enqueue")} : x = Call("client", r, t, "enqueue")
  OBVIOUS
<1>2. x.from = "client" /\ x.req = r /\ x.slot = t /\ x.step = "enqueue"
  BY <1>1 DEF Call
<1>3. /\ r \in Requests /\ r[1] = c /\ r[2] = sent[c] + 1 /\ r = <<c, sent[c] + 1>>
      /\ \A y \in calls : y.from = "client" => y.req[1] # c
  BY <1>0, SendsMeans DEF Assigns, BInv, NextRequest
<1>4. /\ slotMap' = [slotMap EXCEPT ![c] = IF End(r) THEN None ELSE t]
      /\ calls' = calls \cup {x} /\ UNCHANGED <<backlogMap, backlog, forced, queues>>
      /\ backlogMap[c] = None
      /\ slotMap[c] = t \/ (slotMap[c] = None /\ t \in ready)
      /\ sent' = [sent EXCEPT ![c] = @ + 1]
  BY <1>0, <1>1 DEF Assigns, ToSlot, Sends
<1>5. /\ slotMap \in [Cids -> Slots \cup {None}] /\ sent \in [Cids -> Nat] /\ None \notin Slots
      /\ BaseType
  BY FlagsFit DEF BInv, BaseType
<1>6. Slots' = Slots /\ \A q : End(q)' <=> End(q)
  BY FixedMeans
<1>7. Takes(c)
  BY <1>0, <1>4, <1>5 DEF Takes, Known
<1>8. /\ HistInv' /\ Promise!Next /\ KeepsSessions /\ KeepsFirst /\ sessionOf'[r] # None
      /\ Known(c) => sessionOf'[r] # r /\ Latest(c) = Before(r)
      /\ ~Known(c) => sessionOf'[r] = r
  BY <1>0, <1>7, AdmitKept, SessionsStay
<1>9. UNCHANGED <<ran, last>> /\ sessionOf[r] = None /\ r \notin ran
  BY <1>0, <1>3, <1>5, NotYetAnswered DEF Admits
<1>10. HandInv' /\ \A s \in Slots : KeepsLeft(s)
  BY <1>8, <1>9, HandsKept
<1>11. \A d \in Cids : d # c =>
         sent'[d] = sent[d] /\ slotMap'[d] = slotMap[d] /\ (Known(d)' <=> Known(d))
  BY <1>4, <1>5 DEF Known
<1>12. calls \subseteq calls'
  BY <1>4
<1>13. /\ \A s \in Slots : QueueLine(s)'
       /\ \A y \in calls : CallLine(y)'
       /\ (\A f \in forced : OfOwner(f[2], f[1]))'
       /\ \A d \in Cids : d # c => TailLine(d)'
       /\ \A k \in 1..Len(backlog) : \A q :
            q = backlog[k] /\ (q[1][1] # c \/ ~OpenQueue(q)) => BacklogLine(q)'
  BY <1>3, <1>4, <1>8, <1>10, <1>11, <1>12, OthersStay
<1>14. \A k \in 1..Len(backlog) : BacklogLine(backlog[k])'
  BY <1>4, <1>13, NoneOpen
<1>15. TailLine(c)'
  BY <1>2, <1>3, <1>4 DEF TailLine, Calling
<1>16. CallLine(x)'
  <2>1. x.req = Latest(x.req[1])'
    BY <1>2, <1>3, <1>4, <1>5 DEF Latest
  <2>2. CASE Known(c)
    <3>1. slotMap[c] = t
      BY <1>4, <2>2 DEF Known
    <3>2. ~Calling(c)
      BY <1>3 DEF Calling
    <3>3. Lies(t, Before(r))
      BY <1>5, <1>8, <2>2, <3>1, <3>2 DEF LineInv, TailLine
    <3>4. Lies(t, Before(r))'
      BY <1>4, <1>10, <3>3, LiesStays
    <3> QED
      BY <1>2, <1>3, <1>7, <1>0, <1>6, <1>8, <2>1, <2>2, <3>4 DEF CallLine, Takes, First, Before
  <2>3. CASE ~Known(c)
    <3>1. t \in ready
      BY <1>4, <1>5, <2>3 DEF Known
    <3>2. queues[t] = << >>
      BY <3>1 DEF BInv, OwnInv, Own
    <3> QED
      BY <1>2, <1>3, <1>4, <1>7, <1>0, <1>6, <1>8, <2>1, <2>3, <3>2 DEF CallLine, Takes, First
  <2> QED
    BY <2>2, <2>3
<1>17. LineInv'
  BY <1>4, <1>6, <1>11, <1>13, <1>14, <1>15, <1>16 DEF LineInv
<1>18. SeatInv'
  <2> SUFFICES ASSUME NEW q \in Requests PROVE Seat(q)'
    BY DEF SeatInv
  <2>1. \A w : (InHand(q, w)' => InHand(q, w)) /\ (InQueue(q, w)' => InQueue(q, w))
               /\ (InBacklog(q, w)' => InBacklog(q, w))
    BY <1>4, <1>6 DEF InHand, InQueue, InBacklog, SameHands
  <2>2. \A w : InCall(q, w)' => InCall(q, w) \/ (q = r /\ w = t)
    BY <1>2, <1>4 DEF InCall, Coming
  <2>3. CASE q = r
    <3>1. \A k, w : ~In(r, k, w)
      BY <1>3, <1>9 DEF SeatInv, Seat, Pends
    <3>2. \A k, w : In(q, k, w)' => k = "call" /\ w = t
      BY <2>1, <2>2, <2>3, <3>1 DEF In
    <3>3. Pends(q)'
      BY <1>8, <1>9, <2>3 DEF Pends
    <3> QED
      BY <3>2, <3>3, SeatTaken
  <2>4. CASE q # r
    <3>1. \A k, w : In(q, k, w)' => In(q, k, w)
      BY <2>1, <2>2, <2>4 DEF In
    <3>2. Pends(q) => Pends(q)'
      BY <1>8, <1>9 DEF Pends, KeepsSessions
    <3> QED
      BY <3>1, <3>2, SeatStays DEF SeatInv
  <2> QED
    BY <2>3, <2>4
<1> QED
  BY <1>8, <1>10, <1>17, <1>18

\* Nothing but request r of the sequence g joins the backlog.
JoinsBacklog(r, g) ==
  \A q \in Requests : \A w : InBacklog(q, w)' => InBacklog(q, w) \/ (q = r /\ w = g)

\* A request that is taken into the backlog: what does not depend on where.
LEMMA TakenLines ==
  ASSUME Fixed, BInv, ~Pipelined, HistInv, SeatInv, HandInv, LineInv,
         NEW c \in Cids, NEW r, r = NextRequest(c), Admits(c), Takes(c), SameHands,
         UNCHANGED <<slotMap, calls>>, slotMap[c] = None,
         NEW g, JoinsBacklog(r, g)
  PROVE /\ HistInv' /\ SeatInv' /\ HandInv' /\ Promise!Next /\ KeepsSessions /\ KeepsFirst
        /\ sessionOf'[r] # None /\ (~Known(c) => sessionOf'[r] = r)
        /\ Latest(c)' = r /\ r \in Requests /\ r = <<c, sent[c] + 1>>
        /\ (\A s \in Slots : QueueLine(s))' /\ (\A y \in calls : CallLine(y))'
        /\ (\A f \in forced : OfOwner(f[2], f[1]))' /\ (\A d \in Cids : TailLine(d))'
        /\ \A k \in 1..Len(backlog) : \A q :
             q = backlog[k] /\ (q[1][1] # c \/ ~OpenQueue(q)) => BacklogLine(q)'
<1>1. /\ r \in Requests /\ r[1] = c /\ r[2] = sent[c] + 1 /\ r = <<c, sent[c] + 1>>
      /\ \A y \in calls : y.from = "client" => y.req[1] # c
  BY SendsMeans DEF Admits, BInv, NextRequest
<1>2. /\ HistInv' /\ Promise!Next /\ KeepsSessions /\ KeepsFirst /\ sessionOf'[r] # None
      /\ ~Known(c) => sessionOf'[r] = r
  BY AdmitKept, SessionsStay
<1>3. sent \in [Cids -> Nat] /\ BaseType /\ Slots' = Slots
  BY FixedMeans DEF BInv, BaseType
<1>4. /\ UNCHANGED <<ran, last, corrid, queues, forced>> /\ sessionOf[r] = None /\ r \notin ran
      /\ sent' = [sent EXCEPT ![c] = @ + 1]
  BY <1>1, <1>3, NotYetAnswered DEF Admits, Sends
<1>5. HandInv' /\ \A s \in Slots : KeepsLeft(s)
  BY <1>2, <1>4, HandsKept
<1>6. \A d \in Cids : d # c =>
        sent'[d] = sent[d] /\ slotMap'[d] = slotMap[d] /\ (Known(d)' <=> Known(d))
  BY <1>3, <1>4 DEF Takes
<1>7. /\ \A s \in Slots : QueueLine(s)'
      /\ \A y \in calls : CallLine(y)'
      /\ (\A f \in forced : OfOwner(f[2], f[1]))'
      /\ \A d \in Cids : d # c => TailLine(d)'
      /\ \A k \in 1..Len(backlog) : \A q :
           q = backlog[k] /\ (q[1][1] # c \/ ~OpenQueue(q)) => BacklogLine(q)'
  BY <1>1, <1>2, <1>4, <1>5, <1>6, OthersStay
<1>8. TailLine(c)'
  BY DEF TailLine
<1>9. Latest(c)' = r
  BY <1>1, <1>3, <1>4 DEF Latest
<1>10. SeatInv'
  <2> SUFFICES ASSUME NEW q \in Requests PROVE Seat(q)'
    BY DEF SeatInv
  <2>1. \A w : (InHand(q, w)' => InHand(q, w)) /\ (InQueue(q, w)' => InQueue(q, w))
               /\ (InCall(q, w)' => InCall(q, w))
    BY <1>3, <1>4 DEF InHand, InQueue, InCall, Coming, SameHands
  <2>2. \A w : InBacklog(q, w)' => InBacklog(q, w) \/ (q = r /\ w = g)
    BY DEF JoinsBacklog
  <2>3. CASE q = r
    <3>1. \A k, w : ~In(r, k, w)
      BY <1>1, <1>4 DEF SeatInv, Seat, Pends
    <3>2. \A k, w : In(q, k, w)' => k = "backlog" /\ w = g
      BY <2>1, <2>2, <2>3, <3>1 DEF In
    <3>3. Pends(q)'
      BY <1>2, <1>4, <2>3 DEF Pends
    <3> QED
      BY <3>2, <3>3, SeatTaken
  <2>4. CASE q # r
    <3>1. \A k, w : In(q, k, w)' => In(q, k, w)
      BY <2>1, <2>2, <2>4 DEF In
    <3>2. Pends(q) => Pends(q)'
      BY <1>2, <1>4 DEF Pends, KeepsSessions
    <3> QED
      BY <3>1, <3>2, SeatStays DEF SeatInv
  <2> QED
    BY <2>3, <2>4
<1>11. (\A s \in Slots : QueueLine(s))' /\ (\A y \in calls : CallLine(y))'
       /\ (\A d \in Cids : TailLine(d))'
  BY <1>3, <1>7, <1>8
<1> QED
  BY <1>1, <1>2, <1>5, <1>7, <1>9, <1>10, <1>11

\* A request of a backlogged sequence follows the ones before it.
LEMMA BackloggedLines ==
  ASSUME Fixed, BInv, ~Pipelined, HistInv, SeatInv, HandInv, LineInv,
         NEW c \in Cids, EnqueueBacklogged(c), SameHands
  PROVE HistInv' /\ SeatInv' /\ HandInv' /\ LineInv' /\ Promise!Next
<1> DEFINE kk == CHOOSE n \in 1..Len(backlog) : backlog[n][1] = backlogMap[c]
<1>0. PICK r \in {NextRequest(c)} : r = NextRequest(c)
  OBVIOUS
<1>1. r \in Requests /\ r[1] = c /\ r[2] = sent[c] + 1
  BY <1>0, SendsMeans DEF EnqueueBacklogged, Admits, BInv
<1>2. /\ slotMap[c] = None /\ backlogMap[c] # None /\ Admits(c)
      /\ backlog' = [backlog EXCEPT ![kk] = Append(@, r)]
      /\ backlogMap' = [backlogMap EXCEPT ![c] = IF End(r) THEN None ELSE @]
      /\ UNCHANGED <<slotMap, calls>>
  BY <1>0 DEF EnqueueBacklogged
<1>3. /\ backlog \in Seq(Seq(Requests)) /\ backlogMap \in [Cids -> Requests \cup {None}]
      /\ sent \in [Cids -> Nat] /\ BaseType /\ \A q : End(q)' <=> End(q)
  BY FixedMeans DEF BInv, BaseType
<1>4. PICK k \in 1..Len(backlog) :
        /\ k = kk /\ backlog[k][1] = backlogMap[c]
        /\ backlog[k][1][1] = c /\ OpenQueue(backlog[k])
  <2>1. PICK n \in 1..Len(backlog) :
          backlog[n][1] = backlogMap[c] /\ backlog[n][1][1] = c /\ OpenQueue(backlog[n])
    BY <1>2 DEF BInv, BacklogInv
  <2>2. kk \in 1..Len(backlog) /\ backlog[kk][1] = backlogMap[c]
    BY <2>1
  <2> HIDE DEF kk
  <2>3. kk = n
    BY <2>1, <2>2 DEF BInv, BacklogInv
  <2> QED
    BY <2>1, <2>2, <2>3
<1> HIDE DEF kk
<1>5. PICK q \in Seq(Requests) : q = backlog[k]
  BY <1>3
<1>6. /\ QueueOfOne(q) /\ Len(q) \in Nat /\ Len(q) > 0 /\ q # << >> /\ BacklogLine(q)
      /\ 1 \in 1..Len(q) /\ Len(q) \in 1..Len(q)
  <2>1. QueueOfOne(q) /\ BacklogLine(q)
    BY <1>5 DEF BInv, BacklogInv, LineInv
  <2> QED
    BY <2>1 DEF QueueOfOne
<1>7. PICK z \in Seq(Requests) :
        /\ z = Append(q, r) /\ Len(z) = Len(q) + 1
        /\ \A i \in 1..Len(q) : z[i] = q[i]
        /\ z[Len(q) + 1] = r
  <2>1. /\ Append(q, r) \in Seq(Requests) /\ Len(Append(q, r)) = Len(q) + 1
        /\ \A i \in 1..Len(q) : Append(q, r)[i] = q[i]
        /\ Append(q, r)[Len(q) + 1] = r
    BY <1>1, <1>6
  <2> QED
    BY <2>1
<1>8. /\ Len(backlog') = Len(backlog) /\ backlog'[k] = z
      /\ \A l \in 1..Len(backlog) : l # k => backlog'[l] = backlog[l]
  BY <1>2, <1>3, <1>4, <1>5, <1>7
<1>9. z[1] = q[1] /\ \A l \in 1..Len(backlog) : backlog'[l][1] = backlog[l][1]
  BY <1>5, <1>6, <1>7, <1>8
<1>10. \A i \in 1..Len(z) : i \in 1..Len(q) \/ i = Len(q) + 1
  BY <1>6, <1>7
<1>11. PICK g : g = q[1]
  OBVIOUS
<1>12. JoinsBacklog(r, g)
  <2>1. 1..Len(backlog') = 1..Len(backlog)
    BY <1>8
  <2>2. ASSUME NEW p \in Requests, NEW w, InBacklog(p, w)'
        PROVE InBacklog(p, w) \/ (p = r /\ w = g)
    <3>1. PICK l \in 1..Len(backlog) :
            backlog'[l][1] = w /\ \E i \in 1..Len(backlog'[l]) : backlog'[l][i] = p
      BY <2>1, <2>2 DEF InBacklog
    <3>2. PICK i \in 1..Len(backlog'[l]) : backlog'[l][i] = p
      BY <3>1
    <3>3. CASE l # k
      <4>1. backlog[l][1] = w /\ i \in 1..Len(backlog[l]) /\ backlog[l][i] = p
        BY <1>8, <3>1, <3>2, <3>3
      <4> QED
        BY <4>1 DEF InBacklog
    <3>4. CASE l = k
      <4>1. w = g /\ i \in 1..Len(z) /\ z[i] = p
        BY <1>8, <1>9, <1>11, <3>1, <3>2, <3>4
      <4>2. CASE i = Len(q) + 1
        BY <1>7, <4>1, <4>2
      <4>3. CASE i \in 1..Len(q)
        <5>1. q[i] = p
          BY <1>7, <4>1, <4>3
        <5> QED
          BY <1>5, <1>11, <4>1, <4>3, <5>1 DEF InBacklog
      <4> QED
        BY <1>10, <4>1, <4>2, <4>3
    <3> QED
      BY <3>3, <3>4
  <2> QED
    BY <2>2 DEF JoinsBacklog
<1>13. Takes(c)
  <2>1. None \notin Requests
    BY RequestFacts
  <2>2. Known(c)' <=> ~End(r)
    BY <1>2, <1>3 DEF Known
  <2>3. \A d \in Cids : d # c => (Known(d)' <=> Known(d))
    BY <1>2, <1>3 DEF Known
  <2> QED
    BY <1>0, <2>2, <2>3 DEF Takes
<1>14. /\ HistInv' /\ SeatInv' /\ HandInv' /\ Promise!Next /\ KeepsFirst
       /\ Latest(c)' = r
       /\ (\A s \in Slots : QueueLine(s))' /\ (\A y \in calls : CallLine(y))'
       /\ (\A f \in forced : OfOwner(f[2], f[1]))' /\ (\A d \in Cids : TailLine(d))'
       /\ \A l \in 1..Len(backlog) : \A p :
            p = backlog[l] /\ (p[1][1] # c \/ ~OpenQueue(p)) => BacklogLine(p)'
  <2>1. BInv /\ ~Pipelined /\ HistInv /\ SeatInv /\ HandInv /\ LineInv /\ SameHands /\ Fixed
        /\ r = NextRequest(c) /\ Admits(c) /\ UNCHANGED <<slotMap, calls>> /\ slotMap[c] = None
    BY <1>0, <1>2
  <2> QED
    BY ONLY <1>12, <1>13, <2>1, c \in Cids, TakenLines
<1>15. BacklogLine(z)'
  <2>1. First(q[1])'
    <3>1. q[1] \in Requests
      BY <1>6
    <3>2. InBacklog(q[1], q[1])
      BY <1>5, <1>6 DEF InBacklog
    <3>3. In(q[1], "backlog", q[1])
      BY <3>2 DEF In
    <3>4. sessionOf[q[1]] # None
      BY <3>1, <3>3 DEF SeatInv, Seat, Pends
    <3> QED
      BY <1>6, <1>14, <3>1, <3>4 DEF KeepsFirst, BacklogLine
  <2>2. Numbered(q) /\ q[1][1] = c /\ q[Len(q)] = <<c, sent[c]>>
    BY <1>4, <1>5, <1>6 DEF BacklogLine, Latest
  <2>3. q[1][2] \in Nat /\ sent[c] \in Nat
    BY <1>3, <1>6, RequestFacts
  <2>4. sent[c] = q[1][2] + (Len(q) - 1)
    <3>1. q[Len(q)] \in Requests /\ ~IsNull(q[Len(q)])
      BY <1>6, RequestFacts
    <3>2. q[Len(q)][2] = q[1][2] + (Len(q) - 1)
      BY <1>6, <2>2, <3>1 DEF Numbered
    <3> QED
      BY <2>2, <3>2
  <2>5. ASSUME NEW i \in 1..Len(z)
        PROVE z[i][1] = z[1][1] /\ (~IsNull(z[i]) => z[i][2] = z[1][2] + (i - 1))
    <3>1. CASE i \in 1..Len(q)
      BY <1>7, <1>9, <2>2, <3>1 DEF Numbered
    <3>2. CASE i = Len(q) + 1
      <4>1. z[i] = r /\ z[1] = q[1] /\ q[1][1] = c /\ r[1] = c /\ r[2] = sent[c] + 1
        BY <1>1, <1>7, <1>9, <2>2, <3>2
      <4>2. sent[c] + 1 = q[1][2] + (i - 1)
        BY ONLY <2>3, <2>4, <3>2, Len(q) \in Nat
      <4> QED
        BY ONLY <4>1, <4>2
    <3> QED
      BY <1>10, <3>1, <3>2
  <2>6. Numbered(z)
    BY <2>5 DEF Numbered
  <2>7. z[Len(z)] = Latest(z[1][1])'
    BY <1>7, <1>9, <1>14, <2>2
  <2> QED
    BY <1>9, <2>1, <2>6, <2>7 DEF BacklogLine, First, Numbered, IsNull
<1>16. ASSUME NEW l \in 1..Len(backlog) PROVE BacklogLine(backlog[l])'
  <2>1. CASE l = k
    BY <1>8, <1>15, <2>1
  <2>2. CASE l # k
    <3>1. backlog[l][1][1] # c \/ ~OpenQueue(backlog[l])
      BY <1>4, <2>2 DEF BInv, BacklogInv
    <3> QED
      BY <1>8, <1>14, <2>2, <3>1
  <2> QED
    BY <2>1, <2>2
<1>17. LineInv'
  BY <1>8, <1>14, <1>16 DEF LineInv
<1> QED
  BY <1>14, <1>17

\* The first request of a sequence that finds no slot.
LEMMA BackloggingLines ==
  ASSUME Fixed, BInv, ~Pipelined, HistInv, SeatInv, HandInv, LineInv,
         NEW c \in Cids, EnqueueBacklogging(c), SameHands
  PROVE HistInv' /\ SeatInv' /\ HandInv' /\ LineInv' /\ Promise!Next
<1>0. PICK r \in {NextRequest(c)} : r = NextRequest(c)
  OBVIOUS
<1>1. r \in Requests /\ r[1] = c /\ r[2] = sent[c] + 1
  BY <1>0, SendsMeans DEF EnqueueBacklogging, Admits, BInv
<1>2. /\ slotMap[c] = None /\ backlogMap[c] = None /\ Admits(c) /\ ~Known(c)
      /\ backlog' = Append(backlog, <<r>>)
      /\ backlogMap' = [backlogMap EXCEPT ![c] = IF End(r) THEN None ELSE r]
      /\ UNCHANGED <<slotMap, calls>>
  BY <1>0 DEF EnqueueBacklogging, Known
<1>3. /\ backlog \in Seq(Seq(Requests)) /\ backlogMap \in [Cids -> Requests \cup {None}]
      /\ BaseType
  BY DEF BInv, BaseType
<1>4. PICK z \in Seq(Requests) : z = <<r>> /\ Len(z) = 1 /\ z[1] = r
  <2>1. <<r>> \in Seq(Requests) /\ Len(<<r>>) = 1 /\ <<r>>[1] = r
    BY <1>1
  <2> QED
    BY <2>1
<1>5. PICK n \in Nat : n = Len(backlog)
  BY <1>3
<1>6. /\ Len(backlog') = n + 1 /\ backlog'[n + 1] = z
      /\ \A l \in 1..n : backlog'[l] = backlog[l]
  BY <1>2, <1>3, <1>4, <1>5
<1>7. \A l \in 1..(n + 1) : l \in 1..n \/ l = n + 1
  OBVIOUS
<1>8. JoinsBacklog(r, r)
  <2> SUFFICES ASSUME NEW p \in Requests, NEW w, NEW l \in 1..Len(backlog'),
                      backlog'[l][1] = w, NEW i \in 1..Len(backlog'[l]), backlog'[l][i] = p
               PROVE InBacklog(p, w) \/ (p = r /\ w = r)
    BY DEF InBacklog, JoinsBacklog
  <2>1. CASE l \in 1..n
    BY <1>5, <1>6, <2>1 DEF InBacklog
  <2>2. CASE l = n + 1
    <3>1. w = r /\ i \in 1..1 /\ z[i] = p
      BY <1>4, <1>6, <2>2
    <3> QED
      BY <1>4, <3>1
  <2> QED
    BY <1>6, <1>7, <2>1, <2>2
<1>9. Takes(c)
  <2>1. None \notin Requests
    BY RequestFacts
  <2>2. Known(c)' <=> ~End(r)
    BY <1>1, <1>2, <1>3, <2>1 DEF Known
  <2>3. \A d \in Cids : d # c => (Known(d)' <=> Known(d))
    BY <1>2, <1>3 DEF Known
  <2> QED
    BY <1>0, <2>2, <2>3 DEF Takes
<1>10. /\ HistInv' /\ SeatInv' /\ HandInv' /\ Promise!Next
       /\ Latest(c)' = r /\ sessionOf'[r] = r
       /\ (\A s \in Slots : QueueLine(s))' /\ (\A y \in calls : CallLine(y))'
       /\ (\A f \in forced : OfOwner(f[2], f[1]))' /\ (\A d \in Cids : TailLine(d))'
       /\ \A l \in 1..Len(backlog) : \A p :
            p = backlog[l] /\ (p[1][1] # c \/ ~OpenQueue(p)) => BacklogLine(p)'
  <2>1. BInv /\ ~Pipelined /\ HistInv /\ SeatInv /\ HandInv /\ LineInv /\ SameHands /\ Fixed
        /\ r = NextRequest(c) /\ Admits(c) /\ UNCHANGED <<slotMap, calls>> /\ slotMap[c] = None
        /\ ~Known(c)
    BY <1>0, <1>2
  <2> QED
    BY ONLY <1>8, <1>9, <2>1, c \in Cids, TakenLines
<1>11. BacklogLine(z)'
  <2>1. \A i \in 1..Len(z) : i = 1 /\ 1 - 1 = 0
    BY <1>4
  <2>2. r[2] \in Nat
    BY <1>1, RequestFacts
  <2>3. Numbered(z)
    BY <1>4, <2>1, <2>2 DEF Numbered
  <2>4. First(r)'
    BY <1>10 DEF First
  <2> QED
    BY <1>1, <1>4, <1>10, <2>3, <2>4 DEF BacklogLine, First, Numbered, IsNull
<1>12. ASSUME NEW l \in 1..(n + 1) PROVE BacklogLine(backlog[l])'
  <2>1. CASE l = n + 1
    BY <1>6, <1>11, <2>1
  <2>2. CASE l \in 1..n
    <3>1. backlog[l][1][1] # c \/ ~OpenQueue(backlog[l])
      BY <1>2, <1>5, <2>2, NoneOpen
    <3> QED
      BY <1>5, <1>6, <1>10, <2>2, <3>1
  <2> QED
    BY <1>7, <2>1, <2>2
<1>13. LineInv'
  BY <1>6, <1>10, <1>12 DEF LineInv
<1> QED
  BY <1>10, <1>13

\* What the reaper does not touch.
LEMMA ReaperLines ==
  ASSUME Fixed, BInv, HistInv, SeatInv, HandInv, LineInv, SameHands,
         UNCHANGED <<sent, history, queues, backlog, backlogMap, corrid>>,
         \A d \in Cids : slotMap'[d] \in {slotMap[d], None},
         calls \subseteq calls', \A x \in calls' : x \in calls \/ IsNull(x.req)
  PROVE /\ HistInv' /\ SeatInv' /\ HandInv'
        /\ (\A s \in Slots : QueueLine(s))' /\ \A x \in calls : CallLine(x)'
        /\ (\A c \in Cids : TailLine(c))'
        /\ (\A k \in 1..Len(backlog) : BacklogLine(backlog[k]))'
<1>1. UNCHANGED <<sessionOf, ran, last>> /\ KeepsSessions
  BY DEF history, KeepsSessions
<1>2. KeepsFirst
  BY <1>1, SessionsStay
<1>3. HandInv' /\ \A s \in Slots : KeepsLeft(s)
  BY <1>1, HandsKept
<1>4. \A c \in Cids : Known(c)' => Known(c)
  BY DEF Known
<1>5. HistInv'
  BY <1>4, HistStays
<1>6. Slots' = Slots /\ BaseType /\ CallsInv /\ BacklogInv
  BY FixedMeans DEF BInv
<1>7. SeatInv'
  <2> SUFFICES ASSUME NEW r \in Requests PROVE Seat(r)'
    BY DEF SeatInv
  <2>1. ~IsNull(r)
    BY RequestFacts
  <2>2. \A w : InCall(r, w)' => InCall(r, w)
    BY <2>1 DEF InCall, Coming
  <2>3. \A k, w : In(r, k, w)' => In(r, k, w)
    BY <1>6, <2>2 DEF In, InHand, InQueue, InBacklog, SameHands
  <2>4. Pends(r)' <=> Pends(r)
    BY <1>1 DEF Pends
  <2> QED
    BY <2>3, <2>4, SeatStays DEF SeatInv
<1>8. \A s \in Slots : QueueLine(s)'
  BY <1>2, <1>3, <1>6, QueueLineStays DEF LineInv
<1>9. ASSUME NEW x \in calls PROVE CallLine(x)'
  <2>1. x.slot \in Slots /\ x.req[1] \in Cids
    BY <1>6 DEF BaseType, CallType, Items
  <2>2. CallLine(x)
    BY DEF LineInv
  <2>3. x.from = "client" => /\ sent'[x.req[1]] = sent[x.req[1]]
                             /\ Known(x.req[1])' => Known(x.req[1])
    BY <1>4, <2>1
  <2>4. queues'[x.slot] = queues[x.slot] /\ KeepsLeft(x.slot)
    BY <1>3, <2>1
  <2> QED
    BY <1>2, <1>6, <2>2, <2>3, <2>4, CallLineStays
<1>10. ASSUME NEW d \in Cids PROVE TailLine(d)'
  <2>1. Calling(d) => Calling(d)'
    BY DEF Calling
  <2>2. slotMap[d] # None => slotMap[d] \in Slots
    BY <1>6 DEF BaseType
  <2>3. slotMap[d] # None => queues'[slotMap[d]] = queues[slotMap[d]] /\ KeepsLeft(slotMap[d])
    BY <1>3, <2>2
  <2>4. sent'[d] = sent[d] /\ slotMap'[d] \in {slotMap[d], None} /\ TailLine(d)
    BY DEF LineInv
  <2> QED
    BY <2>1, <2>3, <2>4, TailLineStays
<1>11. ASSUME NEW k \in 1..Len(backlog) PROVE BacklogLine(backlog[k])'
  <2>1. PICK q : q = backlog[k]
    OBVIOUS
  <2>2. QueueOfOne(q) /\ BacklogLine(q)
    BY <1>6, <2>1 DEF BacklogInv, LineInv
  <2>3. BacklogLine(q)'
    BY <1>2, <1>6, <2>1, <2>2, BacklogLineStays
  <2> QED
    BY <2>1, <2>3
<1> QED
  BY <1>3, <1>5, <1>6, <1>7, <1>8, <1>9, <1>10, <1>11

\* The reaper looks at the time stamps: open sequences expire, and the slots of
\* those hold nothing but their requests.
LEMMA CheckLines ==
  ASSUME Fixed, BInv, HistInv, SeatInv, HandInv, LineInv, SameHands, ReaperCheck
  PROVE HistInv' /\ SeatInv' /\ HandInv' /\ LineInv' /\ Promise!Next
<1>0. PICK placed \in SUBSET Cids :
        placed = {c \in Cids : stamp[c] = "idle" /\ slotMap[c] # None}
  OBVIOUS
<1>1. /\ forced' = {<<c, slotMap[c]>> : c \in placed}
      /\ slotMap' = [c \in Cids |-> IF c \in placed THEN None ELSE slotMap[c]]
      /\ UNCHANGED <<sent, backlogMap, backlog, calls, queues, corrid, history>>
  BY <1>0 DEF ReaperCheck
<1>2. \A d \in Cids : slotMap'[d] \in {slotMap[d], None}
  BY <1>1
<1>3. /\ HistInv' /\ SeatInv' /\ HandInv'
      /\ (\A s \in Slots : QueueLine(s))' /\ \A x \in calls : CallLine(x)'
      /\ (\A c \in Cids : TailLine(c))'
      /\ (\A k \in 1..Len(backlog) : BacklogLine(backlog[k]))'
  <2>1. calls \subseteq calls' /\ \A x \in calls' : x \in calls \/ IsNull(x.req)
    BY <1>1
  <2> QED
    BY <1>1, <1>2, <2>1, ReaperLines
<1>4. ASSUME NEW c \in placed PROVE OfOwner(slotMap[c], c)
  <2>1. c \in Cids /\ stamp[c] = "idle" /\ slotMap[c] # None
    BY <1>0
  <2>2. ~Calling(c)
    BY <2>1 DEF Calling, BInv, CallsInv
  <2>3. PICK s \in Slots : s = slotMap[c]
    BY <2>1 DEF BInv, BaseType
  <2>4. Lies(s, Latest(c)) /\ QueueLine(s)
    BY <2>1, <2>2, <2>3 DEF LineInv, TailLine
  <2>5. CASE queues[s] # << >>
    <3>1. PICK q \in Seq(Items) : q = queues[s]
      BY DEF BInv, BaseType
    <3>2. Len(q) \in 1..Len(q)
      BY <2>5, <3>1
    <3>3. q[Len(q)][1] = c /\ q[Len(q)][1] = q[1][1]
      BY <2>4, <2>5, <3>1, <3>2 DEF Lies, Latest, QueueLine, Numbered
    <3> QED
      BY <2>3, <3>1, <3>3 DEF OfOwner
  <2> QED
    BY <2>3, <2>5 DEF OfOwner
<1>5. (\A f \in forced : OfOwner(f[2], f[1]))'
  BY <1>1, <1>4 DEF OfOwner
<1>6. LineInv'
  BY <1>1, <1>3, <1>5 DEF LineInv
<1>7. Promise!Expire(placed)
  <2>1. \A c \in placed : ~Known(c)'
    BY <1>0, <1>1 DEF Known, BInv, BacklogInv
  <2>2. \A c \in Cids : c \notin placed => (Known(c)' <=> Known(c))
    BY <1>1 DEF Known
  <2>3. UNCHANGED <<sessionOf, current, refused, ran, last>>
    BY <1>1 DEF history
  <2>4. Open' = [c \in Cids |-> IF c \in placed THEN None ELSE Open[c]]
    BY <2>1, <2>2, <2>3 DEF Open
  <2> QED
    BY <2>3, <2>4, FlagsFixed DEF Promise!Expire
<1>8. Promise!Next
  BY <1>7 DEF Promise!Next
<1> QED
  BY <1>3, <1>6, <1>8

\* The reaper enqueues a force-end.
LEMMA ForceEndLines ==
  ASSUME Fixed, BInv, HistInv, SeatInv, HandInv, LineInv, SameHands, ReaperForceEnd
  PROVE HistInv' /\ SeatInv' /\ HandInv' /\ LineInv' /\ UNCHANGED Promise!vars
<1>1. PICK f \in forced :
        /\ forced' = forced \ {f}
        /\ calls' = calls \cup {Call("reaper", Null(f[1]), f[2], "enqueue")}
  BY DEF ReaperForceEnd
<1>2. UNCHANGED <<sent, slotMap, backlogMap, backlog, queues, corrid, history>>
  BY DEF ReaperForceEnd, mapVars
<1>3. PICK x \in {Call("reaper", Null(f[1]), f[2], "enqueue")} :
        x = Call("reaper", Null(f[1]), f[2], "enqueue")
  OBVIOUS
<1>4. /\ x.from = "reaper" /\ IsNull(x.req) /\ x.req[1] = f[1] /\ x.slot = f[2]
      /\ calls' = calls \cup {x}
  BY <1>1, <1>3 DEF Call, Null, IsNull
<1>5. /\ HistInv' /\ SeatInv' /\ HandInv'
      /\ (\A s \in Slots : QueueLine(s))' /\ \A y \in calls : CallLine(y)'
      /\ (\A c \in Cids : TailLine(c))'
      /\ (\A k \in 1..Len(backlog) : BacklogLine(backlog[k]))'
  <2>1. calls \subseteq calls' /\ \A y \in calls' : y \in calls \/ IsNull(y.req)
    BY <1>4
  <2>2. \A d \in Cids : slotMap'[d] \in {slotMap[d], None}
    BY <1>2
  <2> QED
    BY <1>2, <2>1, <2>2, ReaperLines
<1>6. OfOwner(f[2], f[1])
  BY DEF LineInv
<1>7. CallLine(x)'
  BY <1>2, <1>4, <1>6 DEF CallLine, OfOwner
<1>8. (\A g \in forced : OfOwner(g[2], g[1]))'
  BY <1>1, <1>2 DEF LineInv, OfOwner
<1>9. LineInv'
  BY <1>4, <1>5, <1>7, <1>8 DEF LineInv
<1>10. \A c \in Cids : Known(c)' <=> Known(c)
  BY <1>2 DEF Known
<1> QED
  BY <1>2, <1>5, <1>9, <1>10, Unseen

\* Every step of the scheduler keeps the lines, and is one of the promise.
LEMMA SchedulerLines ==
  ASSUME Fixed, BInv, ~Pipelined, HistInv, SeatInv, HandInv, LineInv, SameHands, BaseNext
  PROVE /\ HistInv' /\ SeatInv' /\ HandInv' /\ LineInv'
        /\ Promise!Next \/ UNCHANGED Promise!vars
<1>1. ASSUME NEW c \in Cids, Client(c)
      PROVE HistInv' /\ SeatInv' /\ HandInv' /\ LineInv' /\ Promise!Next
  <2>1. CASE Refuse(c)
    BY <2>1, RefuseKept, RefuseLines
  <2>2. CASE EnqueueAssigned(c)
    <3>1. PICK t \in Slots : t = slotMap[c]
      BY <2>2 DEF EnqueueAssigned, BInv, BaseType
    <3>2. Admits(c) /\ Assigns(c, t) /\ UNCHANGED corrid
      <4>1. slotMap[c] # None /\ Admits(c) /\ ToSlot(c, t) /\ UNCHANGED ready
        BY <2>2, <3>1 DEF EnqueueAssigned
      <4>2. backlogMap[c] = None
        BY <4>1 DEF BInv, BacklogInv
      <4> QED
        BY <3>1, <4>1, <4>2 DEF Assigns, Admits
    <3> QED
      BY <3>2, AssignLines
  <2>3. CASE EnqueueAssigning(c)
    <3>1. Admits(c) /\ slotMap[c] = None /\ backlogMap[c] = None
      BY <2>3 DEF EnqueueAssigning, Known
    <3>2. PICK t \in TopReady : ready' = ready \ {t} /\ ToSlot(c, t)
      BY <2>3 DEF EnqueueAssigning
    <3>3. t \in ready /\ t \in Slots
      BY DEF TopReady, BInv, BaseType
    <3>4. Assigns(c, t) /\ UNCHANGED corrid
      BY <3>1, <3>2, <3>3 DEF Assigns, Admits
    <3> QED
      BY <3>1, <3>3, <3>4, AssignLines
  <2> QED
    BY <1>1, <2>1, <2>2, <2>3, BackloggedLines, BackloggingLines DEF Client
<1>2. ASSUME NEW c \in Cids, BecomesIdle(c)
      PROVE HistInv' /\ SeatInv' /\ HandInv' /\ LineInv' /\ UNCHANGED Promise!vars
  <2>1. UNCHANGED <<sent, slotMap, backlogMap, backlog, forced, calls, queues, corrid, history>>
    BY <1>2 DEF BecomesIdle, mapVars
  <2>2. /\ \A d \in Cids : slotMap'[d] \in {slotMap[d], None}
        /\ calls \subseteq calls' /\ \A x \in calls' : x \in calls \/ IsNull(x.req)
    BY <2>1
  <2>3. /\ HistInv' /\ SeatInv' /\ HandInv'
        /\ (\A s \in Slots : QueueLine(s))' /\ \A y \in calls : CallLine(y)'
        /\ (\A d \in Cids : TailLine(d))'
        /\ (\A k \in 1..Len(backlog) : BacklogLine(backlog[k]))'
    BY <2>1, <2>2, ReaperLines
  <2>4. (\A f \in forced : OfOwner(f[2], f[1]))'
    BY <2>1 DEF LineInv, OfOwner
  <2>5. LineInv'
    BY <2>1, <2>3, <2>4 DEF LineInv
  <2>6. \A d \in Cids : Known(d)' <=> Known(d)
    BY <2>1 DEF Known
  <2> QED
    BY <2>1, <2>3, <2>5, <2>6, Unseen
<1> QED
  BY <1>1, <1>2, CheckLines, ForceEndLines DEF BaseNext
----------------------------------------------------------------------------
(***************************************************************************)
(* The batchers: a request joins the queue of its slot, the first one of a *)
(* queue is taken into the hand, or a slot is released.                    *)
(***************************************************************************)
\* A slot that a call is coming to belongs to the sequence of the call, or the
\* call will release it.
LEMMA ComingMeans ==
  ASSUME BInv, NEW x \in calls, x.step = "enqueue"
  PROVE /\ x.slot \in Slots /\ x.from \in {"client", "reaper"} /\ x.req \in Items
        /\ \A y \in calls : Coming(y, x.slot) => y = x
        /\ NoneForced(x.slot) /\ NoneQueued(x.slot)
        /\ Releases(x.req) => NoSequence(x.slot)
        /\ ~Releases(x.req) => \A d \in Cids : slotMap[d] = x.slot => d = x.req[1]
        /\ x.from = "client" /\ ~End(x.req) => slotMap[x.req[1]] = x.slot
<1>1. /\ calls \subseteq CallType /\ CallsInv
      /\ slotMap \in [Cids -> Slots \cup {None}] /\ BaseType
  BY DEF BInv, BaseType
<1>2. /\ x.slot \in Slots /\ x.req \in Items /\ x.req[1] \in Cids
      /\ x.from \in {"client", "reaper"}
  BY <1>1 DEF CallType, Items, CallsInv
<1>3. PICK t \in Slots : t = x.slot
  BY <1>2
<1>4. /\ x.from = "client" /\ ~End(x.req) => slotMap[x.req[1]] = t
      /\ x.from = "reaper" => IsNull(x.req)
      /\ x.from = "client" => ~IsNull(x.req)
  BY <1>1, <1>3 DEF CallsInv
<1>5. \A y \in calls : Coming(y, t) /\ ~Releases(y.req) =>
        y.from = "client" /\ slotMap[y.req[1]] = t /\ y.req[1] \in Cids
  BY <1>1 DEF Coming, CallType, Items, CallsInv, Releases
<1>6. Own(t)
  BY DEF BInv, OwnInv
<1>7. CASE Releases(x.req)
  <2>1. ~NoneComing(t)
    BY <1>3, <1>7 DEF NoneComing, Coming
  <2>2. NoSequence(t) /\ NoneQueued(t) /\ OneComing(t) /\ NoneForced(t)
    BY <1>6, <2>1 DEF Own
  <2>3. \A y \in calls : Coming(y, t) => Releases(y.req)
    BY <1>5, <2>2 DEF NoSequence
  <2>4. Coming(x, t)
    BY <1>3 DEF Coming
  <2>5. \A y \in calls : Coming(y, t) => y = x
    BY <1>7, <2>2, <2>3, <2>4 DEF OneComing
  <2> QED
    BY <1>2, <1>3, <1>4, <1>7, <2>2, <2>5
<1>8. CASE ~Releases(x.req)
  <2>1. x.from = "client" /\ slotMap[x.req[1]] = t
    BY <1>3, <1>5, <1>8 DEF Coming
  <2>2. ~NoSequence(t)
    BY <1>2, <2>1 DEF NoSequence
  <2>3. OneSequence(t) /\ NoneQueued(t) /\ NoneComing(t) /\ NoneForced(t)
    BY <1>6, <2>2 DEF Own
  <2>4. \A d \in Cids : slotMap[d] = t => d = x.req[1]
    BY <1>2, <2>1, <2>3 DEF OneSequence
  <2>5. \A y \in calls : Coming(y, t) => y.from = "client" /\ y.req[1] = x.req[1]
    BY <1>5, <2>3, <2>4 DEF NoneComing
  <2>6. \A y \in calls : Coming(y, t) => y = x
    BY <1>1, <2>1, <2>5 DEF CallsInv
  <2> QED
    BY <1>2, <1>3, <1>4, <1>8, <2>3, <2>4, <2>6
<1> QED
  BY <1>7, <1>8

\* A call that leaves Enqueue.
LEMMA LeavesMeans ==
  ASSUME BInv, NEW x \in calls, Leaves(x)
  PROVE /\ \A y \in calls' : \/ y \in calls /\ y # x
                             \/ y.step # "enqueue" /\ y.from = x.from /\ y.req = x.req
        /\ \A y \in calls : y # x => y \in calls'
<1>1. x \in CallType
  BY DEF BInv, BaseType
<1>2. CASE Return(x)
  BY <1>2 DEF Return
<1>3. ASSUME NEW st \in Steps \ {"enqueue"}, Goto(x, st)
      PROVE /\ \A y \in calls' : \/ y \in calls /\ y # x
                                 \/ y.step # "enqueue" /\ y.from = x.from /\ y.req = x.req
            /\ \A y \in calls : y # x => y \in calls'
  <2>1. PICK z \in {[x EXCEPT !.step = st]} : z = [x EXCEPT !.step = st]
    OBVIOUS
  <2>2. z.step = st /\ z.req = x.req /\ z.from = x.from
    BY <1>1, <2>1 DEF CallType
  <2>3. calls' = (calls \ {x}) \cup {z}
    BY <1>3, <2>1 DEF Goto
  <2> QED
    BY <2>2, <2>3
<1> QED
  BY <1>2, <1>3 DEF Leaves

\* The queue that a request is appended to.
LEMMA AppendedQueue ==
  ASSUME BInv, HistInv, SeatInv, LineInv, NEW x \in calls, x.step = "enqueue",
         NEW t \in Slots, t = x.slot, NEW q \in Seq(Items), q = queues[t],
         NEW r \in Items, r = x.req
  PROVE /\ q # << >> => q[1][1] = r[1]
        /\ \A z : z = Append(q, r) =>
             /\ z \in Seq(Items) /\ Len(z) = Len(q) + 1 /\ z[Len(z)] = r /\ z # << >>
             /\ \A i \in 1..Len(q) : z[i] = q[i]
             /\ \A i \in 1..Len(z) : i \in 1..Len(q) \/ i = Len(q) + 1
             /\ Numbered(z)
             /\ ~IsNull(z[1]) /\ ~First(z[1]) => JustLeft(t, Before(z[1]))
<1>1. /\ CallLine(x) /\ QueueLine(t) /\ x.from \in {"client", "reaper"} /\ CallsInv
      /\ x.from = "client" => ~IsNull(r)
      /\ x.from = "reaper" => IsNull(r)
  BY ComingMeans DEF LineInv, BInv, CallsInv
<1>2. ~IsNull(r) => r \in Requests /\ sessionOf[r] # None
  <2> SUFFICES ASSUME ~IsNull(r) PROVE r \in Requests /\ sessionOf[r] # None
    OBVIOUS
  <2>1. r \in Requests
    BY FlagsFit DEF BInv, BaseType
  <2>2. InCall(r, t)
    BY DEF InCall, Coming
  <2>3. In(r, "call", t)
    BY <2>2 DEF In
  <2> QED
    BY <2>1, <2>3 DEF SeatInv, Seat, Pends
<1>3. CASE IsNull(r)
  <2>1. OfOwner(t, r[1])
    BY <1>1, <1>3 DEF CallLine
  <2>2. q # << >> => q[1][1] = r[1]
    BY <2>1 DEF OfOwner
  <2>3. ASSUME NEW z, z = Append(q, r)
        PROVE /\ z \in Seq(Items) /\ Len(z) = Len(q) + 1 /\ z[Len(z)] = r /\ z # << >>
              /\ \A i \in 1..Len(q) : z[i] = q[i]
              /\ \A i \in 1..Len(z) : i \in 1..Len(q) \/ i = Len(q) + 1
              /\ Numbered(z)
              /\ ~IsNull(z[1]) /\ ~First(z[1]) => JustLeft(t, Before(z[1]))
    <3>1. /\ z \in Seq(Items) /\ Len(z) = Len(q) + 1 /\ z[Len(z)] = r /\ z # << >>
          /\ \A i \in 1..Len(q) : z[i] = q[i]
          /\ \A i \in 1..Len(z) : i \in 1..Len(q) \/ i = Len(q) + 1
      BY <2>3
    <3>2. q # << >> => 1 \in 1..Len(q) /\ z[1] = q[1]
      BY <3>1
    <3>3. q = << >> => Len(q) = 0 /\ z[1] = r
      BY <3>1
    <3>4. ASSUME NEW i \in 1..Len(z)
          PROVE z[i][1] = z[1][1] /\ (~IsNull(z[i]) => z[i][2] = z[1][2] + (i - 1))
      <4>1. CASE i \in 1..Len(q)
        <5>1. q # << >>
          BY <4>1
        <5>2. Numbered(q)
          BY <1>1 DEF QueueLine
        <5> QED
          BY ONLY <3>1, <3>2, <4>1, <5>1, <5>2 DEF Numbered
      <4>2. CASE i = Len(q) + 1
        <5>1. z[i] = r
          BY <3>1, <4>2
        <5> QED
          BY <1>3, <2>2, <3>2, <3>3, <5>1
      <4> QED
        BY <3>1, <4>1, <4>2
    <3>5. Numbered(z)
      BY <3>4 DEF Numbered
    <3>6. ~IsNull(z[1]) /\ ~First(z[1]) => JustLeft(t, Before(z[1]))
      BY <1>1, <1>3, <3>2, <3>3 DEF QueueLine
    <3> QED
      BY <3>1, <3>5, <3>6
  <2> QED
    BY <2>2, <2>3
<1>4. CASE ~IsNull(r)
  <2>0. x.from = "client" /\ r \in Requests /\ sessionOf[r] # None
    BY <1>1, <1>2, <1>4
  <2>1. IF First(r) THEN q = << >> ELSE Lies(t, Before(r))
    BY <1>1, <2>0 DEF CallLine
  <2>2. q # << >> => /\ ~First(r) /\ q[Len(q)] = Before(r) /\ Before(r) \in Requests
                     /\ Len(q) \in 1..Len(q) /\ 1 \in 1..Len(q)
    BY <2>0, <2>1 DEF Lies, HistInv, SessionsInv
  <2>3. q # << >> => /\ q[1][1] = r[1] /\ r[2] = q[1][2] + Len(q) /\ q[1][2] \in Nat
                     /\ r[2] \in Nat
    <3> SUFFICES ASSUME q # << >>
                 PROVE /\ q[1][1] = r[1] /\ r[2] = q[1][2] + Len(q) /\ q[1][2] \in Nat
                       /\ r[2] \in Nat
      OBVIOUS
    <3>1. ~IsNull(q[Len(q)]) /\ Len(q) \in Nat
      BY <2>2, RequestFacts
    <3>2. q[Len(q)][1] = q[1][1] /\ q[Len(q)][2] = q[1][2] + (Len(q) - 1)
      BY <1>1, <2>2, <3>1 DEF QueueLine, Numbered
    <3>3. q[Len(q)][1] = r[1] /\ q[Len(q)][2] = r[2] - 1 /\ r[2] \in Nat
      BY <2>0, <2>2, RequestFacts DEF Before
    <3>4. q[1] \in Items
      BY <2>2
    <3>5. q[1][2] \in Nat
      BY <3>4, RequestFacts DEF Items
    <3>6. \A a, b, k \in Nat : a - 1 = b + (k - 1) => a = b + k
      OBVIOUS
    <3>7. r[2] - 1 = q[1][2] + (Len(q) - 1)
      BY <3>2, <3>3
    <3>8. r[2] = q[1][2] + Len(q)
      BY ONLY <3>1, <3>3, <3>5, <3>6, <3>7
    <3> QED
      BY <3>2, <3>3, <3>5, <3>8
  <2>4. ASSUME NEW z, z = Append(q, r)
        PROVE /\ z \in Seq(Items) /\ Len(z) = Len(q) + 1 /\ z[Len(z)] = r /\ z # << >>
              /\ \A i \in 1..Len(q) : z[i] = q[i]
              /\ \A i \in 1..Len(z) : i \in 1..Len(q) \/ i = Len(q) + 1
              /\ Numbered(z)
              /\ ~IsNull(z[1]) /\ ~First(z[1]) => JustLeft(t, Before(z[1]))
    <3>1. /\ z \in Seq(Items) /\ Len(z) = Len(q) + 1 /\ z[Len(z)] = r /\ z # << >>
          /\ \A i \in 1..Len(q) : z[i] = q[i]
          /\ \A i \in 1..Len(z) : i \in 1..Len(q) \/ i = Len(q) + 1
      BY <2>4
    <3>2. q # << >> => 1 \in 1..Len(q) /\ z[1] = q[1]
      BY <3>1
    <3>3. q = << >> => Len(q) = 0 /\ z[1] = r
      BY <3>1
    <3>4. ASSUME NEW i \in 1..Len(z)
          PROVE z[i][1] = z[1][1] /\ (~IsNull(z[i]) => z[i][2] = z[1][2] + (i - 1))
      <4>1. CASE i \in 1..Len(q)
        <5>1. q # << >>
          BY <4>1
        <5>2. Numbered(q)
          BY <1>1 DEF QueueLine
        <5> QED
          BY ONLY <3>1, <3>2, <4>1, <5>1, <5>2 DEF Numbered
      <4>2. CASE i = Len(q) + 1
        <5>1. z[i] = r /\ Len(q) \in Nat /\ r[2] \in Nat
          BY <2>0, <3>1, <4>2, RequestFacts
        <5>2. CASE q # << >>
          BY <2>3, <3>2, <4>2, <5>1, <5>2
        <5>3. CASE q = << >>
          BY <3>3, <4>2, <5>1, <5>3
        <5> QED
          BY <5>2, <5>3
      <4> QED
        BY <3>1, <4>1, <4>2
    <3>5. Numbered(z)
      BY <3>4 DEF Numbered
    <3>6. ~IsNull(z[1]) /\ ~First(z[1]) => JustLeft(t, Before(z[1]))
      <4>1. CASE q # << >>
        BY <1>1, <3>2, <4>1 DEF QueueLine
      <4>2. CASE q = << >>
        BY <2>1, <3>3, <4>2 DEF Lies
      <4> QED
        BY <4>1, <4>2
    <3> QED
      BY <3>1, <3>5, <3>6
  <2> QED
    BY <2>3, <2>4
<1> QED
  BY <1>3, <1>4

----------------------------------------------------------------------------
(***************************************************************************)
(* What a batcher does with the queue of a slot: a request is appended, or *)
(* taken, or the slot is released.                                         *)
(***************************************************************************)
\* Nothing is admitted, refused or run.
SameHistory == UNCHANGED <<sent, sessionOf, current, refused, ran, last>>

\* The backlog is not touched.
LEMMA BacklogLinesStay ==
  ASSUME Fixed, BaseType, LineInv, UNCHANGED <<sent, sessionOf, backlog>>
  PROVE (\A k \in 1..Len(backlog) : BacklogLine(backlog[k]))'
<1>1. \A q : OpenQueue(q)' <=> OpenQueue(q)
  BY FixedMeans DEF OpenQueue
<1>2. \A k \in 1..Len(backlog) : BacklogLine(backlog[k])
  BY DEF LineInv
<1> QED
  BY <1>1, <1>2 DEF BacklogLine, First, Numbered, Latest, IsNull

\* A call that is not on its way to a queue.
LEMMA DoneCallLine ==
  ASSUME NEW x, CallLine(x), NEW y, y.step # "enqueue", y.from = x.from, y.req = x.req,
         UNCHANGED sent
  PROVE CallLine(y)'
BY DEF CallLine, Latest

\* A request is appended to the queue of its slot.
LEMMA AppendLines ==
  ASSUME Fixed, BInv, HistInv, SeatInv, HandInv, LineInv, SameHands,
         NEW x \in calls, x.step = "enqueue", Leaves(x),
         queues' = [queues EXCEPT ![x.slot] = Append(@, x.req)],
         UNCHANGED <<slotMap, backlogMap, backlog, forced, corrid>>, SameHistory
  PROVE /\ HistInv' /\ SeatInv' /\ HandInv' /\ LineInv' /\ UNCHANGED Promise!vars
        /\ queues[x.slot] # << >> => queues[x.slot][1][1] = x.req[1]
<1>1. /\ x.slot \in Slots /\ x.from \in {"client", "reaper"} /\ x.req \in Items
      /\ \A y \in calls : Coming(y, x.slot) => y = x
      /\ NoneForced(x.slot)
      /\ Releases(x.req) => NoSequence(x.slot)
      /\ ~Releases(x.req) => \A d \in Cids : slotMap[d] = x.slot => d = x.req[1]
      /\ x.from = "client" /\ ~End(x.req) => slotMap[x.req[1]] = x.slot
  BY ComingMeans
<1>2. PICK t \in Slots : t = x.slot
  BY <1>1
<1>3. PICK r \in Items : r = x.req
  BY <1>1
<1>4. BaseType /\ CallsInv /\ queues \in [Slots -> Seq(Items)] /\ Slots' = Slots
      /\ slotMap \in [Cids -> Slots \cup {None}] /\ calls \subseteq CallType
  BY FixedMeans DEF BInv, BaseType
<1>5. PICK q \in Seq(Items) : q = queues[t]
  BY <1>4
<1>6. PICK z : z = Append(q, r)
  OBVIOUS
<1>7. queues'[t] = z /\ \A s \in Slots : s # t => queues'[s] = queues[s]
  BY <1>2, <1>3, <1>4, <1>5, <1>6
<1>8. /\ q # << >> => q[1][1] = r[1]
      /\ z \in Seq(Items) /\ Len(z) = Len(q) + 1 /\ z[Len(z)] = r /\ z # << >>
      /\ \A i \in 1..Len(q) : z[i] = q[i]
      /\ \A i \in 1..Len(z) : i \in 1..Len(q) \/ i = Len(q) + 1
      /\ Numbered(z)
      /\ ~IsNull(z[1]) /\ ~First(z[1]) => JustLeft(t, Before(z[1]))
  <2>1. BInv /\ HistInv /\ SeatInv /\ LineInv /\ x \in calls /\ x.step = "enqueue"
    OBVIOUS
  <2>2. /\ q # << >> => q[1][1] = r[1]
        /\ \A y : y = Append(q, r) =>
             /\ y \in Seq(Items) /\ Len(y) = Len(q) + 1 /\ y[Len(y)] = r /\ y # << >>
             /\ \A i \in 1..Len(q) : y[i] = q[i]
             /\ \A i \in 1..Len(y) : i \in 1..Len(q) \/ i = Len(q) + 1
             /\ Numbered(y)
             /\ ~IsNull(y[1]) /\ ~First(y[1]) => JustLeft(t, Before(y[1]))
    BY ONLY <1>2, <1>3, <1>5, <2>1, AppendedQueue
  <2> QED
    BY ONLY <1>6, <2>2
<1>9. UNCHANGED <<sent, history>> /\ KeepsSessions /\ KeepsFirst
      /\ UNCHANGED <<sessionOf, ran, last>>
  BY SessionsStay DEF SameHistory, history, KeepsSessions
<1>10. \A c \in Cids : Known(c)' <=> Known(c)
  BY DEF Known
<1>11. HistInv' /\ UNCHANGED Promise!vars
  BY <1>9, <1>10, HistStays, Unseen
<1>12. HandInv' /\ \A s \in Slots : KeepsLeft(s)
  BY <1>9, HandsKept
<1>13. /\ \A y \in calls' : \/ y \in calls /\ y # x
                            \/ y.step # "enqueue" /\ y.from = x.from /\ y.req = x.req
       /\ \A y \in calls : y # x => y \in calls'
  BY LeavesMeans
<1>14. ASSUME NEW s \in Slots PROVE QueueLine(s)'
  <2>1. CASE s # t
    BY <1>4, <1>7, <1>9, <1>12, <2>1, QueueLineStays DEF LineInv
  <2>2. CASE s = t
    <3>1. First(z[1])' <=> First(z[1])
      BY <1>9 DEF First
    <3>2. ~IsNull(z[1]) /\ ~First(z[1])' => JustLeft(t, Before(z[1]))'
      BY <1>8, <1>12, <3>1 DEF KeepsLeft
    <3>3. queues'[t] = z /\ Numbered(z)
      BY <1>7, <1>8
    <3> QED
      BY ONLY <2>2, <3>2, <3>3 DEF QueueLine, First, Before, Numbered, IsNull, JustLeft
  <2> QED
    BY <2>1, <2>2
<1>15. ASSUME NEW y \in calls' PROVE CallLine(y)'
  <2>1. CASE y.step # "enqueue" /\ y.from = x.from /\ y.req = x.req
    BY <1>9, <2>1, DoneCallLine DEF LineInv
  <2>2. CASE y \in calls /\ y # x /\ y.step # "enqueue"
    BY <1>9, <2>2, DoneCallLine DEF LineInv
  <2>3. CASE y \in calls /\ y # x /\ y.step = "enqueue"
    <3>1. y.slot # t /\ y.slot \in Slots /\ y.req[1] \in Cids
      BY <1>1, <1>2, <1>4, <2>3 DEF Coming, CallType, Items
    <3>2. queues'[y.slot] = queues[y.slot] /\ KeepsLeft(y.slot) /\ CallLine(y)
      BY <1>7, <1>12, <2>3, <3>1 DEF LineInv
    <3>3. sent'[y.req[1]] = sent[y.req[1]] /\ (Known(y.req[1])' => Known(y.req[1]))
      BY <1>9, <1>10, <3>1
    <3> QED
      BY <1>4, <1>9, <2>3, <3>2, <3>3, CallLineStays
  <2> QED
    BY <1>13, <2>1, <2>2, <2>3
<1>16. (\A f \in forced : OfOwner(f[2], f[1]))'
  <2>1. \A f \in forced : f[2] \in Slots /\ f[2] # t /\ OfOwner(f[2], f[1])
    BY <1>1, <1>2, <1>4 DEF NoneForced, LineInv, BaseType
  <2> QED
    BY <1>7, <2>1 DEF OfOwner
<1>17. ASSUME NEW d \in Cids PROVE TailLine(d)'
  <2>1. CASE slotMap[d] = None
    BY <2>1 DEF TailLine
  <2>2. CASE slotMap[d] # None /\ slotMap[d] # t
    <3>1. slotMap[d] \in Slots
      BY <1>4, <2>2
    <3>2. ~(x.from = "client" /\ x.req[1] = d)
      BY <1>1, <1>2, <2>2 DEF LineInv, CallLine, Known
    <3>3. Calling(d) => Calling(d)'
      BY <1>13, <3>2 DEF Calling
    <3>4. queues'[slotMap[d]] = queues[slotMap[d]] /\ KeepsLeft(slotMap[d])
      BY <1>7, <1>12, <2>2, <3>1
    <3> QED
      BY <1>9, <3>3, <3>4, TailLineStays DEF LineInv
  <2>3. CASE slotMap[d] = t
    <3>1. ~Releases(x.req) /\ d = x.req[1]
      BY <1>1, <1>2, <2>3 DEF NoSequence
    <3>2. x.from = "client"
      BY <1>1, <1>4, <3>1 DEF Releases, CallsInv
    <3>3. r = Latest(d)'
      BY <1>3, <1>9, <3>1, <3>2 DEF LineInv, CallLine, Latest
    <3>4. Lies(t, r)'
      BY <1>7, <1>8 DEF Lies
    <3>5. slotMap'[d] = t
      BY <2>3
    <3> QED
      BY <3>3, <3>4, <3>5 DEF TailLine
  <2> QED
    BY <2>1, <2>2, <2>3
<1>18. (\A k \in 1..Len(backlog) : BacklogLine(backlog[k]))'
  BY <1>4, <1>9, BacklogLinesStay
<1>19. LineInv'
  BY <1>4, <1>14, <1>15, <1>16, <1>17, <1>18 DEF LineInv
<1>20. SeatInv'
  <2> SUFFICES ASSUME NEW p \in Requests PROVE Seat(p)'
    BY DEF SeatInv
  <2>1. \A w : (InHand(p, w)' => InHand(p, w)) /\ (InBacklog(p, w)' => InBacklog(p, w))
    BY <1>4 DEF InHand, InBacklog, SameHands
  <2>2. \A w : InCall(p, w)' => InCall(p, w) /\ (p = r => w # t)
    BY <1>1, <1>2, <1>3, <1>13 DEF InCall, Coming
  <2>3. ASSUME NEW w, InQueue(p, w)' PROVE InQueue(p, w) \/ (p = r /\ w = t)
    <3>1. w \in Slots /\ \E i \in 1..Len(queues'[w]) : queues'[w][i] = p
      BY <1>4, <2>3 DEF InQueue
    <3>2. CASE w # t
      BY <1>7, <3>1, <3>2 DEF InQueue
    <3>3. CASE w = t
      <4>1. PICK i \in 1..Len(z) : z[i] = p
        BY <1>7, <3>1, <3>3
      <4>2. CASE i \in 1..Len(q)
        BY <1>5, <1>8, <3>3, <4>1, <4>2 DEF InQueue
      <4>3. CASE i = Len(q) + 1
        BY <1>8, <3>3, <4>1, <4>3
      <4> QED
        BY <1>8, <4>2, <4>3
    <3> QED
      BY <3>2, <3>3
  <2>4. Seat(p) /\ (Pends(p) => Pends(p)')
    BY <1>9 DEF SeatInv, Pends
  <2>5. CASE p # r
    <3>1. \A k, w : In(p, k, w)' => In(p, k, w)
      BY <2>1, <2>2, <2>3, <2>5 DEF In
    <3> QED
      BY <2>4, <3>1, SeatStays
  <2>6. CASE p = r
    <3>1. InCall(p, t)
      BY <1>2, <1>3, <2>6 DEF InCall, Coming
    <3>2. In(p, "call", t)
      BY <3>1 DEF In
    <3>3. \A k, w : In(p, k, w) => k = "call" /\ w = t
      BY <2>4, <3>2 DEF Seat, OneSeat
    <3>4. \A k, w : In(p, k, w)' => k = "queue" /\ w = t
      <4> SUFFICES ASSUME NEW k, NEW w, In(p, k, w)' PROVE k = "queue" /\ w = t
        OBVIOUS
      <4>1. CASE k = "hand" /\ InHand(p, w)'
        BY <2>1, <3>3, <4>1 DEF In
      <4>2. CASE k = "queue" /\ InQueue(p, w)'
        BY <2>3, <3>3, <4>2 DEF In
      <4>3. CASE k = "call" /\ InCall(p, w)'
        BY <2>2, <2>6, <3>3, <4>3 DEF In
      <4>4. CASE k = "backlog" /\ InBacklog(p, w)'
        BY <2>1, <3>3, <4>4 DEF In
      <4> QED
        BY <4>1, <4>2, <4>3, <4>4 DEF In
    <3>5. Pends(p)'
      BY <2>4, <3>2 DEF Seat
    <3> QED
      <4>1. Only(p, "queue", t)'
        BY <3>4 DEF Only
      <4> QED
        BY <3>5, <4>1, SeatMoved
  <2> QED
    BY <2>5, <2>6
<1> QED
  BY <1>2, <1>3, <1>5, <1>8, <1>11, <1>12, <1>19, <1>20

\* Calls that are not on their way to a queue come and go.
LEMMA QuietCallLines ==
  ASSUME Fixed, BInv, LineInv, QuietCalls, UNCHANGED sent
  PROVE /\ \A y \in calls' : \/ y \in calls /\ y.step = "enqueue"
                             \/ y.step # "enqueue" /\ CallLine(y)'
        /\ \A y \in calls : y.step = "enqueue" => y \in calls'
<1>1. \A y \in calls : y.step # "enqueue" => CallLine(y)'
  BY DoneCallLine DEF LineInv
<1>2. CASE UNCHANGED calls
  BY <1>1, <1>2
<1>3. ASSUME NEW x \in calls, x.step # "enqueue", Leaves(x)
      PROVE /\ \A y \in calls' : \/ y \in calls /\ y.step = "enqueue"
                                 \/ y.step # "enqueue" /\ CallLine(y)'
            /\ \A y \in calls : y.step = "enqueue" => y \in calls'
  <2>1. /\ \A y \in calls' : \/ y \in calls /\ y # x
                             \/ y.step # "enqueue" /\ y.from = x.from /\ y.req = x.req
        /\ \A y \in calls : y # x => y \in calls'
    BY <1>3, LeavesMeans
  <2>2. \A y : y.step # "enqueue" /\ y.from = x.from /\ y.req = x.req => CallLine(y)'
    BY DoneCallLine DEF LineInv
  <2> QED
    BY <1>1, <1>3, <2>1, <2>2
<1>4. ASSUME NEW e \in Slots \X Requests, CalledBack(e)
      PROVE /\ \A y \in calls' : \/ y \in calls /\ y.step = "enqueue"
                                 \/ y.step # "enqueue" /\ CallLine(y)'
            /\ \A y \in calls : y.step = "enqueue" => y \in calls'
  <2>1. PICK z : z = Call("backend", e[2], e[1], "next")
    OBVIOUS
  <2>2. z.from = "backend" /\ z.step = "next" /\ calls' = calls \cup {z}
    BY <1>4, <2>1 DEF Call, CalledBack
  <2>3. CallLine(z)'
    BY <2>2 DEF CallLine
  <2> QED
    BY <1>1, <2>2, <2>3
<1> QED
  BY <1>2, <1>3, <1>4 DEF QuietCalls

\* The batcher of slot t takes r, the first request of its queue, into its
\* hand; or it takes nothing, and r is null.
HandStep(t, r) ==
  /\ \A s \in Slots : s # t => Hand(s)' = Hand(s) /\ corrid'[s] = corrid[s]
  /\ IF IsNull(r) THEN Hand(t)' = Hand(t) /\ (corrid'[t] = corrid[t] \/ Hand(t) = {})
     ELSE /\ queues[t] # << >> /\ r = queues[t][1]
          /\ Hand(t) = {} /\ Hand(t)' = {r} /\ corrid'[t] = r[1]

\* What is taken may run next, and is the last that left the queue.
LEMMA HandStepKeeps ==
  ASSUME Fixed, BInv, HistInv, SeatInv, HandInv, LineInv, SameHistory,
         NEW t \in Slots, NEW r, HandStep(t, r)
  PROVE /\ HandInv'
        /\ \A s \in Slots : s # t \/ IsNull(r) => KeepsLeft(s)
        /\ ~IsNull(r) => JustLeft(t, r)' /\ r \in Requests /\ In(r, "queue", t)
<1>1. UNCHANGED <<sent, sessionOf, ran, last>> /\ KeepsSessions /\ Slots' = Slots
  BY FixedMeans DEF SameHistory, KeepsSessions
<1>2. ASSUME NEW s \in Slots, s # t PROVE HandOf(s)' /\ KeepsLeft(s)
  <2>1. Hand(s)' = Hand(s) /\ corrid'[s] = corrid[s]
    BY <1>2 DEF HandStep
  <2> QED
    BY <1>1, <2>1, HandOfStays, LeftStays DEF HandInv
<1>3. CASE IsNull(r)
  <2>1. Hand(t)' = Hand(t) /\ (corrid'[t] = corrid[t] \/ Hand(t) = {})
    BY <1>3 DEF HandStep
  <2>2. KeepsLeft(t)
    BY <1>1, <2>1, LeftStays
  <2>3. HandOf(t)'
    <3>1. CASE corrid'[t] = corrid[t]
      BY <1>1, <2>1, <3>1, HandOfStays DEF HandInv
    <3>2. CASE Hand(t) = {}
      BY <2>1, <3>2 DEF HandOf
    <3> QED
      BY <2>1, <3>1, <3>2
  <2> QED
    BY <1>1, <1>2, <1>3, <2>2, <2>3 DEF HandInv
<1>4. CASE ~IsNull(r)
  <2>1. /\ queues[t] # << >> /\ r = queues[t][1]
        /\ Hand(t) = {} /\ Hand(t)' = {r} /\ corrid'[t] = r[1]
    BY <1>4 DEF HandStep
  <2>2. queues[t] \in Seq(Items) /\ BaseType
    BY DEF BInv, BaseType
  <2>3. r \in Items /\ 1 \in 1..Len(queues[t])
    BY <2>1, <2>2
  <2>4. r \in Requests
    BY <1>4, <2>2, <2>3, FlagsFit DEF BaseType
  <2>5. InQueue(r, t)
    BY <2>1, <2>3 DEF InQueue
  <2>6. In(r, "queue", t)
    BY <2>5 DEF In
  <2>7. sessionOf[r] # None
    BY <2>4, <2>6 DEF SeatInv, Seat, Pends
  <2>8. ~First(r) => JustLeft(t, Before(r))
    BY <1>4, <2>1 DEF LineInv, QueueLine
  <2>9. ~First(r) => Before(r) \in ran /\ last[t] = sessionOf[r]
    BY <2>1, <2>4, <2>7, <2>8 DEF JustLeft, HistInv, SessionsInv
  <2>10. HandOf(t)'
    BY <1>1, <2>1, <2>9 DEF HandOf, First, Before
  <2>11. JustLeft(t, r)'
    BY <2>1 DEF JustLeft
  <2> QED
    BY <1>1, <1>2, <1>4, <2>4, <2>6, <2>10, <2>11 DEF HandInv
<1> QED
  BY <1>3, <1>4

Untouched(s) == queues'[s] = queues[s] /\ KeepsLeft(s)

\* What a step at slot t does not touch.
LEMMA SlotStep ==
  ASSUME Fixed, BInv, HistInv, SeatInv, HandInv, LineInv, SameHistory, QuietCalls,
         NEW t \in Slots, NEW r, HandStep(t, r), UNCHANGED forced,
         \A s \in Slots : s # t => queues'[s] = queues[s],
         \A c \in Cids : Known(c)' <=> Known(c)
  PROVE /\ HistInv' /\ HandInv' /\ UNCHANGED Promise!vars
        /\ \A s \in Slots : s # t => Untouched(s)
        /\ \A s \in Slots : Untouched(s) => QueueLine(s)'
        /\ \A y \in calls' : y.step # "enqueue" \/ Untouched(y.slot) => CallLine(y)'
        /\ \A d \in Cids : /\ slotMap'[d] = slotMap[d]
                           /\ slotMap[d] # None => Untouched(slotMap[d])
                           => TailLine(d)'
<1>1. HandInv' /\ \A s \in Slots : s # t \/ IsNull(r) => KeepsLeft(s)
  BY HandStepKeeps
<1>2. UNCHANGED <<sent, history>> /\ KeepsSessions /\ KeepsFirst
  BY SessionsStay DEF SameHistory, history, KeepsSessions
<1>3. HistInv' /\ UNCHANGED Promise!vars
  BY <1>2, HistStays, Unseen
<1>4. BaseType /\ CallsInv /\ calls \subseteq CallType
  BY DEF BInv, BaseType
<1>5. \A s \in Slots : s # t => Untouched(s)
  BY <1>1 DEF Untouched
<1>6. \A s \in Slots : Untouched(s) => QueueLine(s)'
  BY <1>2, <1>4, QueueLineStays DEF Untouched, LineInv
<1>7. /\ \A y \in calls' : \/ y \in calls /\ y.step = "enqueue"
                           \/ y.step # "enqueue" /\ CallLine(y)'
      /\ \A y \in calls : y.step = "enqueue" => y \in calls'
  BY <1>2, QuietCallLines
<1>8. ASSUME NEW y \in calls', y.step # "enqueue" \/ Untouched(y.slot) PROVE CallLine(y)'
  <2>1. CASE y.step # "enqueue"
    BY <1>7, <2>1
  <2>2. CASE y \in calls /\ y.step = "enqueue" /\ Untouched(y.slot)
    <3>1. y.req[1] \in Cids
      BY <1>4, <2>2 DEF CallType, Items
    <3>2. queues'[y.slot] = queues[y.slot] /\ KeepsLeft(y.slot) /\ CallLine(y)
      BY <2>2 DEF Untouched, LineInv
    <3>3. sent'[y.req[1]] = sent[y.req[1]] /\ (Known(y.req[1])' => Known(y.req[1]))
      BY <1>2, <3>1
    <3> QED
      BY <1>2, <1>4, <2>2, <3>2, <3>3, CallLineStays
  <2> QED
    BY <1>7, <1>8, <2>1, <2>2
<1>9. ASSUME NEW d \in Cids, slotMap'[d] = slotMap[d],
             slotMap[d] # None => Untouched(slotMap[d])
      PROVE TailLine(d)'
  <2>1. Calling(d) => Calling(d)'
    BY <1>7 DEF Calling
  <2> QED
    BY <1>2, <1>9, <2>1, TailLineStays DEF LineInv, Untouched
<1> QED
  BY <1>1, <1>3, <1>5, <1>6, <1>8, <1>9

\* The seats that a step at slot t does not touch.
LEMMA SlotSeats ==
  ASSUME Fixed, BInv, LineInv, SameHistory, QuietCalls,
         NEW t \in Slots, NEW r, HandStep(t, r),
         \A s \in Slots : s # t => queues'[s] = queues[s]
  PROVE \A p \in Requests :
          /\ \A w : InCall(p, w)' => InCall(p, w)
          /\ \A w : InHand(p, w)' => InHand(p, w) \/ (p = r /\ w = t /\ ~IsNull(r))
          /\ \A w : w # t /\ InQueue(p, w)' => InQueue(p, w)
          /\ Pends(p) => Pends(p)'
<1> SUFFICES ASSUME NEW p \in Requests
             PROVE /\ \A w : InCall(p, w)' => InCall(p, w)
                   /\ \A w : InHand(p, w)' => InHand(p, w) \/ (p = r /\ w = t /\ ~IsNull(r))
                   /\ \A w : w # t /\ InQueue(p, w)' => InQueue(p, w)
                   /\ Pends(p) => Pends(p)'
  OBVIOUS
<1>1. Slots' = Slots /\ UNCHANGED <<sent, sessionOf, ran>>
  BY FixedMeans DEF SameHistory
<1>2. \A y \in calls' : y \in calls \/ y.step # "enqueue"
  BY <1>1, QuietCallLines
<1>3. \A w : InCall(p, w)' => InCall(p, w)
  BY <1>2 DEF InCall, Coming
<1>4. \A w : InHand(p, w)' => InHand(p, w) \/ (p = r /\ w = t /\ ~IsNull(r))
  BY <1>1 DEF InHand, HandStep
<1>5. \A w : w # t /\ InQueue(p, w)' => InQueue(p, w)
  BY <1>1 DEF InQueue
<1>6. Pends(p) => Pends(p)'
  BY <1>1 DEF Pends
<1> QED
  BY <1>3, <1>4, <1>5, <1>6

\* A step that changes no queue, map or history.
LEMMA QuietLines ==
  ASSUME Fixed, BInv, HistInv, SeatInv, HandInv, LineInv, SameHistory, QuietCalls,
         NEW t \in Slots, NEW r, IsNull(r), HandStep(t, r),
         UNCHANGED <<forced, queues, slotMap, backlogMap, backlog>>
  PROVE HistInv' /\ SeatInv' /\ HandInv' /\ LineInv' /\ UNCHANGED Promise!vars
<1>1. \A c \in Cids : Known(c)' <=> Known(c)
  BY DEF Known
<1>2. /\ \A s \in Slots : s # t => queues'[s] = queues[s]
      /\ Slots' = Slots /\ BaseType /\ CallsInv
  BY FixedMeans DEF BInv
<1>3. /\ HistInv' /\ HandInv' /\ UNCHANGED Promise!vars
      /\ \A s \in Slots : Untouched(s) => QueueLine(s)'
      /\ \A y \in calls' : y.step # "enqueue" \/ Untouched(y.slot) => CallLine(y)'
      /\ \A d \in Cids : /\ slotMap'[d] = slotMap[d]
                         /\ slotMap[d] # None => Untouched(slotMap[d])
                         => TailLine(d)'
  BY <1>1, <1>2, SlotStep
<1>4. \A s \in Slots : Untouched(s)
  BY HandStepKeeps DEF Untouched
<1>5. \A y \in calls' : y.step = "enqueue" => y.slot \in Slots
  <2>1. UNCHANGED sent /\ calls \subseteq CallType
    BY <1>2 DEF SameHistory, BaseType
  <2>2. \A y \in calls' : y.step = "enqueue" => y \in calls
    BY <2>1, QuietCallLines
  <2> QED
    BY <2>1, <2>2 DEF CallType
<1>6. (\A f \in forced : OfOwner(f[2], f[1]))'
  BY DEF LineInv, OfOwner
<1>7. (\A k \in 1..Len(backlog) : BacklogLine(backlog[k]))'
  BY <1>2, BacklogLinesStay DEF SameHistory
<1>8. \A d \in Cids : slotMap[d] # None => slotMap[d] \in Slots
  BY <1>2 DEF BaseType
<1>9. LineInv'
  BY <1>2, <1>3, <1>4, <1>5, <1>6, <1>7, <1>8 DEF LineInv
<1>10. SeatInv'
  <2> SUFFICES ASSUME NEW p \in Requests PROVE Seat(p)'
    BY DEF SeatInv
  <2>1. /\ \A w : (InCall(p, w)' => InCall(p, w)) /\ (InHand(p, w)' => InHand(p, w))
        /\ Pends(p) => Pends(p)'
    BY <1>2, SlotSeats
  <2>2. \A w : (InQueue(p, w)' => InQueue(p, w)) /\ (InBacklog(p, w)' => InBacklog(p, w))
    BY <1>2 DEF InQueue, InBacklog
  <2>3. \A k, w : In(p, k, w)' => In(p, k, w)
    BY <2>1, <2>2 DEF In
  <2> QED
    BY <2>1, <2>3, SeatStays DEF SeatInv
<1> QED
  BY <1>3, <1>9, <1>10

\* What is left of queue q when its first request r is taken.
Popped(z, q, r) ==
  /\ z \in Seq(Items) /\ Len(z) = Len(q) - 1
  /\ \A i \in 1..Len(z) : z[i] = q[i + 1] /\ i + 1 \in 1..Len(q)
  /\ \A i \in 1..Len(z) : z[i] # r
  /\ Numbered(z)
  /\ z # << >> => z[1][1] = r[1] /\ (~IsNull(z[1]) => Before(z[1]) = r)
  /\ IF z = << >> THEN q[Len(q)] = r ELSE z[Len(z)] = q[Len(q)]

\* The queue without its first request r, which does not release the slot.
LEMMA PoppedQueue ==
  ASSUME BInv, LineInv, NEW t \in Slots, NEW q \in Seq(Items), q = queues[t], q # << >>,
         NEW r \in Requests, r = q[1], NEW z, z = Tail(q)
  PROVE Popped(z, q, r)
<1>1. /\ z \in Seq(Items) /\ Len(z) = Len(q) - 1 /\ Len(q) \in Nat /\ Len(q) >= 1
      /\ \A i \in 1..Len(z) : z[i] = q[i + 1] /\ i + 1 \in 1..Len(q)
  BY HeadTailProperties
<1>2. Numbered(q) /\ BaseType /\ Own(t)
  BY DEF LineInv, QueueLine, BInv, OwnInv
<1>3. r[1] \in Cids /\ r[2] \in Nat /\ r[2] >= 1 /\ r = <<r[1], r[2]>> /\ ~IsNull(r)
  BY RequestFacts
<1>4. \A i \in 1..Len(z) : z[i][1] = r[1] /\ (~IsNull(z[i]) => z[i][2] = r[2] + i)
  <2> SUFFICES ASSUME NEW i \in 1..Len(z)
               PROVE z[i][1] = r[1] /\ (~IsNull(z[i]) => z[i][2] = r[2] + i)
    OBVIOUS
  <2>1. z[i] = q[i + 1] /\ i + 1 \in 1..Len(q) /\ i \in Nat
    BY <1>1
  <2>2. q[i + 1][1] = r[1] /\ (~IsNull(q[i + 1]) => q[i + 1][2] = r[2] + ((i + 1) - 1))
    BY <1>2, <2>1 DEF Numbered
  <2> QED
    BY <1>3, <2>1, <2>2
<1>5. \A i \in 1..Len(z) : z[i] # r
  <2> SUFFICES ASSUME NEW i \in 1..Len(z), z[i] = r PROVE FALSE
    OBVIOUS
  <2>1. r[2] = r[2] + i /\ i \in Nat /\ i >= 1
    BY <1>1, <1>3, <1>4
  <2> QED
    BY ONLY <1>3, <2>1
<1>6. \A k \in 1..Len(q) : k < Len(q) => ~Releases(q[k])
  BY <1>2 DEF Own, NoneQueued, LastQueued
<1>7. z # << >> => 1 \in 1..Len(z) /\ Len(z) \in 1..Len(z)
  BY <1>1
<1>8. Numbered(z)
  <2> SUFFICES ASSUME NEW i \in 1..Len(z)
               PROVE z[i][1] = z[1][1] /\ (~IsNull(z[i]) => z[i][2] = z[1][2] + (i - 1))
    BY DEF Numbered
  <2>1. 1 \in 1..Len(z) /\ i \in Nat /\ i >= 1
    BY <1>1
  <2>2. z[i][1] = z[1][1]
    BY <1>4, <2>1
  <2>3. CASE IsNull(z[1])
    <3>1. z[1] = q[2] /\ 2 \in 1..Len(q) /\ Releases(q[2])
      BY <1>1, <2>1, <2>3 DEF Releases
    <3>2. Len(q) <= 2
      BY <1>1, <1>6, <3>1
    <3>3. i = 1
      BY <1>1, <3>2
    <3> QED
      BY <2>2, <2>3, <3>3
  <2>4. CASE ~IsNull(z[1])
    <3>1. z[1][2] = r[2] + 1 /\ (~IsNull(z[i]) => z[i][2] = r[2] + i)
      BY <1>4, <2>1, <2>4
    <3>2. r[2] + i = (r[2] + 1) + (i - 1)
      BY ONLY <1>3, <2>1
    <3> QED
      BY <2>2, <3>1, <3>2
  <2> QED
    BY <2>3, <2>4
<1>9. z # << >> => z[1][1] = r[1] /\ (~IsNull(z[1]) => Before(z[1]) = r)
  <2> SUFFICES ASSUME z # << >> PROVE z[1][1] = r[1] /\ (~IsNull(z[1]) => Before(z[1]) = r)
    OBVIOUS
  <2>1. z[1][1] = r[1] /\ (~IsNull(z[1]) => z[1][2] = r[2] + 1)
    BY <1>4, <1>7
  <2>2. (r[2] + 1) - 1 = r[2]
    BY ONLY <1>3
  <2> QED
    BY <1>3, <2>1, <2>2 DEF Before
<1>10. IF z = << >> THEN q[Len(q)] = r ELSE z[Len(z)] = q[Len(q)]
  <2>1. CASE z = << >>
    <3>1. Len(z) = 0
      BY ONLY <2>1
    <3>2. Len(q) \in Nat /\ Len(q) - 1 = 0
      BY <1>1, <3>1
    <3>3. Len(q) = 1
      BY ONLY <3>2
    <3> QED
      BY <2>1, <3>3
  <2>2. CASE z # << >>
    <3>1. z[Len(z)] = q[Len(z) + 1] /\ Len(z) + 1 = Len(q)
      BY <1>1, <1>7, <2>2
    <3> QED
      BY <2>2, <3>1
  <2> QED
    BY <2>1, <2>2
<1> QED
  BY <1>1, <1>5, <1>8, <1>9, <1>10 DEF Popped

\* The first request of a queue is taken, and the slot is not released.
LEMMA PopLines ==
  ASSUME Fixed, BInv, HistInv, SeatInv, HandInv, LineInv, SameHistory, QuietCalls,
         NEW t \in Slots, NEW r, HandStep(t, r), ~IsNull(r),
         queues' = [queues EXCEPT ![t] = Tail(@)],
         UNCHANGED <<forced, slotMap, backlogMap, backlog>>
  PROVE HistInv' /\ SeatInv' /\ HandInv' /\ LineInv' /\ UNCHANGED Promise!vars
<1>1. \A c \in Cids : Known(c)' <=> Known(c)
  BY DEF Known
<1>2. /\ Slots' = Slots /\ BaseType /\ CallsInv /\ queues \in [Slots -> Seq(Items)]
      /\ calls \subseteq CallType /\ UNCHANGED <<sent, sessionOf>>
      /\ slotMap \in [Cids -> Slots \cup {None}]
  BY FixedMeans DEF BInv, BaseType, SameHistory
<1>3. PICK q \in Seq(Items) : q = queues[t]
  BY <1>2
<1>4. PICK z : z = Tail(q)
  OBVIOUS
<1>5. queues'[t] = z /\ \A s \in Slots : s # t => queues'[s] = queues[s]
  BY <1>2, <1>3, <1>4
<1>6. JustLeft(t, r)' /\ r \in Requests /\ In(r, "queue", t) /\ q # << >> /\ r = q[1]
  BY <1>3, HandStepKeeps DEF HandStep
<1>7. /\ z \in Seq(Items) /\ Len(z) = Len(q) - 1
      /\ \A i \in 1..Len(z) : z[i] = q[i + 1] /\ i + 1 \in 1..Len(q)
      /\ \A i \in 1..Len(z) : z[i] # r
      /\ Numbered(z)
      /\ z # << >> => z[1][1] = r[1] /\ (~IsNull(z[1]) => Before(z[1]) = r)
      /\ IF z = << >> THEN q[Len(q)] = r ELSE z[Len(z)] = q[Len(q)]
  <2>1. BInv /\ LineInv
    OBVIOUS
  <2>2. Popped(z, q, r)
    BY ONLY <1>3, <1>4, <1>6, <2>1, PoppedQueue
  <2> QED
    BY <2>2 DEF Popped
<1>8. /\ HistInv' /\ HandInv' /\ UNCHANGED Promise!vars
      /\ \A s \in Slots : s # t => Untouched(s)
      /\ \A s \in Slots : Untouched(s) => QueueLine(s)'
      /\ \A y \in calls' : y.step # "enqueue" \/ Untouched(y.slot) => CallLine(y)'
      /\ \A d \in Cids : /\ slotMap'[d] = slotMap[d]
                         /\ slotMap[d] # None => Untouched(slotMap[d])
                         => TailLine(d)'
  BY <1>1, <1>5, SlotStep
<1>9. QueueLine(t)'
  <2>1. z # << >> /\ ~IsNull(z[1]) => JustLeft(t, Before(z[1]))'
    BY <1>6, <1>7
  <2>2. queues'[t] = z /\ Numbered(z)
    BY <1>5, <1>7
  <2> QED
    BY ONLY <2>1, <2>2 DEF QueueLine, First, Before, Numbered, IsNull, JustLeft
<1>10. ASSUME NEW p, Lies(t, p) PROVE Lies(t, p)'
  <2>1. p = q[Len(q)]
    BY <1>3, <1>6, <1>10 DEF Lies
  <2>2. CASE z = << >>
    BY <1>5, <1>6, <1>7, <2>1, <2>2 DEF Lies
  <2>3. CASE z # << >>
    BY <1>5, <1>7, <2>1, <2>3 DEF Lies
  <2> QED
    BY <2>2, <2>3
<1>11. \A c : OfOwner(t, c) => OfOwner(t, c)'
  <2>1. \A c : OfOwner(t, c) => c = r[1]
    BY <1>3, <1>6 DEF OfOwner
  <2>2. OfOwner(t, r[1])'
    BY <1>5, <1>7 DEF OfOwner
  <2> QED
    BY <2>1, <2>2
<1>12. /\ \A y \in calls' : y \in calls \/ y.step # "enqueue"
       /\ \A y \in calls : y.step = "enqueue" => y \in calls'
  BY <1>2, QuietCallLines
<1>13. ASSUME NEW y \in calls' PROVE CallLine(y)'
  <2>1. CASE y.step # "enqueue" \/ Untouched(y.slot)
    BY <1>8, <2>1
  <2>2. CASE y.step = "enqueue" /\ ~Untouched(y.slot)
    <3>1. y \in calls /\ y.slot \in Slots /\ y.req[1] \in Cids
      BY <1>2, <1>12, <2>2 DEF CallType, Items
    <3>2. y.slot = t /\ CallLine(y)
      BY <1>8, <2>2, <3>1 DEF LineInv
    <3>3. y.from = "client" => y.req = Latest(y.req[1])'
      BY <1>2, <3>2 DEF CallLine, Latest
    <3>4. y.from = "client" => ~First(y.req) /\ Lies(t, Before(y.req))
      BY <1>3, <1>6, <2>2, <3>2 DEF CallLine
    <3>5. y.from = "client" => ~First(y.req)' /\ Lies(t, Before(y.req))'
      BY <1>2, <1>10, <3>4 DEF First
    <3>6. y.from = "client" => (End(y.req)' => ~Known(y.req[1])')
      BY <1>1, <2>2, <3>1, <3>2, FixedMeans DEF CallLine
    <3>7. y.from = "reaper" => OfOwner(t, y.req[1])'
      BY <1>11, <2>2, <3>2 DEF CallLine
    <3> QED
      BY ONLY <2>2, <3>2, <3>3, <3>5, <3>6, <3>7 DEF CallLine, First, Before
  <2> QED
    BY <2>1, <2>2
<1>14. (\A f \in forced : OfOwner(f[2], f[1]))'
  <2>1. \A f \in forced : f[2] \in Slots /\ OfOwner(f[2], f[1])
    BY <1>2 DEF LineInv, BaseType
  <2>2. ASSUME NEW f \in forced PROVE OfOwner(f[2], f[1])'
    <3>1. CASE f[2] = t
      BY <1>11, <2>1, <3>1
    <3>2. CASE f[2] # t
      BY <1>5, <2>1, <3>2 DEF OfOwner
    <3> QED
      BY <3>1, <3>2
  <2> QED
    BY <2>2
<1>15. ASSUME NEW d \in Cids PROVE TailLine(d)'
  <2>1. CASE slotMap[d] # t
    BY <1>2, <1>8, <2>1
  <2>2. CASE slotMap[d] = t
    <3>1. CASE Calling(d)
      BY <1>12, <3>1 DEF TailLine, Calling
    <3>2. CASE ~Calling(d)
      <4>1. PICK p : p = Latest(d)
        OBVIOUS
      <4>2. Lies(t, p)
        BY <1>2, <2>2, <3>2, <4>1, FlagsFit DEF LineInv, TailLine, BaseType
      <4>3. Lies(t, p)' /\ p = Latest(d)' /\ slotMap'[d] = t
        BY <1>2, <1>10, <2>2, <4>1, <4>2 DEF Latest
      <4> QED
        BY <4>3 DEF TailLine
    <3> QED
      BY <3>1, <3>2
  <2> QED
    BY <2>1, <2>2
<1>16. (\A k \in 1..Len(backlog) : BacklogLine(backlog[k]))'
  BY <1>2, BacklogLinesStay
<1>17. \A s \in Slots : QueueLine(s)'
  BY <1>8, <1>9
<1>18. LineInv'
  BY <1>2, <1>13, <1>14, <1>15, <1>16, <1>17 DEF LineInv
<1>19. SeatInv'
  <2> SUFFICES ASSUME NEW p \in Requests PROVE Seat(p)'
    BY DEF SeatInv
  <2>1. /\ \A w : (InCall(p, w)' => InCall(p, w))
        /\ \A w : InHand(p, w)' => InHand(p, w) \/ (p = r /\ w = t /\ ~IsNull(r))
        /\ \A w : w # t /\ InQueue(p, w)' => InQueue(p, w)
        /\ Pends(p) => Pends(p)'
    BY <1>5, SlotSeats
  <2>2. InQueue(p, t)' => InQueue(p, t) /\ p # r
    BY <1>2, <1>3, <1>5, <1>7 DEF InQueue
  <2>3. \A w : InBacklog(p, w)' => InBacklog(p, w)
    BY DEF InBacklog
  <2>4. CASE p # r
    <3>1. \A k, w : In(p, k, w)' => In(p, k, w)
      BY <2>1, <2>2, <2>3, <2>4 DEF In
    <3> QED
      BY <2>1, <3>1, SeatStays DEF SeatInv
  <2>5. CASE p = r
    <3>1. Only(p, "queue", t) /\ Pends(p)
      BY <1>6, <2>5 DEF SeatInv, Seat, OneSeat, Only
    <3>2. Only(p, "hand", t)'
      <4> SUFFICES ASSUME NEW k, NEW w, In(p, k, w)' PROVE k = "hand" /\ w = t
        BY DEF Only
      <4>1. CASE k = "hand" /\ InHand(p, w)'
        BY <2>1, <3>1, <4>1 DEF In, Only
      <4>2. CASE k = "queue" /\ InQueue(p, w)'
        <5>1. w # t
          BY <2>2, <2>5, <4>2
        <5>2. In(p, "queue", w)
          BY <2>1, <4>2, <5>1 DEF In
        <5> QED
          BY <3>1, <5>1, <5>2 DEF Only
      <4>3. CASE k = "call" /\ InCall(p, w)'
        BY <2>1, <3>1, <4>3 DEF In, Only
      <4>4. CASE k = "backlog" /\ InBacklog(p, w)'
        BY <2>3, <3>1, <4>4 DEF In, Only
      <4> QED
        BY <4>1, <4>2, <4>3, <4>4 DEF In
    <3> QED
      BY <2>1, <3>1, <3>2, SeatMoved
  <2> QED
    BY <2>4, <2>5
<1> QED
  BY <1>8, <1>18, <1>19

\* Nobody has a slot but the request at the front of its queue that releases
\* it.
LEMMA VacantMeans ==
  ASSUME BInv, NEW t \in Slots, queues[t] # << >>, Releases(queues[t][1])
  PROVE /\ Tail(queues[t]) = << >> /\ NoSequence(t) /\ NoneForced(t)
        /\ \A y \in calls : ~Coming(y, t)
<1>1. PICK q \in Seq(Items) : q = queues[t]
  BY DEF BInv, BaseType
<1>2. Len(q) \in Nat /\ Len(q) > 0 /\ 1 \in 1..Len(q) /\ Releases(q[1])
  BY <1>1
<1>3. ~NoneQueued(t)
  BY <1>1, <1>2 DEF NoneQueued
<1>4. NoSequence(t) /\ LastQueued(t) /\ NoneForced(t)
  <2>1. Own(t)
    BY DEF BInv, OwnInv
  <2> QED
    BY <1>3, <2>1 DEF Own
<1>5. \A y \in calls : ~Coming(y, t)
  BY <1>3, ComingMeans DEF Coming
<1>6. Tail(q) = << >>
  <2>1. \A k \in 1..Len(q) : k < Len(q) => ~Releases(q[k])
    BY <1>1, <1>4 DEF LastQueued
  <2>2. Len(q) <= 1
    BY <1>2, <2>1
  <2>3. Len(q) = 1
    <3>1. Len(q) \in Nat /\ Len(q) > 0
      BY <1>2
    <3> QED
      BY ONLY <3>1, <2>2
  <2>4. q \in Seq(Items) /\ q # << >>
    BY <1>1
  <2>5. Len(Tail(q)) = 0 /\ Tail(q) \in Seq(Items)
    BY ONLY <2>3, <2>4, HeadTailProperties
  <2> QED
    BY ONLY <2>5, EmptySeq
<1> QED
  BY <1>1, <1>4, <1>5, <1>6

\* Slot t goes to the queue g of the backlog, if there is one.
NextUp(t, g) ==
  /\ \A c \in Cids : Known(c)' <=> Known(c)
  /\ QueueLine(t)'
  /\ \A c \in Cids : \/ slotMap'[c] = slotMap[c]
                     \/ slotMap'[c] = t /\ \A p : p = Latest(c) => Lies(t, p)'
  /\ (\A k \in 1..Len(backlog) : BacklogLine(backlog[k]))'
  /\ \A p \in Requests : InQueue(p, t)' => InBacklog(p, g)
  /\ \A p \in Requests : \A w : InBacklog(p, w)' => InBacklog(p, w) /\ w # g

\* The slot is released.
LEMMA VacatedLines ==
  ASSUME Fixed, BInv, HistInv, SeatInv, HandInv, LineInv, SameHistory, QuietCalls,
         NEW t \in Slots, NEW r, HandStep(t, r), queues[t] # << >>, r = queues[t][1],
         Releases(r), UNCHANGED forced,
         \A s \in Slots : s # t => queues'[s] = queues[s],
         NEW g, NextUp(t, g)
  PROVE HistInv' /\ SeatInv' /\ HandInv' /\ LineInv' /\ UNCHANGED Promise!vars
<1>1. /\ Slots' = Slots /\ BaseType /\ calls \subseteq CallType /\ UNCHANGED <<sent, sessionOf>>
      /\ slotMap \in [Cids -> Slots \cup {None}] /\ None \notin Slots
  BY FixedMeans, FlagsFit DEF BInv, BaseType, SameHistory
<1>2. NoSequence(t) /\ NoneForced(t) /\ \A y \in calls : ~Coming(y, t)
  BY VacantMeans
<1>3. \A c \in Cids : Known(c)' <=> Known(c)
  BY DEF NextUp
<1>4. /\ HistInv' /\ HandInv' /\ UNCHANGED Promise!vars
      /\ \A s \in Slots : s # t => Untouched(s)
      /\ \A s \in Slots : Untouched(s) => QueueLine(s)'
      /\ \A y \in calls' : y.step # "enqueue" \/ Untouched(y.slot) => CallLine(y)'
      /\ \A d \in Cids : /\ slotMap'[d] = slotMap[d]
                         /\ slotMap[d] # None => Untouched(slotMap[d])
                         => TailLine(d)'
  BY <1>3, SlotStep
<1>5. \A y \in calls' : y \in calls \/ y.step # "enqueue"
  BY <1>1, QuietCallLines
<1>6. \A y \in calls' : CallLine(y)'
  <2>1. \A y \in calls' : y.step = "enqueue" => y.slot \in Slots /\ y.slot # t
    BY <1>1, <1>2, <1>5 DEF CallType, Coming
  <2> QED
    BY <1>4, <2>1
<1>7. (\A f \in forced : OfOwner(f[2], f[1]))'
  <2>1. \A f \in forced : f[2] \in Slots /\ f[2] # t /\ OfOwner(f[2], f[1])
    BY <1>1, <1>2 DEF LineInv, BaseType, NoneForced
  <2> QED
    BY <2>1 DEF OfOwner
<1>8. ASSUME NEW d \in Cids PROVE TailLine(d)'
  <2>1. CASE slotMap'[d] = slotMap[d]
    BY <1>1, <1>2, <1>4, <2>1 DEF NoSequence
  <2>2. CASE slotMap'[d] = t /\ \A p : p = Latest(d) => Lies(t, p)'
    <3>1. PICK p : p = Latest(d)
      OBVIOUS
    <3>2. Lies(t, p)' /\ p = Latest(d)' /\ slotMap'[d] = t
      BY <1>1, <2>2, <3>1 DEF Latest
    <3> QED
      BY <3>2 DEF TailLine
  <2> QED
    BY <2>1, <2>2 DEF NextUp
<1>9. \A s \in Slots : QueueLine(s)'
  BY <1>4 DEF NextUp
<1>10. LineInv'
  BY <1>1, <1>6, <1>7, <1>8, <1>9 DEF LineInv, NextUp
<1>11. SeatInv'
  <2> SUFFICES ASSUME NEW p \in Requests PROVE Seat(p)'
    BY DEF SeatInv
  <2>1. /\ \A w : (InCall(p, w)' => InCall(p, w))
        /\ \A w : InHand(p, w)' => InHand(p, w) \/ (p = r /\ w = t /\ ~IsNull(r))
        /\ \A w : w # t /\ InQueue(p, w)' => InQueue(p, w)
        /\ Pends(p) => Pends(p)'
    BY SlotSeats
  <2>2. /\ InQueue(p, t)' => InBacklog(p, g)
        /\ \A w : InBacklog(p, w)' => InBacklog(p, w) /\ w # g
    BY DEF NextUp
  <2>3. Seat(p)
    BY DEF SeatInv
  <2>4. CASE InBacklog(p, g)
    <3>1. In(p, "backlog", g)
      BY <2>4 DEF In
    <3>2. Only(p, "backlog", g) /\ Pends(p)
      BY <2>3, <3>1 DEF Seat, OneSeat, Only
    <3>3. ~IsNull(r) => p # r
      <4>1. ~IsNull(r) => In(r, "queue", t)
        BY HandStepKeeps
      <4> QED
        BY <3>2, <4>1 DEF Only
    <3>4. Only(p, "queue", t)'
      <4> SUFFICES ASSUME NEW k, NEW w, In(p, k, w)' PROVE k = "queue" /\ w = t
        BY DEF Only
      <4>1. CASE k = "hand" /\ InHand(p, w)'
        BY <2>1, <3>2, <3>3, <4>1 DEF In, Only
      <4>2. CASE k = "queue" /\ InQueue(p, w)'
        <5>1. w # t => In(p, "queue", w)
          BY <2>1, <4>2 DEF In
        <5> QED
          BY <3>2, <4>2, <5>1 DEF Only
      <4>3. CASE k = "call" /\ InCall(p, w)'
        BY <2>1, <3>2, <4>3 DEF In, Only
      <4>4. CASE k = "backlog" /\ InBacklog(p, w)'
        BY <2>2, <3>2, <4>4 DEF In, Only
      <4> QED
        BY <4>1, <4>2, <4>3, <4>4 DEF In
    <3> QED
      BY <2>1, <3>2, <3>4, SeatMoved
  <2>5. CASE ~InBacklog(p, g) /\ ~(p = r /\ ~IsNull(r))
    <3>1. \A w : InQueue(p, w)' => InQueue(p, w)
      BY <2>1, <2>2, <2>5
    <3>2. \A k, w : In(p, k, w)' => In(p, k, w)
      BY <2>1, <2>2, <2>5, <3>1 DEF In
    <3> QED
      BY <2>1, <2>3, <3>2, SeatStays
  <2>6. CASE ~InBacklog(p, g) /\ p = r /\ ~IsNull(r)
    <3>1. In(p, "queue", t)
      BY <2>6, HandStepKeeps
    <3>2. Only(p, "queue", t) /\ Pends(p)
      BY <2>3, <3>1 DEF Seat, OneSeat, Only
    <3>3. Only(p, "hand", t)'
      <4> SUFFICES ASSUME NEW k, NEW w, In(p, k, w)' PROVE k = "hand" /\ w = t
        BY DEF Only
      <4>1. CASE k = "hand" /\ InHand(p, w)'
        BY <2>1, <3>2, <4>1 DEF In, Only
      <4>2. CASE k = "queue" /\ InQueue(p, w)'
        <5>1. w # t
          BY <2>2, <2>6, <4>2
        <5>2. In(p, "queue", w)
          BY <2>1, <4>2, <5>1 DEF In
        <5> QED
          BY <3>2, <5>1, <5>2 DEF Only
      <4>3. CASE k = "call" /\ InCall(p, w)'
        BY <2>1, <3>2, <4>3 DEF In, Only
      <4>4. CASE k = "backlog" /\ InBacklog(p, w)'
        BY <2>2, <3>2, <4>4 DEF In, Only
      <4> QED
        BY <4>1, <4>2, <4>3, <4>4 DEF In
    <3> QED
      BY <2>1, <3>2, <3>3, SeatMoved
  <2> QED
    BY <2>4, <2>5, <2>6
<1> QED
  BY <1>4, <1>10, <1>11

\* A slot that nobody waits for becomes ready.
LEMMA FreedLines ==
  ASSUME Fixed, BInv, LineInv, SameHistory, NEW t \in Slots, queues[t] # << >>,
         Releases(queues[t][1]), ReleaseSequenceSlot(t), backlog = << >>,
         queues' = [queues EXCEPT ![t] = ReleasedQueue(Tail(queues[t]))]
  PROVE NextUp(t, None)
<1>1. /\ UNCHANGED <<slotMap, backlogMap, backlog, sent, sessionOf>> /\ BaseType
      /\ queues \in [Slots -> Seq(Items)] /\ Slots' = Slots
  BY FixedMeans DEF ReleaseSequenceSlot, SameHistory, BInv, BaseType
<1>2. Tail(queues[t]) = << >>
  BY VacantMeans
<1>3. queues'[t] = << >>
  BY <1>1, <1>2 DEF ReleasedQueue
<1>4. \A c \in Cids : Known(c)' <=> Known(c)
  BY <1>1 DEF Known
<1>5. Len(queues'[t]) = 0 /\ Len(backlog') = 0 /\ \A k \in 1..0 : FALSE
  BY <1>1, <1>3
<1>6. QueueLine(t)'
  BY <1>3, <1>5 DEF QueueLine, Numbered
<1>7. (\A k \in 1..Len(backlog) : BacklogLine(backlog[k]))'
  BY <1>1, BacklogLinesStay
<1>8. \A p \in Requests : ~InQueue(p, t)' /\ \A w : ~InBacklog(p, w)'
  BY <1>5 DEF InQueue, InBacklog
<1> QED
  BY <1>1, <1>4, <1>6, <1>7, <1>8 DEF NextUp

\* A slot goes to the first sequence of the backlog.
LEMMA HandedOnLines ==
  ASSUME Fixed, BInv, LineInv, SameHistory, NEW t \in Slots,
         ReleaseSequenceSlot(t), backlog # << >>,
         queues' = [queues EXCEPT ![t] = ReleasedQueue(Tail(queues[t]))]
  PROVE \E g : NextUp(t, g)
<1>1. /\ UNCHANGED <<sent, sessionOf>> /\ BaseType /\ BacklogInv /\ backlog \in Seq(Seq(Requests))
      /\ queues \in [Slots -> Seq(Items)] /\ Slots' = Slots
      /\ slotMap \in [Cids -> Slots \cup {None}] /\ None \notin Slots
      /\ backlogMap \in [Cids -> Requests \cup {None}] /\ None \notin Requests
  BY FixedMeans, FlagsFit DEF SameHistory, BInv, BaseType
<1>2. PICK h \in Seq(Requests) : Waits(h)
  BY FirstWaits
<1>3. PICK c \in Cids : c = h[1][1]
  BY <1>2 DEF Waits
<1>4. /\ queues'[t] = h /\ backlog' = Tail(backlog) /\ h = Head(backlog)
      /\ h[1] \in Requests /\ h # << >>
  BY <1>1, <1>2 DEF Waits, ReleasedQueue, ReleaseSequenceSlot
<1>5. PICK g \in Requests : g = h[1]
  BY <1>4
<1>6. IF OpenQueue(h)
      THEN /\ backlogMap' = [backlogMap EXCEPT ![c] = None]
           /\ slotMap' = [slotMap EXCEPT ![c] = t]
      ELSE UNCHANGED <<backlogMap, slotMap>>
  BY <1>2, <1>3 DEF Waits, ReleaseSequenceSlot, ReleasedCid, OpenQueue
<1>7. OpenQueue(h) => backlogMap[c] = g
  BY <1>2, <1>3, <1>5 DEF Waits
<1>8. \A d \in Cids : Known(d)' <=> Known(d)
  BY <1>1, <1>6, <1>7 DEF Known
<1>9. h = backlog[1] /\ 1 \in 1..Len(backlog)
  BY <1>1, <1>4
<1>10. BacklogLine(h)
  BY <1>9 DEF LineInv
<1>11. First(h[1]) /\ Numbered(h) /\ (OpenQueue(h) => h[Len(h)] = Latest(c))
  BY <1>3, <1>10 DEF BacklogLine
<1>12. QueueLine(t)'
  <2>1. queues'[t] = h /\ Numbered(h) /\ First(h[1])'
    BY <1>1, <1>4, <1>11 DEF First
  <2> QED
    BY ONLY <2>1 DEF QueueLine, First, Numbered, IsNull
<1>13. \A d \in Cids : \/ slotMap'[d] = slotMap[d]
                       \/ slotMap'[d] = t /\ \A p : p = Latest(d) => Lies(t, p)'
  <2> SUFFICES ASSUME NEW d \in Cids, slotMap'[d] # slotMap[d]
               PROVE slotMap'[d] = t /\ \A p : p = Latest(d) => Lies(t, p)'
    OBVIOUS
  <2>1. OpenQueue(h) /\ d = c /\ slotMap'[d] = t
    BY <1>1, <1>6
  <2>2. \A p : p = Latest(d) => p = h[Len(h)]
    BY <1>11, <2>1
  <2>3. Lies(t, h[Len(h)])'
    BY <1>4 DEF Lies
  <2> QED
    BY <2>1, <2>2, <2>3
<1>14. /\ backlog' \in Seq(Seq(Requests)) /\ Len(backlog') = Len(backlog) - 1
       /\ Len(backlog) \in Nat
       /\ \A k \in 1..Len(backlog') : backlog'[k] = backlog[k + 1] /\ k + 1 \in 1..Len(backlog)
                                      /\ k + 1 # 1
  BY <1>1, <1>4, HeadTailProperties
<1>15. (\A k \in 1..Len(backlog) : BacklogLine(backlog[k]))'
  <2>1. \A q : OpenQueue(q)' <=> OpenQueue(q)
    BY FixedMeans DEF OpenQueue
  <2>2. ASSUME NEW q, BacklogLine(q) PROVE BacklogLine(q)'
    BY <1>1, <2>1, <2>2 DEF BacklogLine, First, Numbered, Latest, IsNull
  <2>3. ASSUME NEW k \in 1..Len(backlog') PROVE BacklogLine(backlog[k])'
    <3>1. PICK q : q = backlog'[k]
      OBVIOUS
    <3>2. q = backlog[k + 1] /\ k + 1 \in 1..Len(backlog)
      BY <1>14, <3>1
    <3>3. BacklogLine(q)'
      BY <2>2, <3>2 DEF LineInv
    <3> QED
      BY <3>1, <3>3
  <2> QED
    BY <2>3
<1>16. ASSUME NEW p \in Requests, InQueue(p, t)' PROVE InBacklog(p, g)
  <2>1. \E i \in 1..Len(h) : h[i] = p
    BY <1>4, <1>16 DEF InQueue
  <2> QED
    BY <1>5, <1>9, <2>1 DEF InBacklog
<1>17. ASSUME NEW p \in Requests, NEW w, InBacklog(p, w)' PROVE InBacklog(p, w) /\ w # g
  <2>1. PICK k \in 1..Len(backlog') :
          backlog'[k][1] = w /\ \E i \in 1..Len(backlog'[k]) : backlog'[k][i] = p
    BY <1>17 DEF InBacklog
  <2>2. backlog'[k] = backlog[k + 1] /\ k + 1 \in 1..Len(backlog) /\ k + 1 # 1
    BY <1>14
  <2>3. backlog[k + 1][1] = w /\ \E i \in 1..Len(backlog[k + 1]) : backlog[k + 1][i] = p
    BY <2>1, <2>2
  <2>4. w # g
    BY <1>1, <1>5, <1>9, <2>2, <2>3 DEF BacklogInv
  <2> QED
    BY <2>2, <2>3, <2>4 DEF InBacklog
<1>18. NextUp(t, g)
  BY <1>8, <1>12, <1>13, <1>15, <1>16, <1>17 DEF NextUp
<1> QED
  BY <1>18

\* The slot is released, to whoever comes next.
LEMMA VacateLines ==
  ASSUME Fixed, BInv, HistInv, SeatInv, HandInv, LineInv, SameHistory, QuietCalls,
         NEW t \in Slots, NEW r, HandStep(t, r), queues[t] # << >>, r = queues[t][1],
         Releases(r), UNCHANGED forced, ReleaseSequenceSlot(t),
         queues' = [queues EXCEPT ![t] = ReleasedQueue(Tail(queues[t]))]
  PROVE HistInv' /\ SeatInv' /\ HandInv' /\ LineInv' /\ UNCHANGED Promise!vars
<1>1. \A s \in Slots : s # t => queues'[s] = queues[s]
  BY DEF BInv, BaseType
<1>2. \E g : NextUp(t, g)
  BY FreedLines, HandedOnLines
<1> QED
  BY <1>1, <1>2, VacatedLines

----------------------------------------------------------------------------
(***************************************************************************)
(* The backend is given what is in the hands.                              *)
(***************************************************************************)
RunsHands(batch) ==
  /\ \A e \in batch : e = <<e[1], e[2]>> /\ e[1] \in Slots /\ e[2] \in Hand(e[1])
  /\ \A s \in Slots : IF \E e \in batch : e[1] = s THEN Hand(s)' = {} ELSE Hand(s)' = Hand(s)

\* What is in a hand, and may run next.
LEMMA InHandMeans ==
  ASSUME HistInv, SeatInv, HandInv, NEW s \in Slots, NEW r \in Hand(s)
  PROVE /\ r \in Requests /\ Pends(r) /\ Only(r, "hand", s)
        /\ corrid[s] = r[1] /\ \A q \in Hand(s) : q = r
        /\ Promise!IsNext(s, r)
<1>1. r \in Requests
  BY DEF Hand, DirectHand, OldestHand
<1>2. InHand(r, s)
  BY DEF InHand
<1>3. In(r, "hand", s)
  BY <1>2 DEF In
<1>4. Pends(r) /\ Only(r, "hand", s)
  BY <1>1, <1>3 DEF SeatInv, Seat, OneSeat, Only
<1>5. /\ corrid[s] = r[1] /\ \A q \in Hand(s) : q = r
      /\ ~First(r) => Before(r) \in ran /\ last[s] = sessionOf[r]
  BY DEF HandInv, HandOf
<1>6. sessionOf[r] # None /\ r \notin ran
  BY <1>4 DEF Pends
<1>7. /\ sessionOf \in [Requests -> Requests \cup {None}] /\ SessionsInv /\ RanInv
      /\ ran \subseteq Requests
  BY DEF HistInv, HistType
<1>8. ASSUME NEW q \in Requests, sessionOf[q] = sessionOf[r], q[2] < r[2] PROVE q \in ran
  <2>1. /\ sessionOf[q][1] = q[1] /\ sessionOf[q][2] <= q[2]
        /\ sessionOf[r][1] = r[1]
        /\ ~First(r) => sessionOf[Before(r)] = sessionOf[r]
    BY <1>1, <1>6, <1>7, <1>8 DEF SessionsInv
  <2>2. q[2] \in Nat /\ r[2] \in Nat /\ q[1] = r[1]
    BY <1>1, <1>8, <2>1, RequestFacts
  <2>3. CASE First(r)
    <3>1. r[2] <= q[2]
      BY <1>8, <2>1, <2>3 DEF First
    <3> QED
      BY <1>8, <2>2, <3>1
  <2>4. CASE ~First(r)
    <3>1. Before(r) \in ran /\ Before(r)[2] = r[2] - 1 /\ Before(r)[1] = r[1]
      BY <1>5, <2>4 DEF Before
    <3>2. CASE q[2] = r[2] - 1
      BY <1>7, <2>2, <3>1, <3>2, RequestFacts
    <3>3. CASE q[2] < r[2] - 1
      BY <1>7, <1>8, <2>1, <2>4, <3>1, <3>3 DEF RanInv
    <3> QED
      BY <1>8, <2>2, <3>2, <3>3
  <2> QED
    BY <2>3, <2>4
<1>9. Promise!IsNext(s, r)
  BY <1>5, <1>6, <1>8 DEF Promise!IsNext, First
<1> QED
  BY <1>1, <1>4, <1>5, <1>9

\* What the backend sees of a batch.
LEMMA RunsMeans ==
  ASSUME BaseType, HistInv, SeatInv, HandInv, NEW batch, Runs(batch), RunsHands(batch)
  PROVE /\ ran' = ran \cup {e[2] : e \in batch} /\ UNCHANGED <<sessionOf, current, refused>>
        /\ last' = [s \in AllSlots |-> last'[s]] /\ Slots \subseteq AllSlots
        /\ \A s \in AllSlots : (\A e \in batch : e[1] # s) => last'[s] = last[s]
        /\ \A e \in batch : last'[e[1]] = sessionOf[e[2]]
        /\ \A d, e \in batch : d[1] = e[1] \/ d[2] = e[2] => d = e
<1>1. /\ ran' = ran \cup {e[2] : e \in batch} /\ UNCHANGED <<sessionOf, current, refused>>
      /\ last' = [s \in AllSlots |->
                    IF \E e \in batch : e[1] = s
                    THEN LET e == CHOOSE d \in batch : d[1] = s
                         IN  <<corrid[s], sessionOf[e[2]][2]>>
                    ELSE last[s]]
  BY DEF Runs
<1>2. Slots \subseteq AllSlots
  BY SequenceAssumption DEF BaseType, Slots, Config
<1>3. \A s \in AllSlots : (\A e \in batch : e[1] # s) => last'[s] = last[s]
  BY <1>1
<1>4. last' = [s \in AllSlots |-> last'[s]]
  BY <1>1
<1>5. ASSUME NEW d \in batch, NEW e \in batch, d[1] = e[1] \/ d[2] = e[2] PROVE d = e
  <2>1. /\ d[1] \in Slots /\ d[2] \in Hand(d[1]) /\ e[1] \in Slots /\ e[2] \in Hand(e[1])
        /\ d = <<d[1], d[2]>> /\ e = <<e[1], e[2]>>
    BY DEF RunsHands
  <2>2. CASE d[1] = e[1]
    BY <2>1, <2>2, InHandMeans
  <2>3. CASE d[2] = e[2]
    <3>1. Only(e[2], "hand", e[1])
      BY <2>1, InHandMeans
    <3>2. InHand(e[2], d[1])
      BY <2>1, <2>3 DEF InHand
    <3>3. In(e[2], "hand", d[1])
      BY <3>2 DEF In
    <3> QED
      BY <2>1, <2>3, <3>1, <3>3 DEF Only
  <2> QED
    BY <1>5, <2>2, <2>3
<1>6. ASSUME NEW e \in batch PROVE last'[e[1]] = sessionOf[e[2]]
  <2>1. e[1] \in Slots /\ e[2] \in Hand(e[1])
    BY DEF RunsHands
  <2>2. PICK s \in AllSlots : s = e[1]
    BY <1>2, <2>1
  <2>3. PICK f \in batch : f = CHOOSE d \in batch : d[1] = s
    BY <2>2
  <2>4. f[1] = s
    BY <2>2, <2>3
  <2>5. f = e
    BY <1>5, <2>2, <2>4
  <2>6. last'[s] = <<corrid[s], sessionOf[f[2]][2]>>
    BY <1>1, <2>2, <2>3
  <2>7. e[2] \in Requests /\ Pends(e[2]) /\ corrid[s] = e[2][1]
    BY <2>1, <2>2, InHandMeans
  <2>8. sessionOf[e[2]] \in Requests /\ sessionOf[e[2]][1] = e[2][1]
    BY <2>7 DEF Pends, HistInv, HistType, SessionsInv
  <2>9. sessionOf[e[2]] = <<sessionOf[e[2]][1], sessionOf[e[2]][2]>>
    BY <2>8, RequestFacts
  <2> QED
    BY <2>2, <2>5, <2>6, <2>7, <2>8, <2>9
<1> QED
  BY <1>1, <1>2, <1>3, <1>4, <1>5, <1>6

\* A batch is run as promised.
LEMMA RunPromised ==
  ASSUME Fixed, BaseType, HistInv, SeatInv, HandInv, NEW batch, Runs(batch), RunsHands(batch),
         \A c \in Cids : Known(c)' <=> Known(c)
  PROVE Promise!Next
<1>1. /\ ran' = ran \cup {e[2] : e \in batch} /\ UNCHANGED <<sessionOf, current, refused>>
      /\ last' = [s \in AllSlots |-> last'[s]] /\ Slots \subseteq AllSlots
      /\ \A s \in AllSlots : (\A e \in batch : e[1] # s) => last'[s] = last[s]
      /\ \A e \in batch : last'[e[1]] = sessionOf[e[2]]
      /\ \A d, e \in batch : d[1] = e[1] \/ d[2] = e[2] => d = e
  BY RunsMeans
<1>2. PICK rs : rs = {e[2] : e \in batch}
  OBVIOUS
<1>3. \A r \in rs : \E e \in batch : e[2] = r
  BY <1>2
<1>4. PICK slot : slot = [r \in rs |-> (CHOOSE e \in batch : e[2] = r)[1]]
  OBVIOUS
<1>5. \A e \in batch : e[2] \in rs /\ slot[e[2]] = e[1]
  <2> SUFFICES ASSUME NEW e \in batch PROVE e[2] \in rs /\ slot[e[2]] = e[1]
    OBVIOUS
  <2>1. e[2] \in rs
    BY <1>2
  <2>2. PICK f \in batch : f = CHOOSE d \in batch : d[2] = e[2]
    OBVIOUS
  <2>3. f[2] = e[2]
    BY <2>2
  <2>4. slot[e[2]] = f[1]
    BY <1>4, <2>1, <2>2
  <2>5. f = e
    BY <1>1, <2>3
  <2> QED
    BY <2>1, <2>4, <2>5
<1>6. \A e \in batch : e[1] \in AllSlots /\ e[2] \in Requests /\ Promise!IsNext(e[1], e[2])
  <2>1. \A e \in batch : e[1] \in Slots /\ e[2] \in Hand(e[1])
    BY DEF RunsHands
  <2> QED
    BY <1>1, <2>1, InHandMeans
<1>7. \A r \in rs : slot[r] \in AllSlots /\ Promise!IsNext(slot[r], r)
  BY <1>3, <1>5, <1>6
<1>8. slot \in [rs -> AllSlots]
  <2>1. slot = [r \in rs |-> slot[r]]
    BY <1>4
  <2> QED
    BY <1>7, <2>1
<1>9. rs \in SUBSET Promise!Runnable
  <2>1. \A r \in rs : r \in Requests
    BY <1>3, <1>6
  <2> QED
    BY <1>7, <2>1 DEF Promise!Runnable
<1>10. \A q, r \in rs : slot[q] = slot[r] => q = r
  BY <1>1, <1>3, <1>5
<1>11. last' = [s \in AllSlots |->
                  IF \E r \in rs : slot[r] = s
                  THEN sessionOf[CHOOSE r \in rs : slot[r] = s] ELSE last[s]]
  <2>1. ASSUME NEW s \in AllSlots
        PROVE last'[s] = IF \E r \in rs : slot[r] = s
                         THEN sessionOf[CHOOSE r \in rs : slot[r] = s] ELSE last[s]
    <3>1. CASE \E r \in rs : slot[r] = s
      <4>1. PICK r \in rs : r = CHOOSE q \in rs : slot[q] = s
        BY <3>1
      <4>2. slot[r] = s
        BY <3>1, <4>1
      <4>3. PICK e \in batch : e[2] = r
        BY <1>3
      <4>4. last'[s] = sessionOf[r]
        BY <1>1, <1>5, <4>2, <4>3
      <4> QED
        BY <3>1, <4>1, <4>4
    <3>2. CASE ~\E r \in rs : slot[r] = s
      BY <1>1, <1>5, <3>2
    <3> QED
      BY <3>1, <3>2
  <2> QED
    BY <1>1, <2>1
<1>12. Open' = Open
  BY <1>1 DEF Open
<1>13. Promise!RunBatch(rs, slot)
  BY <1>1, <1>2, <1>7, <1>10, <1>11, <1>12, FlagsFixed DEF Promise!RunBatch
<1> QED
  BY <1>8, <1>9, <1>13 DEF Promise!Next

\* What a batch leaves of the lines.
LEMMA RunLines ==
  ASSUME Fixed, BInv, HistInv, SeatInv, HandInv, LineInv,
         NEW batch, Runs(batch), RunsHands(batch),
         UNCHANGED <<sent, slotMap, backlogMap, backlog, forced, calls, queues, corrid>>
  PROVE HistInv' /\ SeatInv' /\ HandInv' /\ LineInv' /\ Promise!Next
<1>1. /\ BaseType /\ CallsInv /\ Slots' = Slots /\ calls \subseteq CallType
      /\ \A d \in Cids : slotMap[d] # None => slotMap[d] \in Slots
  BY FixedMeans DEF BInv, BaseType
<1>2. \A c \in Cids : Known(c)' <=> Known(c)
  BY DEF Known
<1>3. Promise!Next
  BY <1>1, <1>2, RunPromised
<1>4. /\ ran' = ran \cup {e[2] : e \in batch} /\ UNCHANGED <<sessionOf, current, refused>>
      /\ last' = [s \in AllSlots |-> last'[s]] /\ Slots \subseteq AllSlots
      /\ \A s \in AllSlots : (\A e \in batch : e[1] # s) => last'[s] = last[s]
      /\ \A e \in batch : last'[e[1]] = sessionOf[e[2]]
      /\ \A d, e \in batch : d[1] = e[1] \/ d[2] = e[2] => d = e
  BY <1>1, RunsMeans
<1>5. /\ KeepsSessions /\ KeepsFirst /\ ran \subseteq ran'
      /\ \A e \in batch : e[2] \in ran' /\ e[1] \in Slots /\ e[2] \in Hand(e[1])
      /\ \A r \in ran' : r \in ran \/ \E e \in batch : r = e[2]
  BY <1>4, SessionsStay DEF KeepsSessions, RunsHands
<1>6. \A e \in batch : /\ e[2] \in Requests /\ Pends(e[2]) /\ Only(e[2], "hand", e[1])
                       /\ \A q \in Hand(e[1]) : q = e[2]
                       /\ Promise!IsNext(e[1], e[2])
  BY <1>5, InHandMeans
<1>7. HistInv'
  <2>1. HistType'
    BY <1>4, <1>5, <1>6 DEF HistInv, HistType
  <2>2. (\A r \in Requests : r[2] <= sent[r[1]] <=> Answered(r))'
    BY <1>4 DEF HistInv, Answered
  <2>3. SessionsInv'
    BY <1>4 DEF HistInv, SessionsInv, First
  <2>4. OpenInv'
    BY <1>2, <1>4 DEF HistInv, OpenInv, Latest
  <2>5. RanInv'
    <3> SUFFICES ASSUME NEW r \in ran'
                 PROVE /\ sessionOf[r] # None
                       /\ \A q \in Requests :
                            sessionOf[q] = sessionOf[r] /\ q[2] < r[2] => q \in ran'
      BY <1>4 DEF RanInv
    <3>1. CASE r \in ran
      BY <1>5, <3>1 DEF HistInv, RanInv
    <3>2. ASSUME NEW e \in batch, r = e[2]
          PROVE /\ sessionOf[r] # None
                /\ \A q \in Requests :
                     sessionOf[q] = sessionOf[r] /\ q[2] < r[2] => q \in ran'
      BY <1>5, <1>6, <3>2 DEF Promise!IsNext
    <3> QED
      BY <1>5, <3>1, <3>2
  <2> QED
    BY <2>1, <2>2, <2>3, <2>4, <2>5 DEF HistInv
<1>8. ASSUME NEW s \in Slots PROVE HandOf(s)' /\ KeepsLeft(s)
  <2>1. CASE \E e \in batch : e[1] = s
    <3>1. PICK e \in batch : e[1] = s
      BY <2>1
    <3>2. Hand(s)' = {}
      BY <2>1 DEF RunsHands
    <3>3. HandOf(s)'
      BY <3>2 DEF HandOf
    <3>4. \A p : JustLeft(s, p) => p = e[2]
      BY <1>5, <1>6, <3>1 DEF JustLeft
    <3>5. JustLeft(s, e[2])'
      BY <1>4, <1>5, <3>1, <3>2 DEF JustLeft
    <3> QED
      BY <3>3, <3>4, <3>5 DEF KeepsLeft
  <2>2. CASE \A e \in batch : e[1] # s
    <3>1. Hand(s)' = Hand(s) /\ last'[s] = last[s]
      BY <1>4, <2>2 DEF RunsHands
    <3>2. HandOf(s)'
      BY <1>5, <3>1, HandOfStays DEF HandInv
    <3>3. KeepsLeft(s)
      BY <1>4, <1>5, <3>1 DEF KeepsLeft, JustLeft
    <3> QED
      BY <3>2, <3>3
  <2> QED
    BY <2>1, <2>2
<1>9. HandInv'
  BY <1>1, <1>8 DEF HandInv
<1>10. \A s \in Slots : QueueLine(s)'
  BY <1>1, <1>5, <1>8, QueueLineStays DEF LineInv
<1>11. ASSUME NEW x \in calls PROVE CallLine(x)'
  <2>1. x.slot \in Slots /\ x.req[1] \in Cids
    BY <1>1 DEF CallType, Items
  <2>2. queues'[x.slot] = queues[x.slot] /\ KeepsLeft(x.slot) /\ CallLine(x)
    BY <1>8, <2>1 DEF LineInv
  <2>3. sent'[x.req[1]] = sent[x.req[1]] /\ (Known(x.req[1])' => Known(x.req[1]))
    BY <1>2, <2>1
  <2> QED
    BY <1>1, <1>5, <2>2, <2>3, CallLineStays
<1>12. (\A f \in forced : OfOwner(f[2], f[1]))'
  BY DEF LineInv, OfOwner
<1>13. ASSUME NEW d \in Cids PROVE TailLine(d)'
  <2>1. Calling(d) => Calling(d)'
    BY DEF Calling
  <2>2. slotMap[d] # None => queues'[slotMap[d]] = queues[slotMap[d]] /\ KeepsLeft(slotMap[d])
    BY <1>1, <1>8
  <2> QED
    BY <2>1, <2>2, TailLineStays DEF LineInv
<1>14. (\A k \in 1..Len(backlog) : BacklogLine(backlog[k]))'
  BY <1>1, <1>4, BacklogLinesStay
<1>15. LineInv'
  BY <1>1, <1>10, <1>11, <1>12, <1>13, <1>14 DEF LineInv
<1>16. SeatInv'
  <2> SUFFICES ASSUME NEW p \in Requests PROVE Seat(p)'
    BY DEF SeatInv
  <2>1. \A w : InHand(p, w)' => InHand(p, w) /\ \A e \in batch : e[1] # w
    BY <1>1 DEF InHand, RunsHands
  <2>2. \A w : (InQueue(p, w)' => InQueue(p, w)) /\ (InCall(p, w)' => InCall(p, w))
               /\ (InBacklog(p, w)' => InBacklog(p, w))
    BY <1>1 DEF InQueue, InCall, Coming, InBacklog
  <2>3. \A k, w : In(p, k, w)' => In(p, k, w) /\ (k = "hand" => \A e \in batch : e[1] # w)
    BY <2>1, <2>2 DEF In
  <2>4. CASE \E e \in batch : e[2] = p
    <3>1. PICK e \in batch : e[2] = p
      BY <2>4
    <3>2. \A k, w : ~In(p, k, w)'
      BY <1>6, <2>3, <3>1 DEF Only
    <3> QED
      BY <3>2 DEF Seat, OneSeat
  <2>5. CASE \A e \in batch : e[2] # p
    <3>1. Pends(p) => Pends(p)'
      BY <1>4, <1>5, <2>5 DEF Pends
    <3> QED
      BY <2>3, <3>1, SeatStays DEF SeatInv
  <2> QED
    BY <2>4, <2>5
<1> QED
  BY <1>3, <1>7, <1>9, <1>15, <1>16
----------------------------------------------------------------------------
(***************************************************************************)
(* The Direct strategy.                                                    *)
(***************************************************************************)
Lines == HistInv /\ SeatInv /\ HandInv /\ LineInv

\* A hand that a step of the thread does not touch.
LEMMA DirectHands ==
  ASSUME Fixed, Config.strategy = "direct", BInv,
         NEW s \in Slots, pass'[s[1]].batch = pass[s[1]].batch
  PROVE Hand(s)' = Hand(s)
<1>1. Config' = Config
  BY FixedMeans
<1> QED
  BY <1>1 DEF Hand, DirectHand

\* What a thread has put into its batch, and where it is, for the threads that
\* a step does not touch.
LEMMA BatchFrame ==
  ASSUME Fixed, NEW b, BatchOf(b), pass'[b].batch = pass[b].batch,
         \/ pass'[b].pc = pass[b].pc /\ pass'[b].at = pass[b].at
         \/ pass[b].batch = << >> /\ (pass'[b].pc = "second" => pass'[b].at = 0)
  PROVE BatchOf(b)'
<1>1. Slots' = Slots
  BY FixedMeans
<1>2. CASE pass'[b].pc = pass[b].pc /\ pass'[b].at = pass[b].at
  BY <1>1, <1>2 DEF BatchOf
<1>3. CASE pass[b].batch = << >> /\ (pass'[b].pc = "second" => pass'[b].at = 0)
  <2>1. pass'[b].batch = << >> /\ Len(pass'[b].batch) = 0 /\ \A k \in 1..0 : FALSE
    BY <1>3
  <2> QED
    BY <1>3, <2>1 DEF BatchOf
<1> QED
  BY <1>2, <1>3

\* No batch, queue, map or history changes.
LEMMA DirectQuiet ==
  ASSUME Fixed, Config.strategy = "direct", BInv, Lines, BatchInv, SameHistory, QuietCalls,
         UNCHANGED <<slotMap, backlogMap, backlog, forced, queues, corrid, activeCid>>,
         \A b \in Batchers : pass'[b].batch = pass[b].batch /\ BatchOf(b)'
  PROVE Lines' /\ BatchInv' /\ UNCHANGED Promise!vars
<1>1. PICK t \in Slots : TRUE
  <2>1. Slots # {}
    BY ConfigFits DEF BInv, BaseType
  <2> QED
    BY <2>1
<1>2. PICK c : IsNull(Null(c))
  BY DEF Null, IsNull
<1>3. \A s \in Slots : Hand(s)' = Hand(s)
  BY SlotGrid, DirectHands DEF BInv
<1>4. HandStep(t, Null(c))
  BY <1>2, <1>3 DEF HandStep
<1>5. Lines' /\ UNCHANGED Promise!vars
  BY <1>2, <1>4, QuietLines DEF Lines
<1>6. Slots' = Slots /\ Batchers' = Batchers
  BY FixedMeans
<1>7. BatchInv'
  BY <1>6 DEF BatchInv
<1> QED
  BY <1>5, <1>7

\* A step of the scheduler.
LEMMA DirectBaseLines ==
  ASSUME Fixed, Config.strategy = "direct", BInv, ~Pipelined, Lines, BatchInv,
         BaseNext, UNCHANGED directVars
  PROVE Lines' /\ BatchInv' /\ (Promise!Next \/ UNCHANGED Promise!vars)
<1>1. UNCHANGED <<activeCid, pass>>
  BY DEF directVars
<1>2. SameHands
  BY <1>1, HandsStay
<1>3. Lines' /\ (Promise!Next \/ UNCHANGED Promise!vars)
  BY <1>2, SchedulerLines DEF Lines
<1>4. UNCHANGED <<queues, corrid>>
  BY SchedulerKeeps DEF SchedulerOnly
<1>5. Slots' = Slots /\ Batchers' = Batchers
  BY FixedMeans
<1>6. \A b \in Batchers : BatchOf(b)'
  BY <1>1, BatchFrame DEF BatchInv
<1>7. BatchInv'
  BY <1>1, <1>4, <1>5, <1>6 DEF BatchInv
<1> QED
  BY <1>3, <1>7

\* A request is appended to the queue of a slot.
LEMMA DirectEnqueueLines ==
  ASSUME Fixed, Config.strategy = "direct", BInv, PassInv, Lines, BatchInv,
         NEW x \in calls, DirectEnqueue(x)
  PROVE Lines' /\ BatchInv' /\ UNCHANGED Promise!vars
<1>1. /\ x.step = "enqueue"
      /\ queues' = [queues EXCEPT ![x.slot] = Append(@, x.req)]
      /\ activeCid' = [activeCid EXCEPT ![x.slot] = x.req[1]]
      /\ UNCHANGED <<slotMap, backlogMap, backlog, forced, corrid, pass>> /\ SameHistory
  BY DEF DirectEnqueue, mapVars, history, SameHistory
<1>2. Leaves(x)
  BY DEF DirectEnqueue, Leaves, Steps
<1>3. SameHands
  BY <1>1, HandsStay
<1>4. /\ Lines' /\ UNCHANGED Promise!vars
      /\ queues[x.slot] # << >> => queues[x.slot][1][1] = x.req[1]
  BY <1>1, <1>2, <1>3, AppendLines DEF Lines
<1>5. PICK t \in Slots : t = x.slot
  BY DEF BInv, BaseType, CallType
<1>6. PICK r \in Items : r = x.req
  BY DEF BInv, BaseType, CallType
<1>7. queues \in [Slots -> Seq(Items)] /\ Slots' = Slots /\ Batchers' = Batchers
      /\ corrid \in [Slots -> Cids \cup {0}] /\ activeCid \in [Slots -> Cids \cup {0}]
  BY FixedMeans DEF BInv, BaseType, BatchInv
<1>8. PICK q \in Seq(Items) : q = queues[t]
  BY <1>7
<1>9. queues'[t] = Append(q, r) /\ \A s \in Slots : s # t => queues'[s] = queues[s]
  BY <1>1, <1>5, <1>6, <1>7, <1>8
<1>10. Append(q, r)[1] = IF q = << >> THEN r ELSE q[1]
  BY AppendProperties
<1>11. Append(q, r)[1][1] = r[1]
  BY <1>4, <1>5, <1>6, <1>8, <1>10
<1>12. activeCid'[t] = r[1] /\ \A s \in Slots : s # t => activeCid'[s] = activeCid[s]
  BY <1>1, <1>5, <1>6, <1>7
<1>13. \A s \in Slots : queues'[s] # << >> => activeCid'[s] = queues'[s][1][1]
  <2> SUFFICES ASSUME NEW s \in Slots, queues'[s] # << >>
               PROVE activeCid'[s] = queues'[s][1][1]
    OBVIOUS
  <2>1. CASE s = t
    BY <1>9, <1>11, <1>12, <2>1
  <2>2. CASE s # t
    BY <1>9, <1>12, <2>2 DEF BatchInv
  <2> QED
    BY <2>1, <2>2
<1>14. activeCid' \in [Slots -> Cids \cup {0}]
  <2>1. r[1] \in Cids
    BY DEF Items
  <2> QED
    BY <1>1, <1>6, <1>7, <2>1
<1>15. \A b \in Batchers : BatchOf(b)'
  BY <1>1, BatchFrame DEF BatchInv
<1>16. BatchInv'
  BY <1>1, <1>7, <1>13, <1>14, <1>15 DEF BatchInv
<1> QED
  BY <1>4, <1>16

\* One thread moves on, with the same batch.
LEMMA OneThread ==
  ASSUME Fixed, PassInv, BatchInv, NEW b \in Batchers, NEW p,
         pass' = [pass EXCEPT ![b] = p], p.batch = pass[b].batch,
         \/ p.pc = pass[b].pc /\ p.at = pass[b].at
         \/ pass[b].batch = << >> /\ (p.pc = "second" => p.at = 0)
  PROVE \A c \in Batchers : pass'[c].batch = pass[c].batch /\ BatchOf(c)'
<1>1. pass'[b] = p /\ \A c \in Batchers : c # b => pass'[c] = pass[c]
  BY DEF PassInv
<1> SUFFICES ASSUME NEW c \in Batchers
             PROVE pass'[c].batch = pass[c].batch /\ BatchOf(c)'
  OBVIOUS
<1>2. CASE c = b
  BY <1>1, <1>2, BatchFrame DEF BatchInv
<1>3. CASE c # b
  BY <1>1, <1>3, BatchFrame DEF BatchInv
<1> QED
  BY <1>2, <1>3

\* notify_one.
LEMMA NotifyLines ==
  ASSUME Fixed, Config.strategy = "direct", BInv, PassInv, Lines, BatchInv,
         NEW x \in calls, Notify(x)
  PROVE Lines' /\ BatchInv' /\ UNCHANGED Promise!vars
<1>1. /\ x.step = "notify" /\ Return(x)
      /\ pass' = [pass EXCEPT ![x.slot[1]].notified = At(x.slot[1], "wait")]
      /\ UNCHANGED <<slotMap, backlogMap, backlog, forced, queues, corrid, activeCid>>
      /\ SameHistory
  BY DEF Notify, mapVars, history, SameHistory
<1>2. QuietCalls
  BY <1>1 DEF QuietCalls, Leaves
<1>3. x.slot \in Slots
  BY DEF BInv, BaseType, CallType
<1>4. PICK b \in Batchers : b = x.slot[1]
  BY <1>3, SlotGrid DEF BInv
<1>5. pass \in [Batchers -> PassType]
  BY DEF PassInv
<1>6. PICK p \in PassType : p = [pass[b] EXCEPT !.notified = At(b, "wait")]
  BY <1>5 DEF PassType, At
<1>7. p.batch = pass[b].batch /\ p.pc = pass[b].pc /\ p.at = pass[b].at
  BY <1>5, <1>6 DEF PassType
<1>8. pass' = [pass EXCEPT ![b] = p]
  BY <1>1, <1>4, <1>5, <1>6
<1>9. \A c \in Batchers : pass'[c].batch = pass[c].batch /\ BatchOf(c)'
  BY <1>7, <1>8, OneThread
<1> QED
  BY <1>1, <1>2, <1>9, DirectQuiet

\* The start of the second loop.
LEMMA StartBatchLines ==
  ASSUME Fixed, Config.strategy = "direct", BInv, PassInv, Lines, BatchInv,
         NEW b \in Batchers, StartBatch(b)
  PROVE Lines' /\ BatchInv' /\ UNCHANGED Promise!vars
<1>1. /\ pass[b].pc \in {"top", "first"}
      /\ UNCHANGED <<slotMap, backlogMap, backlog, forced, queues, corrid, activeCid, calls>>
      /\ SameHistory
  BY DEF StartBatch, FirstLoop, unlocked, mapVars, history, SameHistory
<1>2. PICK m : m = Max({s[2] : s \in ReadySlots(b)})
  OBVIOUS
<1>3. PICK sh : sh = ShapeOf(Head(queues[FirstReady(b)]))
  OBVIOUS
<1>4. pass' = [pass EXCEPT ![b] = [pass[b] EXCEPT !.pc = "second", !.max = m, !.shape = sh]]
  BY <1>2, <1>3 DEF StartBatch
<1>5. pass[b] \in PassType /\ PassOf(b) /\ BatchOf(b)
  BY DEF PassInv, BatchInv
<1>6. pass[b].at = 0 /\ pass[b].batch = << >>
  BY <1>1, <1>5 DEF PassOf, BatchOf
<1>7. PICK p : p = [pass[b] EXCEPT !.pc = "second", !.max = m, !.shape = sh]
  OBVIOUS
<1>8. p.batch = pass[b].batch /\ p.at = pass[b].at
  BY <1>5, <1>7 DEF PassType
<1>9. \A c \in Batchers : pass'[c].batch = pass[c].batch /\ BatchOf(c)'
  BY <1>4, <1>6, <1>7, <1>8, OneThread
<1>10. QuietCalls
  BY <1>1 DEF QuietCalls
<1> QED
  BY <1>1, <1>9, <1>10, DirectQuiet

\* The thread waits, or goes back to the top.
LEMMA IdleLines ==
  ASSUME Fixed, Config.strategy = "direct", BInv, PassInv, Lines, BatchInv,
         NEW b \in Batchers, Defer(b) \/ Wake(b)
  PROVE Lines' /\ BatchInv' /\ UNCHANGED Promise!vars
<1>1. /\ pass[b].pc \in {"top", "first", "wait"}
      /\ pass' = [pass EXCEPT ![b] = Top] \/ pass' = [pass EXCEPT ![b] = Waiting]
      /\ UNCHANGED <<slotMap, backlogMap, backlog, forced, queues, corrid, activeCid, calls>>
      /\ SameHistory
  BY DEF Defer, Wake, FirstLoop, At, unlocked, mapVars, history, SameHistory
<1>2. pass[b].batch = << >>
  BY <1>1 DEF BatchInv, BatchOf
<1>3. Top.batch = << >> /\ Top.pc = "top" /\ Waiting.batch = << >> /\ Waiting.pc = "wait"
  BY DEF Top, Waiting
<1>4. \A c \in Batchers : pass'[c].batch = pass[c].batch /\ BatchOf(c)'
  <2>1. CASE pass' = [pass EXCEPT ![b] = Top]
    BY <1>2, <1>3, <2>1, OneThread
  <2>2. CASE pass' = [pass EXCEPT ![b] = Waiting]
    BY <1>2, <1>3, <2>2, OneThread
  <2> QED
    BY <1>1, <2>1, <2>2
<1>5. QuietCalls
  BY <1>1 DEF QuietCalls
<1> QED
  BY <1>1, <1>4, <1>5, DirectQuiet

\* Time passes.
LEMMA OverdueLines ==
  ASSUME Fixed, Config.strategy = "direct", BInv, PassInv, Lines, BatchInv,
         NEW s \in Slots, BecomesOverdue(s)
  PROVE Lines' /\ BatchInv' /\ UNCHANGED Promise!vars
<1>1. /\ UNCHANGED <<slotMap, backlogMap, backlog, forced, queues, corrid, activeCid, calls, pass>>
      /\ SameHistory
  BY DEF BecomesOverdue, mapVars, history, SameHistory
<1>2. \A c \in Batchers : pass'[c].batch = pass[c].batch /\ BatchOf(c)'
  BY <1>1, BatchFrame DEF BatchInv
<1>3. QuietCalls
  BY <1>1 DEF QuietCalls
<1> QED
  BY <1>1, <1>2, <1>3, DirectQuiet

\* The slot of a released sequence: whose correlation ID the batcher keeps.
LEMMA VacatedCid ==
  ASSUME Fixed, BInv, BatchInv, NEW t \in Slots, queues[t] # << >>, Releases(queues[t][1]),
         Vacate(t, Tail(queues[t]))
  PROVE /\ activeCid' \in [Slots -> Cids \cup {0}]
        /\ \A s \in Slots : queues'[s] # << >> => activeCid'[s] = queues'[s][1][1]
<1>1. /\ queues' = [queues EXCEPT ![t] = ReleasedQueue(Tail(queues[t]))]
      /\ activeCid' = [activeCid EXCEPT ![t] = ReleasedCid]
  BY DEF Vacate
<1>2. queues \in [Slots -> Seq(Items)] /\ activeCid \in [Slots -> Cids \cup {0}]
  BY DEF BInv, BaseType, BatchInv
<1>3. \A s \in Slots : s # t => queues'[s] = queues[s] /\ activeCid'[s] = activeCid[s]
  BY <1>1, <1>2
<1>4. queues'[t] = ReleasedQueue(Tail(queues[t])) /\ activeCid'[t] = ReleasedCid
  BY <1>1, <1>2
<1>5. ReleasedCid \in Cids \cup {0} /\ (queues'[t] # << >> => ReleasedCid = queues'[t][1][1])
  <2>1. CASE backlog = << >>
    <3>1. Tail(queues[t]) = << >>
      BY VacantMeans
    <3> QED
      BY <1>4, <2>1, <3>1 DEF ReleasedCid, ReleasedQueue
  <2>2. CASE backlog # << >>
    <3>1. PICK h \in Seq(Requests) : Waits(h)
      BY <2>2, FirstWaits
    <3> QED
      BY <1>4, <2>2, <3>1 DEF ReleasedCid, ReleasedQueue, Waits
  <2> QED
    BY <2>1, <2>2
<1>6. activeCid' \in [Slots -> Cids \cup {0}]
  BY <1>1, <1>2, <1>5
<1>7. \A s \in Slots : queues'[s] # << >> => activeCid'[s] = queues'[s][1][1]
  BY <1>3, <1>4, <1>5 DEF BatchInv
<1> QED
  BY <1>6, <1>7

\* The thread passes over a force-end: the slot is released.
LEMMA ReleaseForceEndedLines ==
  ASSUME Fixed, Config.strategy = "direct", BInv, PassInv, Lines, BatchInv,
         NEW b \in Batchers, ReleaseForceEnded(b)
  PROVE Lines' /\ BatchInv' /\ UNCHANGED Promise!vars
<1>1. /\ pass[b].pc \in {"top", "first"} /\ pass' = [pass EXCEPT ![b].pc = "first"]
      /\ UNCHANGED <<forced, calls, corrid>> /\ SameHistory
  BY DEF ReleaseForceEnded, FirstLoop, unlocked, history, SameHistory
<1>2. PICK t \in ForceEnded(b) : Vacate(t, Tail(queues[t]))
  BY DEF ReleaseForceEnded
<1>3. t \in Slots /\ queues[t] # << >> /\ IsNull(Head(queues[t])) /\ queues[t] \in Seq(Items)
  BY DEF ForceEnded, ActiveSlots, BInv, BaseType
<1>4. PICK r : r = queues[t][1]
  OBVIOUS
<1>5. IsNull(r) /\ Releases(r) /\ QuietCalls
  BY <1>1, <1>3, <1>4 DEF Releases, QuietCalls
<1>6. PICK p : p = [pass[b] EXCEPT !.pc = "first"]
  OBVIOUS
<1>7. /\ pass[b] \in PassType /\ PassOf(b) /\ BatchOf(b)
      /\ pass' = [pass EXCEPT ![b] = p]
  BY <1>1, <1>6 DEF PassInv, BatchInv
<1>8. p.batch = pass[b].batch /\ p.pc = "first" /\ pass[b].batch = << >>
  BY <1>1, <1>6, <1>7 DEF PassType, BatchOf
<1>9. \A c \in Batchers : pass'[c].batch = pass[c].batch /\ BatchOf(c)'
  BY <1>7, <1>8, OneThread
<1>10. \A s \in Slots : Hand(s)' = Hand(s)
  BY <1>9, SlotGrid, DirectHands DEF BInv
<1>11. HandStep(t, r)
  BY <1>1, <1>3, <1>5, <1>10 DEF HandStep
<1>12. Lines' /\ UNCHANGED Promise!vars
  BY <1>1, <1>2, <1>3, <1>4, <1>5, <1>11, VacateLines DEF Lines, Vacate
<1>13. /\ activeCid' \in [Slots -> Cids \cup {0}]
       /\ \A s \in Slots : queues'[s] # << >> => activeCid'[s] = queues'[s][1][1]
  BY <1>2, <1>3, <1>4, <1>5, VacatedCid
<1>14. Slots' = Slots /\ Batchers' = Batchers
  BY FixedMeans
<1>15. BatchInv'
  BY <1>1, <1>9, <1>13, <1>14 DEF BatchInv
<1> QED
  BY <1>12, <1>15

\* The thread adds r to its batch: what is in the hands then.
LEMMA AddsHands ==
  ASSUME Fixed, Config.strategy = "direct", BInv, PassInv, BatchInv,
         NEW b \in Batchers, NEW r \in Requests \cup {None}, Adds(b, r),
         NEW t, t = <<b, pass[b].at>>
  PROVE /\ t \in Slots /\ Hand(t) = {}
        /\ Hand(t)' = (IF r = None THEN {} ELSE {r})
        /\ \A s \in Slots : s # t => Hand(s)' = Hand(s)
        /\ \A c \in Batchers : BatchOf(c)'
<1>1. /\ pass[b].pc = "second" /\ pass \in [Batchers -> PassType] /\ BatchOf(b) /\ PassOf(b)
      /\ Slots' = Slots /\ Config' = Config
  BY FixedMeans DEF Adds, At, PassInv, BatchInv
<1>2. PICK i \in Nat : i = pass[b].at
  BY <1>1 DEF PassOf, PassType
<1>3. PICK q \in Seq(Requests \cup {None}) : q = pass[b].batch
  BY <1>1 DEF PassType
<1>4. Len(q) = i /\ \A k \in 1..Len(q) : <<b, k - 1>> \in Slots
  BY <1>1, <1>2, <1>3 DEF BatchOf
<1>5. PICK z : z = Append(q, r)
  OBVIOUS
<1>6. /\ Len(z) = i + 1 /\ z[i + 1] = r /\ \A k \in 1..i : z[k] = q[k]
      /\ \A k \in 1..(i + 1) : k \in 1..i \/ k = i + 1
  BY <1>3, <1>4, <1>5, AppendProperties
<1>7. PICK w : w = IF pass[b].at = pass[b].max THEN "run" ELSE "second"
  OBVIOUS
<1>8. PICK p : p = [pass[b] EXCEPT !.at = i + 1, !.batch = z, !.pc = w]
  OBVIOUS
<1>9. p.batch = z /\ p.at = i + 1 /\ p.pc = w
  <2>1. pass[b] \in PassType
    BY <1>1
  <2> QED
    BY <1>8, <2>1 DEF PassType
<1>10. pass'[b] = p /\ \A c \in Batchers : c # b => pass'[c] = pass[c]
  BY <1>1, <1>2, <1>3, <1>5, <1>7, <1>8 DEF Adds
<1>11. t \in Slots
  BY AtSlot DEF Adds
<1>12. t[1] = b /\ t[2] = i
  BY <1>2
<1>13. Hand(t) = {}
  <2>1. ~(i + 1 \in 1..Len(q))
    BY <1>4
  <2> QED
    BY <1>3, <1>12, <2>1 DEF Hand, DirectHand
<1>14. Hand(t)' = {x \in Requests : x = r}
  <2>1. i + 1 \in 1..Len(z) /\ z[i + 1] = r
    BY <1>6
  <2>2. Hand(t)' = {x \in Requests : \E k \in 1..Len(z) : k = i + 1 /\ z[k] = x}
    BY <1>1, <1>9, <1>10, <1>12 DEF Hand, DirectHand
  <2> QED
    BY <2>1, <2>2
<1>15. Hand(t)' = (IF r = None THEN {} ELSE {r})
  BY <1>14, RequestFacts
<1>16. ASSUME NEW s \in Slots, s # t PROVE Hand(s)' = Hand(s)
  <2>1. s[1] \in Batchers /\ s[2] \in Nat /\ s = <<s[1], s[2]>>
    BY SlotGrid DEF BInv
  <2>2. CASE s[1] # b
    BY <1>10, <2>1, <2>2, DirectHands
  <2>3. CASE s[1] = b
    <3>1. s[2] # i
      BY <1>2, <1>16, <2>1, <2>3
    <3>2. \A x : (\E k \in 1..Len(z) : k = s[2] + 1 /\ z[k] = x) <=>
                 (\E k \in 1..Len(q) : k = s[2] + 1 /\ q[k] = x)
      BY <1>4, <1>6, <2>1, <3>1
    <3>3. Hand(s)' = {x \in Requests : \E k \in 1..Len(z) : k = s[2] + 1 /\ z[k] = x}
      BY <1>1, <1>9, <1>10, <2>3 DEF Hand, DirectHand
    <3>4. Hand(s) = {x \in Requests : \E k \in 1..Len(q) : k = s[2] + 1 /\ q[k] = x}
      BY <1>3, <2>3 DEF Hand, DirectHand
    <3> QED
      BY <3>2, <3>3, <3>4
  <2> QED
    BY <2>2, <2>3
<1>17. ASSUME NEW c \in Batchers PROVE BatchOf(c)'
  <2>1. CASE c # b
    BY <1>10, <2>1, BatchFrame DEF BatchInv
  <2>2. CASE c = b
    <3>1. p.pc \notin {"top", "first", "wait"}
      BY <1>7, <1>9
    <3>2. \A k \in 1..Len(z) : <<b, k - 1>> \in Slots
      <4>1. <<b, i>> \in Slots /\ (i + 1) - 1 = i
        BY <1>2, <1>11
      <4> QED
        BY <1>4, <1>6, <4>1
    <3> QED
      BY <1>1, <1>6, <1>9, <1>10, <2>2, <3>1, <3>2 DEF BatchOf
  <2> QED
    BY <2>1, <2>2
<1> QED
  BY <1>11, <1>13, <1>15, <1>16, <1>17

\* A slot that takes no part in the batch.
LEMMA AddNullLines ==
  ASSUME Fixed, Config.strategy = "direct", BInv, PassInv, Lines, BatchInv,
         NEW b \in Batchers, AddNull(b)
  PROVE Lines' /\ BatchInv' /\ UNCHANGED Promise!vars
<1>1. PICK t : t = <<b, pass[b].at>>
  OBVIOUS
<1>2. /\ Adds(b, None) /\ corrid' = [corrid EXCEPT ![t] = 0]
      /\ UNCHANGED <<slotMap, backlogMap, backlog, forced, queues, activeCid, calls>>
      /\ SameHistory
  BY <1>1 DEF AddNull, unlocked, mapVars, history, SameHistory
<1>3. /\ t \in Slots /\ Hand(t) = {} /\ Hand(t)' = {}
      /\ \A s \in Slots : s # t => Hand(s)' = Hand(s)
      /\ \A c \in Batchers : BatchOf(c)'
  BY <1>1, <1>2, AddsHands
<1>4. corrid \in [Slots -> Cids \cup {0}]
  BY DEF BatchInv
<1>5. PICK c : IsNull(Null(c))
  BY DEF Null, IsNull
<1>6. HandStep(t, Null(c))
  BY <1>2, <1>3, <1>4, <1>5 DEF HandStep
<1>7. QuietCalls
  BY <1>2 DEF QuietCalls
<1>8. Lines' /\ UNCHANGED Promise!vars
  BY <1>2, <1>3, <1>5, <1>6, <1>7, QuietLines DEF Lines
<1>9. Slots' = Slots /\ Batchers' = Batchers
  BY FixedMeans
<1>10. corrid' \in [Slots -> Cids \cup {0}]
  BY <1>2, <1>4
<1>11. BatchInv'
  BY <1>2, <1>3, <1>9, <1>10 DEF BatchInv
<1> QED
  BY <1>8, <1>11

\* The first request of a slot joins the batch.
LEMMA AddRequestLines ==
  ASSUME Fixed, Config.strategy = "direct", BInv, PassInv, Lines, BatchInv,
         NEW b \in Batchers, AddRequest(b)
  PROVE Lines' /\ BatchInv' /\ UNCHANGED Promise!vars
<1>1. PICK t : t = <<b, pass[b].at>>
  OBVIOUS
<1>2. PICK r : r = Head(queues[t])
  OBVIOUS
<1>3. /\ At(b, "second") /\ ~Excluded(b, t) /\ Adds(b, r)
      /\ corrid' = [corrid EXCEPT ![t] = activeCid[t]]
      /\ IF End(r) THEN Vacate(t, Tail(queues[t]))
         ELSE /\ queues' = [queues EXCEPT ![t] = Tail(@)]
              /\ UNCHANGED <<slotMap, backlogMap, backlog, activeCid>>
      /\ UNCHANGED <<forced, calls>> /\ SameHistory
  BY <1>1, <1>2 DEF AddRequest, unlocked, mapVars, history, SameHistory
<1>4. queues[t] # << >> /\ t \in Slots /\ ~IsNull(r)
  BY <1>1, <1>2, <1>3, AtSlot DEF Excluded
<1>5. /\ queues \in [Slots -> Seq(Items)] /\ corrid \in [Slots -> Cids \cup {0}]
      /\ activeCid \in [Slots -> Cids \cup {0}] /\ BaseType
  BY DEF BInv, BaseType, BatchInv
<1>6. PICK q \in Seq(Items) : q = queues[t]
  BY <1>4, <1>5
<1>7. q # << >> /\ r = q[1] /\ r = queues[t][1] /\ r \in Items
  BY <1>2, <1>4, <1>6
<1>8. r \in Requests
  BY <1>4, <1>5, <1>7, FlagsFit DEF BaseType
<1>9. /\ Hand(t) = {} /\ Hand(t)' = {r}
      /\ \A s \in Slots : s # t => Hand(s)' = Hand(s)
      /\ \A c \in Batchers : BatchOf(c)'
  BY <1>1, <1>3, <1>8, AddsHands, RequestFacts
<1>10. activeCid[t] = r[1]
  BY <1>4, <1>7 DEF BatchInv
<1>11. HandStep(t, r)
  BY <1>3, <1>4, <1>5, <1>7, <1>9, <1>10 DEF HandStep
<1>12. QuietCalls
  BY <1>3 DEF QuietCalls
<1>13. Slots' = Slots /\ Batchers' = Batchers
  BY FixedMeans
<1>14. corrid' \in [Slots -> Cids \cup {0}]
  BY <1>3, <1>4, <1>5
<1>15. CASE End(r)
  <2>1. Releases(r) /\ Vacate(t, Tail(queues[t]))
    BY <1>3, <1>15 DEF Releases
  <2>2. Lines' /\ UNCHANGED Promise!vars
    BY <1>3, <1>4, <1>7, <1>11, <1>12, <2>1, VacateLines DEF Lines, Vacate
  <2>3. /\ activeCid' \in [Slots -> Cids \cup {0}]
        /\ \A s \in Slots : queues'[s] # << >> => activeCid'[s] = queues'[s][1][1]
    BY <1>4, <1>7, <2>1, VacatedCid
  <2>4. BatchInv'
    BY <1>9, <1>13, <1>14, <2>3 DEF BatchInv
  <2> QED
    BY <2>2, <2>4
<1>16. CASE ~End(r)
  <2>1. queues' = [queues EXCEPT ![t] = Tail(@)]
        /\ UNCHANGED <<slotMap, backlogMap, backlog, activeCid>>
    BY <1>3, <1>16
  <2>2. Lines' /\ UNCHANGED Promise!vars
    BY <1>3, <1>4, <1>11, <1>12, <2>1, PopLines DEF Lines
  <2>3. PICK z : z = Tail(q)
    OBVIOUS
  <2>4. Popped(z, q, r)
    <3>1. BInv /\ LineInv
      BY DEF Lines
    <3> QED
      BY ONLY <1>4, <1>6, <1>7, <1>8, <2>3, <3>1, PoppedQueue
  <2>5. queues'[t] = z /\ \A s \in Slots : s # t => queues'[s] = queues[s]
    BY <1>4, <1>5, <1>6, <2>1, <2>3
  <2>6. z # << >> => z[1][1] = r[1]
    BY <2>4 DEF Popped
  <2>7. \A s \in Slots : queues'[s] # << >> => activeCid'[s] = queues'[s][1][1]
    BY <1>10, <2>1, <2>5, <2>6 DEF BatchInv
  <2>8. BatchInv'
    BY <1>5, <1>9, <1>13, <1>14, <2>1, <2>7 DEF BatchInv
  <2> QED
    BY <2>2, <2>8
<1> QED
  BY <1>15, <1>16

\* The batch is run.
LEMMA OnScheduleLines ==
  ASSUME Fixed, Config.strategy = "direct", BInv, PassInv, Lines, BatchInv,
         NEW b \in Batchers, OnSchedule(b)
  PROVE Lines' /\ BatchInv' /\ Promise!Next
<1>1. PICK q : q = pass[b].batch
  OBVIOUS
<1>2. PICK batch : batch = {<< <<b, k - 1>>, q[k] >> : k \in {n \in 1..Len(q) : q[n] # None}}
  OBVIOUS
<1>3. /\ Runs(batch) /\ pass' = [pass EXCEPT ![b] = Top]
      /\ UNCHANGED <<sent, slotMap, backlogMap, backlog, forced, calls, queues, corrid, activeCid>>
  BY <1>1, <1>2 DEF OnSchedule, mapVars
<1>4. /\ pass \in [Batchers -> PassType] /\ BatchOf(b) /\ Config' = Config
      /\ Slots' = Slots /\ Batchers' = Batchers
  BY FixedMeans DEF PassInv, BatchInv
<1>5. q \in Seq(Requests \cup {None}) /\ \A k \in 1..Len(q) : <<b, k - 1>> \in Slots
  BY <1>1, <1>4 DEF PassType, BatchOf
<1>6. pass'[b] = Top /\ \A c \in Batchers : c # b => pass'[c] = pass[c]
  BY <1>3, <1>4
<1>7. Top.batch = << >> /\ Top.pc = "top" /\ Len(Top.batch) = 0 /\ \A k \in 1..0 : FALSE
  BY DEF Top
<1>8. \A c \in Batchers : BatchOf(c)'
  <2> SUFFICES ASSUME NEW c \in Batchers PROVE BatchOf(c)'
    OBVIOUS
  <2>1. CASE c = b
    BY <1>6, <1>7, <2>1 DEF BatchOf
  <2>2. CASE c # b
    BY <1>6, <2>2, BatchFrame DEF BatchInv
  <2> QED
    BY <2>1, <2>2
<1>9. BatchInv'
  BY <1>3, <1>4, <1>8 DEF BatchInv
<1>10. ASSUME NEW e \in batch
       PROVE e = <<e[1], e[2]>> /\ e[1] \in Slots /\ e[2] \in Hand(e[1]) /\ e[1][1] = b
  <2>1. PICK k \in 1..Len(q) : q[k] # None /\ e = << <<b, k - 1>>, q[k] >>
    BY <1>2
  <2>2. q[k] \in Requests /\ (k - 1) + 1 = k
    BY <1>5, <2>1
  <2>3. e[1] = <<b, k - 1>> /\ e[2] = q[k] /\ e[1][1] = b /\ e[1][2] = k - 1
    BY <2>1
  <2>4. e[2] \in DirectHand(e[1])
    BY <1>1, <2>2, <2>3 DEF DirectHand
  <2> QED
    BY <1>5, <2>1, <2>3, <2>4 DEF Hand
<1>11. ASSUME NEW s \in Slots
       PROVE IF \E e \in batch : e[1] = s THEN Hand(s)' = {} ELSE Hand(s)' = Hand(s)
  <2>1. s[1] \in Batchers /\ s[2] \in Nat /\ s = <<s[1], s[2]>>
    BY SlotGrid DEF BInv
  <2>2. CASE s[1] # b
    <3>1. \A e \in batch : e[1] # s
      BY <1>10, <2>2
    <3>2. Hand(s)' = Hand(s)
      BY <1>6, <2>1, <2>2, DirectHands
    <3> QED
      BY <3>1, <3>2
  <2>3. CASE s[1] = b
    <3>1. Hand(s)' = {}
      BY <1>4, <1>6, <1>7, <2>3 DEF Hand, DirectHand
    <3>2. ASSUME NEW r \in Hand(s) PROVE \E e \in batch : e[1] = s
      <4>1. r \in Requests /\ s[2] + 1 \in 1..Len(q) /\ q[s[2] + 1] = r
        BY <1>1, <2>3 DEF Hand, DirectHand
      <4>2. q[s[2] + 1] # None /\ (s[2] + 1) - 1 = s[2]
        BY <2>1, <4>1, RequestFacts
      <4>3. << <<b, (s[2] + 1) - 1>>, q[s[2] + 1] >> \in batch
        BY <1>2, <4>1, <4>2
      <4>4. <<s, q[s[2] + 1]>> \in batch
        BY <2>1, <2>3, <4>2, <4>3
      <4> QED
        BY <4>4
    <3>3. CASE \E e \in batch : e[1] = s
      BY <3>1, <3>3
    <3>4. CASE ~\E e \in batch : e[1] = s
      BY <3>1, <3>2, <3>4
    <3> QED
      BY <3>3, <3>4
  <2> QED
    BY <2>2, <2>3
<1>12. RunsHands(batch)
  BY <1>10, <1>11 DEF RunsHands
<1>13. Lines' /\ Promise!Next
  BY <1>3, <1>12, RunLines DEF Lines
<1> QED
  BY <1>9, <1>13

\* Every step of the Direct strategy.
LEMMA DirectLines ==
  ASSUME Config.strategy = "direct", BInv, PassInv, ~Pipelined, Lines, BatchInv, DirectNext
  PROVE Lines' /\ BatchInv' /\ (Promise!Next \/ UNCHANGED Promise!vars)
<1>1. Fixed
  BY DEF DirectNext
<1>2. CASE BaseNext /\ UNCHANGED directVars
  BY <1>1, <1>2, DirectBaseLines
<1>3. ASSUME NEW x \in calls, DirectEnqueue(x) \/ Notify(x)
      PROVE Lines' /\ BatchInv' /\ UNCHANGED Promise!vars
  BY <1>1, <1>3, DirectEnqueueLines, NotifyLines
<1>4. ASSUME NEW b \in Batchers, Thread(b)
      PROVE Lines' /\ BatchInv' /\ (Promise!Next \/ UNCHANGED Promise!vars)
  <2>1. CASE ReleaseForceEnded(b)
    BY <1>1, <2>1, ReleaseForceEndedLines
  <2>2. CASE StartBatch(b)
    BY <1>1, <2>2, StartBatchLines
  <2>3. CASE Defer(b)
    BY <1>1, <2>3, IdleLines
  <2>4. CASE AddNull(b)
    BY <1>1, <2>4, AddNullLines
  <2>5. CASE AddRequest(b)
    BY <1>1, <2>5, AddRequestLines
  <2>6. CASE OnSchedule(b)
    BY <1>1, <2>6, OnScheduleLines
  <2> QED
    BY <1>4, <2>1, <2>2, <2>3, <2>4, <2>5, <2>6 DEF Thread
<1>5. ASSUME NEW b \in Batchers, Wake(b)
      PROVE Lines' /\ BatchInv' /\ UNCHANGED Promise!vars
  BY <1>1, <1>5, IdleLines
<1>6. ASSUME NEW s \in Slots, BecomesOverdue(s)
      PROVE Lines' /\ BatchInv' /\ UNCHANGED Promise!vars
  BY <1>1, <1>6, OverdueLines
<1> QED
  BY <1>2, <1>3, <1>4, <1>5, <1>6 DEF DirectNext, DirectBatching
----------------------------------------------------------------------------
(***************************************************************************)
(* The Oldest strategy.                                                    *)
(***************************************************************************)
\* Hands that a step leaves alone.
LEMMA OldestQuiet ==
  ASSUME Fixed, Config.strategy = "oldest", UNCHANGED <<issued, corrid>>, NEW t \in Slots,
         NEW r, IsNull(r)
  PROVE SameHands /\ HandStep(t, r)
<1>1. SameHands
  BY HandsStay
<1> QED
  BY <1>1 DEF SameHands, HandStep

\* A request is appended to the queue of a slot.
LEMMA OldestEnqueueLines ==
  ASSUME Fixed, Config.strategy = "oldest", BInv, FlightInv, Lines,
         NEW x \in calls, OldestEnqueue(x)
  PROVE Lines' /\ UNCHANGED Promise!vars
<1>1. /\ x.step = "enqueue" /\ SameHistory
      /\ queues' = [queues EXCEPT ![x.slot] = Append(@, x.req)]
      /\ UNCHANGED <<slotMap, backlogMap, backlog, forced, corrid, issued>>
  BY DEF OldestEnqueue, mapVars, history, SameHistory
<1>2. Leaves(x)
  BY DEF OldestEnqueue, Leaves, Steps
<1>3. SameHands
  BY <1>1, HandsStay
<1> QED
  BY <1>1, <1>2, <1>3, AppendLines DEF Lines

\* The queue of the slot is empty, or the next request is null.
LEMMA NoTurnLines ==
  ASSUME Fixed, Config.strategy = "oldest", BInv, FlightInv, Lines,
         NEW x \in calls, NothingNext(x) \/ ForceEndNext(x)
  PROVE Lines' /\ UNCHANGED Promise!vars
<1>1. /\ Turn(x) /\ SameHistory /\ UNCHANGED <<forced, corrid, issued>> /\ Leaves(x)
  BY DEF NothingNext, ForceEndNext, history, SameHistory, Leaves, Steps
<1>2. x.step # "enqueue"
  BY <1>1 DEF Turn
<1>3. QuietCalls
  BY <1>1, <1>2 DEF QuietCalls
<1>4. PICK t \in Slots : t = x.slot
  BY DEF BInv, BaseType, CallType
<1>5. CASE NothingNext(x)
  <2>1. UNCHANGED <<queues, slotMap, backlogMap, backlog>>
    BY <1>5 DEF NothingNext, mapVars
  <2>2. PICK c : IsNull(Null(c))
    BY DEF Null, IsNull
  <2>3. HandStep(t, Null(c))
    BY <1>1, <2>2, OldestQuiet
  <2> QED
    BY <1>1, <1>3, <2>1, <2>2, <2>3, QuietLines DEF Lines
<1>6. CASE ForceEndNext(x)
  <2>1. /\ queues[t] # << >> /\ IsNull(Head(queues[t])) /\ ReleaseSequenceSlot(t)
        /\ queues' = [queues EXCEPT ![t] = ReleasedQueue(Tail(queues[t]))]
    BY <1>4, <1>6 DEF ForceEndNext
  <2>2. PICK r : r = queues[t][1]
    OBVIOUS
  <2>3. queues[t] \in Seq(Items)
    BY DEF BInv, BaseType
  <2>4. IsNull(r) /\ Releases(r)
    BY <2>1, <2>2, <2>3 DEF Releases
  <2>5. HandStep(t, r)
    BY <1>1, <2>4, OldestQuiet
  <2> QED
    BY <1>1, <1>3, <2>1, <2>2, <2>4, <2>5, VacateLines DEF Lines
<1> QED
  BY <1>5, <1>6

Has(q, s, r) == \E i \in 1..Len(q) : q[i] = <<s, r>>

\* What is in the hand of a slot of the Oldest strategy was issued by its batcher.
LEMMA OldestHandIs ==
  ASSUME Fixed, Config.strategy = "oldest", BInv, NEW s \in Slots
  PROVE /\ Hand(s) = {r \in Requests : Has(issued[s[1]], s, r)}
        /\ Hand(s)' = {r \in Requests : Has(issued'[s[1]], s, r)}
<1>1. Config' = Config /\ Requests' = Requests
  BY FixedMeans DEF BInv, Requests
<1>2. Config.strategy # "direct" /\ Config'.strategy # "direct"
  BY <1>1
<1>3. Hand(s) = OldestHand(s) /\ Hand(s)' = OldestHand(s)'
  BY <1>2 DEF Hand
<1> QED
  BY <1>1, <1>3 DEF OldestHand, Has

\* The first request of a slot is given to the dynamic batcher.
LEMMA IssuesHands ==
  ASSUME Fixed, Config.strategy = "oldest", BInv, FlightInv, NEW t \in Slots,
         NoneIssued(t), NEW r \in Requests,
         issued' = [issued EXCEPT ![t[1]] = Append(@, <<t, r>>)]
  PROVE /\ Hand(t) = {} /\ Hand(t)' = {r}
        /\ \A s \in Slots : s # t => Hand(s)' = Hand(s)
<1>1. /\ issued \in [Batchers -> Seq(Slots \X Requests)] /\ Config' = Config /\ t[1] \in Batchers
  BY FixedMeans, SlotGrid DEF FlightInv, BInv
<1>2. PICK b \in Batchers : b = t[1]
  BY <1>1
<1>3. PICK q \in Seq(Slots \X Requests) : q = issued[b]
  BY <1>1
<1>4. PICK e \in Slots \X Requests : e = <<t, r>>
  OBVIOUS
<1>5. PICK z : z = Append(q, e)
  OBVIOUS
<1>6. issued'[b] = z /\ \A c \in Batchers : c # b => issued'[c] = issued[c]
  BY <1>1, <1>2, <1>3, <1>4, <1>5
<1>7. /\ Len(z) = Len(q) + 1 /\ z[Len(q) + 1] = e /\ Len(q) \in Nat
      /\ \A i \in 1..Len(q) : z[i] = q[i] /\ i \in 1..Len(z)
      /\ \A i \in 1..Len(z) : i \in 1..Len(q) \/ i = Len(q) + 1
      /\ Len(q) + 1 \in 1..Len(z)
  BY <1>5, AppendProperties
<1>8. \A i \in 1..Len(q) : q[i][1] # t
  BY <1>2, <1>3 DEF NoneIssued
<1>9. ASSUME NEW s \in Slots
      PROVE s[1] \in Batchers /\ (s[1] # b => Hand(s)' = Hand(s))
            /\ (s[1] = b => /\ Hand(s) = {x \in Requests : Has(q, s, x)}
                            /\ Hand(s)' = {x \in Requests : Has(z, s, x)})
  <2>1. s[1] \in Batchers
    BY SlotGrid DEF BInv
  <2>2. /\ Hand(s) = {x \in Requests : Has(issued[s[1]], s, x)}
        /\ Hand(s)' = {x \in Requests : Has(issued'[s[1]], s, x)}
    BY OldestHandIs
  <2> QED
    BY ONLY <1>3, <1>6, <2>1, <2>2
<1>10. \A x : <<t, x>>[1] = t /\ <<t, x>>[2] = x
  OBVIOUS
<1>11. Hand(t) = {}
  <2>1. \A x \in Requests : ~\E i \in 1..Len(q) : q[i] = <<t, x>>
    BY <1>8, <1>10
  <2> QED
    BY <1>2, <1>9, <2>1 DEF Has
<1>12. Hand(t)' = {r}
  <2>1. \A x \in Requests : (\E i \in 1..Len(z) : z[i] = <<t, x>>) <=> x = r
    <3>1. \A x \in Requests : \A i \in 1..Len(z) : z[i] = <<t, x>> => x = r
      <4> SUFFICES ASSUME NEW x \in Requests, NEW i \in 1..Len(z), z[i] = <<t, x>> PROVE x = r
        OBVIOUS
      <4>1. CASE i \in 1..Len(q)
        BY <1>7, <1>8, <1>10, <4>1
      <4>2. CASE i = Len(q) + 1
        BY <1>4, <1>7, <4>2
      <4> QED
        BY <1>7, <4>1, <4>2
    <3>2. \E i \in 1..Len(z) : z[i] = <<t, r>>
      BY <1>4, <1>7
    <3> QED
      BY <3>1, <3>2
  <2>2. Hand(t)' = {x \in Requests : Has(z, t, x)}
    BY <1>2, <1>9
  <2>3. \A x \in Requests : Has(z, t, x) <=> x = r
    BY <2>1 DEF Has
  <2> QED
    BY ONLY <2>2, <2>3, r \in Requests
<1>13. ASSUME NEW s \in Slots, s # t PROVE Hand(s)' = Hand(s)
  <2>1. CASE s[1] # b
    BY <1>9, <2>1
  <2>2. CASE s[1] = b
    <3>1. \A x \in Requests : (\E i \in 1..Len(z) : z[i] = <<s, x>>) <=>
                              (\E i \in 1..Len(q) : q[i] = <<s, x>>)
      <4> SUFFICES ASSUME NEW x \in Requests
                   PROVE (\E i \in 1..Len(z) : z[i] = <<s, x>>) <=>
                         (\E i \in 1..Len(q) : q[i] = <<s, x>>)
        OBVIOUS
      <4>1. <<s, x>> # e
        BY <1>4, <1>13
      <4> QED
        BY <1>7, <4>1
    <3>2. \A x \in Requests : Has(z, s, x) <=> Has(q, s, x)
      BY <3>1 DEF Has
    <3>3. /\ Hand(s) = {x \in Requests : Has(q, s, x)}
          /\ Hand(s)' = {x \in Requests : Has(z, s, x)}
      BY <1>9, <2>2
    <3> QED
      BY ONLY <3>2, <3>3
  <2> QED
    BY <2>1, <2>2
<1> QED
  BY <1>11, <1>12, <1>13

\* The next request of a slot is issued; an END releases the slot.
LEMMA IssueNextLines ==
  ASSUME Fixed, Config.strategy = "oldest", BInv, FlightInv, Lines,
         NEW x \in calls, IssueNext(x)
  PROVE Lines' /\ UNCHANGED Promise!vars
<1>1. PICK t \in Slots : t = x.slot
  BY DEF BInv, BaseType, CallType
<1>2. queues[t] # << >> /\ Turn(x) /\ queues[t] \in Seq(Items) /\ BaseType
  BY <1>1 DEF IssueNext, BInv, BaseType
<1>3. PICK r \in Items : r = queues[t][1] /\ r = Head(queues[t])
  BY <1>2
<1>4. /\ ~IsNull(r) /\ corrid' = [corrid EXCEPT ![t] = r[1]]
      /\ issued' = [issued EXCEPT ![t[1]] = Append(@, <<t, r>>)]
      /\ IF End(r)
         THEN /\ ReleaseSequenceSlot(t)
              /\ queues' = [queues EXCEPT ![t] = ReleasedQueue(Tail(queues[t]))]
         ELSE /\ queues' = [queues EXCEPT ![t] = Tail(@)]
              /\ UNCHANGED <<slotMap, backlogMap, backlog>>
      /\ Return(x) /\ UNCHANGED forced /\ SameHistory
  BY <1>1, <1>3 DEF IssueNext, mapVars, history, SameHistory
<1>5. r \in Requests
  BY <1>2, <1>4, FlagsFit DEF BaseType
<1>6. QuietCalls
  <2>1. x.step # "enqueue"
    BY <1>2 DEF Turn
  <2> QED
    BY <1>4, <2>1 DEF QuietCalls, Leaves
<1>7. NoneIssued(t)
  BY <1>1, <1>2, TurnMeans
<1>8. /\ Hand(t) = {} /\ Hand(t)' = {r}
      /\ \A s \in Slots : s # t => Hand(s)' = Hand(s)
  BY <1>4, <1>5, <1>7, IssuesHands
<1>9. HandStep(t, r)
  <2>1. corrid \in [Slots -> Cids \cup {0}]
    BY DEF FlightInv
  <2>2. corrid'[t] = r[1] /\ \A s \in Slots : s # t => corrid'[s] = corrid[s]
    BY <1>4, <2>1
  <2> QED
    BY <1>2, <1>3, <1>4, <1>8, <2>2 DEF HandStep
<1>10. CASE End(r)
  BY <1>2, <1>3, <1>4, <1>6, <1>9, <1>10, VacateLines DEF Lines, Releases
<1>11. CASE ~End(r)
  BY <1>4, <1>6, <1>9, <1>11, PopLines DEF Lines
<1> QED
  BY <1>10, <1>11

\* The backend releases a request.
LEMMA ReleaseRequestLines ==
  ASSUME Fixed, Config.strategy = "oldest", BInv, FlightInv, Lines,
         NEW e \in executing, ReleaseRequest(e)
  PROVE Lines' /\ UNCHANGED Promise!vars
<1>1. /\ CalledBack(e) /\ SameHistory /\ e \in Slots \X Requests
      /\ UNCHANGED <<slotMap, backlogMap, backlog, forced, queues, corrid, issued>>
  BY DEF ReleaseRequest, CalledBack, mapVars, history, SameHistory, FlightInv
<1>2. QuietCalls
  BY <1>1 DEF QuietCalls
<1>3. PICK c : IsNull(Null(c))
  BY DEF Null, IsNull
<1>4. PICK t \in Slots : t = e[1]
  BY <1>1
<1>5. HandStep(t, Null(c))
  BY <1>1, <1>3, OldestQuiet
<1> QED
  BY <1>1, <1>2, <1>3, <1>5, QuietLines DEF Lines

\* The requests of one batch that the dynamic batcher gives to the backend.
LEMMA ExecutesHands ==
  ASSUME Fixed, Config.strategy = "oldest", BInv, FlightInv, NEW b \in Batchers,
         NEW q \in Seq(Slots \X Requests), q = issued[b], NEW n \in 1..Len(q),
         issued' = [issued EXCEPT ![b] = SubSeq(q, n + 1, Len(q))]
  PROVE RunsHands({q[i] : i \in 1..n})
<1>1. PICK batch : batch = {q[i] : i \in 1..n}
  OBVIOUS
<1>2. PICK z : z = SubSeq(q, n + 1, Len(q))
  OBVIOUS
<1>3. Len(q) \in Nat /\ n \in Nat /\ 1 <= n /\ n <= Len(q) /\ \A i \in 1..n : i \in 1..Len(q)
  OBVIOUS
<1>4. /\ Len(z) = Len(q) - n
      /\ \A i \in 1..(Len(q) - n) : z[i] = q[n + i] /\ n + i \in 1..Len(q)
  BY <1>2, CutQueue
<1>5. issued'[b] = z /\ \A c \in Batchers : c # b => issued'[c] = issued[c]
  BY <1>2 DEF FlightInv
<1>6. \A i \in 1..Len(q) : q[i] \in Slots \X Requests
  OBVIOUS
<1>7. \A k \in 1..Len(q) : k \in 1..n \/ (k - n \in 1..Len(z) /\ z[k - n] = q[k])
  <2> SUFFICES ASSUME NEW k \in 1..Len(q), k \notin 1..n
               PROVE k - n \in 1..Len(z) /\ z[k - n] = q[k]
    OBVIOUS
  <2>1. k - n \in 1..(Len(q) - n) /\ n + (k - n) = k
    BY <1>3
  <2> QED
    BY <1>4, <2>1
<1>8. ASSUME NEW i \in 1..Len(q)
      PROVE q[i][1][1] = b /\ \A l \in 1..Len(q) : q[l][1] = q[i][1] => l = i
  <2>1. PICK s \in Slots : s = q[i][1]
    BY <1>6
  <2>2. ~NoneIssued(s)
    BY <2>1 DEF NoneIssued
  <2>3. OneIssued(s)
    BY <2>2 DEF FlightInv, Flight
  <2> QED
    BY <2>1, <2>3 DEF OneIssued
<1>9. ASSUME NEW s \in Slots
      PROVE /\ Hand(s) = {x \in Requests : Has(issued[s[1]], s, x)}
            /\ Hand(s)' = {x \in Requests : Has(issued'[s[1]], s, x)}
            /\ s[1] \in Batchers
  BY OldestHandIs, SlotGrid DEF BInv
<1>10. ASSUME NEW e \in batch PROVE e = <<e[1], e[2]>> /\ e[1] \in Slots /\ e[2] \in Hand(e[1])
  <2>1. PICK i \in 1..n : e = q[i]
    BY <1>1
  <2>2. i \in 1..Len(q) /\ e \in Slots \X Requests /\ e[1][1] = b
    BY <1>3, <1>6, <1>8, <2>1
  <2>3. e = <<e[1], e[2]>> /\ e[1] \in Slots /\ e[2] \in Requests
    BY <2>2
  <2>4. Has(q, e[1], e[2])
    BY <2>1, <2>2, <2>3 DEF Has
  <2> QED
    BY <1>9, <2>2, <2>3, <2>4
<1>11. ASSUME NEW s \in Slots, NEW e \in batch, e[1] = s PROVE Hand(s)' = {}
  <2>1. PICK i \in 1..n : e = q[i]
    BY <1>1
  <2>2. i \in 1..Len(q) /\ s[1] = b /\ \A l \in 1..Len(q) : q[l][1] = s => l = i
    BY <1>3, <1>8, <1>11, <2>1
  <2>3. ASSUME NEW x, Has(z, s, x) PROVE FALSE
    <3>1. PICK k \in 1..Len(z) : z[k] = <<s, x>>
      BY <2>3 DEF Has
    <3>2. k \in 1..(Len(q) - n)
      BY <1>4
    <3>3. n + k \in 1..Len(q) /\ q[n + k] = <<s, x>>
      BY <1>4, <3>1, <3>2
    <3>4. <<s, x>>[1] = s
      OBVIOUS
    <3>5. n + k = i
      BY <2>2, <3>3, <3>4
    <3> QED
      BY <1>3, <3>2, <3>5
  <2> QED
    BY <1>5, <1>9, <2>2, <2>3
<1>12. ASSUME NEW s \in Slots, \A e \in batch : e[1] # s PROVE Hand(s)' = Hand(s)
  <2>1. CASE s[1] # b
    BY <1>5, <1>9, <2>1
  <2>2. CASE s[1] = b
    <3>1. \A x \in Requests : Has(z, s, x) => Has(q, s, x)
      <4> SUFFICES ASSUME NEW x \in Requests, Has(z, s, x) PROVE Has(q, s, x)
        OBVIOUS
      <4>1. PICK k \in 1..Len(z) : z[k] = <<s, x>>
        BY DEF Has
      <4>2. k \in 1..(Len(q) - n)
        BY <1>4
      <4> QED
        BY <1>4, <4>1, <4>2 DEF Has
    <3>2. \A x \in Requests : Has(q, s, x) => Has(z, s, x)
      <4> SUFFICES ASSUME NEW x \in Requests, Has(q, s, x) PROVE Has(z, s, x)
        OBVIOUS
      <4>1. PICK k \in 1..Len(q) : q[k] = <<s, x>>
        BY DEF Has
      <4>2. <<s, x>>[1] = s
        OBVIOUS
      <4>3. k \notin 1..n
        BY <1>1, <1>12, <4>1, <4>2
      <4> QED
        BY <1>7, <4>1, <4>3 DEF Has
    <3>3. /\ Hand(s) = {x \in Requests : Has(q, s, x)}
          /\ Hand(s)' = {x \in Requests : Has(z, s, x)}
      BY <1>5, <1>9, <2>2
    <3> QED
      BY ONLY <3>1, <3>2, <3>3
  <2> QED
    BY <2>1, <2>2
<1>13. RunsHands(batch)
  BY <1>10, <1>11, <1>12 DEF RunsHands
<1> QED
  BY <1>1, <1>13

\* The dynamic batcher gives a batch to the backend.
LEMMA ExecuteBatchLines ==
  ASSUME Fixed, Config.strategy = "oldest", BInv, FlightInv, Lines,
         NEW b \in Batchers, ExecuteBatch(b)
  PROVE Lines' /\ Promise!Next
<1>1. PICK n \in 1..Len(issued[b]) :
        /\ Runs(Range(SubSeq(issued[b], 1, n)))
        /\ issued' = [issued EXCEPT ![b] = SubSeq(@, n + 1, Len(@))]
        /\ UNCHANGED <<sent, slotMap, backlogMap, backlog, forced, calls, queues, corrid>>
  BY DEF ExecuteBatch, mapVars
<1>2. PICK q \in Seq(Slots \X Requests) : q = issued[b]
  BY DEF FlightInv
<1>3. issued' = [issued EXCEPT ![b] = SubSeq(q, n + 1, Len(q))] /\ n \in 1..Len(q)
  BY <1>1, <1>2 DEF FlightInv
<1>4. Range(SubSeq(issued[b], 1, n)) = {q[i] : i \in 1..n}
  BY <1>2, <1>3, CutQueue
<1>5. PICK batch : batch = {q[i] : i \in 1..n}
  OBVIOUS
<1>6. Runs(batch)
  BY <1>1, <1>4, <1>5
<1>7. RunsHands(batch)
  BY <1>2, <1>3, <1>5, ExecutesHands
<1> QED
  BY <1>1, <1>6, <1>7, RunLines DEF Lines

\* Every step of the Oldest strategy, and of the scheduler with it.
LEMMA OldestLines ==
  ASSUME Config.strategy = "oldest", BInv, FlightInv, ~Pipelined, Lines, OldestNext
  PROVE Lines' /\ (Promise!Next \/ UNCHANGED Promise!vars)
<1>1. Fixed
  BY DEF OldestNext
<1>2. CASE BaseNext /\ UNCHANGED oldestVars
  <2>1. UNCHANGED issued
    BY <1>2 DEF oldestVars
  <2>2. SameHands
    BY <1>1, <2>1, HandsStay
  <2> QED
    BY <1>1, <1>2, <2>2, SchedulerLines DEF Lines
<1>3. ASSUME NEW x \in calls, OldestEnqueue(x) \/ CompleteAndNext(x)
      PROVE Lines' /\ UNCHANGED Promise!vars
  BY <1>1, <1>3, OldestEnqueueLines, NoTurnLines, IssueNextLines DEF CompleteAndNext
<1> QED
  BY <1>1, <1>2, <1>3, ExecuteBatchLines, ReleaseRequestLines DEF OldestNext, OldestBatching
----------------------------------------------------------------------------
\* Every hand is empty at the start.
LEMMA InitHands ==
  ASSUME Init
  PROVE /\ \A s \in Slots : Hand(s) = {}
        /\ Config.strategy = "direct" => BatchInv
<1>1. BaseInit /\ SInv
  BY InitKeeps DEF Init, DirectInit, OldestInit
<1>2. \A s \in Slots : s[1] \in Batchers
  BY <1>1, SlotGrid DEF SInv, BInv
<1>3. Len(<< >>) = 0 /\ 1..0 = {}
  OBVIOUS
<1>4. CASE Config.strategy = "direct"
  <2>1. /\ pass = [b \in Batchers |-> Top] /\ activeCid = [s \in Slots |-> 0]
        /\ queues = [s \in Slots |-> << >>] /\ corrid = [s \in Slots |-> 0]
    BY <1>1, <1>4 DEF Init, DirectInit, BaseInit
  <2>2. Top.batch = << >> /\ Top.pc = "top"
    BY DEF Top
  <2>3. \A b \in Batchers : pass[b].batch = << >> /\ pass[b].pc = "top" /\ 1..Len(pass[b].batch) = {}
    BY <1>3, <2>1, <2>2
  <2>4. \A s \in Slots : DirectHand(s) = {}
    BY <1>2, <2>3 DEF DirectHand
  <2>5. \A b \in Batchers : BatchOf(b)
    BY <2>3 DEF BatchOf
  <2>6. BatchInv
    BY <2>1, <2>5 DEF BatchInv
  <2> QED
    BY <1>4, <2>4, <2>6 DEF Hand
<1>5. CASE Config.strategy # "direct"
  <2>1. issued = [b \in Batchers |-> << >>]
    BY <1>5 DEF Init, OldestInit
  <2>2. \A b \in Batchers : 1..Len(issued[b]) = {}
    BY <1>3, <2>1
  <2>3. \A s \in Slots : OldestHand(s) = {}
    BY <1>2, <2>2 DEF OldestHand
  <2> QED
    BY <1>5, <2>3 DEF Hand
<1> QED
  BY <1>4, <1>5

\* Nothing was sent, and nothing is in a line.
LEMMA InitLines ==
  ASSUME Init
  PROVE LInv /\ Promise!Init
<1>1. BaseInit /\ SInv /\ BInv /\ BaseType
  BY InitKeeps DEF Init, DirectInit, OldestInit, SInv, BInv
<1>2. /\ sent = [c \in Cids |-> 0] /\ slotMap = [c \in Cids |-> None]
      /\ backlogMap = [c \in Cids |-> None] /\ backlog = << >> /\ forced = {} /\ calls = {}
      /\ queues = [s \in Slots |-> << >>]
      /\ sessionOf = [r \in Requests |-> None] /\ current = [c \in Cids |-> None]
      /\ refused = {} /\ ran = {} /\ last = [s \in AllSlots |-> None]
  BY <1>1 DEF BaseInit
<1>3. Len(<< >>) = 0 /\ 1..0 = {}
  OBVIOUS
<1>4. /\ 1..Len(backlog) = {} /\ \A s \in Slots : queues[s] = << >> /\ 1..Len(queues[s]) = {}
      /\ \A c \in Cids : ~Known(c)
  BY <1>2, <1>3 DEF Known
<1>5. (\A s \in Slots : Hand(s) = {}) /\ (Config.strategy = "direct" => BatchInv)
  BY InitHands
<1>6. HistInv
  <2>1. HistType
    BY <1>2 DEF HistType
  <2>2. \A r \in Requests : sessionOf[r] = None /\ sent[r[1]] = 0 /\ ~(r[2] <= 0)
    BY <1>2, RequestFacts
  <2>3. \A r \in Requests : r[2] <= sent[r[1]] <=> Answered(r)
    BY <1>2, <2>2 DEF Answered
  <2> QED
    BY <1>2, <1>4, <2>1, <2>2, <2>3 DEF HistInv, SessionsInv, RanInv, OpenInv
<1>7. SeatInv
  <2>1. \A r, k, w : ~In(r, k, w)
    BY <1>2, <1>4, <1>5 DEF In, InHand, InQueue, InCall, InBacklog
  <2> QED
    BY <2>1 DEF SeatInv, Seat, OneSeat
<1>8. HandInv
  BY <1>5 DEF HandInv, HandOf
<1>9. LineInv
  <2>1. \A s \in Slots : QueueLine(s)
    BY <1>4 DEF QueueLine, Numbered
  <2>2. \A c \in Cids : TailLine(c)
    BY <1>2 DEF TailLine
  <2> QED
    BY <1>2, <1>4, <2>1, <2>2 DEF LineInv
<1>10. Promise!Init
  <2>1. \A r \in Requests : FlagsOf(r).start \in BOOLEAN /\ FlagsOf(r).end \in BOOLEAN
    <3>1. plan \in [Cids -> Seq(Flags)]
      BY <1>1, ConfigFits DEF BaseType
    <3> SUFFICES ASSUME NEW r \in Requests
                 PROVE FlagsOf(r).start \in BOOLEAN /\ FlagsOf(r).end \in BOOLEAN
      OBVIOUS
    <3>2. plan[r[1]] \in Seq(Flags)
      BY <3>1, RequestFacts
    <3>3. FlagsOf(r) \in Flags
      <4>1. Absent \in Flags
        BY DEF Absent, Flags
      <4>2. CASE r[2] \in DOMAIN plan[r[1]]
        BY <3>2, <4>2 DEF FlagsOf
      <4>3. CASE r[2] \notin DOMAIN plan[r[1]]
        BY <4>1, <4>3 DEF FlagsOf
      <4> QED
        BY <4>2, <4>3
    <3> QED
      BY <3>3 DEF Flags
  <2>2. [r \in Requests |-> [start |-> Start(r), end |-> End(r)]]
          \in [Requests -> [start : BOOLEAN, end : BOOLEAN]]
    BY <2>1 DEF Start, End
  <2>3. Open = [c \in Cids |-> None]
    BY <1>4 DEF Open
  <2> QED
    BY <1>2, <2>2, <2>3 DEF Promise!Init
<1> QED
  BY <1>5, <1>6, <1>7, <1>8, <1>9, <1>10 DEF LInv

\* A step that changes nothing.
LEMMA StutterLines ==
  ASSUME SInv, LInv, UNCHANGED vars
  PROVE LInv' /\ UNCHANGED Promise!vars
<1>1. /\ Fixed /\ SameHistory /\ QuietCalls /\ BInv /\ Lines
      /\ UNCHANGED <<slotMap, backlogMap, backlog, forced, queues, corrid, activeCid, pass, issued>>
  BY DEF vars, baseVars, mapVars, directVars, oldestVars, history, Fixed, SameHistory, QuietCalls,
         SInv, LInv, Lines
<1>2. Config' = Config
  BY <1>1, FixedMeans
<1>3. SameHands
  BY <1>1, HandsStay
<1>4. CASE Config.strategy = "direct"
  <2>1. BatchInv
    BY <1>4 DEF LInv
  <2>2. \A b \in Batchers : pass'[b].batch = pass[b].batch /\ BatchOf(b)'
    BY <1>1, <2>1, BatchFrame DEF BatchInv
  <2>3. Lines' /\ BatchInv' /\ UNCHANGED Promise!vars
    BY <1>1, <1>4, <2>1, <2>2, DirectQuiet
  <2> QED
    BY <2>3 DEF LInv, Lines
<1>5. CASE Config.strategy # "direct"
  <2>1. PICK t \in Slots : TRUE
    <3>1. Slots # {}
      BY <1>1, ConfigFits DEF BInv, BaseType
    <3> QED
      BY <3>1
  <2>2. PICK c : IsNull(Null(c))
    BY DEF Null, IsNull
  <2>3. HandStep(t, Null(c))
    BY <1>1, <1>3, <2>2 DEF SameHands, HandStep
  <2>4. Lines' /\ UNCHANGED Promise!vars
    BY <1>1, <2>2, <2>3, QuietLines DEF Lines
  <2> QED
    BY <1>2, <1>5, <2>4 DEF LInv, Lines
<1> QED
  BY <1>4, <1>5

\* Every step keeps the lines, and is a step of the promise or none.
LEMMA StepLines ==
  ASSUME ~Pipelined, SInv, LInv, [Next]_vars
  PROVE LInv' /\ [Promise!Next]_(Promise!vars)
<1>1. Fixed
  BY DEF Next, DirectNext, OldestNext, vars, baseVars, Fixed
<1>2. Config' = Config /\ BInv /\ Lines
  BY <1>1, FixedMeans DEF SInv, LInv, Lines
<1>3. CASE Config.strategy = "direct" /\ DirectNext
  <2>1. Lines' /\ BatchInv' /\ (Promise!Next \/ UNCHANGED Promise!vars)
    BY <1>2, <1>3, DirectLines DEF SInv, LInv
  <2> QED
    BY <2>1 DEF LInv, Lines
<1>4. CASE Config.strategy = "oldest" /\ OldestNext
  <2>1. Lines' /\ (Promise!Next \/ UNCHANGED Promise!vars)
    BY <1>2, <1>4, OldestLines DEF SInv
  <2>2. Config'.strategy # "direct"
    BY <1>2, <1>4
  <2> QED
    BY <2>1, <2>2 DEF LInv, Lines
<1>5. CASE UNCHANGED vars
  BY <1>5, StutterLines
<1> QED
  BY <1>3, <1>4, <1>5 DEF Next

\* The lines of requests are in order whenever one thread sends for each ID:
\* an admitted request waits in one place until it runs, behind the request
\* before it in its sequence, in the slot where that one ran (the queues_ of
\* the batchers, the backlog and the calls to SequenceBatch::Enqueue).
THEOREM SequencesInOrder == Spec => [](~Pipelined => LInv)
<1>1. Init => (~Pipelined => SInv /\ LInv)
  BY InitKeeps, InitLines
<1>2. (~Pipelined => SInv) /\ (~Pipelined => LInv) /\ [Next]_vars => (~Pipelined => LInv)'
  <2> SUFFICES ASSUME ~Pipelined => SInv, ~Pipelined => LInv, [Next]_vars, ~Pipelined' PROVE LInv'
    OBVIOUS
  <2>1. Fixed
    BY DEF Next, DirectNext, OldestNext, vars, baseVars, Fixed
  <2>2. ~Pipelined
    BY <2>1, FixedMeans
  <2> QED
    BY <2>2, StepLines
<1> QED
  BY <1>1, <1>2, SequencesInvariant, PTL DEF Spec

\* The sequence batcher, with either strategy, implements CorrelatedSequences
\* when one thread sends for each correlation ID: the requests of a sequence
\* run in the order in which Enqueue took them, once each, in one slot that no
\* other sequence uses in between, and Enqueue refuses only what it should.
THEOREM SequencesKeepPromise == Spec /\ ~Pipelined => KeepsPromise
<1>1. Init => Promise!Init
  BY InitLines
<1>2. ~Pipelined /\ (~Pipelined => SInv) /\ (~Pipelined => LInv) /\ [Next]_vars
        => [Promise!Next]_(Promise!vars)
  BY StepLines
<1>3. ~Pipelined /\ [Next]_vars => ~Pipelined'
  <2>1. [Next]_vars => Fixed
    BY DEF Next, DirectNext, OldestNext, vars, baseVars, Fixed
  <2> QED
    BY <2>1, FixedMeans
<1> QED
  BY <1>1, <1>2, <1>3, SequencesInvariant, SequencesInOrder, PTL DEF Spec, KeepsPromise, Promise!Spec
============================================================================
