----------------------- MODULE SequenceBatchScheduler -----------------------
(***************************************************************************)
(* The part of the sequence batcher that its two strategies share          *)
(* (src/src/core/sequence_batch_scheduler.{h,cc}): it assigns the sequence *)
(* of each correlation ID to a slot of a batcher, collects the sequences   *)
(* that have no slot in the backlog, and force-ends idle sequences.        *)
(* DirectSequenceBatch and OldestSequenceBatch extend it with what a       *)
(* batcher does with the queue of a slot.                                  *)
(*                                                                         *)
(* A step of this module is what a thread does with the scheduler's mu_    *)
(* held.  Enqueue and the reaper give up mu_ before they call the          *)
(* batcher: `calls' holds the calls in between, each with the step its     *)
(* thread takes next.                                                      *)
(***************************************************************************)
EXTENDS Naturals, Sequences, FiniteSets, SequencesExt

CONSTANTS
  Cids,             \* correlation IDs, none of them 0
  AllSlots,         \* <<batcher index, slot number>>
  MaxRequests,      \* bound: requests of a correlation ID
  SequenceConfigs   \* name -> model configuration and inputs to explore

VARIABLES
  config,  \* which configuration: fixed at the start
  plan     \* correlation ID -> the requests its client may send, in order

Config == SequenceConfigs[config]
Slots == Config.slots              \* batchers times seq_slot_cnt
Batchers == {s[1] : s \in Slots}
AllBatchers == {s[1] : s \in AllSlots}
Pipelined == Config.pipelined      \* do several threads send for one ID
StaleIds == Config.stale           \* bound: IDs that are looked at in vain

Requests == Cids \X (1..MaxRequests)
None == << >>
Null(c) == <<c, 0>>                \* the reaper's nullptr for sequence c
IsNull(r) == r[2] = 0

Flags == [start : BOOLEAN, end : BOOLEAN, shape : Nat]
Absent == [start |-> FALSE, end |-> FALSE, shape |-> 0]
FlagsOf(r) == IF r[2] \in DOMAIN plan[r[1]] THEN plan[r[1]][r[2]] ELSE Absent
Start(r) == FlagsOf(r).start
End(r) == FlagsOf(r).end

ASSUME SequenceAssumption ==
  /\ IsFiniteSet(Cids) /\ 0 \notin Cids /\ MaxRequests \in Nat
  /\ IsFiniteSet(AllSlots) /\ AllSlots \subseteq Nat \X Nat
  /\ \A n \in DOMAIN SequenceConfigs :
       LET cfg == SequenceConfigs[n]
       IN  /\ cfg.slots # {} /\ cfg.slots \subseteq AllSlots
           /\ \E cnt \in 1..Cardinality(AllSlots) :   \* seq_slot_cnt
                cfg.slots = {s[1] : s \in cfg.slots} \X (0..cnt - 1)
           /\ cfg.strategy \in {"direct", "oldest"}
           /\ cfg.pipelined \in BOOLEAN /\ cfg.stale \subseteq Cids
           /\ \A p \in cfg.plans :
                /\ p \in [Cids -> Seq(Flags)]
                /\ \A c \in Cids : Len(p[c]) <= MaxRequests

VARIABLES
  sent,        \* correlation ID -> how many requests its client has sent
  slotMap,     \* sequence_to_batcherseqslot_map_: ID -> slot, or None
  backlogMap,  \* sequence_to_backlog_map_: ID -> first request of its queue
  backlog,     \* backlog_queues_
  ready,       \* ready_batcher_seq_slots_
  stamp,       \* correlation_id_timestamps_: "none", "fresh" or "idle"
  forced,      \* force_end_sequences the reaper has yet to enqueue
  calls,       \* calls of SequenceBatch::Enqueue and CompleteAndNext
  queues,      \* slot -> its queue in queues_ of its batcher
  corrid       \* slot -> content of its CORRID override, 0 at first

\* What happened so far.
VARIABLES
  sessionOf,   \* request -> first request of the sequence it belongs to
  current,     \* correlation ID -> the sequence begun last
  refused,     \* requests answered with an error
  ran,         \* requests handed to the backend
  last         \* slot -> the sequence the backend saw in it last

history == <<sessionOf, current, refused, ran, last>>
mapVars == <<slotMap, backlogMap, backlog, ready>>
baseVars == <<config, plan, sent, mapVars, stamp, forced, calls, queues,
              corrid, history>>

BaseInit ==
  /\ config \in DOMAIN SequenceConfigs
  /\ plan \in Config.plans
  /\ sent = [c \in Cids |-> 0]
  /\ slotMap = [c \in Cids |-> None]
  /\ backlogMap = [c \in Cids |-> None]
  /\ backlog = << >> /\ ready = Slots
  /\ stamp = [c \in Cids |-> "none"]
  /\ forced = {} /\ calls = {}
  /\ queues = [s \in Slots |-> << >>]
  /\ corrid = [s \in Slots |-> 0]
  /\ sessionOf = [r \in Requests |-> None]
  /\ current = [c \in Cids |-> None]
  /\ refused = {} /\ ran = {}
  /\ last = [s \in AllSlots |-> None]

Fixed == UNCHANGED <<config, plan>>

Call(from, r, slot, step) ==
  [from |-> from, req |-> r, slot |-> slot, step |-> step]
Goto(x, step) == calls' = (calls \ {x}) \cup {[x EXCEPT !.step = step]}
Return(x) == calls' = calls \ {x}

(***************************************************************************)
(* SequenceBatchScheduler::Enqueue, its part with mu_ held.                *)
(***************************************************************************)
NextRequest(c) == <<c, sent[c] + 1>>

\* The client of c sends its next request.  One thread sends for c unless
\* Pipelined, and then only after its previous call has returned.
Sends(c) ==
  /\ sent[c] < Len(plan[c])
  /\ Pipelined \/ ~\E x \in calls : x.from = "client" /\ x.req[1] = c
  /\ sent' = [sent EXCEPT ![c] = @ + 1]

Known(c) == slotMap[c] # None \/ backlogMap[c] # None

\* Not a START, and neither in a slot nor in the backlog.
Refuse(c) ==
  /\ Sends(c) /\ ~Start(NextRequest(c)) /\ ~Known(c)
  /\ refused' = refused \cup {NextRequest(c)}
  /\ UNCHANGED <<mapVars, stamp, forced, calls, queues, corrid,
                 sessionOf, current, ran, last>>

\* The request is taken; the ID's time stamp is renewed.
Admits(c) ==
  LET r == NextRequest(c)
      session == IF Known(c) THEN current[c] ELSE r
  IN  /\ Sends(c)
      /\ Start(r) \/ Known(c)
      /\ stamp' = [stamp EXCEPT ![c] = "fresh"]
      /\ sessionOf' = [sessionOf EXCEPT ![r] = session]
      /\ current' = [current EXCEPT ![c] = session]
      /\ UNCHANGED <<forced, queues, corrid, refused, ran, last>>

\* The end of Enqueue: an END stops the tracking of the ID.
ToSlot(c, slot) ==
  /\ slotMap' = [slotMap EXCEPT ![c] =
                   IF End(NextRequest(c)) THEN None ELSE slot]
  /\ calls' = calls \cup {Call("client", NextRequest(c), slot, "enqueue")}
  /\ UNCHANGED <<backlogMap, backlog>>

EnqueueAssigned(c) ==
  /\ Admits(c) /\ slotMap[c] # None
  /\ ToSlot(c, slotMap[c])
  /\ UNCHANGED ready

EnqueueBacklogged(c) ==
  LET r == NextRequest(c)
      k == CHOOSE n \in 1..Len(backlog) : backlog[n][1] = backlogMap[c]
  IN  /\ Admits(c) /\ slotMap[c] = None /\ backlogMap[c] # None
      /\ backlog' = [backlog EXCEPT ![k] = Append(@, r)]
      /\ backlogMap' = [backlogMap EXCEPT ![c] = IF End(r) THEN None ELSE @]
      /\ UNCHANGED <<slotMap, ready, calls>>

\* ready_batcher_seq_slots_.top(): a slot of least number, of any batcher.
TopReady == {s \in ready : \A t \in ready : s[2] <= t[2]}

EnqueueAssigning(c) ==
  /\ Admits(c) /\ ~Known(c)
  /\ \E slot \in TopReady :
       ready' = ready \ {slot} /\ ToSlot(c, slot)

EnqueueBacklogging(c) ==
  LET r == NextRequest(c)
  IN  /\ Admits(c) /\ ~Known(c) /\ ready = {}
      /\ backlog' = Append(backlog, <<r>>)
      /\ backlogMap' = [backlogMap EXCEPT ![c] = IF End(r) THEN None ELSE r]
      /\ UNCHANGED <<slotMap, ready, calls>>

(***************************************************************************)
(* ReleaseSequenceSlot: the slot goes to the first sequence of the         *)
(* backlog, whose queue replaces the slot's, or becomes ready.             *)
(***************************************************************************)
ReleasedCid == IF backlog = << >> THEN 0 ELSE Last(Head(backlog))[1]
ReleasedQueue(rest) == IF backlog = << >> THEN rest ELSE Head(backlog)

ReleaseSequenceSlot(slot) ==
  IF backlog = << >>
  THEN ready' = ready \cup {slot} /\ UNCHANGED <<slotMap, backlogMap, backlog>>
  ELSE LET c == ReleasedCid
           open == ~End(Last(Head(backlog)))
       IN  /\ backlog' = Tail(backlog)
           /\ backlogMap' = IF open THEN [backlogMap EXCEPT ![c] = None]
                            ELSE backlogMap
           /\ slotMap' = IF open THEN [slotMap EXCEPT ![c] = slot]
                         ELSE slotMap
           /\ UNCHANGED ready

(***************************************************************************)
(* ReaperThread, and the passing of time: an ID is idle when its last      *)
(* request is older than max_sequence_idle_microseconds_.  A client's call *)
(* of Enqueue is taken to be shorter than that.  The stamp of an ID that   *)
(* no map knows is only ever dropped: it becomes idle for StaleIds.        *)
(***************************************************************************)
BecomesIdle(c) ==
  /\ stamp[c] = "fresh" /\ (Known(c) \/ c \in StaleIds)
  /\ ~\E x \in calls : x.from = "client" /\ x.req[1] = c
  /\ stamp' = [stamp EXCEPT ![c] = "idle"]
  /\ UNCHANGED <<sent, mapVars, forced, calls, queues, corrid, history>>

ReaperBusy == forced # {} \/ \E x \in calls : x.from = "reaper"

\* Slip: the reaper leaves the sequences it force-ends in the map.
CheckWithoutErase ==
  LET idle == {c \in Cids : stamp[c] = "idle"}
      placed == {c \in idle : slotMap[c] # None}
  IN  /\ ~ReaperBusy /\ idle # {}
      /\ forced' = {<<c, slotMap[c]>> : c \in placed}
      /\ stamp' = [c \in Cids |->
                     IF c \in idle /\ backlogMap[c] = None THEN "none"
                     ELSE stamp[c]]
      /\ UNCHANGED <<sent, mapVars, calls, queues, corrid, history>>

\* One look at all time stamps, with mu_ held.  An idle ID in the backlog
\* keeps its stamp, to be looked at again.
ReaperCheck ==
  LET idle == {c \in Cids : stamp[c] = "idle"}
      placed == {c \in idle : slotMap[c] # None}
  IN  /\ ~ReaperBusy /\ idle # {}
      /\ forced' = {<<c, slotMap[c]>> : c \in placed}
      /\ slotMap' = [c \in Cids |-> IF c \in placed THEN None ELSE slotMap[c]]
      /\ stamp' = [c \in Cids |->
                     IF c \in placed \/ (c \in idle /\ backlogMap[c] = None)
                     THEN "none" ELSE stamp[c]]
      /\ UNCHANGED <<sent, backlogMap, backlog, ready, calls, queues, corrid,
                     history>>

\* The force-ends are enqueued one after the other, outside of the lock.
ReaperForceEnd ==
  /\ ~\E x \in calls : x.from = "reaper"
  /\ \E f \in forced :
       /\ forced' = forced \ {f}
       /\ calls' = calls \cup {Call("reaper", Null(f[1]), f[2], "enqueue")}
  /\ UNCHANGED <<sent, mapVars, stamp, queues, corrid, history>>

Client(c) ==
  \/ Refuse(c) \/ EnqueueAssigned(c) \/ EnqueueBacklogged(c)
  \/ EnqueueAssigning(c) \/ EnqueueBacklogging(c)

BaseNext ==
  \/ \E c \in Cids : Client(c) \/ BecomesIdle(c)
  \/ ReaperCheck \/ ReaperForceEnd

(***************************************************************************)
(* The backend is given a batch: a set of <<slot, request>>.  It knows a   *)
(* sequence by the correlation ID it reads from the override of the slot.  *)
(***************************************************************************)
Runs(batch) ==
  /\ ran' = ran \cup {e[2] : e \in batch}
  /\ last' = [s \in AllSlots |->
                IF \E e \in batch : e[1] = s
                THEN LET e == CHOOSE d \in batch : d[1] = s
                     IN  <<corrid[s], sessionOf[e[2]][2]>>
                ELSE last[s]]
  /\ UNCHANGED <<sessionOf, current, refused>>

\* An END or a null request releases the slot it is given to.
Releases(r) == IsNull(r) \/ End(r)

\* Who has slot s: the open sequence that is mapped to it; the request that
\* will release it, in its queue, on its way to it, or still with the reaper;
\* or nobody, and it is ready.
Owners(s) ==
  {<<"sequence", c>> : c \in {d \in Cids : slotMap[d] = s}}
  \cup {<<"queue", n>> : n \in {k \in 1..Len(queues[s]) : Releases(queues[s][k])}}
  \cup {<<"call", x>> : x \in {y \in calls : y.slot = s /\ y.step = "enqueue"
                                     /\ Releases(y.req)}}
  \cup {<<"forced", f>> : f \in {g \in forced : g[2] = s}}
  \cup {<<"ready", t>> : t \in {u \in ready : u = s}}

\* A slot is ready for a new sequence, or is the slot of exactly one open
\* sequence, or will be released by exactly one END or force-end: it is never
\* given to two sequences, released twice or lost.  Nothing is on its way to
\* a ready slot.
SlotOwnedOnce ==
  \A s \in Slots :
    /\ Cardinality(Owners(s)) = 1
    /\ s \in ready => /\ queues[s] = << >> /\ backlog = << >>
                      /\ ~\E x \in calls : x.slot = s /\ x.step = "enqueue"

\* The sequence an ID's next request would join.
Open == [c \in Cids |-> IF Known(c) THEN current[c] ELSE None]

Promise == INSTANCE CorrelatedSequences WITH
  Slots <- AllSlots, open <- Open,
  flags <- [r \in Requests |-> [start |-> Start(r), end |-> End(r)]]

\* Both strategies keep the promise of CorrelatedSequences: Enqueue, the
\* backlog, the reaper and the batchers run every sequence in order, in one
\* slot, under its correlation ID and not mixed with another sequence.
KeepsPromise == Promise!Spec

\* Again and again, every request that Enqueue answered with success has been
\* run, whatever the clients do: a sequence whose client sends nothing more is
\* force-ended, so that the backlog moves on.
Served == []<>(\A r \in Requests : sessionOf[r] # None => r \in ran)
=============================================================================
