-------------------------- MODULE GrpcServerProofs --------------------------
(***************************************************************************)
(* What GrpcServer's stream promises, for any number of requests and       *)
(* responses and any models: the responses of models that are not          *)
(* decoupled are written in the order of their requests, those of a        *)
(* decoupled model one at a time, and the call finishes after the last of  *)
(* them.  The argument is one inductive invariant, GInv.  Its parts say    *)
(* which operation may be on the completion queue for a state in each step *)
(* of the life of that state (StateOK), that one read goes on and is for   *)
(* the newest request (ReadersOK), that one write goes on (WritersOK),     *)
(* that the call finishes when no state is active (FinishersOK), and how   *)
(* the queue of states and the responses written relate (QueueOK,          *)
(* WrittenOK, CountOK).  The parts are predicates of values, so that a     *)
(* handler that changes a state several times is proved change by change.  *)
(* The calls without a stream have an invariant of their own, CInv.        *)
(***************************************************************************)
EXTENDS GrpcServer, SequenceTheorems, FiniteSetTheorems, TLAPS

Steps == {"START", "READ", "ISSUED", "WRITEREADY", "WRITTEN", "COMPLETE", "FINISH"}
OpKinds == {"start", "read", "write", "alarm", "finish"}
ModelStates == {"none", "runs", "responds", "done"}
States ==
  [step : Steps, decoupled : BOOLEAN, complete : BOOLEAN, alive : BOOLEAN,
   alloc : Nat, ready : Nat, current : Nat,
   model : ModelStates, null : BOOLEAN, sent : Nat]
ContextSteps == {"START", "READ", "WRITEREADY", "COMPLETE"}
Contexts ==
  [step : ContextSteps, queue : Seq(Nat), ongoing : Int, ok : BOOLEAN,
   writing : BOOLEAN]

(***************************************************************************)
(* The invariant, as a predicate of the values that a step changes: the    *)
(* kinds of models K, the Context c, the states S, the tags o, the state h *)
(* that the handler holds and the responses w that were written.           *)
(***************************************************************************)
Typed(c, S, o, h, w) ==
  /\ c \in Contexts
  /\ Cardinality(DOMAIN S) \in Nat /\ S \in [1..Cardinality(DOMAIN S) -> States]
  /\ o \subseteq OpKinds \X DOMAIN S
  /\ h \in DOMAIN S \cup {None} /\ w \in Seq(DOMAIN S)

IsActive(t) == t.step \in {"ISSUED", "WRITEREADY", "WRITTEN"}
Active(S) == {s \in DOMAIN S : IsActive(S[s])}

\* What holds of state s when its value is t.
StateOK(K, c, o, h, s, t) ==
  /\ t.step \in {"START", "READ"} => t = NewState(t.step)
  /\ t.decoupled => "decoupled" \in K
  /\ t.model = "runs" =>
       IsActive(t) /\ ~t.complete /\ (~t.decoupled => t.step = "ISSUED")
  /\ t.model = "responds" /\ ~t.complete => IsActive(t) /\ t.decoupled
  /\ t.decoupled =>
       t.alloc = t.ready + (IF t.model = "responds" /\ ~t.null THEN 1 ELSE 0)
  /\ t.decoupled /\ ~IsActive(t) => IsEmpty(t)
  /\ <<"start", s>> \in o => t.step = "START"
  /\ <<"read", s>> \in o => t.step = "READ"
  /\ <<"alarm", s>> \in o => t.step = "WRITEREADY" /\ t.decoupled
  /\ <<"write", s>> \in o =>
       /\ t.step = "WRITTEN" /\ h # s
       /\ ~t.decoupled => c.queue # << >> /\ c.queue[1] = s
  /\ <<"finish", s>> \in o => t.step = "COMPLETE" /\ c.step = "COMPLETE"
  /\ h = s => t.decoupled /\ t.step = "WRITTEN"

\* One read goes on, for a request later than any that was read.
ReadersOK(c, S, o, w) ==
  \A s \in DOMAIN S : <<"read", s>> \in o =>
    /\ c.step = "READ"
    /\ \A t \in DOMAIN S : <<"read", t>> \in o => s = t
    /\ \A k \in DOMAIN c.queue : c.queue[k] < s
    /\ \A i \in DOMAIN w : ~S[w[i]].decoupled => w[i] < s

\* Where all models are decoupled, one write goes on.
WritersOK(K, c, S, o) ==
  "single" \notin K =>
    /\ c.queue = << >>
    /\ \A s, t \in DOMAIN S : <<"write", s>> \in o /\ <<"write", t>> \in o => s = t /\ c.writing

FinishersOK(S, o) ==
  \A s, t \in DOMAIN S : <<"finish", s>> \in o /\ <<"finish", t>> \in o => s = t

\* The queue holds states of models that answer once, in order, and only its
\* front is being written.
QueueOK(c, S) ==
  /\ \A k \in DOMAIN c.queue :
       /\ c.queue[k] \in Active(S) /\ ~S[c.queue[k]].decoupled
       /\ S[c.queue[k]].step = "WRITTEN" => k = 1
  /\ \A k, l \in DOMAIN c.queue : k < l => c.queue[k] < c.queue[l]

\* What was written is before what is queued.
WrittenOK(c, S, w) ==
  /\ \A i \in DOMAIN w : S[w[i]].step \notin {"START", "READ"}
  /\ \A i, j \in DOMAIN w :
       i < j /\ ~S[w[i]].decoupled /\ ~S[w[j]].decoupled => w[i] < w[j]
  /\ \A i \in DOMAIN w, k \in DOMAIN c.queue : ~S[w[i]].decoupled =>
       w[i] < c.queue[k] \/ (w[i] = c.queue[k] /\ S[w[i]].step = "WRITTEN")

\* ongoing counts the requests that are not answered completely.
CountOK(c, S) ==
  /\ IsFiniteSet(Active(S)) /\ c.ongoing = Cardinality(Active(S))
  /\ c.step = "COMPLETE" => Active(S) = {}

Sound(K, c, S, o, h, w) ==
  /\ Typed(c, S, o, h, w)
  /\ \A s \in DOMAIN S : StateOK(K, c, o, h, s, S[s])
  /\ ReadersOK(c, S, o, w) /\ WritersOK(K, c, S, o) /\ FinishersOK(S, o)
  /\ QueueOK(c, S) /\ WrittenOK(c, S, w) /\ CountOK(c, S)

\* Nothing has happened before the client connects.
Unconnected ==
  client.phase = "none" =>
    /\ ctx.step = "START" /\ ctx.queue = << >> /\ DOMAIN st = {1}
    /\ st[1].step \in {"START", "FINISH"} /\ st[1].model = "none"
    /\ ops \subseteq {<<"start", 1>>} /\ written = << >> /\ handler = None

GInv ==
  /\ config \in DOMAIN Scenarios
  /\ Sound(Scenario.kinds, ctx, st, ops, handler, written)
  /\ Unconnected

----------------------------------------------------------------------------
\* A set whose elements are all the same has at most one.
LEMMA AtMostOne ==
  ASSUME NEW A, \A x, y \in A : x = y
  PROVE  Cardinality(A) <= 1
<1>1. CASE A = {}
  BY <1>1, FS_EmptySet
<1>2. CASE A # {}
  <2>1. PICK x : A = {x}
    BY <1>2
  <2> QED
    BY <2>1, FS_Singleton
<1> QED
  BY <1>1, <1>2

\* The value of one state changes.
LEMMA ChangeTyped ==
  ASSUME NEW c, NEW S, NEW o, NEW h, NEW w, Typed(c, S, o, h, w),
         NEW s \in DOMAIN S, NEW t \in States, NEW c2 \in Contexts,
         NEW o2 \in SUBSET (OpKinds \X DOMAIN S), NEW h2 \in DOMAIN S \cup {None},
         NEW w2 \in Seq(DOMAIN S)
  PROVE  /\ Typed(c2, [S EXCEPT ![s] = t], o2, h2, w2)
         /\ DOMAIN [S EXCEPT ![s] = t] = DOMAIN S
         /\ [S EXCEPT ![s] = t][s] = t
         /\ \A x \in DOMAIN S : x # s => [S EXCEPT ![s] = t][x] = S[x]
<1>1. DOMAIN [S EXCEPT ![s] = t] = DOMAIN S
  OBVIOUS
<1> QED
  BY <1>1 DEF Typed

\* What a change of some states leaves as it is.
Alike(t, u) ==
  /\ u.decoupled = t.decoupled /\ IsActive(u) = IsActive(t)
  /\ ~t.decoupled => (u.step = "WRITTEN" <=> t.step = "WRITTEN")
  /\ u.step \in {"START", "READ"} => t.step \in {"START", "READ"}
SameQueue(c, c2) == c2.step = c.step /\ c2.queue = c.queue /\ c2.ongoing = c.ongoing
NoneAdded(o, o2) ==
  \A x : (<<"read", x>> \in o2 => <<"read", x>> \in o)
         /\ (<<"finish", x>> \in o2 => <<"finish", x>> \in o)
\* A response of a decoupled model may have been written.
WrittenGrows(S, w, w2) ==
  \A i \in DOMAIN w2 :
    \/ i \in DOMAIN w /\ w2[i] = w[i] /\ w[i] \in DOMAIN S
    \/ w2[i] \in DOMAIN S /\ S[w2[i]].decoupled /\ IsActive(S[w2[i]])

\* States change, and none of them becomes active or stops being it: what the
\* invariant says of them one by one is enough.
LEMMA Change ==
  ASSUME NEW K, NEW c, NEW S, NEW o, NEW h, NEW w, Sound(K, c, S, o, h, w),
         NEW c2, NEW T, NEW o2, NEW h2, NEW w2, Typed(c2, T, o2, h2, w2),
         DOMAIN T = DOMAIN S, \A x \in DOMAIN S : Alike(S[x], T[x]),
         SameQueue(c, c2), NoneAdded(o, o2), WrittenGrows(S, w, w2),
         \A x \in DOMAIN S : StateOK(K, c2, o2, h2, x, T[x]), WritersOK(K, c2, S, o2)
  PROVE  Sound(K, c2, T, o2, h2, w2)
<1>1. \A x \in DOMAIN S :
        /\ T[x].decoupled = S[x].decoupled
        /\ ~S[x].decoupled => (T[x].step = "WRITTEN" <=> S[x].step = "WRITTEN")
        /\ IsActive(T[x]) = IsActive(S[x])
  BY DEF Alike
<1>2. c2.step = c.step /\ c2.queue = c.queue /\ c2.ongoing = c.ongoing
  BY DEF SameQueue
<1>3. \A x : (<<"read", x>> \in o2 => <<"read", x>> \in o)
             /\ (<<"finish", x>> \in o2 => <<"finish", x>> \in o)
  BY DEF NoneAdded
<1>4. \A i \in DOMAIN w2 :
        \/ i \in DOMAIN w /\ w2[i] = w[i] /\ w[i] \in DOMAIN S
        \/ w2[i] \in DOMAIN S /\ S[w2[i]].decoupled /\ IsActive(S[w2[i]])
  BY DEF WrittenGrows
<1>5. ReadersOK(c2, T, o2, w2)
  <2>1. ReadersOK(c, S, o, w)
    BY DEF Sound
  <2> SUFFICES ASSUME NEW x \in DOMAIN S, <<"read", x>> \in o2
               PROVE  /\ c2.step = "READ"
                      /\ \A y \in DOMAIN S : <<"read", y>> \in o2 => x = y
                      /\ \A k \in DOMAIN c2.queue : c2.queue[k] < x
                      /\ \A i \in DOMAIN w2 : ~T[w2[i]].decoupled => w2[i] < x
    BY DEF ReadersOK
  <2> QED
    BY <1>1, <1>2, <1>3, <1>4, <2>1 DEF ReadersOK
<1>6. WritersOK(K, c2, T, o2) /\ FinishersOK(T, o2)
  BY <1>3 DEF Sound, WritersOK, FinishersOK
<1>7. Active(T) = Active(S)
  BY <1>1 DEF Active
<1>8. QueueOK(c2, T)
  BY <1>1, <1>2, <1>7 DEF Sound, QueueOK, Active
<1>9. WrittenOK(c2, T, w2)
  <2>1. WrittenOK(c, S, w)
    BY DEF Sound
  <2>2. \A i \in DOMAIN w2 : T[w2[i]].step \notin {"START", "READ"}
    <3>1. \A x \in DOMAIN S : T[x].step \in {"START", "READ"} => S[x].step \in {"START", "READ"}
      BY DEF Alike
    <3> QED
      BY <1>4, <2>1, <3>1 DEF WrittenOK, IsActive
  <2>3. \A i, j \in DOMAIN w2 :
          i < j /\ ~T[w2[i]].decoupled /\ ~T[w2[j]].decoupled => w2[i] < w2[j]
    BY <1>1, <1>4, <2>1 DEF WrittenOK
  <2>4. \A i \in DOMAIN w2, k \in DOMAIN c.queue : ~T[w2[i]].decoupled =>
          w2[i] < c.queue[k] \/ (w2[i] = c.queue[k] /\ T[w2[i]].step = "WRITTEN")
    BY <1>1, <1>4, <2>1 DEF WrittenOK
  <2> QED
    BY <1>2, <2>2, <2>3, <2>4 DEF WrittenOK
<1>10. CountOK(c2, T)
  BY <1>2, <1>7 DEF Sound, CountOK
<1> QED
  BY <1>5, <1>6, <1>8, <1>9, <1>10 DEF Sound

\* One state changes: its model answers, its callback is told, a response of a
\* decoupled model is written or waits for the handler.
LEMMA Update ==
  ASSUME NEW K, NEW c, NEW S, NEW o, NEW h, NEW w, Sound(K, c, S, o, h, w),
         NEW s \in DOMAIN S, NEW t \in States, Alike(S[s], t),
         NEW c2 \in Contexts, SameQueue(c, c2),
         NEW o2 \in SUBSET (OpKinds \X DOMAIN S), NoneAdded(o, o2),
         \A k, x : x # s => (<<k, x>> \in o2 <=> <<k, x>> \in o),
         NEW h2 \in {h, s, None},
         NEW w2, w2 = w \/ (w2 = Append(w, s) /\ t.decoupled /\ IsActive(t)),
         StateOK(K, c2, o2, h2, s, t), WritersOK(K, c2, S, o2)
  PROVE  Sound(K, c2, [S EXCEPT ![s] = t], o2, h2, w2)
<1> DEFINE T == [S EXCEPT ![s] = t]
<1>1. /\ Typed(c, S, o, h, w) /\ S[s] \in States
      /\ \A x \in DOMAIN S : StateOK(K, c, o, h, x, S[x])
  BY DEF Sound, Typed
<1>2. /\ h2 \in DOMAIN S \cup {None} /\ w2 \in Seq(DOMAIN S) /\ WrittenGrows(S, w, w2)
  <2>1. h2 \in DOMAIN S \cup {None} /\ w \in Seq(DOMAIN S)
    BY <1>1 DEF Typed
  <2>2. Append(w, s) \in Seq(DOMAIN S)
    BY <1>1, <2>1
  <2>3. t.decoupled /\ IsActive(t) => S[s].decoupled /\ IsActive(S[s])
    BY DEF Alike
  <2> QED
    BY <1>1, <2>1, <2>2, <2>3 DEF WrittenGrows
<1>3. /\ Typed(c2, T, o2, h2, w2) /\ DOMAIN T = DOMAIN S /\ T[s] = t
      /\ \A x \in DOMAIN S : x # s => T[x] = S[x]
  BY <1>1, <1>2, ChangeTyped
<1> HIDE DEF T
<1>4. \A x \in DOMAIN S : Alike(S[x], T[x])
  BY <1>3 DEF Alike
<1>5. \A x \in DOMAIN S : StateOK(K, c2, o2, h2, x, T[x])
  <2> SUFFICES ASSUME NEW x \in DOMAIN S, x # s PROVE StateOK(K, c2, o2, h2, x, S[x])
    BY <1>3
  <2>1. h2 = x => h = x
    BY <1>1 DEF Typed, None
  <2> QED
    BY <1>1, <2>1 DEF StateOK, SameQueue
<1>6. Sound(K, c2, T, o2, h2, w2)
  BY <1>2, <1>3, <1>4, <1>5, Change
<1> QED
  BY <1>6 DEF T

\* WriteResponseIfReady writes the front of the queue.
LEMMA Emit ==
  ASSUME NEW K, NEW c, NEW S, NEW o, NEW h, NEW w, Sound(K, c, S, o, h, w),
         c.queue # << >>, S[Head(c.queue)].step = "WRITEREADY"
  PROVE  Sound(K, [c EXCEPT !.writing = TRUE],
               [S EXCEPT ![Head(c.queue)].step = "WRITTEN"],
               o \cup {<<"write", Head(c.queue)>>}, h, Append(w, Head(c.queue)))
<1> DEFINE s == Head(c.queue)
           t == [S[s] EXCEPT !.step = "WRITTEN"]
           T == [S EXCEPT ![s] = t]
           c2 == [c EXCEPT !.writing = TRUE]
           o2 == o \cup {<<"write", s>>}
           w2 == Append(w, s)
<1>1. /\ Typed(c, S, o, h, w) /\ c \in Contexts /\ c.queue \in Seq(Nat)
      /\ s = c.queue[1] /\ 1 \in DOMAIN c.queue
  BY DEF Sound, Typed, Contexts
<1>2. /\ s \in DOMAIN S /\ S[s] \in States /\ IsActive(S[s]) /\ ~S[s].decoupled
      /\ S[s].step = "WRITEREADY"
      /\ \A x \in DOMAIN S : StateOK(K, c, o, h, x, S[x])
  BY <1>1 DEF Sound, QueueOK, Active, Typed
<1>3. /\ t \in States /\ t.step = "WRITTEN" /\ ~t.decoupled /\ IsActive(t)
      /\ t.model = S[s].model /\ t.decoupled = S[s].decoupled
      /\ t.complete = S[s].complete
  BY <1>2 DEF States, Steps, IsActive
<1>4. /\ c2 \in Contexts /\ c2.step = c.step /\ c2.queue = c.queue
      /\ c2.ongoing = c.ongoing
  BY <1>1 DEF Contexts
<1>5. o2 \in SUBSET (OpKinds \X DOMAIN S)
  BY <1>1, <1>2 DEF Typed, OpKinds
<1>6. /\ w \in Seq(DOMAIN S) /\ w2 \in Seq(DOMAIN S)
      /\ \A i \in DOMAIN w : w[i] \in DOMAIN S /\ i < Len(w) + 1
      /\ Len(w) \in Nat
      /\ DOMAIN w2 = 1..Len(w) + 1 /\ DOMAIN w = 1..Len(w)
      /\ \A i \in DOMAIN w : w2[i] = w[i]
      /\ w2[Len(w) + 1] = s
  BY <1>1, <1>2 DEF Typed
<1>7. /\ Typed(c2, T, o2, h, w2) /\ DOMAIN T = DOMAIN S /\ T[s] = t
      /\ \A x \in DOMAIN S : x # s => T[x] = S[x]
  BY <1>1, <1>2, <1>3, <1>4, <1>5, <1>6, ChangeTyped DEF Typed
<1>8. \A k, x : <<k, x>> \in o2 => <<k, x>> \in o \/ (k = "write" /\ x = s)
  OBVIOUS
<1>w. \A i \in DOMAIN w : ~S[w[i]].decoupled => w[i] < s
  BY <1>1, <1>2 DEF Sound, WrittenOK
<1> HIDE DEF s, t, T, c2, o2, w2
<1>9. \A x \in DOMAIN T : StateOK(K, c2, o2, h, x, T[x])
  <2>1. ASSUME NEW x \in DOMAIN S, x # s PROVE StateOK(K, c2, o2, h, x, S[x])
    BY <1>2, <1>4, <1>8, <2>1 DEF StateOK
  <2>2. StateOK(K, c2, o2, h, s, t)
    BY <1>1, <1>2, <1>3, <1>4, <1>8 DEF StateOK, IsActive
  <2> QED
    BY <1>7, <2>1, <2>2
<1>10. Active(T) = Active(S) /\ \A x \in DOMAIN S : T[x].decoupled = S[x].decoupled
  BY <1>2, <1>3, <1>7 DEF Active
<1>11. ReadersOK(c2, T, o2, w2)
  <2>1. ReadersOK(c, S, o, w)
    BY DEF Sound
  <2> SUFFICES ASSUME NEW x \in DOMAIN S, <<"read", x>> \in o2
               PROVE  /\ c.step = "READ"
                      /\ \A y \in DOMAIN S : <<"read", y>> \in o2 => x = y
                      /\ \A k \in DOMAIN c.queue : c.queue[k] < x
                      /\ \A i \in DOMAIN w2 : ~T[w2[i]].decoupled => w2[i] < x
    BY <1>4, <1>7 DEF ReadersOK
  <2>2. \A y \in DOMAIN S : <<"read", y>> \in o2 => <<"read", y>> \in o
    BY <1>8
  <2>3. s < x
    BY <1>1, <2>1, <2>2 DEF ReadersOK
  <2>4. \A i \in DOMAIN w2 : ~T[w2[i]].decoupled => w2[i] < x
    <3>1. \A i \in DOMAIN w : ~S[w[i]].decoupled => w[i] < x
      BY <2>1, <2>2 DEF ReadersOK
    <3> QED
      BY <1>6, <1>10, <2>3, <3>1
  <2> QED
    BY <2>1, <2>2, <2>4 DEF ReadersOK
<1>12. WritersOK(K, c2, T, o2)
  BY <1>1, <1>4, <1>7 DEF Sound, WritersOK
<1>13. FinishersOK(T, o2)
  BY <1>7, <1>8 DEF Sound, FinishersOK
<1>14. QueueOK(c2, T)
  <2>1. \A k \in DOMAIN c.queue : k # 1 => c.queue[k] # s
    BY <1>1 DEF Sound, QueueOK
  <2> QED
    BY <1>4, <1>7, <1>10, <2>1 DEF Sound, QueueOK, Active
<1>15. WrittenOK(c2, T, w2)
  <2>1. \A i \in DOMAIN w2 : T[w2[i]].step \notin {"START", "READ"}
    BY <1>3, <1>6, <1>7 DEF Sound, WrittenOK
  <2>2. \A i, j \in DOMAIN w2 :
          i < j /\ ~T[w2[i]].decoupled /\ ~T[w2[j]].decoupled => w2[i] < w2[j]
    BY <1>6, <1>10, <1>w DEF Sound, WrittenOK
  <2>3. \A k \in DOMAIN c.queue : s < c.queue[k] \/ s = c.queue[k]
    BY <1>1 DEF Sound, QueueOK
  <2>4. \A i \in DOMAIN w2, k \in DOMAIN c.queue : ~T[w2[i]].decoupled =>
          w2[i] < c.queue[k] \/ (w2[i] = c.queue[k] /\ T[w2[i]].step = "WRITTEN")
    BY <1>3, <1>6, <1>7, <1>10, <1>w, <2>3 DEF Sound, WrittenOK
  <2> QED
    BY <1>4, <2>1, <2>2, <2>4 DEF WrittenOK
<1>16. CountOK(c2, T)
  BY <1>4, <1>10 DEF Sound, CountOK
<1> QED
  <2>1. Sound(K, c2, T, o2, h, w2)
    BY <1>7, <1>9, <1>11, <1>12, <1>13, <1>14, <1>15, <1>16 DEF Sound
  <2> QED
    BY <2>1 DEF c2, T, t, o2, w2, s

\* What the Context is when state s leaves, and what Finish then does.
LeaveKinds == {"read", "write", "alarm"}
LeftContext(S, s, kind, c, c2) ==
  /\ c2 \in Contexts
  /\ kind = "read" => c2.step = "WRITEREADY" /\ c2.ongoing = c.ongoing
  /\ kind # "read" => c2.step = c.step /\ c2.ongoing = c.ongoing - 1
  /\ c2.queue = IF kind = "write" /\ ~S[s].decoupled THEN Tail(c.queue) ELSE c.queue
  /\ kind # "write" => c2.writing = c.writing
MayLeave(t) == t.decoupled => IsComplete(t)
Leaves(S, o, s, kind, c2, c3, t, o3) ==
  \/ /\ c3 = c2 /\ o3 = o \ {<<kind, s>>}
     /\ t = [S[s] EXCEPT !.step = "FINISH", !.alive = FALSE]
  \/ /\ IsRequestsCompleted(c2)
     /\ c3 = [c2 EXCEPT !.step = "COMPLETE"]
     /\ o3 = (o \ {<<kind, s>>}) \cup {<<"finish", s>>}
     /\ t = [S[s] EXCEPT !.step = "COMPLETE"]

\* A request is answered completely, or there is none: its state is released,
\* or, being the last, finishes the stream.
LEMMA Leave ==
  ASSUME NEW K, NEW c, NEW S, NEW o, NEW h, NEW w, Sound(K, c, S, o, h, w),
         NEW s \in DOMAIN S, h # s,
         NEW kind \in LeaveKinds, <<kind, s>> \in o,
         MayLeave(S[s]),
         NEW c2, LeftContext(S, s, kind, c, c2),
         NEW c3, NEW t, NEW o3, Leaves(S, o, s, kind, c2, c3, t, o3)
  PROVE  Sound(K, c3, [S EXCEPT ![s] = t], o3, h, w)
<1> DEFINE T == [S EXCEPT ![s] = t]
<1>1. Typed(c, S, o, h, w) /\ \A x \in DOMAIN S : StateOK(K, c, o, h, x, S[x])
  BY DEF Sound
<1>r. ReadersOK(c, S, o, w)
  BY DEF Sound
<1>u. QueueOK(c, S)
  BY DEF Sound
<1>v. WrittenOK(c, S, w)
  BY DEF Sound
<1>0. /\ c2 \in Contexts
      /\ kind = "read" => c2.step = "WRITEREADY" /\ c2.ongoing = c.ongoing
      /\ kind # "read" => c2.step = c.step /\ c2.ongoing = c.ongoing - 1
      /\ kind # "write" => c2.writing = c.writing
  BY DEF LeftContext
<1>x. c2.queue = IF kind = "write" /\ ~S[s].decoupled THEN Tail(c.queue) ELSE c.queue
  BY DEF LeftContext
<1>2. /\ c \in Contexts /\ c.queue \in Seq(Nat) /\ c2.queue \in Seq(Nat)
      /\ c.ongoing \in Int /\ S[s] \in States /\ c2.step \in ContextSteps
      /\ w \in Seq(DOMAIN S)
  BY <1>0, <1>1 DEF Typed, Contexts
<1>w. \A i \in DOMAIN w : w[i] \in DOMAIN S
  BY <1>2
<1>3. /\ t \in States /\ t.step \in {"FINISH", "COMPLETE"}
      /\ t.decoupled = S[s].decoupled /\ t.model = S[s].model
      /\ t.alloc = S[s].alloc /\ t.ready = S[s].ready /\ t.current = S[s].current
      /\ t.null = S[s].null /\ t.complete = S[s].complete
  BY <1>2 DEF States, Steps, Leaves
<1>4. /\ c3 \in Contexts /\ c3.queue = c2.queue /\ c3.ongoing = c2.ongoing
      /\ c3.writing = c2.writing
  BY <1>0 DEF Contexts, ContextSteps, Leaves
<1>5. \/ c3.step = c2.step /\ o3 = o \ {<<kind, s>>}
      \/ /\ c2.step = "WRITEREADY" /\ c3.step = "COMPLETE" /\ c2.ongoing = 0
         /\ o3 = (o \ {<<kind, s>>}) \cup {<<"finish", s>>}
         /\ t.step = "COMPLETE"
  BY <1>0, <1>2 DEF IsRequestsCompleted, Contexts, States, Leaves
<1>6. o3 \in SUBSET (OpKinds \X DOMAIN S)
  BY <1>1, <1>5 DEF Typed, OpKinds
<1>7. /\ Typed(c3, T, o3, h, w) /\ DOMAIN T = DOMAIN S /\ T[s] = t
      /\ \A x \in DOMAIN S : x # s => T[x] = S[x]
  BY <1>1, <1>2, <1>3, <1>4, <1>6, ChangeTyped DEF Typed
<1>8. \A k, x : <<k, x>> \in o3 => (<<k, x>> \in o /\ ~(k = kind /\ x = s))
        \/ (k = "finish" /\ x = s /\ c3.step = "COMPLETE" /\ c2.step = "WRITEREADY" /\ t.step = "COMPLETE")
  BY <1>5
<1>9. /\ kind = "read" => S[s].step = "READ" /\ c.step = "READ"
                            /\ ~IsActive(S[s]) /\ ~S[s].decoupled
      /\ kind # "read" => IsActive(S[s])
      /\ kind = "write" => S[s].step = "WRITTEN"
      /\ kind = "alarm" => S[s].decoupled
      /\ kind = "write" /\ ~S[s].decoupled =>
           1 \in DOMAIN c.queue /\ c.queue # << >> /\ c.queue[1] = s
  <2>1. StateOK(K, c, o, h, s, S[s])
    BY <1>1
  <2>2. CASE kind = "read"
    <3>1. S[s].step = "READ" /\ c.step = "READ"
      BY <1>r, <2>1, <2>2 DEF StateOK, ReadersOK
    <3>2. S[s] = NewState("READ")
      BY <2>1, <3>1 DEF StateOK
    <3>3. ~S[s].decoupled
      BY <3>2 DEF NewState
    <3> QED
      BY <2>2, <3>1, <3>3 DEF IsActive
  <2>3. CASE kind = "alarm"
    BY <2>1, <2>3 DEF StateOK, IsActive
  <2>4. CASE kind = "write"
    BY <1>2, <2>1, <2>4 DEF StateOK, IsActive
  <2> QED
    BY <2>2, <2>3, <2>4 DEF LeaveKinds
<1>m. S[s].model # "runs" /\ (S[s].decoupled => IsEmpty(S[s]))
  BY <1>1, <1>9 DEF StateOK, IsComplete, IsActive, MayLeave, LeaveKinds
<1>q. /\ \A k \in DOMAIN c2.queue : \E l \in DOMAIN c.queue :
           /\ c2.queue[k] = c.queue[l] /\ k <= l /\ c.queue[l] # s
           /\ S[c.queue[l]].step = "WRITTEN" => c2.queue = c.queue
      /\ \A k, l \in DOMAIN c2.queue : k < l => c2.queue[k] < c2.queue[l]
      /\ c.queue = << >> => c2.queue = << >>
  <2>1. CASE kind = "write" /\ ~S[s].decoupled
    <3>1. /\ DOMAIN c2.queue = 1..Len(c.queue) - 1 /\ DOMAIN c.queue = 1..Len(c.queue)
          /\ Len(c.queue) \in Nat
          /\ \A k \in DOMAIN c2.queue : c2.queue[k] = c.queue[k + 1]
      BY <1>2, <1>9, <1>x, <2>1
    <3>2. \A k \in DOMAIN c2.queue :
            /\ k + 1 \in DOMAIN c.queue /\ k <= k + 1 /\ c.queue[k + 1] # s
            /\ S[c.queue[k + 1]].step # "WRITTEN"
      BY <1>u, <1>9, <2>1, <3>1 DEF QueueOK
    <3>3. ASSUME NEW k \in DOMAIN c2.queue, NEW l \in DOMAIN c2.queue, k < l
          PROVE  c2.queue[k] < c2.queue[l]
      <4>1. k + 1 \in DOMAIN c.queue /\ l + 1 \in DOMAIN c.queue /\ k + 1 < l + 1
        BY <3>1, <3>3
      <4>2. c.queue[k + 1] < c.queue[l + 1]
        BY <1>u, <4>1 DEF QueueOK
      <4> QED
        BY <3>1, <4>2
    <3> QED
      BY <1>9, <1>x, <2>1, <3>1, <3>2, <3>3
  <2>2. CASE ~(kind = "write" /\ ~S[s].decoupled)
    <3>1. c2.queue = c.queue /\ DOMAIN c.queue \in SUBSET Int
      BY <1>2, <1>x, <2>2
    <3>2. \A l \in DOMAIN c.queue : c.queue[l] # s
      BY <1>u, <1>9, <2>2 DEF QueueOK, Active, LeaveKinds
    <3>3. \A k \in DOMAIN c.queue : k <= k
      BY <3>1
    <3>4. \A k, l \in DOMAIN c.queue : k < l => c.queue[k] < c.queue[l]
      BY <1>u DEF QueueOK
    <3> QED
      BY <3>1, <3>2, <3>3, <3>4
  <2> QED
    BY <2>1, <2>2
<1> HIDE DEF T
<1>10. \A x \in DOMAIN T : StateOK(K, c3, o3, h, x, T[x])
  <2>1. ASSUME NEW x \in DOMAIN S, x # s PROVE StateOK(K, c3, o3, h, x, S[x])
    <3>1. <<"finish", x>> \in o3 => c3.step = "COMPLETE"
      BY <1>0, <1>1, <1>5, <1>8, <1>9, <2>1 DEF StateOK
    <3>2. <<"write", x>> \in o3 /\ ~S[x].decoupled => c3.queue # << >> /\ c3.queue[1] = x
      <4>1. <<"write", x>> \in o3 => <<"write", x>> \in o
        BY <1>8
      <4>2. CASE kind = "write" /\ ~S[s].decoupled
        BY <1>1, <1>9, <2>1, <4>1, <4>2 DEF StateOK
      <4>3. CASE c2.queue = c.queue
        <5>1. StateOK(K, c, o, h, x, S[x])
          BY <1>1
        <5> QED
          BY <1>4, <4>1, <4>3, <5>1 DEF StateOK
      <4> QED
        BY <1>x, <4>2, <4>3
    <3> QED
      BY <1>1, <1>8, <2>1, <3>1, <3>2 DEF StateOK
  <2>2. StateOK(K, c3, o3, h, s, t)
    <3>1. t.model = "responds" => t.complete
      BY <1>1, <1>3 DEF StateOK, MayLeave, IsComplete
    <3> QED
      BY <1>1, <1>3, <1>8, <1>9, <1>m, <3>1 DEF StateOK, IsActive, IsEmpty, LeaveKinds
  <2> QED
    BY <1>7, <2>1, <2>2
<1>11. \A x \in DOMAIN S : T[x].decoupled = S[x].decoupled
  BY <1>3, <1>7
<1>12. ReadersOK(c3, T, o3, w)
  <2> SUFFICES ASSUME NEW x \in DOMAIN S, <<"read", x>> \in o3
               PROVE  /\ c3.step = "READ"
                      /\ \A y \in DOMAIN S : <<"read", y>> \in o3 => x = y
                      /\ \A k \in DOMAIN c2.queue : c2.queue[k] < x
                      /\ \A i \in DOMAIN w : ~S[w[i]].decoupled => w[i] < x
    BY <1>w, <1>4, <1>7, <1>11 DEF ReadersOK
  <2>1. /\ \A y \in DOMAIN S : <<"read", y>> \in o3 => <<"read", y>> \in o
        /\ <<"read", x>> \in o /\ c.step = "READ" /\ kind # "read"
    BY <1>r, <1>8 DEF ReadersOK
  <2>2. c3.step = "READ"
    BY <1>0, <1>5, <2>1
  <2> QED
    BY <1>r, <1>q, <2>1, <2>2 DEF ReadersOK
<1>13. WritersOK(K, c3, T, o3)
  BY <1>0, <1>4, <1>7, <1>8, <1>q DEF Sound, WritersOK
<1>14. FinishersOK(T, o3)
  BY <1>0, <1>1, <1>5, <1>7, <1>9 DEF Sound, FinishersOK, StateOK
<1>15. Active(T) = Active(S) \ {s}
  BY <1>3, <1>7 DEF Active, IsActive
<1>16. QueueOK(c3, T)
  BY <1>u, <1>4, <1>7, <1>15, <1>q DEF QueueOK, Active
<1>17. WrittenOK(c3, T, w)
  <2>1. \A i \in DOMAIN w : T[w[i]].step \notin {"START", "READ"}
    BY <1>v, <1>w, <1>3, <1>7 DEF WrittenOK
  <2>2. \A i, j \in DOMAIN w :
          i < j /\ ~T[w[i]].decoupled /\ ~T[w[j]].decoupled => w[i] < w[j]
    BY <1>v, <1>w, <1>11 DEF WrittenOK
  <2>3. ASSUME NEW i \in DOMAIN w, NEW k \in DOMAIN c2.queue, ~T[w[i]].decoupled
        PROVE  w[i] < c2.queue[k] \/ (w[i] = c2.queue[k] /\ T[w[i]].step = "WRITTEN")
    <3>1. PICK l \in DOMAIN c.queue : c2.queue[k] = c.queue[l] /\ c.queue[l] # s
      BY <1>q, <2>3
    <3>2. w[i] < c.queue[l] \/ (w[i] = c.queue[l] /\ S[w[i]].step = "WRITTEN")
      BY <1>v, <1>w, <1>11, <2>3 DEF WrittenOK
    <3> QED
      BY <1>w, <1>7, <3>1, <3>2
  <2> QED
    BY <1>4, <2>1, <2>2, <2>3 DEF WrittenOK
<1>18. CountOK(c3, T)
  <2>1. /\ IsFiniteSet(Active(T)) /\ Cardinality(Active(T)) \in Nat
        /\ Cardinality(Active(T)) = IF s \in Active(S) THEN Cardinality(Active(S)) - 1
                                    ELSE Cardinality(Active(S))
    BY <1>15, FS_RemoveElement, FS_CardinalityType DEF Sound, CountOK
  <2>2. c3.ongoing = Cardinality(Active(T))
    BY <1>0, <1>4, <1>9, <2>1 DEF Sound, CountOK, Active
  <2>3. c3.step = "COMPLETE" => Active(T) = {}
    BY <1>0, <1>4, <1>5, <1>15, <2>1, <2>2, FS_EmptySet DEF Sound, CountOK
  <2> QED
    BY <2>1, <2>2, <2>3 DEF CountOK
<1> QED
  BY <1>7, <1>10, <1>12, <1>13, <1>14, <1>16, <1>17, <1>18 DEF Sound, T

\* The states are numbered from 1: another one gets the next number.
LEMMA Interval ==
  ASSUME NEW n \in Nat, n >= 1
  PROVE  (1..n - 1) \cup {n} = 1..n /\ Cardinality(1..n) = n
<1>1. Cardinality(1..n) = n
  BY FS_Interval
<1> QED
  BY <1>1

\* The states, and the Context, after state s has read a request.
Grown(S, s, t) ==
  [x \in DOMAIN S \cup {Cardinality(DOMAIN S) + 1} |->
     CASE x = s -> t
       [] x = Cardinality(DOMAIN S) + 1 -> NewState("READ")
       [] OTHER -> S[x]]
Queued(c, s, kind) == IF kind = "single" THEN Append(c.queue, s) ELSE c.queue
Begun(c, s, kind) == [c EXCEPT !.ongoing = c.ongoing + 1, !.queue = Queued(c, s, kind)]

\* The value of a state that has read a request for a model of this kind, and
\* what is then asked of gRPC.
JustRead(t, kind) ==
  /\ t \in States /\ IsActive(t) /\ t.step # "WRITTEN"
  /\ t.decoupled = (kind = "decoupled")
  /\ t.model = "runs" => ~t.complete /\ t.step = "ISSUED"
  /\ t.model # "responds" /\ (t.decoupled => t.alloc = t.ready)
ReadsOn(S, s, o, t, o2) ==
  LET reads == (o \ {<<"read", s>>}) \cup {<<"read", Cardinality(DOMAIN S) + 1>>}
  IN  \/ o2 = reads
      \/ t.step = "WRITEREADY" /\ t.decoupled /\ o2 = reads \cup {<<"alarm", s>>}

\* A request is read: its state becomes active, and a new state reads on.
LEMMA Begin ==
  ASSUME NEW K, NEW c, NEW S, NEW o, NEW w, Sound(K, c, S, o, None, w),
         NEW s \in DOMAIN S, <<"read", s>> \in o,
         NEW kind \in K, kind \in Kinds, NEW t, JustRead(t, kind),
         NEW o2, ReadsOn(S, s, o, t, o2)
  PROVE  Sound(K, Begun(c, s, kind), Grown(S, s, t), o2, None, w)
<1> DEFINE T == Grown(S, s, t)
           c2 == Begun(c, s, kind)
           n == Cardinality(DOMAIN S) + 1
           h == None
<1>1. Typed(c, S, o, h, w) /\ \A x \in DOMAIN S : StateOK(K, c, o, h, x, S[x])
  BY DEF Sound
<1>2. /\ n - 1 \in Nat /\ DOMAIN S = 1..n - 1 /\ n \notin DOMAIN S /\ n \in Nat
      /\ s \in Nat /\ s # n /\ n >= 1 /\ \A x \in DOMAIN S : x < n
  BY <1>1 DEF Typed
<1>g. /\ DOMAIN T = DOMAIN S \cup {n} /\ T[s] = t /\ T[n] = NewState("READ")
      /\ \A x \in DOMAIN S : x # s => T[x] = S[x]
  BY <1>2 DEF Grown
<1>o. \A k, x : <<k, x>> \in o2 =>
        \/ (<<k, x>> \in o /\ ~(k = "read" /\ x = s))
        \/ (k = "read" /\ x = n)
        \/ (k = "alarm" /\ x = s /\ t.step = "WRITEREADY" /\ t.decoupled)
  BY DEF ReadsOn
<1>9. o2 \subseteq OpKinds \X (DOMAIN S \cup {n})
  BY <1>1 DEF Typed, OpKinds, ReadsOn
<1> HIDE DEF n, T
<1>k. kind \in {"single", "decoupled"}
  BY DEF Kinds
<1>z. h # s /\ h # n
  BY <1>2 DEF None
<1>j. t \in States
  BY DEF JustRead
<1>3. DOMAIN T = 1..n /\ Cardinality(DOMAIN T) = n
  BY <1>2, <1>g, Interval
<1>4. NewState("READ") \in States
  BY DEF NewState, States, Steps, ModelStates
<1>6. T \in [1..n -> States]
  <2>1. S \in [DOMAIN S -> States]
    BY <1>1 DEF Typed
  <2>2. \A x \in DOMAIN T : T[x] \in States
    BY <1>g, <1>j, <1>4, <2>1
  <2>3. T = [x \in DOMAIN T |-> T[x]]
    BY DEF T, Grown
  <2> QED
    BY <1>3, <2>2, <2>3
<1>7. /\ c \in Contexts /\ c2 \in Contexts /\ c.queue \in Seq(Nat) /\ c2.queue \in Seq(Nat)
      /\ c2.step = c.step /\ c2.ongoing = c.ongoing + 1
      /\ c2.queue = IF kind = "single" THEN Append(c.queue, s) ELSE c.queue
      /\ c2.writing = c.writing
  <2>1. c \in Contexts /\ c.queue \in Seq(Nat) /\ c.ongoing \in Int
    BY <1>1 DEF Typed, Contexts
  <2>2. Queued(c, s, kind) \in Seq(Nat)
    BY <1>2, <2>1 DEF Queued
  <2>3. /\ c2 \in Contexts /\ c2.queue = Queued(c, s, kind) /\ c2.step = c.step
        /\ c2.ongoing = c.ongoing + 1 /\ c2.writing = c.writing
    <3> DEFINE m == c.ongoing + 1
    <3>1. m \in Int
      BY <2>1
    <3>2. c2 = [c EXCEPT !.ongoing = m, !.queue = Queued(c, s, kind)]
      BY DEF Begun
    <3> HIDE DEF m, c2
    <3>3. /\ c2 \in Contexts /\ c2.queue = Queued(c, s, kind) /\ c2.step = c.step
          /\ c2.ongoing = m /\ c2.writing = c.writing
      BY <2>1, <2>2, <3>1, <3>2 DEF Contexts
    <3> QED
      BY <3>3 DEF m
  <2> QED
    BY <2>1, <2>2, <2>3 DEF Queued
<1> HIDE DEF c2
<1>10. w \in Seq(DOMAIN T) /\ \A i \in DOMAIN w : w[i] \in DOMAIN S
  <2>1. w \in Seq(DOMAIN S) /\ DOMAIN S \subseteq DOMAIN T
    BY <1>1, <1>2, <1>3 DEF Typed
  <2> QED
    BY <2>1
<1>11. Typed(c2, T, o2, h, w)
  BY <1>1, <1>2, <1>3, <1>6, <1>7, <1>9, <1>10 DEF Typed
<1>12. ReadersOK(c, S, o, w)
  BY DEF Sound
<1>13. S[s].step = "READ" /\ c.step = "READ" /\ \A k \in DOMAIN c.queue : c.queue[k] < s
  BY <1>1, <1>12 DEF StateOK, ReadersOK
<1>14. \A i \in DOMAIN w : w[i] # s /\ T[w[i]] = S[w[i]] /\ (~S[w[i]].decoupled => w[i] < s)
  <2>1. \A i \in DOMAIN w : S[w[i]].step \notin {"START", "READ"}
    BY DEF Sound, WrittenOK
  <2> QED
    BY <1>g, <1>10, <1>12, <1>13, <2>1 DEF ReadersOK
<1>15. /\ \A k \in DOMAIN c2.queue :
            \/ k \in DOMAIN c.queue /\ c2.queue[k] = c.queue[k]
            \/ k = Len(c.queue) + 1 /\ c2.queue[k] = s /\ kind = "single"
       /\ DOMAIN c.queue = 1..Len(c.queue) /\ Len(c.queue) \in Nat
       /\ \A k \in DOMAIN c.queue : c.queue[k] \in Nat
  BY <1>2, <1>7
<1>16. QueueOK(c, S)
  BY DEF Sound
<1>17. \A x \in DOMAIN T : StateOK(K, c2, o2, h, x, T[x])
  <2>1. ASSUME NEW x \in DOMAIN S, x # s PROVE StateOK(K, c2, o2, h, x, S[x])
    <3>1. StateOK(K, c, o, h, x, S[x])
      BY <1>1
    <3>2. c.queue # << >> /\ c.queue[1] = x => c2.queue # << >> /\ c2.queue[1] = x
      BY <1>7
    <3>3. x # n
      BY <1>2
    <3> QED
      BY <1>7, <1>o, <2>1, <3>1, <3>2, <3>3 DEF StateOK
  <2>2. StateOK(K, c2, o2, h, s, t)
    <3>1. \A k \in OpKinds : <<k, s>> \in o => k = "read"
      BY <1>1, <1>13 DEF StateOK, OpKinds
    <3>2. \A k : <<k, s>> \in o2 => k = "alarm" /\ t.step = "WRITEREADY" /\ t.decoupled
      BY <1>1, <1>2, <1>o, <3>1 DEF Typed
    <3>3. t.decoupled => "decoupled" \in K
      BY <1>k DEF JustRead
    <3>4. t.decoupled =>
            t.alloc = t.ready + (IF t.model = "responds" /\ ~t.null THEN 1 ELSE 0)
      BY <1>j DEF JustRead, States
    <3>5. /\ IsActive(t) /\ t.step \notin {"START", "READ"}
          /\ t.model = "runs" => ~t.complete /\ t.step = "ISSUED"
          /\ t.model # "responds"
      BY DEF JustRead, IsActive
    <3> QED
      BY <1>z, <3>2, <3>3, <3>4, <3>5 DEF StateOK
  <2>3. StateOK(K, c2, o2, h, n, NewState("READ"))
    <3>1. \A k : <<k, n>> \in o2 => k = "read"
      BY <1>1, <1>2, <1>o DEF Typed
    <3> QED
      BY <1>z, <3>1 DEF StateOK, NewState, IsActive
  <2> QED
    BY <1>2, <1>3, <1>g, <2>1, <2>2, <2>3
<1>18. ReadersOK(c2, T, o2, w)
  <2>1. ASSUME NEW x \in DOMAIN T, <<"read", x>> \in o2 PROVE x = n
    <3>1. <<"read", x>> \in o => x \in DOMAIN S
      BY <1>1 DEF Typed
    <3>2. <<"read", x>> \in o /\ x \in DOMAIN S => x = s
      BY <1>12 DEF ReadersOK
    <3> QED
      BY <1>o, <2>1, <3>1, <3>2
  <2>2. \A k \in DOMAIN c2.queue : c2.queue[k] < n
    BY <1>2, <1>13, <1>15
  <2>3. \A i \in DOMAIN w : w[i] < n
    BY <1>2, <1>10
  <2> QED
    BY <1>7, <1>13, <2>1, <2>2, <2>3 DEF ReadersOK
<1>19. WritersOK(K, c2, T, o2)
  <2> SUFFICES ASSUME "single" \notin K
               PROVE  /\ c2.queue = << >>
                      /\ \A x, y \in DOMAIN T :
                           <<"write", x>> \in o2 /\ <<"write", y>> \in o2 => x = y /\ c.writing
    BY <1>7 DEF WritersOK
  <2>1. WritersOK(K, c, S, o) /\ kind # "single"
    BY DEF Sound
  <2>2. \A x \in DOMAIN T : <<"write", x>> \in o2 => <<"write", x>> \in o /\ x \in DOMAIN S
    BY <1>1, <1>o DEF Typed
  <2> QED
    BY <1>7, <2>1, <2>2 DEF WritersOK
<1>20. FinishersOK(T, o2)
  <2>1. \A x \in DOMAIN T : <<"finish", x>> \in o2 => <<"finish", x>> \in o /\ x \in DOMAIN S
    BY <1>1, <1>o DEF Typed
  <2> QED
    BY <2>1 DEF Sound, FinishersOK
<1>21. Active(T) = Active(S) \cup {s}
  <2>1. IsActive(t) /\ ~IsActive(NewState("READ"))
    BY DEF JustRead, IsActive, NewState
  <2> QED
    BY <1>2, <1>g, <2>1 DEF Active
<1>22. QueueOK(c2, T)
  <2>1. ASSUME NEW k \in DOMAIN c2.queue
        PROVE  /\ c2.queue[k] \in Active(T) /\ ~T[c2.queue[k]].decoupled
               /\ T[c2.queue[k]].step = "WRITTEN" => k = 1
    <3>1. CASE k \in DOMAIN c.queue /\ c2.queue[k] = c.queue[k]
      BY <1>2, <1>g, <1>13, <1>16, <1>21, <3>1 DEF QueueOK, Active
    <3>2. CASE c2.queue[k] = s /\ kind = "single"
      BY <1>g, <1>21, <3>2 DEF JustRead
    <3> QED
      BY <1>15, <3>1, <3>2
  <2>2. ASSUME NEW k \in DOMAIN c2.queue, NEW l \in DOMAIN c2.queue, k < l
        PROVE  c2.queue[k] < c2.queue[l]
    BY <1>13, <1>15, <1>16, <2>2 DEF QueueOK
  <2> QED
    BY <2>1, <2>2 DEF QueueOK
<1>23. WrittenOK(c2, T, w)
  <2>1. WrittenOK(c, S, w)
    BY DEF Sound
  <2> QED
    BY <1>14, <1>15, <2>1 DEF WrittenOK
<1>24. CountOK(c2, T)
  <2>1. s \notin Active(S)
    BY <1>13 DEF Active, IsActive
  <2>2. CountOK(c, S)
    BY DEF Sound
  <2>3. IsFiniteSet(Active(T)) /\ Cardinality(Active(T)) = Cardinality(Active(S)) + 1
    BY <1>21, <2>1, <2>2, FS_AddElement DEF CountOK
  <2> QED
    BY <1>7, <1>13, <2>2, <2>3 DEF CountOK
<1> QED
  BY <1>11, <1>17, <1>18, <1>19, <1>20, <1>22, <1>23, <1>24 DEF Sound, T, c2, n

----------------------------------------------------------------------------
(***************************************************************************)
(* One lemma for each action of the stream.                                *)
(***************************************************************************)
StreamKinds == Scenario.kinds
Kept == config' = config /\ Sound(StreamKinds, ctx', st', ops', handler', written')

\* A step of a stream that has a client, and that stays sound.
LEMMA KeptInv ==
  ASSUME GInv, Kept, client.phase # "none" => client'.phase # "none", client.phase # "none"
  PROVE  GInv'
BY DEF GInv, Kept, StreamKinds, Unconnected, Scenario

\* Only a stream that has a client has tags other than "start", or models at work.
LEMMA Connected ==
  ASSUME GInv, NEW s \in DOMAIN st,
         \/ \E k \in {"read", "write", "alarm", "finish"} : <<k, s>> \in ops
         \/ handler = s
         \/ st[s].model \in {"runs", "responds"}
  PROVE  client.phase # "none"
<1> SUFFICES ASSUME client.phase = "none" PROVE FALSE
  OBVIOUS
<1>1. s \in Nat /\ s >= 1
  BY DEF GInv, Sound, Typed
<1> QED
  BY <1>1 DEF GInv, Unconnected, None

\* What READ does to the Context and the states is what lemma Begin is about.
LEMMA CountedIsBegun ==
  ASSUME GInv, NEW s \in DOMAIN st, NEW kind, NEW t
  PROVE  /\ Counted(s, kind) = Begun(ctx, s, kind)
         /\ Reads(s, t) = Grown(st, s, t)
<1>1. ctx \in Contexts
  BY DEF GInv, Sound, Typed
<1>2. Counted(s, kind) = Begun(ctx, s, kind)
  BY <1>1 DEF Counted, Begun, Queued, Contexts
<1>3. Reads(s, t) = Grown(st, s, t)
  BY DEF Reads, Grown, NextRead
<1> QED
  BY <1>2, <1>3

\* Finish ends the stream or releases the state.
LEMMA FinishInv ==
  ASSUME GInv, NEW s \in DOMAIN st, NEW kind \in LeaveKinds,
         <<kind, s>> \in ops, handler = None,
         MayLeave(st[s]),
         NEW c2, LeftContext(st, s, kind, ctx, c2),
         Finish(c2, st, ops \ {<<kind, s>>}, s),
         UNCHANGED <<config, handler, written, client>>
  PROVE  GInv'
<1>1. Sound(StreamKinds, ctx, st, ops, handler, written)
  BY DEF GInv, StreamKinds
<1>2. handler # s
  BY <1>1 DEF Sound, Typed, None
<1>3. ASSUME NEW t, st' = [st EXCEPT ![s] = t],
             Leaves(st, ops, s, kind, c2, ctx', t, ops')
      PROVE  Kept
  <2>1. Sound(StreamKinds, ctx', [st EXCEPT ![s] = t], ops', handler, written)
    BY <1>1, <1>2, <1>3, Leave
  <2> QED
    BY <1>3, <2>1 DEF Kept
<1>4. Kept
  <2>1. CASE IsRequestsCompleted(c2)
    <3>1. st' = [st EXCEPT ![s] = [st[s] EXCEPT !.step = "COMPLETE"]]
      BY <2>1 DEF Finish
    <3> QED
      BY <1>3, <2>1, <3>1 DEF Finish, Leaves
  <2>2. CASE ~IsRequestsCompleted(c2)
    <3>1. st' = [st EXCEPT ![s] = [st[s] EXCEPT !.step = "FINISH", !.alive = FALSE]]
      BY <2>2 DEF Finish, Release
    <3> QED
      BY <1>3, <2>2, <3>1 DEF Finish, Leaves
  <2> QED
    BY <2>1, <2>2
<1>5. client.phase # "none"
  BY Connected DEF LeaveKinds
<1> QED
  BY <1>4, <1>5, KeptInv

\* READ, and the client has nothing more to say.
LEMMA ReadEndsInv ==
  ASSUME GInv, NEW s \in DOMAIN st, ReadEnds(s)
  PROVE  GInv'
<1> DEFINE c2 == [ctx EXCEPT !.step = "WRITEREADY"]
<1>1. ctx \in Contexts /\ StateOK(StreamKinds, ctx, ops, handler, s, st[s])
  BY DEF GInv, Sound, Typed, StreamKinds
<1>2. /\ <<"read", s>> \in ops /\ handler = None
      /\ Finish(c2, st, ops \ {<<"read", s>>}, s)
      /\ UNCHANGED <<config, handler, written, client>>
  BY DEF ReadEnds, Takes, Alone, Others
<1>3. LeftContext(st, s, "read", ctx, c2)
  BY <1>1 DEF LeftContext, Contexts, ContextSteps
<1>4. MayLeave(st[s])
  <2>1. st[s] = NewState("READ")
    BY <1>1, <1>2 DEF StateOK
  <2> QED
    BY <2>1 DEF MayLeave, NewState
<1> QED
  BY <1>2, <1>3, <1>4, FinishInv DEF LeaveKinds

\* WRITTEN, decoupled, with step_mtx_: the state waits for its model, or is woken.
LEMMA AfterWriteInv ==
  ASSUME GInv, NEW s \in DOMAIN st, AfterWrite(s)
  PROVE  GInv'
<1> DEFINE t == [st[s] EXCEPT !.step = IF HasReadyResponse(st[s]) THEN "WRITEREADY" ELSE "ISSUED"]
<1>1. /\ Typed(ctx, st, ops, handler, written)
      /\ StateOK(StreamKinds, ctx, ops, handler, s, st[s])
      /\ Sound(StreamKinds, ctx, st, ops, handler, written)
  BY DEF GInv, Sound, StreamKinds
<1>2. /\ handler = s /\ handler' = None /\ st' = [st EXCEPT ![s] = t]
      /\ ops' = IF HasReadyResponse(st[s]) THEN ops \cup {<<"alarm", s>>} ELSE ops
      /\ UNCHANGED <<config, client, ctx, written>>
  BY DEF AfterWrite, Alone, Others
<1>3. st[s] \in States /\ st[s].decoupled /\ st[s].step = "WRITTEN" /\ ctx \in Contexts
  BY <1>1, <1>2 DEF StateOK, Typed
<1>4. /\ t \in States /\ IsActive(t) /\ t.decoupled = st[s].decoupled
      /\ t.step # "WRITTEN"
      /\ t.model = st[s].model /\ t.complete = st[s].complete /\ t.null = st[s].null
      /\ t.alloc = st[s].alloc /\ t.ready = st[s].ready
      /\ HasReadyResponse(st[s]) => t.step = "WRITEREADY"
  BY <1>3 DEF States, Steps, IsActive
<1>5. ops' \in SUBSET (OpKinds \X DOMAIN st)
  BY <1>1, <1>2 DEF Typed, OpKinds
<1>6. \A k, x : <<k, x>> \in ops' => <<k, x>> \in ops \/ (k = "alarm" /\ x = s /\ t.step = "WRITEREADY")
  BY <1>2, <1>4
<1>7. \A k, x : x # s => (<<k, x>> \in ops' <=> <<k, x>> \in ops)
  BY <1>2
<1> HIDE DEF t
<1>8. StateOK(StreamKinds, ctx, ops', None, s, t)
  <2>1. s # None
    BY <1>1 DEF Typed, None
  <2> QED
    BY <1>1, <1>2, <1>3, <1>4, <1>6, <2>1 DEF StateOK, IsActive
<1>9. WritersOK(StreamKinds, ctx, st, ops')
  BY <1>1, <1>6 DEF Sound, WritersOK
<1>10. s \in Active(st)
  BY <1>3 DEF Active, IsActive
<1>11. Sound(StreamKinds, ctx, [st EXCEPT ![s] = t], ops', None, written)
  <2>1. Alike(st[s], t) /\ SameQueue(ctx, ctx) /\ NoneAdded(ops, ops')
    BY <1>3, <1>4, <1>6, <1>10 DEF Alike, SameQueue, NoneAdded, Active, IsActive
  <2> QED
    BY <1>1, <1>3, <1>4, <1>5, <1>7, <1>8, <1>9, <2>1, Update
<1>12. Kept
  BY <1>2, <1>11 DEF Kept
<1> QED
  BY <1>2, <1>12, KeptInv, Connected

\* WRITTEN, decoupled: the request is complete, or the handler takes step_mtx_.
LEMMA WrittenDecoupledInv ==
  ASSUME GInv, NEW s \in DOMAIN st, WrittenDecoupled(s)
  PROVE  GInv'
<1> DEFINE c2 == [WriteDone(ctx) EXCEPT !.ongoing = @ - 1]
<1>1. /\ Typed(ctx, st, ops, handler, written)
      /\ StateOK(StreamKinds, ctx, ops, handler, s, st[s])
      /\ Sound(StreamKinds, ctx, st, ops, handler, written)
  BY DEF GInv, Sound, StreamKinds
<1>2. /\ <<"write", s>> \in ops /\ handler = None /\ st[s].decoupled
      /\ UNCHANGED <<config, client, written>>
  BY DEF WrittenDecoupled, Takes, Alone, Others
<1>3. /\ ctx \in Contexts /\ st[s] \in States /\ ctx.ongoing \in Int
      /\ st[s].step = "WRITTEN"
  BY <1>1, <1>2 DEF StateOK, Typed, Contexts
<1>4. /\ WriteDone(ctx) \in Contexts /\ WriteDone(ctx).step = ctx.step
      /\ WriteDone(ctx).queue = ctx.queue /\ WriteDone(ctx).ongoing = ctx.ongoing
  BY <1>3 DEF WriteDone, Contexts
<1>5. CASE IsComplete(st[s])
  <2>1. LeftContext(st, s, "write", ctx, c2)
    BY <1>2, <1>3, <1>4 DEF LeftContext, Contexts
  <2>2. MayLeave(st[s])
    BY <1>5 DEF MayLeave
  <2>3. Finish(c2, st, ops \ {<<"write", s>>}, s) /\ UNCHANGED handler
    BY <1>5 DEF WrittenDecoupled
  <2> QED
    BY <1>2, <2>1, <2>2, <2>3, FinishInv DEF LeaveKinds
<1>6. CASE ~IsComplete(st[s])
  <2>1. /\ handler' = s /\ ctx' = WriteDone(ctx) /\ ops' = ops \ {<<"write", s>>}
        /\ st' = st
    BY <1>6 DEF WrittenDecoupled
  <2>2. ops' \in SUBSET (OpKinds \X DOMAIN st)
    BY <1>1, <2>1 DEF Typed
  <2>3. \A k, x : <<k, x>> \in ops' => <<k, x>> \in ops /\ ~(k = "write" /\ x = s)
    BY <2>1
  <2>4. \A k, x : x # s => (<<k, x>> \in ops' <=> <<k, x>> \in ops)
    BY <2>1
  <2>5. StateOK(StreamKinds, WriteDone(ctx), ops', s, s, st[s])
    BY <1>1, <1>2, <1>3, <1>4, <2>3 DEF StateOK
  <2>6. WritersOK(StreamKinds, WriteDone(ctx), st, ops')
    <3>1. WritersOK(StreamKinds, ctx, st, ops)
      BY <1>1 DEF Sound
    <3> QED
      BY <1>2, <1>4, <2>3, <3>1 DEF WritersOK
  <2>7. s \in Active(st) /\ IsActive(st[s])
    BY <1>3 DEF Active, IsActive
  <2>8. Sound(StreamKinds, WriteDone(ctx), [st EXCEPT ![s] = st[s]], ops', s, written)
    <3>1. /\ Alike(st[s], st[s]) /\ SameQueue(ctx, WriteDone(ctx))
          /\ NoneAdded(ops, ops')
      BY <1>4, <2>3 DEF Alike, SameQueue, NoneAdded
    <3> QED
      BY <1>1, <1>2, <1>3, <1>4, <2>2, <2>4, <2>5, <2>6, <2>7, <3>1, Update
  <2>9. [st EXCEPT ![s] = st[s]] = st
    BY <1>1 DEF Typed
  <2>10. Kept
    BY <1>2, <2>1, <2>8, <2>9 DEF Kept
  <2> QED
    BY <1>2, <2>10, KeptInv, Connected
<1> QED
  BY <1>5, <1>6

\* WRITEREADY: a response is written, or the request has turned out complete.
LEMMA WriteReadyInv ==
  ASSUME GInv, NEW s \in DOMAIN st, WriteReady(s)
  PROVE  GInv'
<1>1. /\ Typed(ctx, st, ops, handler, written)
      /\ StateOK(StreamKinds, ctx, ops, handler, s, st[s])
      /\ Sound(StreamKinds, ctx, st, ops, handler, written)
  BY DEF GInv, Sound, StreamKinds
<1>2. /\ <<"alarm", s>> \in ops /\ handler = None
      /\ UNCHANGED <<config, client, handler>>
  BY DEF WriteReady, Takes, Alone, Others
<1>3. /\ ctx \in Contexts /\ st[s] \in States /\ ctx.ongoing \in Int
      /\ st[s].step = "WRITEREADY" /\ st[s].decoupled
  BY <1>1, <1>2 DEF StateOK, Typed, Contexts
<1>4. CASE IsComplete(st[s])
  <2> DEFINE c2 == [ctx EXCEPT !.ongoing = @ - 1]
  <2>1. LeftContext(st, s, "alarm", ctx, c2)
    BY <1>3 DEF LeftContext, Contexts
  <2>2. MayLeave(st[s])
    BY <1>4 DEF MayLeave
  <2>3. Finish(c2, st, ops \ {<<"alarm", s>>}, s) /\ UNCHANGED written
    BY <1>4 DEF WriteReady
  <2> QED
    BY <1>2, <2>1, <2>2, <2>3, FinishInv DEF LeaveKinds
<1>5. CASE ~IsComplete(st[s])
  <2> DEFINE c2 == [ctx EXCEPT !.writing = TRUE]
             t == [st[s] EXCEPT !.step = "WRITTEN", !.current = @ + 1]
  <2>1. /\ ~ctx.writing /\ ctx' = c2 /\ st' = [st EXCEPT ![s] = t]
        /\ ops' = (ops \ {<<"alarm", s>>}) \cup {<<"write", s>>}
        /\ written' = Append(written, s)
    BY <1>5 DEF WriteReady, MayWrite
  <2>2. /\ c2 \in Contexts /\ c2.step = ctx.step /\ c2.queue = ctx.queue
        /\ c2.ongoing = ctx.ongoing /\ c2.writing
    BY <1>3 DEF Contexts
  <2>3. /\ t \in States /\ t.step = "WRITTEN" /\ t.decoupled = st[s].decoupled
        /\ t.model = st[s].model /\ t.complete = st[s].complete /\ t.null = st[s].null
        /\ t.alloc = st[s].alloc /\ t.ready = st[s].ready
    <3> DEFINE m == st[s].current + 1
    <3>1. m \in Nat
      BY <1>3 DEF States
    <3>2. t = [st[s] EXCEPT !.step = "WRITTEN", !.current = m]
      BY <1>3 DEF States
    <3> HIDE DEF m, t
    <3> QED
      BY <1>3, <3>1, <3>2 DEF States, Steps
  <2>4. ops' \in SUBSET (OpKinds \X DOMAIN st)
    BY <1>1, <2>1 DEF Typed, OpKinds
  <2>5. \A k, x : <<k, x>> \in ops' => (<<k, x>> \in ops /\ ~(k = "alarm" /\ x = s))
                                        \/ (k = "write" /\ x = s)
    BY <2>1
  <2>6. \A k, x : x # s => (<<k, x>> \in ops' <=> <<k, x>> \in ops)
    BY <2>1
  <2> HIDE DEF c2, t
  <2>7. StateOK(StreamKinds, c2, ops', handler, s, t)
    <3>1. s # None
      BY <1>1 DEF Typed, None
    <3> QED
      BY <1>1, <1>2, <1>3, <2>2, <2>3, <2>5, <3>1 DEF StateOK, IsActive
  <2>8. WritersOK(StreamKinds, c2, st, ops')
    <3>1. WritersOK(StreamKinds, ctx, st, ops)
      BY <1>1 DEF Sound
    <3> QED
      BY <2>1, <2>2, <2>5, <3>1 DEF WritersOK
  <2>9. s \in Active(st) /\ IsActive(t)
    BY <1>3, <2>3 DEF Active, IsActive
  <2>10. Sound(StreamKinds, c2, [st EXCEPT ![s] = t], ops', handler, written')
    <3>1. written' = written \/ (written' = Append(written, s) /\ t.decoupled /\ IsActive(t))
      BY <1>3, <2>1, <2>3, <2>9
    <3>2. Alike(st[s], t) /\ SameQueue(ctx, c2) /\ NoneAdded(ops, ops')
      BY <1>3, <2>2, <2>3, <2>5, <2>9 DEF Alike, SameQueue, NoneAdded, Active, IsActive
    <3> QED
      BY <1>1, <2>2, <2>3, <2>4, <2>6, <2>7, <2>8, <2>9, <3>1, <3>2, Update
  <2>11. Kept
    BY <1>2, <2>1, <2>10 DEF Kept
  <2> QED
    BY <1>2, <2>11, KeptInv, Connected
<1> QED
  BY <1>4, <1>5

\* A response that was written leaves the queue; the next one may follow it.
LEMMA WrittenSingleInv ==
  ASSUME GInv, NEW s \in DOMAIN st, WrittenSingle(s)
  PROVE  GInv'
<1> DEFINE c == PopCompletedResponse(WriteDone(ctx), s)
           left == [c EXCEPT !.ongoing = @ - 1]
           pending == ops \ {<<"write", s>>}
<1>1. /\ Typed(ctx, st, ops, handler, written)
      /\ StateOK(StreamKinds, ctx, ops, handler, s, st[s])
      /\ Sound(StreamKinds, ctx, st, ops, handler, written)
  BY DEF GInv, Sound, StreamKinds
<1>2. /\ <<"write", s>> \in ops /\ handler = None /\ ~st[s].decoupled
      /\ UNCHANGED <<config, client, handler>>
  BY DEF WrittenSingle, Takes, Alone, Others
<1>3. /\ ctx \in Contexts /\ st[s] \in States /\ ctx.ongoing \in Int
      /\ ctx.queue \in Seq(Nat) /\ ctx.queue # << >> /\ Head(ctx.queue) = s
  <2>1. ctx \in Contexts /\ st[s] \in States /\ ctx.ongoing \in Int /\ ctx.queue \in Seq(Nat)
    BY <1>1 DEF Typed, Contexts
  <2>2. ctx.queue # << >> /\ ctx.queue[1] = s
    BY <1>1, <1>2 DEF StateOK
  <2> QED
    BY <2>1, <2>2
<1>4. /\ WriteDone(ctx) \in Contexts /\ WriteDone(ctx).step = ctx.step
      /\ WriteDone(ctx).queue = ctx.queue /\ WriteDone(ctx).ongoing = ctx.ongoing
  BY <1>3 DEF WriteDone, Contexts
<1>5. /\ c \in Contexts /\ c.step = ctx.step /\ c.ongoing = ctx.ongoing
      /\ c.queue = Tail(ctx.queue) /\ Tail(ctx.queue) \in Seq(Nat)
  BY <1>3, <1>4 DEF PopCompletedResponse, Contexts
<1>6. /\ left \in Contexts /\ left.step = ctx.step /\ left.ongoing = ctx.ongoing - 1
      /\ left.queue = c.queue
  BY <1>3, <1>5 DEF Contexts
<1>7. LeftContext(st, s, "write", ctx, left) /\ MayLeave(st[s])
  BY <1>2, <1>5, <1>6 DEF LeftContext, MayLeave
<1>8. CASE ~Writes(c, st, None)
  <2>1. Finish(left, st, pending, s) /\ UNCHANGED written
    BY <1>8 DEF WrittenSingle
  <2> QED
    BY <1>2, <1>7, <2>1, FinishInv DEF LeaveKinds
<1>9. CASE Writes(c, st, None)
  <2> DEFINE n == Head(c.queue)
             t == [st[s] EXCEPT !.step = "FINISH", !.alive = FALSE]
             T == [st EXCEPT ![s] = t]
  <2>1. /\ ctx' = [left EXCEPT !.writing = TRUE]
        /\ st' = Release([st EXCEPT ![n].step = "WRITTEN"], s)
        /\ ops' = pending \cup {<<"write", n>>}
        /\ written' = Append(written, n)
        /\ c.queue # << >> /\ st[n].step = "WRITEREADY"
    BY <1>9 DEF WrittenSingle, Writes
  <2>2. handler # s
    BY <1>1, <1>2 DEF Typed, None
  <2>3. Leaves(st, ops, s, "write", left, left, t, pending)
    BY DEF Leaves
  <2>4. Sound(StreamKinds, left, T, pending, handler, written)
    BY <1>1, <1>2, <1>7, <2>2, <2>3, Leave DEF LeaveKinds
  <2>5. n # s /\ n \in DOMAIN st
    <3>1. 1 \in DOMAIN left.queue /\ n = left.queue[1]
      <4>1. left.queue \in Seq(Nat) /\ left.queue # << >> /\ n = Head(left.queue)
        BY <1>5, <1>6, <2>1
      <4> HIDE DEF left, n
      <4> QED
        BY <4>1
    <3>2. n \in DOMAIN T /\ IsActive(T[n])
      BY <2>4, <3>1 DEF Sound, QueueOK, Active
    <3>3. T[s].step = "FINISH"
      BY <1>3 DEF States
    <3> QED
      BY <3>2, <3>3 DEF IsActive
  <2>6. T[n].step = "WRITEREADY" /\ n = Head(left.queue) /\ left.queue # << >>
    BY <1>6, <2>1, <2>5
  <2>7. st' = [T EXCEPT ![n].step = "WRITTEN"]
    <3> DEFINE A == [st EXCEPT ![n].step = "WRITTEN"]
               B == [T EXCEPT ![n].step = "WRITTEN"]
    <3>1. st' = [A EXCEPT ![s] = [A[s] EXCEPT !.step = "FINISH", !.alive = FALSE]]
      BY <2>1 DEF Release
    <3>2. A[s] = st[s] /\ DOMAIN A = DOMAIN st
      BY <2>5
    <3>3. DOMAIN B = DOMAIN st
      OBVIOUS
    <3>4. \A x \in DOMAIN st : st'[x] = B[x]
      BY <2>5, <3>1, <3>2
    <3>5. DOMAIN st' = DOMAIN st
      BY <3>1, <3>2
    <3>6. st' = [x \in DOMAIN st' |-> st'[x]] /\ B = [x \in DOMAIN B |-> B[x]]
      BY <3>1
    <3> HIDE DEF A, B
    <3>7. st' = B
      BY <3>3, <3>4, <3>5, <3>6
    <3> QED
      BY <3>7 DEF B
  <2> HIDE DEF T, left, pending, n
  <2>8. Sound(StreamKinds, [left EXCEPT !.writing = TRUE], [T EXCEPT ![n].step = "WRITTEN"],
              pending \cup {<<"write", n>>}, handler, Append(written, n))
    BY <2>4, <2>6, Emit
  <2>9. Kept
    BY <1>2, <2>1, <2>7, <2>8 DEF Kept
  <2> QED
    BY <1>2, <2>9, KeptInv, Connected
<1> QED
  BY <1>8, <1>9

\* READ, and the request is given to its model.
LEMMA ReadIssuesInv ==
  ASSUME GInv, NEW s \in DOMAIN st, NEW kind \in StreamKinds, ReadIssues(s, kind)
  PROVE  GInv'
<1> DEFINE t == [st[s] EXCEPT !.step = "ISSUED", !.model = "runs",
                              !.decoupled = kind = "decoupled"]
<1>1. /\ Sound(StreamKinds, ctx, st, ops, None, written) /\ st[s] \in States
      /\ StateOK(StreamKinds, ctx, ops, handler, s, st[s])
      /\ <<"read", s>> \in ops
  BY DEF GInv, StreamKinds, Sound, Typed, ReadIssues, ClientSends, Takes
<1>2. /\ ctx' = Begun(ctx, s, kind) /\ st' = Grown(st, s, t) /\ ops' = ReadPending(s)
      /\ UNCHANGED <<config, handler, written>> /\ handler = None
      /\ client'.phase = "open"
  <2>1. client.phase = "open" /\ client' = [client EXCEPT !.sent = @ + 1]
    BY DEF ReadIssues, ClientSends
  <2>2. client'.phase = "open"
    BY <2>1
  <2> QED
    BY <2>2, CountedIsBegun DEF ReadIssues, ClientSends, Takes, Others
<1>3. kind \in Kinds
  BY ScenarioAssumption DEF StreamKinds, GInv, Scenario
<1>4. JustRead(t, kind)
  <2>1. st[s] = NewState("READ")
    BY <1>1 DEF StateOK
  <2>2. ~st[s].complete /\ st[s].alloc = 0 /\ st[s].ready = 0
    BY <2>1 DEF NewState
  <2>3. /\ t \in States /\ t.step = "ISSUED" /\ t.model = "runs"
        /\ t.decoupled = (kind = "decoupled") /\ t.complete = st[s].complete
        /\ t.alloc = st[s].alloc /\ t.ready = st[s].ready
    BY <1>1 DEF States, Steps, ModelStates
  <2> HIDE DEF t
  <2> QED
    BY <2>2, <2>3 DEF JustRead, IsActive
<1>5. ReadsOn(st, s, ops, t, ops')
  BY <1>2 DEF ReadsOn, ReadPending, NextRead
<1> HIDE DEF t
<1>6. Sound(StreamKinds, Begun(ctx, s, kind), Grown(st, s, t), ops', None, written)
  BY <1>1, <1>3, <1>4, <1>5, Begin
<1>7. Kept
  BY <1>2, <1>6 DEF Kept
<1> QED
  BY <1>1, <1>2, <1>7, KeptInv, Connected

\* READ, and an error response is made, which a queue without others writes.
LEMMA ReadRefusesInv ==
  ASSUME GInv, NEW s \in DOMAIN st, NEW kind \in StreamKinds, ReadRefuses(s, kind)
  PROVE  GInv'
<1>1. /\ Sound(StreamKinds, ctx, st, ops, None, written) /\ st[s] \in States
      /\ StateOK(StreamKinds, ctx, ops, handler, s, st[s])
      /\ <<"read", s>> \in ops /\ ctx \in Contexts
  BY DEF GInv, StreamKinds, Sound, Typed, ReadRefuses, ClientSends, Takes
<1>2. /\ UNCHANGED <<config, handler>> /\ handler = None
      /\ client'.phase = "open"
  <2>1. client.phase = "open" /\ client' = [client EXCEPT !.sent = @ + 1]
    BY DEF ReadRefuses, ClientSends
  <2> QED
    BY <2>1 DEF ReadRefuses, ClientSends, Takes, Others
<1>3. kind \in Kinds
  BY ScenarioAssumption DEF StreamKinds, GInv, Scenario
<1>4. st[s] = NewState("READ")
  BY <1>1 DEF StateOK
<1>5. CASE kind = "single"
  <2> DEFINE t == [st[s] EXCEPT !.step = "WRITEREADY", !.alloc = 1]
             c2 == Begun(ctx, s, kind)
             T == Grown(st, s, t)
  <2>1. WriteResponseIfReady(c2, T, ReadPending(s), s)
    BY <1>5, CountedIsBegun DEF ReadRefuses
  <2>2. JustRead(t, kind) /\ t.step = "WRITEREADY"
    <3>1. ~st[s].decoupled /\ st[s].model = "none"
      BY <1>4 DEF NewState
    <3>2. /\ t \in States /\ t.step = "WRITEREADY" /\ t.model = st[s].model
          /\ t.decoupled = st[s].decoupled /\ st[s].decoupled \in BOOLEAN
      BY <1>1 DEF States, Steps, ModelStates
    <3> HIDE DEF t
    <3> QED
      BY <1>5, <3>1, <3>2 DEF JustRead, IsActive
  <2>3. ReadsOn(st, s, ops, t, ReadPending(s))
    BY DEF ReadsOn, ReadPending, NextRead
  <2> HIDE DEF t
  <2>4. Sound(StreamKinds, c2, T, ReadPending(s), None, written)
    BY <1>1, <1>3, <2>2, <2>3, Begin
  <2> HIDE DEF c2, T
  <2>5. ASSUME Writes(c2, T, s) PROVE Kept
    <3>1. c2.queue # << >> /\ T[Head(c2.queue)].step = "WRITEREADY"
      BY <2>5 DEF Writes
    <3>2. Sound(StreamKinds, [c2 EXCEPT !.writing = TRUE], [T EXCEPT ![Head(c2.queue)].step = "WRITTEN"],
                ReadPending(s) \cup {<<"write", Head(c2.queue)>>}, None,
                Append(written, Head(c2.queue)))
      BY <2>4, <3>1, Emit
    <3> QED
      BY <1>2, <2>1, <2>5, <3>2 DEF Kept, WriteResponseIfReady
  <2>6. ASSUME ~Writes(c2, T, s) PROVE Kept
    BY <1>2, <2>1, <2>4, <2>6 DEF Kept, WriteResponseIfReady
  <2>7. Kept
    BY <2>5, <2>6
  <2> QED
    BY <1>1, <1>2, <2>7, KeptInv, Connected
<1>6. CASE kind # "single"
  <2> DEFINE t == [st[s] EXCEPT !.step = "WRITEREADY", !.decoupled = TRUE,
                                !.complete = TRUE, !.alloc = 1, !.ready = 1]
  <2>1. /\ ctx' = Begun(ctx, s, kind) /\ st' = Grown(st, s, t)
        /\ ops' = ReadPending(s) \cup {<<"alarm", s>>} /\ UNCHANGED written
    BY <1>6, CountedIsBegun DEF ReadRefuses
  <2>2. kind = "decoupled"
    BY <1>3, <1>6 DEF Kinds
  <2>3. JustRead(t, kind) /\ t.step = "WRITEREADY" /\ t.decoupled
    <3>1. st[s].model = "none"
      BY <1>4 DEF NewState
    <3>2. /\ t \in States /\ t.step = "WRITEREADY" /\ t.model = st[s].model
          /\ t.decoupled = TRUE /\ t.alloc = 1 /\ t.ready = 1
      BY <1>1 DEF States, Steps
    <3> HIDE DEF t
    <3> QED
      BY <2>2, <3>1, <3>2 DEF JustRead, IsActive
  <2>4. ReadsOn(st, s, ops, t, ops')
    BY <2>1, <2>3 DEF ReadsOn, ReadPending, NextRead
  <2> HIDE DEF t
  <2>5. Sound(StreamKinds, Begun(ctx, s, kind), Grown(st, s, t), ops', None, written)
    BY <1>1, <1>3, <2>3, <2>4, Begin
  <2>6. Kept
    BY <1>2, <2>1, <2>5 DEF Kept
  <2> QED
    BY <1>1, <1>2, <2>6, KeptInv, Connected
<1> QED
  BY <1>5, <1>6

\* StreamInferResponseComplete fills in a response: the state is active as long
\* as its model runs.
LEMMA RespondInv ==
  ASSUME GInv, NEW s \in DOMAIN st, NEW final \in BOOLEAN, NEW null \in BOOLEAN,
         Respond(s, final, null)
  PROVE  GInv'
<1> DEFINE t == [st[s] EXCEPT !.complete = final, !.null = null, !.model = "responds",
                              !.sent = @ + 1,
                              !.alloc = IF null THEN @ ELSE @ + 1,
                              !.step = IF st[s].decoupled THEN @ ELSE "WRITEREADY"]
<1>1. /\ Typed(ctx, st, ops, handler, written)
      /\ StateOK(StreamKinds, ctx, ops, handler, s, st[s])
      /\ Sound(StreamKinds, ctx, st, ops, handler, written)
  BY DEF GInv, Sound, StreamKinds
<1>2. /\ st[s].model = "runs" /\ st' = [st EXCEPT ![s] = t]
      /\ UNCHANGED <<config, client, ctx, handler, ops, written>>
  <2>1. st' = [st EXCEPT ![s] = t]
    BY DEF Respond
  <2> HIDE DEF t
  <2> QED
    BY <2>1 DEF Respond, Alone, Others
<1>3. st[s] \in States /\ IsActive(st[s]) /\ ctx \in Contexts
  BY <1>1, <1>2 DEF StateOK, Typed
<1>4. /\ t \in States /\ t.decoupled = st[s].decoupled /\ t.model = "responds"
      /\ t.null = null /\ t.ready = st[s].ready /\ t.complete = final
      /\ t.alloc = IF null THEN st[s].alloc ELSE st[s].alloc + 1
      /\ t.step = IF st[s].decoupled THEN st[s].step ELSE "WRITEREADY"
  <2> DEFINE a == IF null THEN st[s].alloc ELSE st[s].alloc + 1
             m == st[s].sent + 1
             p == IF st[s].decoupled THEN st[s].step ELSE "WRITEREADY"
  <2>1. a \in Nat /\ m \in Nat /\ p \in Steps
    BY <1>3 DEF States, Steps
  <2>2. t = [st[s] EXCEPT !.complete = final, !.null = null, !.model = "responds",
                          !.sent = m, !.alloc = a, !.step = p]
    BY <1>3 DEF States
  <2> HIDE DEF a, m, p, t
  <2>3. /\ t \in States /\ t.decoupled = st[s].decoupled /\ t.model = "responds"
        /\ t.null = null /\ t.ready = st[s].ready /\ t.complete = final
        /\ t.alloc = a /\ t.step = p
    BY <1>3, <2>1, <2>2 DEF States, ModelStates
  <2> QED
    BY <2>3 DEF a, p
<1>5. ~st[s].decoupled => st[s].step = "ISSUED"
  BY <1>1, <1>2 DEF StateOK
<1>6. IsActive(t) /\ s \in Active(st)
  BY <1>3, <1>4 DEF IsActive, Active
<1> HIDE DEF t
<1>7. StateOK(StreamKinds, ctx, ops, handler, s, t)
  <2>1. t.decoupled => t.alloc = t.ready + (IF t.model = "responds" /\ ~t.null THEN 1 ELSE 0)
    BY <1>1, <1>2, <1>3, <1>4 DEF StateOK, States
  <2>2. ~t.complete => t.decoupled
    BY <1>3, <1>4 DEF Respond, States
  <2> QED
    BY <1>1, <1>3, <1>4, <1>5, <1>6, <2>1, <2>2 DEF StateOK, IsActive
<1>8. ops \in SUBSET (OpKinds \X DOMAIN st) /\ WritersOK(StreamKinds, ctx, st, ops)
  BY <1>1 DEF Typed, Sound
<1>9. Alike(st[s], t) /\ SameQueue(ctx, ctx) /\ NoneAdded(ops, ops)
  BY <1>3, <1>4, <1>5, <1>6 DEF Alike, SameQueue, NoneAdded, IsActive
<1>10. Sound(StreamKinds, ctx, [st EXCEPT ![s] = t], ops, handler, written)
  BY <1>1, <1>3, <1>4, <1>6, <1>7, <1>8, <1>9, Update
<1>11. Kept
  BY <1>2, <1>10 DEF Kept
<1> QED
  BY <1>2, <1>11, KeptInv, Connected

\* StreamInferResponseComplete, second half: the response that was filled in is
\* written, or the state is woken up.  The state of a model that has said its
\* last word may be finished already.
LEMMA TellInv ==
  ASSUME GInv, NEW s \in DOMAIN st, Tell(s)
  PROVE  GInv'
<1>1. /\ Typed(ctx, st, ops, handler, written)
      /\ StateOK(StreamKinds, ctx, ops, handler, s, st[s])
      /\ Sound(StreamKinds, ctx, st, ops, handler, written)
      /\ WritersOK(StreamKinds, ctx, st, ops)
  BY DEF GInv, Sound, StreamKinds
<1>2. /\ st[s].model = "responds" /\ UNCHANGED <<config, client, handler>>
      /\ st[s] \in States /\ ctx \in Contexts
      /\ ops \in SUBSET (OpKinds \X DOMAIN st)
  BY <1>1 DEF Tell, Alone, Others, Typed
<1>3. ASSUME ~st[s].alive PROVE Kept
  BY <1>1, <1>2, <1>3 DEF Kept, Tell
<1>4. SameQueue(ctx, ctx) /\ NoneAdded(ops, ops)
  BY DEF SameQueue, NoneAdded
<1>5. ASSUME st[s].alive, ~st[s].decoupled PROVE Kept
  <2> DEFINE t == [st[s] EXCEPT !.model = "done"]
             T == [st EXCEPT ![s] = t]
  <2>1. st[s].complete
    BY <1>1, <1>2, <1>5 DEF StateOK
  <2>2. Told(s) = T
    BY <2>1 DEF Told
  <2>3. /\ t \in States /\ t.decoupled = st[s].decoupled /\ t.step = st[s].step
        /\ t.model = "done"
    BY <1>2 DEF States, ModelStates
  <2> HIDE DEF t
  <2>4. Alike(st[s], t)
    BY <2>3 DEF Alike, IsActive
  <2>5. StateOK(StreamKinds, ctx, ops, handler, s, t)
    <3>1. st[s].step \notin {"START", "READ"}
      BY <1>1, <1>2 DEF StateOK, NewState
    <3> QED
      BY <1>1, <1>5, <2>3, <3>1 DEF StateOK
  <2>6. Sound(StreamKinds, ctx, T, ops, handler, written)
    BY <1>1, <1>2, <1>4, <2>3, <2>4, <2>5, Update
  <2>7. WriteResponseIfReady(ctx, T, ops, s)
    BY <1>5, <2>2 DEF Tell
  <2> HIDE DEF T
  <2>8. ASSUME Writes(ctx, T, s) PROVE Kept
    <3>1. ctx.queue # << >> /\ T[Head(ctx.queue)].step = "WRITEREADY"
      BY <2>8 DEF Writes
    <3>2. Sound(StreamKinds, [ctx EXCEPT !.writing = TRUE],
                [T EXCEPT ![Head(ctx.queue)].step = "WRITTEN"],
                ops \cup {<<"write", Head(ctx.queue)>>}, handler,
                Append(written, Head(ctx.queue)))
      BY <2>6, <3>1, Emit
    <3> QED
      BY <1>2, <2>7, <2>8, <3>2 DEF Kept, WriteResponseIfReady
  <2>9. ASSUME ~Writes(ctx, T, s) PROVE Kept
    BY <1>2, <2>6, <2>7, <2>9 DEF Kept, WriteResponseIfReady
  <2> QED
    BY <2>8, <2>9
<1>6. ASSUME st[s].alive, st[s].decoupled PROVE Kept
  <2> DEFINE m == IF st[s].complete THEN "done" ELSE "runs"
             r == IF st[s].null THEN st[s].ready ELSE st[s].ready + 1
             p == IF st[s].step = "ISSUED" THEN "WRITEREADY" ELSE st[s].step
             t == [st[s] EXCEPT !.model = m, !.ready = r, !.step = p]
  <2>1. /\ st' = [Told(s) EXCEPT ![s].ready = IF st[s].null THEN @ ELSE @ + 1,
                                 ![s].step = IF st[s].step = "ISSUED" THEN "WRITEREADY" ELSE @]
        /\ ops' = IF st[s].step = "ISSUED" THEN ops \cup {<<"alarm", s>>} ELSE ops
        /\ UNCHANGED <<ctx, written>>
    BY <1>6 DEF Tell
  <2>2. st' = [st EXCEPT ![s] = t]
    BY <1>2, <2>1 DEF Told, States
  <2>3. m \in ModelStates /\ r \in Nat /\ p \in Steps
    BY <1>2 DEF States, Steps, ModelStates
  <2> HIDE DEF m, r, p
  <2>4. /\ t \in States /\ t.decoupled = st[s].decoupled /\ t.complete = st[s].complete
        /\ t.null = st[s].null /\ t.alloc = st[s].alloc /\ t.current = st[s].current
        /\ t.model = m /\ t.ready = r /\ t.step = p
    BY <1>2, <2>3 DEF States
  <2> HIDE DEF t
  <2>5. t.model # "responds" /\ (t.model = "runs" => ~t.complete)
    BY <2>4 DEF m
  <2>6. /\ IsActive(t) = IsActive(st[s])
        /\ t.step \in {"START", "READ"} => st[s].step \in {"START", "READ"}
        /\ st[s].step = "ISSUED" => t.step = "WRITEREADY"
        /\ st[s].step # "ISSUED" => t.step = st[s].step
    BY <2>4 DEF IsActive, p
  <2>7. /\ t.alloc = t.ready
        /\ ~IsActive(st[s]) => t.ready = st[s].ready
    <3>1. st[s].alloc = st[s].ready + (IF ~st[s].null THEN 1 ELSE 0)
      BY <1>1, <1>2, <1>6 DEF StateOK
    <3>2. ~IsActive(st[s]) => st[s].alloc = st[s].ready
      BY <1>1, <1>6 DEF StateOK, IsEmpty
    <3>3. st[s].ready \in Nat
      BY <1>2 DEF States
    <3> QED
      BY <2>4, <3>1, <3>2, <3>3 DEF r
  <2>8. Alike(st[s], t)
    BY <1>6, <2>4, <2>6 DEF Alike
  <2>9. \A k, x : <<k, x>> \in ops' =>
          <<k, x>> \in ops \/ (k = "alarm" /\ x = s /\ t.step = "WRITEREADY")
    BY <2>1, <2>6
  <2>10. /\ ops' \in SUBSET (OpKinds \X DOMAIN st) /\ NoneAdded(ops, ops')
         /\ \A k, x : x # s => (<<k, x>> \in ops' <=> <<k, x>> \in ops)
    BY <1>2, <2>1 DEF OpKinds, NoneAdded
  <2>11. StateOK(StreamKinds, ctx, ops', handler, s, t)
    <3>1. st[s].step \notin {"START", "READ"}
      BY <1>1, <1>2 DEF StateOK, NewState
    <3>2. st[s].complete \/ IsActive(st[s])
      BY <1>1, <1>2 DEF StateOK
    <3>3. t.model = "runs" => IsActive(t) /\ ~t.complete
      BY <2>4, <2>5, <2>6, <3>2
    <3>4. ~IsActive(t) => IsEmpty(t)
      BY <1>1, <1>6, <2>4, <2>6, <2>7 DEF StateOK, IsEmpty
    <3>5. t.alloc = t.ready + 0
      BY <2>4, <2>7 DEF States
    <3>6. ASSUME NEW k, <<k, s>> \in ops'
          PROVE  \/ <<k, s>> \in ops /\ t.step = st[s].step
                 \/ k = "alarm" /\ t.step = "WRITEREADY"
      BY <1>1, <1>2, <2>6, <2>9, <3>6 DEF StateOK, OpKinds
    <3>7. handler = s => t.step = "WRITTEN"
      BY <1>1, <2>6 DEF StateOK
    <3> QED
      BY <1>1, <1>6, <2>4, <2>5, <2>6, <3>1, <3>3, <3>4, <3>5, <3>6, <3>7 DEF StateOK
  <2>12. WritersOK(StreamKinds, ctx, st, ops')
    BY <1>1, <2>9 DEF WritersOK
  <2>13. Sound(StreamKinds, ctx, [st EXCEPT ![s] = t], ops', handler, written)
    BY <1>1, <1>2, <1>4, <2>4, <2>8, <2>10, <2>11, <2>12, Update
  <2> QED
    BY <1>2, <2>1, <2>2, <2>13 DEF Kept
<1>7. Kept
  BY <1>3, <1>5, <1>6
<1> QED
  BY <1>2, <1>7, KeptInv, Connected

\* The status of the stream has been sent: its last state is released.
LEMMA FinishDoneInv ==
  ASSUME GInv, NEW s \in DOMAIN st, FinishDone(s)
  PROVE  GInv'
<1> DEFINE t == [st[s] EXCEPT !.step = "FINISH", !.alive = FALSE]
<1>1. /\ Typed(ctx, st, ops, handler, written)
      /\ StateOK(StreamKinds, ctx, ops, handler, s, st[s])
      /\ Sound(StreamKinds, ctx, st, ops, handler, written)
      /\ WritersOK(StreamKinds, ctx, st, ops)
  BY DEF GInv, Sound, StreamKinds
<1>2. /\ <<"finish", s>> \in ops /\ handler = None /\ st' = [st EXCEPT ![s] = t]
      /\ ops' = ops \ {<<"finish", s>>} /\ UNCHANGED <<config, ctx, handler, written>>
  BY DEF FinishDone, Takes, Others, Release
<1>3. client'.phase # "none"
  <2>1. client' = [client EXCEPT !.phase = "done"] /\ client.phase # "none"
    BY <1>2, Connected DEF FinishDone
  <2> QED
    BY <2>1 DEF GInv, Unconnected
<1>4. st[s] \in States /\ st[s].step = "COMPLETE" /\ ctx \in Contexts
  BY <1>1, <1>2 DEF StateOK, Typed
<1>5. /\ t \in States /\ t.step = "FINISH" /\ t.decoupled = st[s].decoupled
      /\ t.model = st[s].model /\ t.complete = st[s].complete /\ t.null = st[s].null
      /\ t.alloc = st[s].alloc /\ t.ready = st[s].ready /\ t.current = st[s].current
  BY <1>4 DEF States, Steps
<1> HIDE DEF t
<1>6. Alike(st[s], t) /\ SameQueue(ctx, ctx)
  BY <1>4, <1>5 DEF Alike, IsActive, SameQueue
<1>7. /\ ops' \in SUBSET (OpKinds \X DOMAIN st) /\ NoneAdded(ops, ops')
      /\ \A k, x : x # s => (<<k, x>> \in ops' <=> <<k, x>> \in ops)
      /\ \A k, x : <<k, x>> \in ops' => <<k, x>> \in ops /\ ~(k = "finish" /\ x = s)
  BY <1>1, <1>2 DEF Typed, NoneAdded
<1>8. WritersOK(StreamKinds, ctx, st, ops')
  BY <1>1, <1>7 DEF WritersOK
<1>9. StateOK(StreamKinds, ctx, ops', handler, s, t)
  BY <1>1, <1>4, <1>5, <1>7 DEF StateOK, IsActive, IsEmpty
<1>10. Sound(StreamKinds, ctx, [st EXCEPT ![s] = t], ops', handler, written)
  BY <1>1, <1>4, <1>5, <1>6, <1>7, <1>8, <1>9, Update
<1>11. Kept
  BY <1>2, <1>10 DEF Kept
<1> QED
  BY <1>2, <1>3, <1>11, KeptInv, Connected

\* A state that waits, and what Connect and Stop make of it.
LEMMA NewStateTyped ==
  /\ \A p \in {"START", "READ"} :
       /\ NewState(p) \in States /\ NewState(p).step = p /\ ~NewState(p).decoupled
       /\ NewState(p).model = "none"
  /\ [NewState("START") EXCEPT !.step = "READ"] = NewState("READ")
  /\ LET r == [NewState("START") EXCEPT !.step = "FINISH", !.alive = FALSE]
     IN  /\ r \in States /\ r.step = "FINISH" /\ r.model = "none"
         /\ r.decoupled = NewState("START").decoupled
<1>1. \A p \in {"START", "READ"} :
        /\ NewState(p) \in States /\ NewState(p).step = p /\ ~NewState(p).decoupled
        /\ NewState(p).model = "none"
  BY DEF NewState, States, Steps, ModelStates
<1>2. [NewState("START") EXCEPT !.step = "READ"] = NewState("READ")
  <2> DEFINE r == [NewState("START") EXCEPT !.step = "READ"]
  <2>1. r = [x \in DOMAIN NewState("READ") |-> r[x]]
    BY DEF NewState
  <2>2. /\ r.step = "READ" /\ r.decoupled = FALSE /\ r.complete = FALSE /\ r.alive = TRUE
        /\ r.alloc = 0 /\ r.ready = 0 /\ r.current = 0
        /\ r.model = "none" /\ r.null = FALSE /\ r.sent = 0
    BY DEF NewState
  <2> HIDE DEF r
  <2>3. r = NewState("READ")
    BY <2>1, <2>2 DEF NewState
  <2> QED
    BY <2>3 DEF r
<1>3. LET r == [NewState("START") EXCEPT !.step = "FINISH", !.alive = FALSE]
      IN  /\ r \in States /\ r.step = "FINISH" /\ r.model = "none"
          /\ r.decoupled = NewState("START").decoupled
  BY DEF NewState, States, Steps, ModelStates
<1> QED
  BY <1>1, <1>2, <1>3

\* Nothing but states that wait: the invariant holds.
LEMMA NothingStarted ==
  ASSUME NEW K, NEW c, NEW S, NEW o, Typed(c, S, o, None, << >>),
         \A s \in DOMAIN S :
           /\ S[s] \in {NewState("START"), NewState("READ")}
           /\ <<"start", s>> \in o => S[s].step = "START"
           /\ <<"read", s>> \in o => S[s].step = "READ",
         \A s, t \in DOMAIN S : <<"read", s>> \in o /\ <<"read", t>> \in o => s = t,
         \A p \in o : p[1] \in {"start", "read"},
         c.queue = << >>, c.ongoing = 0, c.step \in {"START", "READ"},
         (\E s : <<"read", s>> \in o) => c.step = "READ"
  PROVE  Sound(K, c, S, o, None, << >>)
<1>1. \A s \in DOMAIN S :
        /\ S[s].step \in {"START", "READ"} /\ ~S[s].decoupled /\ S[s].model = "none"
        /\ S[s] = NewState(S[s].step)
  <2>1. ASSUME NEW p \in {"START", "READ"}
        PROVE  NewState(p).step = p /\ ~NewState(p).decoupled /\ NewState(p).model = "none"
    BY NewStateTyped
  <2>2. ASSUME NEW s \in DOMAIN S PROVE \E p \in {"START", "READ"} : S[s] = NewState(p)
    OBVIOUS
  <2> QED
    BY <2>1, <2>2
<1>2. \A k, s : <<k, s>> \in o => k \in {"start", "read"}
  OBVIOUS
<1>3. \A s \in DOMAIN S : s # None
  BY DEF Typed, None
<1>4. \A s \in DOMAIN S : StateOK(K, c, o, None, s, S[s])
  BY <1>1, <1>2, <1>3 DEF StateOK
<1>5. Active(S) = {}
  BY <1>1 DEF Active, IsActive
<1>6. CountOK(c, S)
  BY <1>5, FS_EmptySet DEF CountOK
<1>7. ReadersOK(c, S, o, << >>)
  <2>1. DOMAIN << >> = {}
    OBVIOUS
  <2> QED
    BY <2>1 DEF ReadersOK
<1>9. WritersOK(K, c, S, o) /\ FinishersOK(S, o)
  BY <1>2 DEF WritersOK, FinishersOK
<1>8. QueueOK(c, S) /\ WrittenOK(c, S, << >>)
  BY DEF QueueOK, WrittenOK
<1> QED
  BY <1>4, <1>6, <1>7, <1>8, <1>9 DEF Sound

\* Start.
LEMMA InitInv ==
  Init => GInv
<1> SUFFICES ASSUME Init PROVE GInv
  OBVIOUS
<1>1. DOMAIN st = {1} /\ st[1] = NewState("START") /\ st \in [{1} -> States]
  BY NewStateTyped DEF Init
<1>2. Cardinality({1}) = 1 /\ {1} = 1..1
  BY FS_Singleton
<1>3. ctx \in Contexts /\ ctx.queue = << >> /\ ctx.ongoing = 0 /\ ctx.step = "START"
  BY DEF Init, Contexts, ContextSteps
<1>4. ops \subseteq OpKinds \X DOMAIN st
  BY <1>1 DEF Init, OpKinds
<1>5. Typed(ctx, st, ops, None, << >>)
  BY <1>1, <1>2, <1>3, <1>4 DEF Typed
<1>6. NewState("START").step = "START" /\ NewState("START").model = "none"
  BY NewStateTyped
<1>7. ops = {<<"start", 1>>} /\ handler = None /\ written = << >>
  BY DEF Init
<1>8. Sound(StreamKinds, ctx, st, ops, None, << >>)
  <2>1. \A k, s : <<k, s>> \in ops => k = "start" /\ s = 1
    BY <1>7
  <2>2. \A p \in ops : p[1] \in {"start", "read"}
    BY <1>7
  <2> QED
    BY <1>1, <1>3, <1>5, <1>6, <2>1, <2>2, NothingStarted
<1>9. Unconnected
  BY <1>1, <1>3, <1>6, <1>7 DEF Unconnected
<1> QED
  BY <1>7, <1>8, <1>9 DEF GInv, Init, StreamKinds

\* A client connects: the first state reads, and another waits.
LEMMA ConnectInv ==
  ASSUME GInv, NEW s \in DOMAIN st, Connect(s)
  PROVE  GInv'
<1>1. /\ Typed(ctx, st, ops, handler, written) /\ CountOK(ctx, st)
      /\ \A x \in DOMAIN st : StateOK(StreamKinds, ctx, ops, handler, x, st[x])
  BY DEF GInv, Sound, StreamKinds
<1>2. /\ <<"start", s>> \in ops /\ handler = None /\ client.phase = "none"
      /\ client' = [client EXCEPT !.phase = "open"]
      /\ ctx' = [ctx EXCEPT !.step = "READ"]
      /\ st' = [x \in DOMAIN st \cup {s + 1} |->
                  IF x = s THEN [st[s] EXCEPT !.step = "READ"] ELSE NewState("START")]
      /\ ops' = (ops \ {<<"start", s>>}) \cup {<<"start", s + 1>>, <<"read", s>>}
      /\ UNCHANGED <<config, handler, written>>
  BY DEF Connect, Takes, Others
<1>3. /\ DOMAIN st = {1} /\ s = 1 /\ ops = {<<"start", 1>>} /\ written = << >>
      /\ ctx.queue = << >> /\ ctx.step = "START"
  BY <1>2 DEF GInv, Unconnected
<1>4. ops' = {<<"start", 2>>, <<"read", 1>>}
  BY <1>2, <1>3
<1>5. st[1] = NewState("START")
  BY <1>1, <1>2, <1>3 DEF StateOK
<1>6. [st[1] EXCEPT !.step = "READ"] = NewState("READ")
  BY <1>5, NewStateTyped
<1>7. /\ DOMAIN st' = 1..2 /\ st'[1] = NewState("READ") /\ st'[2] = NewState("START")
      /\ st' \in [1..2 -> States]
  BY <1>2, <1>3, <1>6, NewStateTyped
<1>8. ctx' \in Contexts /\ ctx'.queue = << >> /\ ctx'.step = "READ" /\ ctx'.ongoing = ctx.ongoing
  BY <1>1, <1>2, <1>3 DEF Typed, Contexts, ContextSteps
<1>9. ctx.ongoing = 0
  <2>1. Active(st) = {}
    BY <1>3, <1>5 DEF Active, IsActive, NewState
  <2> QED
    BY <1>1, <2>1, FS_EmptySet DEF CountOK
<1>10. Typed(ctx', st', ops', None, << >>)
  <2>1. Cardinality(1..2) = 2
    <3>1. 1 \in Int /\ 2 \in Int /\ 2 - 1 + 1 = 2 /\ ~(1 > 2)
      OBVIOUS
    <3> QED
      BY <3>1, FS_Interval
  <2> QED
    BY <1>4, <1>7, <1>8, <2>1 DEF Typed, OpKinds
<1>11. NewState("START").step = "START" /\ NewState("READ").step = "READ"
  BY NewStateTyped
<1>12. Sound(StreamKinds, ctx', st', ops', None, << >>)
  BY <1>4, <1>7, <1>8, <1>9, <1>10, <1>11, NothingStarted
<1>13. client'.phase # "none"
  BY <1>2 DEF Connect
<1> QED
  BY <1>2, <1>3, <1>12, <1>13 DEF GInv, Unconnected, StreamKinds, Scenario

\* Stop: the state that waits for a client is released.
LEMMA StopBeginsInv ==
  ASSUME GInv, StopBegins
  PROVE  GInv'
<1>1. /\ Typed(ctx, st, ops, handler, written) /\ WritersOK(StreamKinds, ctx, st, ops)
      /\ \A x \in DOMAIN st : StateOK(StreamKinds, ctx, ops, handler, x, st[x])
      /\ Sound(StreamKinds, ctx, st, ops, handler, written)
  BY DEF GInv, Sound, StreamKinds
<1>2. /\ st' = [s \in DOMAIN st |-> IF <<"start", s>> \in ops THEN Release(st, s)[s] ELSE st[s]]
      /\ ops' = {o \in ops : o[1] # "start"}
      /\ UNCHANGED <<config, ctx, handler, client, written>>
  BY DEF StopBegins
<1>3. ASSUME NEW x \in DOMAIN st, <<"start", x>> \in ops
      PROVE  /\ st'[x] = [NewState("START") EXCEPT !.step = "FINISH", !.alive = FALSE]
             /\ st[x] = NewState("START")
  <2>1. st[x] = NewState("START")
    BY <1>1, <1>3 DEF StateOK
  <2>2. Release(st, x)[x] = [st[x] EXCEPT !.step = "FINISH", !.alive = FALSE]
    BY DEF Release
  <2> QED
    BY <1>2, <1>3, <2>1, <2>2
<1>4. \A x \in DOMAIN st : <<"start", x>> \notin ops => st'[x] = st[x]
  BY <1>2
<1>5. [NewState("START") EXCEPT !.step = "FINISH", !.alive = FALSE] \in States
  BY NewStateTyped
<1>6. \A x \in DOMAIN st : st[x] \in States
  BY <1>1 DEF Typed
<1>7. DOMAIN st' = DOMAIN st /\ \A x \in DOMAIN st : st'[x] \in States
  BY <1>2, <1>3, <1>4, <1>5, <1>6
<1>8. ops' \subseteq ops /\ \A k, x : <<k, x>> \in ops' => k # "start" /\ <<k, x>> \in ops
  BY <1>2
<1>9. Typed(ctx, st', ops', handler, written)
  <2>1. st' = [x \in DOMAIN st' |-> st'[x]]
    BY <1>2
  <2>2. st' \in [DOMAIN st -> States]
    BY <1>7, <2>1
  <2> QED
    BY <1>1, <1>7, <1>8, <2>2 DEF Typed
<1>10. ASSUME NEW x \in DOMAIN st
       PROVE  Alike(st[x], st'[x]) /\ StateOK(StreamKinds, ctx, ops', handler, x, st'[x])
  <2>1. CASE <<"start", x>> \in ops
    <3> DEFINE u == st'[x]
    <3>1. /\ u.step = "FINISH" /\ ~u.decoupled /\ u.model = "none"
          /\ st[x].step = "START" /\ ~st[x].decoupled /\ u.decoupled = st[x].decoupled
      BY <1>3, <2>1, NewStateTyped
    <3>2. StateOK(StreamKinds, ctx, ops, handler, x, st[x])
      BY <1>1
    <3> HIDE DEF u
    <3>3. Alike(st[x], u)
      BY <3>1 DEF Alike, IsActive
    <3>4. StateOK(StreamKinds, ctx, ops', handler, x, u)
      BY <1>8, <3>1, <3>2 DEF StateOK
    <3> QED
      BY <3>3, <3>4 DEF u
  <2>2. CASE <<"start", x>> \notin ops
    <3>1. st'[x] = st[x] /\ StateOK(StreamKinds, ctx, ops, handler, x, st[x])
      BY <1>1, <1>4, <2>2
    <3> QED
      BY <1>8, <3>1 DEF Alike, StateOK
  <2> QED
    BY <2>1, <2>2
<1>11. /\ SameQueue(ctx, ctx) /\ NoneAdded(ops, ops') /\ WritersOK(StreamKinds, ctx, st, ops')
       /\ WrittenGrows(st, written, written)
  BY <1>1, <1>8 DEF SameQueue, NoneAdded, WritersOK, WrittenGrows, Typed
<1>12. Sound(StreamKinds, ctx, st', ops', handler, written)
  BY <1>1, <1>7, <1>9, <1>10, <1>11, Change
<1>13. Unconnected'
  <2> SUFFICES ASSUME client.phase = "none" PROVE Unconnected'
    BY <1>2 DEF Unconnected
  <2>1. /\ ctx.step = "START" /\ ctx.queue = << >> /\ DOMAIN st = {1}
        /\ st[1].step \in {"START", "FINISH"} /\ st[1].model = "none"
        /\ ops \subseteq {<<"start", 1>>} /\ written = << >> /\ handler = None
    BY DEF GInv, Unconnected
  <2>2. st'[1].step \in {"START", "FINISH"} /\ st'[1].model = "none"
    BY <1>3, <1>4, <2>1, NewStateTyped
  <2> QED
    BY <1>2, <1>7, <1>8, <2>1, <2>2 DEF Unconnected
<1> QED
  BY <1>2, <1>12, <1>13 DEF GInv, StreamKinds, Scenario

\* Every step of the specification preserves the invariant.
LEMMA NextInv ==
  ASSUME GInv, [Next]_vars
  PROVE  GInv'
<1>1. ASSUME UNCHANGED <<config, ctx, st, ops, handler, written>>,
             client'.phase # client.phase => client.phase # "none" /\ client'.phase # "none"
      PROVE  GInv'
  BY <1>1 DEF GInv, Unconnected, Scenario
<1>2. ASSUME NEW s \in DOMAIN st, Process(s) PROVE GInv'
  <2>1. ASSUME NEW kind \in Scenario.kinds, ReadIssues(s, kind) \/ ReadRefuses(s, kind)
        PROVE  GInv'
    BY <2>1, ReadIssuesInv, ReadRefusesInv DEF StreamKinds
  <2> QED
    BY <1>2, <2>1, ConnectInv, ReadEndsInv, WrittenSingleInv, WrittenDecoupledInv,
       AfterWriteInv, WriteReadyInv, FinishDoneInv DEF Process
<1>3. ASSUME NEW s \in DOMAIN st, Model(s) PROVE GInv'
  BY <1>3, RespondInv, TellInv DEF Model
<1>4. ASSUME NEW phase \in {"closed", "cancelled"}, ClientLeaves(phase) PROVE GInv'
  <2>1. client.phase = "open" /\ client' = [client EXCEPT !.phase = phase]
    BY <1>4 DEF ClientLeaves
  <2>2. client'.phase # "none"
    BY <2>1
  <2> QED
    BY <1>1, <1>4, <2>1, <2>2 DEF ClientLeaves, Others
<1>5. ASSUME NEW i \in DOMAIN calls,
             Call(i) \/ \E refused \in BOOLEAN : CallArrives(i, refused)
      PROVE  GInv'
  BY <1>1, <1>5 DEF Call, CallArrives, CallExecuted, CallWritten, CallAnswered, CallFinished,
     Unary, stream
<1>6. ASSUME StopReturns \/ UNCHANGED vars PROVE GInv'
  BY <1>1, <1>6 DEF StopReturns, vars, stream
<1> QED
  BY <1>2, <1>3, <1>4, <1>5, <1>6, StopBeginsInv DEF Next

\* The invariant holds in every state that the front end can reach.
THEOREM StreamSound == Spec => []GInv
BY InitInv, NextInv, PTL DEF Spec

\* Responses of models that answer once leave in the order of the requests, and
\* unless both kinds of models are mixed in a stream at most one write goes on.
THEOREM ResponsesLeaveInOrder == Spec => []InOrderOneByOne
<1>1. ASSUME GInv PROVE InOrderOneByOne
  <2>1. /\ Typed(ctx, st, ops, handler, written) /\ WrittenOK(ctx, st, written)
        /\ WritersOK(StreamKinds, ctx, st, ops)
        /\ \A s \in DOMAIN st : StateOK(StreamKinds, ctx, ops, handler, s, st[s])
    BY <1>1 DEF GInv, Sound, StreamKinds
  <2>2. ResponsesInOrder
    BY <2>1 DEF WrittenOK, ResponsesInOrder
  <2>3. ASSUME Scenario.kinds # Kinds PROVE OneWrite
    <3>1. \A o \in ops : \E s \in DOMAIN st : o = <<o[1], s>>
      BY <2>1 DEF Typed
    <3>2. ASSUME NEW s \in DOMAIN st, NEW t \in DOMAIN st,
                 <<"write", s>> \in ops, <<"write", t>> \in ops
          PROVE  s = t
      <4>1. CASE "single" \notin StreamKinds
        BY <2>1, <3>2, <4>1 DEF WritersOK
      <4>2. CASE "decoupled" \notin StreamKinds
        BY <2>1, <3>2, <4>2 DEF StateOK
      <4> QED
        BY <1>1, <2>3, <4>1, <4>2, ScenarioAssumption DEF StreamKinds, Kinds, Scenario, GInv
    <3>3. \A o, p \in {q \in ops : q[1] = "write"} : o = p
      BY <3>1, <3>2
    <3> QED
      BY <3>3, AtMostOne DEF OneWrite
  <2> QED
    BY <2>2, <2>3 DEF InOrderOneByOne
<1> QED
  BY <1>1, StreamSound, PTL

\* The stream is finished once, as the last thing.
THEOREM FinishComesLast == Spec => []FinishIsLast
<1>1. ASSUME GInv PROVE FinishIsLast
  <2> SUFFICES ASSUME ctx.step = "COMPLETE"
               PROVE  /\ \A o \in ops : o[1] \in {"finish", "start"}
                      /\ Cardinality({o \in ops : o[1] = "finish"}) <= 1
                      /\ \A s \in DOMAIN st : st[s].model # "runs" /\ (st[s].decoupled => IsEmpty(st[s]))
                      /\ ctx.queue = << >>
    BY DEF FinishIsLast
  <2>1. /\ Typed(ctx, st, ops, handler, written) /\ FinishersOK(st, ops)
        /\ QueueOK(ctx, st) /\ CountOK(ctx, st) /\ ReadersOK(ctx, st, ops, written)
        /\ \A s \in DOMAIN st : StateOK(StreamKinds, ctx, ops, handler, s, st[s])
    BY <1>1 DEF GInv, Sound, StreamKinds
  <2>2. \A o \in ops : o[1] \in OpKinds /\ \E s \in DOMAIN st : o = <<o[1], s>>
    BY <2>1 DEF Typed
  <2>3. \A s \in DOMAIN st : ~IsActive(st[s])
    BY <2>1 DEF CountOK, Active
  <2>4. \A s \in DOMAIN st : st[s].model # "runs" /\ (st[s].decoupled => IsEmpty(st[s]))
    BY <2>1, <2>3 DEF StateOK
  <2>5. ASSUME NEW o \in ops PROVE o[1] \in {"finish", "start"}
    <3>1. PICK s \in DOMAIN st : o = <<o[1], s>>
      BY <2>2
    <3>2. /\ <<"read", s>> \notin ops
          /\ <<"write", s>> \notin ops /\ <<"alarm", s>> \notin ops
      BY <2>1, <2>3 DEF StateOK, IsActive, ReadersOK
    <3> QED
      BY <2>2, <3>1, <3>2 DEF OpKinds
  <2>6. \A o, p \in {q \in ops : q[1] = "finish"} : o = p
    BY <2>1, <2>2 DEF FinishersOK
  <2>7. Cardinality({o \in ops : o[1] = "finish"}) <= 1
    BY <2>6, AtMostOne
  <2>8. ctx.queue = << >>
    <3>1. ctx.queue \in Seq(Nat)
      BY <2>1 DEF Typed, Contexts
    <3>2. \A k \in DOMAIN ctx.queue : FALSE
      BY <2>1, <2>3 DEF QueueOK, Active
    <3>3. ASSUME ctx.queue # << >> PROVE FALSE
      <4>1. 1 \in DOMAIN ctx.queue
        BY <3>1, <3>3
      <4> QED
        BY <3>2, <4>1
    <3> QED
      BY <3>3
  <2> QED
    BY <2>4, <2>5, <2>7, <2>8
<1> QED
  BY <1>1, StreamSound, PTL

----------------------------------------------------------------------------
(***************************************************************************)
(* Unary calls.  A call is answered when it gets to COMPLETE, and only an  *)
(* object that waits for a call is replaced by another one that does.      *)
(***************************************************************************)
CallSteps == {"START", "ISSUED", "WRITEREADY", "COMPLETE", "FINISH"}
CallRecords == [rpc : Rpcs, step : CallSteps, finished : Nat]
CallOK(t) ==
  /\ t \in CallRecords /\ t.finished <= 1
  /\ t.step \notin {"COMPLETE", "FINISH"} => t.finished = 0
WaitsFor(r, i) == i \in DOMAIN calls /\ calls[i].rpc = r /\ calls[i].step = "START"
OneWaits(r) == \E i : WaitsFor(r, i) /\ \A j : WaitsFor(r, j) => j = i
CInv ==
  /\ config \in DOMAIN Scenarios
  /\ Cardinality(DOMAIN calls) \in Nat /\ DOMAIN calls = 1..Cardinality(DOMAIN calls)
  /\ \A i \in DOMAIN calls : CallOK(calls[i])
  /\ server = "running" => \A r \in Scenario.rpcs : OneWaits(r)

\* What SetToSeq promises: it numbers the elements of a finite set.
LEMMA SetToSeqNumbers ==
  ASSUME NEW S, IsFiniteSet(S)
  PROVE  LET f == SetToSeq(S)
             n == Cardinality(S)
         IN  /\ n \in Nat /\ f \in [1..n -> S]
             /\ \A i, j \in 1..n : f[i] = f[j] => i = j
             /\ \A x \in S : \E i \in 1..n : f[i] = x
<1> DEFINE f == SetToSeq(S)
           n == Cardinality(S)
<1>1. n \in Nat /\ ExistsBijection(1..n, S)
  BY FS_CardinalityType
<1>2. \E g \in [1..n -> S] : IsInjective(g)
  BY <1>1 DEF ExistsBijection, Bijection, Injection, IsInjective
<1>3. f \in [1..n -> S] /\ IsInjective(f)
  <2>1. f = CHOOSE g \in [1..n -> S] : IsInjective(g)
    BY DEF SetToSeq
  <2> HIDE DEF f, n
  <2> QED
    BY <1>2, <2>1
<1>4. f \in Injection(1..n, S)
  BY <1>3 DEF Injection, IsInjective
<1>5. Cardinality(1..n) = n
  BY <1>1, FS_Interval
<1>6. f \in Surjection(1..n, S)
  BY <1>4, <1>5, FS_Injection
<1> HIDE DEF f, n
<1>7. \A i, j \in 1..n : f[i] = f[j] => i = j
  BY <1>3 DEF IsInjective
<1>8. \A x \in S : \E i \in 1..n : f[i] = x
  BY <1>6 DEF Surjection
<1> QED
  BY <1>1, <1>3, <1>7, <1>8 DEF f, n

\* Start makes one object for each RPC.
LEMMA CallsInit ==
  Init => CInv
<1> SUFFICES ASSUME Init PROVE CInv
  OBVIOUS
<1> DEFINE R == Scenario.rpcs
           f == SetToSeq(R)
           n == Cardinality(R)
<1>1. config \in DOMAIN Scenarios /\ R \subseteq Rpcs
  BY ScenarioAssumption DEF Init, Scenario
<1>2. IsFiniteSet(R)
  <2>1. IsFiniteSet({"sync"}) /\ IsFiniteSet({"async"}) /\ IsFiniteSet({"infer"})
    BY FS_Singleton
  <2>2. IsFiniteSet({"sync"} \cup {"async"})
    BY <2>1, FS_Union
  <2>3. IsFiniteSet(({"sync"} \cup {"async"}) \cup {"infer"})
    BY <2>1, <2>2, FS_Union
  <2>4. Rpcs = ({"sync"} \cup {"async"}) \cup {"infer"}
    BY DEF Rpcs
  <2> QED
    BY <1>1, <2>3, <2>4, FS_Subset
<1>3. /\ n \in Nat /\ f \in [1..n -> R]
      /\ \A i, j \in 1..n : f[i] = f[j] => i = j
      /\ \A x \in R : \E i \in 1..n : f[i] = x
  BY <1>2, SetToSeqNumbers
<1>4. Cardinality(1..n) = n
  BY <1>3, FS_Interval
<1>5. calls = [i \in 1..n |-> NewCall(f[i])]
  BY DEF Init
<1> HIDE DEF f, n, R
<1>6. DOMAIN calls = 1..n
  BY <1>5
<1>7. \A i \in 1..n : /\ calls[i].rpc = f[i] /\ calls[i].step = "START"
                      /\ CallOK(calls[i])
  BY <1>1, <1>3, <1>5 DEF NewCall, CallOK, CallRecords, CallSteps
<1>8. ASSUME NEW r \in R PROVE OneWaits(r)
  <2>1. PICK i \in 1..n : f[i] = r
    BY <1>3
  <2>2. WaitsFor(r, i) /\ \A j : WaitsFor(r, j) => j = i
    BY <1>3, <1>6, <1>7, <2>1 DEF WaitsFor
  <2> QED
    BY <2>2 DEF OneWaits
<1> QED
  BY <1>1, <1>3, <1>4, <1>6, <1>7, <1>8 DEF CInv, R

\* One call changes its step, and does not wait before or after.
LEMMA CallMoves ==
  ASSUME CInv, NEW i \in DOMAIN calls, calls[i].step # "START",
         NEW t, CallOK(t), t.step # "START", calls' = [calls EXCEPT ![i] = t],
         UNCHANGED <<config, server>>
  PROVE  CInv'
<1>1. /\ DOMAIN calls' = DOMAIN calls /\ calls'[i] = t
      /\ \A j \in DOMAIN calls : j # i => calls'[j] = calls[j]
  OBVIOUS
<1>2. \A j \in DOMAIN calls : CallOK(calls'[j])
  BY <1>1 DEF CInv
<1>3. \A r, j : WaitsFor(r, j)' <=> WaitsFor(r, j)
  BY <1>1 DEF WaitsFor
<1>4. \A r : OneWaits(r)' <=> OneWaits(r)
  BY <1>3 DEF OneWaits
<1> QED
  BY <1>1, <1>2, <1>4 DEF CInv, Scenario

\* A call takes the object that waited for it, and another one waits.
LEMMA CallArrivesInv ==
  ASSUME CInv, NEW i \in DOMAIN calls, NEW refused, CallArrives(i, refused)
  PROVE  CInv'
<1>0. PICK n : n = Cardinality(DOMAIN calls) + 1
  OBVIOUS
<1> DEFINE p == IF refused \/ calls[i].rpc = "sync" THEN "COMPLETE" ELSE "ISSUED"
           t == [calls[i] EXCEPT !.step = p, !.finished = IF p = "COMPLETE" THEN 1 ELSE 0]
<1>1. /\ server = "running" /\ calls[i].step = "START" /\ CallOK(calls[i])
      /\ UNCHANGED <<config, server>>
      /\ calls' = Replaced(i, p)
  BY DEF CallArrives, Unary, CInv
<1>2. /\ n \in Nat /\ n - 1 \in Nat /\ n >= 1 /\ DOMAIN calls = 1..n - 1 /\ n # i
      /\ n \notin DOMAIN calls
  BY <1>0 DEF CInv
<1>3. calls' = [j \in DOMAIN calls \cup {n} |->
                  CASE j = i -> t
                    [] j \in DOMAIN calls \ {i} -> calls[j]
                    [] OTHER -> NewCall(calls[i].rpc)]
  BY <1>0, <1>1 DEF Replaced
<1>4. /\ CallOK(t) /\ t.step # "START"
  <2>1. p \in {"COMPLETE", "ISSUED"}
    OBVIOUS
  <2> HIDE DEF p
  <2>2. /\ t \in CallRecords /\ t.step = p
        /\ t.finished = IF p = "COMPLETE" THEN 1 ELSE 0
    BY <1>1, <2>1 DEF CallOK, CallRecords, CallSteps
  <2> HIDE DEF t
  <2> QED
    BY <2>1, <2>2 DEF CallOK
<1>5. /\ CallOK(NewCall(calls[i].rpc)) /\ NewCall(calls[i].rpc).step = "START"
      /\ NewCall(calls[i].rpc).rpc = calls[i].rpc
  BY <1>1 DEF NewCall, CallOK, CallRecords, CallSteps
<1> HIDE DEF t, p
<1>6. /\ DOMAIN calls' = 1..n /\ calls'[i] = t /\ calls'[n] = NewCall(calls[i].rpc)
      /\ \A j \in DOMAIN calls : j # i => calls'[j] = calls[j]
  <2>1. DOMAIN calls' = 1..n
    <3>1. DOMAIN calls \cup {n} = 1..n
      BY <1>2, Interval
    <3> QED
      BY <1>3, <3>1
  <2>2. i \in DOMAIN calls \cup {n} /\ n \in DOMAIN calls \cup {n}
    OBVIOUS
  <2>3. calls'[i] = t
    BY <1>3, <2>2
  <2>4. calls'[n] = NewCall(calls[i].rpc)
    BY <1>2, <1>3, <2>2
  <2>5. ASSUME NEW j \in DOMAIN calls, j # i PROVE calls'[j] = calls[j]
    BY <1>3, <2>5
  <2> QED
    BY <2>1, <2>3, <2>4, <2>5
<1>7. Cardinality(1..n) = n
  BY <1>2, Interval
<1>8. \A j \in DOMAIN calls' : CallOK(calls'[j])
  BY <1>2, <1>4, <1>5, <1>6 DEF CInv
<1>9. ASSUME NEW r, OneWaits(r) PROVE OneWaits(r)'
  <2>1. PICK k : WaitsFor(r, k) /\ \A j : WaitsFor(r, j) => j = k
    BY <1>9 DEF OneWaits
  <2>2. CASE r = calls[i].rpc
    <3>1. k = i
      BY <1>1, <2>1, <2>2 DEF WaitsFor
    <3>2. WaitsFor(r, n)'
      BY <1>2, <1>5, <1>6, <2>2 DEF WaitsFor
    <3>3. \A j : WaitsFor(r, j)' => j = n
      BY <1>2, <1>4, <1>6, <2>1, <3>1 DEF WaitsFor
    <3> QED
      BY <3>2, <3>3 DEF OneWaits
  <2>3. CASE r # calls[i].rpc
    <3>1. \A j : WaitsFor(r, j)' <=> WaitsFor(r, j)
      BY <1>2, <1>4, <1>5, <1>6, <2>3 DEF WaitsFor
    <3> QED
      BY <2>1, <3>1 DEF OneWaits
  <2> QED
    BY <2>2, <2>3
<1> QED
  BY <1>1, <1>2, <1>6, <1>7, <1>8, <1>9 DEF CInv, Scenario

\* Every step of the specification keeps what is said of the calls.
LEMMA CallsNext ==
  ASSUME CInv, [Next]_vars
  PROVE  CInv'
<1>1. ASSUME UNCHANGED <<config, calls>>, server' = server \/ server' # "running" PROVE CInv'
  <2>1. \A r : OneWaits(r)' <=> OneWaits(r)
    BY <1>1 DEF OneWaits, WaitsFor
  <2> QED
    BY <1>1, <2>1 DEF CInv, Scenario
<1>2. ASSUME NEW i \in DOMAIN calls, Call(i) PROVE CInv'
  <2>1. /\ CallOK(calls[i]) /\ calls[i] \in CallRecords /\ calls[i].finished \in Nat
        /\ UNCHANGED <<config, server>>
    BY <1>2 DEF CInv, CallOK, CallRecords, Call, CallExecuted, CallWritten, CallAnswered,
       CallFinished, Unary
  <2>2. ASSUME CallExecuted(i) PROVE CInv'
    <3> DEFINE t == [calls[i] EXCEPT !.step = "WRITEREADY"]
    <3>1. CallOK(t) /\ t.step # "START"
      BY <2>1, <2>2 DEF CallExecuted, CallOK, CallRecords, CallSteps
    <3> QED
      BY <2>1, <2>2, <3>1, CallMoves DEF CallExecuted
  <2>3. ASSUME CallFinished(i) PROVE CInv'
    <3> DEFINE t == [calls[i] EXCEPT !.step = "FINISH"]
    <3>1. CallOK(t) /\ t.step # "START"
      BY <2>1, <2>3 DEF CallFinished, CallOK, CallRecords, CallSteps
    <3> QED
      BY <2>1, <2>3, <3>1, CallMoves DEF CallFinished
  <2>4. ASSUME CallWritten(i) \/ CallAnswered(i) PROVE CInv'
    <3> DEFINE t == [calls[i] EXCEPT !.step = "COMPLETE", !.finished = @ + 1]
    <3>1. /\ calls[i].step \in {"WRITEREADY", "ISSUED"}
          /\ calls' = [calls EXCEPT ![i] = t]
      BY <2>4 DEF CallWritten, CallAnswered, Done
    <3>2. calls[i].finished = 0
      BY <2>1, <3>1 DEF CallOK
    <3>3. CallOK(t) /\ t.step # "START"
      <4>1. t = [calls[i] EXCEPT !.step = "COMPLETE", !.finished = 1]
        BY <2>1, <3>2 DEF CallRecords
      <4> HIDE DEF t
      <4>2. t \in CallRecords /\ t.step = "COMPLETE" /\ t.finished = 1
        BY <2>1, <4>1 DEF CallRecords, CallSteps
      <4> QED
        BY <4>2 DEF CallOK
    <3> QED
      BY <2>1, <3>1, <3>3, CallMoves
  <2> QED
    BY <1>2, <2>2, <2>3, <2>4 DEF Call
<1>3. ASSUME StopBegins PROVE CInv'
  <2>1. /\ calls' = [i \in DOMAIN calls |->
                       IF Waiting(i) THEN [calls[i] EXCEPT !.step = "FINISH"] ELSE calls[i]]
        /\ server' # "running" /\ UNCHANGED config
    BY <1>3 DEF StopBegins
  <2>2. DOMAIN calls' = DOMAIN calls
    BY <2>1
  <2>3. ASSUME NEW i \in DOMAIN calls PROVE CallOK(calls'[i])
    <3>1. CallOK([calls[i] EXCEPT !.step = "FINISH"]) /\ CallOK(calls[i])
      BY DEF CInv, CallOK, CallRecords, CallSteps
    <3> QED
      BY <2>1, <3>1
  <2> QED
    BY <2>1, <2>2, <2>3 DEF CInv
<1>4. ASSUME NEW s \in DOMAIN st, Process(s) \/ Model(s) PROVE CInv'
  <2>1. UNCHANGED <<config, calls, server>>
    BY ZenonT(60), <1>4 DEF Process, Model, Connect, ReadEnds, WrittenSingle, WrittenDecoupled, AfterWrite,
       WriteReady, FinishDone, ReadIssues, ReadRefuses, Respond, Tell, Alone, Others
  <2> QED
    BY <1>1, <2>1
<1>5. ASSUME \E phase \in {"closed", "cancelled"} : ClientLeaves(phase) PROVE CInv'
  BY <1>1, <1>5 DEF ClientLeaves, Others
<1>6. ASSUME StopReturns \/ UNCHANGED vars PROVE CInv'
  BY <1>1, <1>6 DEF StopReturns, vars
<1> QED
  BY <1>2, <1>3, <1>4, <1>5, <1>6, CallArrivesInv DEF Next

\* No call is answered twice, and as long as the server runs every RPC has
\* exactly one object that waits for the next call.
THEOREM EachRpcListens == Spec => []CallsSound
<1>1. ASSUME CInv PROVE CallsSound
  <2>1. \A i \in DOMAIN calls : calls[i].finished <= 1
    BY <1>1 DEF CInv, CallOK
  <2>2. ASSUME server = "running", NEW r \in Scenario.rpcs
        PROVE  Cardinality({i \in CallsOf(r) : Waiting(i)}) = 1
    <3>1. PICK i : WaitsFor(r, i) /\ \A j : WaitsFor(r, j) => j = i
      BY <1>1, <2>2 DEF CInv, OneWaits
    <3>2. {j \in CallsOf(r) : Waiting(j)} = {i}
      BY <3>1 DEF CallsOf, Waiting, WaitsFor
    <3> QED
      BY <3>2, FS_Singleton
  <2> QED
    BY <2>1, <2>2 DEF CallsSound
<1> QED
  BY <1>1, CallsInit, CallsNext, PTL DEF Spec
=============================================================================
