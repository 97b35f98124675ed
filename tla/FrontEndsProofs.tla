--------------------------- MODULE FrontEndsProofs ---------------------------
(***************************************************************************)
(* An HTTP inference is answered once, and the process starts and stops in *)
(* order: for any number of connections, any server, any requests of the   *)
(* clients over both front ends, and whatever the models, the main thread  *)
(* and a signal do meanwhile.                                              *)
(***************************************************************************)
EXTENDS FrontEnds, FiniteSetTheorems, WellFoundedInduction, TLAPS

Fields == {"phase", "backend", "owed", "object", "count", "unreleased", "leaked"}

\* Connection k with the numbers n of what it asked for and was sent.  A reply is due
\* and the InferRequestClass exists while an inference waits; the core has to
\* answer it while it is paused.
ConnOK(k, n) ==
    /\ DOMAIN k = Fields /\ n \in [asked : Nat, replied : Nat]
    /\ n.asked = IF k.phase \in Waiting THEN n.replied + 1 ELSE n.replied
    /\ k.phase \in Waiting => k.object
    /\ k.owed => k.phase = "paused"

FInv ==
    /\ DOMAIN conns = Connections /\ conns = [c \in DOMAIN conns |-> conns[c]]
    /\ calls \in [Connections -> [asked : Nat, replied : Nat]]
    /\ \A c \in Connections : ConnOK(conns[c], calls[c])

\* No connection has asked for anything.
LEMMA InitAnswered == Init => FInv
<1> SUFFICES ASSUME Init PROVE FInv
  OBVIOUS
<1>1. /\ conns = [c \in Connections |-> Idle]
      /\ calls = [c \in Connections |-> [asked |-> 0, replied |-> 0]]
  BY DEF Init
<1>2. ConnOK(Idle, [asked |-> 0, replied |-> 0])
  BY DEF ConnOK, Idle, Fields, Waiting
<1> QED
  BY <1>1, <1>2 DEF FInv

\* A step of one connection.
LEMMA OneConnection ==
  ASSUME FInv, NEW c \in Connections, NEW k, NEW n, ConnOK(k, n),
         conns' = [conns EXCEPT ![c] = k],
         calls' \in [Connections -> [asked : Nat, replied : Nat]],
         calls'[c] = n, \A d \in Connections : d # c => calls'[d] = calls[d]
  PROVE FInv'
<1>1. /\ DOMAIN conns' = Connections /\ conns' = [d \in DOMAIN conns' |-> conns'[d]]
      /\ conns'[c] = k /\ \A d \in Connections : d # c => conns'[d] = conns[d]
  BY DEF FInv
<1>2. \A d \in Connections : ConnOK(conns'[d], calls'[d])
  BY <1>1 DEF FInv
<1>3. \A d \in Connections : ConnOK(conns[d], calls[d])'
  BY <1>2 DEF ConnOK
<1> QED
  BY <1>1, <1>3 DEF FInv

\* A step that leaves the connections alone.
LEMMA NoConnection ==
  ASSUME FInv, UNCHANGED <<conns, calls>>
  PROVE FInv'
<1>1. \A c \in Connections : ConnOK(conns[c], calls[c])'
  BY DEF FInv, ConnOK
<1> QED
  BY <1>1 DEF FInv

\* A handler that answers at once, or never.
LEMMA HttpUnaryAnswers ==
  ASSUME FInv, NEW c \in Connections, NEW r, HttpUnary(c, r)
  PROVE FInv'
<1>1. /\ conns[c].phase = "idle" /\ UNCHANGED calls
      /\ conns' = conns \/ conns' = [conns EXCEPT ![c].phase = "hung"]
  BY DEF HttpUnary
<1>2. CASE conns' = conns
  BY <1>1, <1>2, NoConnection
<1>3. CASE conns' = [conns EXCEPT ![c].phase = "hung"]
  <2>1. PICK s : s = conns[c]
    OBVIOUS
  <2>2. PICK k : k = [s EXCEPT !.phase = "hung"]
    OBVIOUS
  <2>3. conns' = [conns EXCEPT ![c] = k]
    BY <1>3, <2>1, <2>2
  <2>4. ConnOK(s, calls[c]) /\ s.phase = "idle"
    BY <1>1, <2>1 DEF FInv
  <2>5. ConnOK(k, calls[c])
    BY <2>2, <2>4 DEF ConnOK, Fields, Waiting
  <2> QED
    BY <1>1, <2>3, <2>5, OneConnection DEF FInv
<1> QED
  BY <1>1, <1>2, <1>3

\* HandleInfer answers at once, or asks for an inference.
LEMMA HandleInferAnswers ==
  ASSUME FInv, NEW c \in Connections, NEW r, HandleInfer(c, r)
  PROVE FInv'
<1>1. PICK s : s = conns[c]
  OBVIOUS
<1>2. ConnOK(s, calls[c]) /\ s.phase = "idle"
  BY <1>1 DEF FInv, HandleInfer
<1>3. calls \in [Connections -> [asked : Nat, replied : Nat]]
  BY DEF FInv
<1>4. ASSUME NEW made, conns' = [conns EXCEPT ![c].leaked = @ \cup {made}], Replied(c)
      PROVE FInv'
  <2>1. PICK k : k = [s EXCEPT !.leaked = s.leaked \cup {made}]
    OBVIOUS
  <2>2. conns' = [conns EXCEPT ![c] = k]
    BY <1>1, <1>4, <2>1
  <2>3. /\ calls' \in [Connections -> [asked : Nat, replied : Nat]]
        /\ calls'[c].asked = calls[c].asked + 1 /\ calls'[c].replied = calls[c].replied + 1
        /\ \A d \in Connections : d # c => calls'[d] = calls[d]
    BY <1>3, <1>4 DEF Replied
  <2>4. ConnOK(k, calls'[c])
    BY <1>2, <2>1, <2>3 DEF ConnOK, Fields, Waiting
  <2> QED
    BY <2>2, <2>3, <2>4, OneConnection
<1>5. ASSUME Replied(c), UNCHANGED conns PROVE FInv'
  <2>1. conns' = [conns EXCEPT ![c] = s]
    BY <1>1, <1>5 DEF FInv
  <2>2. /\ calls' \in [Connections -> [asked : Nat, replied : Nat]]
        /\ calls'[c].asked = calls[c].asked + 1 /\ calls'[c].replied = calls[c].replied + 1
        /\ \A d \in Connections : d # c => calls'[d] = calls[d]
    BY <1>3, <1>5 DEF Replied
  <2>3. ConnOK(s, calls'[c])
    BY <1>2, <2>2 DEF ConnOK, Waiting
  <2> QED
    BY <2>1, <2>2, <2>3, OneConnection
<1>6. ASSUME NEW backend,
             conns' = [conns EXCEPT ![c] = [conns[c] EXCEPT !.phase = "translated",
                          !.object = TRUE, !.count = 0, !.backend = backend]],
             calls' = [calls EXCEPT ![c].asked = @ + 1]
      PROVE FInv'
  <2>1. PICK k : k = [s EXCEPT !.phase = "translated", !.object = TRUE, !.count = 0,
                               !.backend = backend]
    OBVIOUS
  <2>2. conns' = [conns EXCEPT ![c] = k]
    BY <1>1, <1>6, <2>1
  <2>3. /\ calls' \in [Connections -> [asked : Nat, replied : Nat]]
        /\ calls'[c].asked = calls[c].asked + 1 /\ calls'[c].replied = calls[c].replied
        /\ \A d \in Connections : d # c => calls'[d] = calls[d]
    BY <1>3, <1>6
  <2>4. /\ DOMAIN k = Fields /\ k.phase = "translated" /\ k.object = TRUE
        /\ k.owed = s.owed
    BY <1>2, <2>1 DEF ConnOK, Fields
  <2>5. ConnOK(k, calls'[c])
    BY <1>2, <2>3, <2>4 DEF ConnOK, Waiting
  <2> QED
    BY <2>2, <2>3, <2>5, OneConnection
<1> QED
  BY <1>4, <1>5, <1>6 DEF HandleInfer

\* InferAsync hands the request to the core, or the handler answers.
LEMMA InferAsyncAnswers ==
  ASSUME FInv, NEW c \in Connections, NEW accepted, InferAsync(c, accepted)
  PROVE FInv'
<1>1. PICK s : s = conns[c]
  OBVIOUS
<1>2. ConnOK(s, calls[c]) /\ s.phase = "translated"
  BY <1>1 DEF FInv, InferAsync
<1>3. calls \in [Connections -> [asked : Nat, replied : Nat]]
  BY DEF FInv
<1>4. ASSUME NEW rest, UNCHANGED calls,
             conns' = [conns EXCEPT ![c] = [conns[c] EXCEPT !.phase = "paused",
                                              !.owed = TRUE, !.unreleased = rest]]
      PROVE FInv'
  <2>1. PICK k : k = [s EXCEPT !.phase = "paused", !.owed = TRUE, !.unreleased = rest]
    OBVIOUS
  <2>2. conns' = [conns EXCEPT ![c] = k]
    BY <1>1, <1>4, <2>1
  <2>3. DOMAIN k = Fields /\ k.phase = "paused" /\ k.object = s.object
    BY <1>2, <2>1 DEF ConnOK, Fields
  <2>4. ConnOK(k, calls[c])
    BY <1>2, <2>3 DEF ConnOK, Waiting
  <2> QED
    BY <1>3, <1>4, <2>2, <2>4, OneConnection
<1>5. ASSUME conns' = [conns EXCEPT ![c] = Freed(conns[c])],
             calls' = [calls EXCEPT ![c].replied = @ + 1]
      PROVE FInv'
  <2>1. PICK k : k = [s EXCEPT !.phase = "idle", !.object = FALSE]
    OBVIOUS
  <2>2. conns' = [conns EXCEPT ![c] = k]
    BY <1>1, <1>5, <2>1 DEF Freed
  <2>3. /\ calls' \in [Connections -> [asked : Nat, replied : Nat]]
        /\ calls'[c].asked = calls[c].asked /\ calls'[c].replied = calls[c].replied + 1
        /\ \A d \in Connections : d # c => calls'[d] = calls[d]
    BY <1>3, <1>5
  <2>4. DOMAIN k = Fields /\ k.phase = "idle" /\ k.owed = s.owed
    BY <1>2, <2>1 DEF ConnOK, Fields
  <2>5. ConnOK(k, calls'[c])
    BY <1>2, <2>3, <2>4 DEF ConnOK, Waiting
  <2> QED
    BY <2>2, <2>3, <2>5, OneConnection
<1> QED
  BY <1>4, <1>5 DEF InferAsync

\* The core calls InferResponseComplete; only the final response counts.
LEMMA RespondAnswers ==
  ASSUME FInv, NEW c \in Connections, NEW final \in BOOLEAN, Respond(c, final)
  PROVE FInv'
<1>1. PICK s : s = conns[c]
  OBVIOUS
<1>2. ConnOK(s, calls[c]) /\ s.owed
  BY <1>1 DEF FInv, Respond
<1>3. s.phase = "paused"
  BY <1>2 DEF ConnOK
<1>4. PICK next : next = (IF final THEN "deferred" ELSE s.phase)
  OBVIOUS
<1>5. PICK n : n = s.count + 1
  OBVIOUS
<1>6. PICK due : due = ~final
  OBVIOUS
<1>7. PICK k : k = [s EXCEPT !.count = n, !.owed = due, !.phase = next]
  OBVIOUS
<1>8. conns' = [conns EXCEPT ![c] = k] /\ UNCHANGED calls
  BY <1>1, <1>4, <1>5, <1>6, <1>7 DEF Respond, InferResponseComplete
<1>9. DOMAIN k = Fields /\ k.phase = next /\ k.object = s.object /\ k.owed = due
  BY <1>2, <1>7 DEF ConnOK, Fields
<1>10. ConnOK(k, calls[c])
  BY <1>2, <1>3, <1>4, <1>6, <1>9 DEF ConnOK, Waiting
<1> QED
  BY <1>8, <1>10, OneConnection DEF FInv

\* The release of a request has no effect on the reply.
LEMMA ReleaseAnswers ==
  ASSUME FInv, NEW c \in Connections, Release(c)
  PROVE FInv'
<1>1. PICK s : s = conns[c]
  OBVIOUS
<1>2. PICK u \in conns[c].unreleased : conns' = [conns EXCEPT ![c].unreleased = @ \ {u}]
  BY DEF Release
<1>3. PICK k : k = [s EXCEPT !.unreleased = s.unreleased \ {u}]
  OBVIOUS
<1>4. conns' = [conns EXCEPT ![c] = k] /\ UNCHANGED calls
  BY <1>1, <1>2, <1>3 DEF Release
<1>5. ConnOK(s, calls[c])
  BY <1>1 DEF FInv
<1>6. DOMAIN k = Fields /\ k.phase = s.phase /\ k.object = s.object /\ k.owed = s.owed
  BY <1>3, <1>5 DEF ConnOK, Fields
<1>7. ConnOK(k, calls[c])
  BY <1>5, <1>6 DEF ConnOK
<1> QED
  BY <1>4, <1>7, OneConnection DEF FInv

\* The callback on the thread of the connection sends the reply.
LEMMA ReplyAnswers ==
  ASSUME FInv, NEW c \in Connections, ReplyCallback(c)
  PROVE FInv'
<1>1. PICK s : s = conns[c]
  OBVIOUS
<1>2. ConnOK(s, calls[c]) /\ s.phase = "deferred"
  BY <1>1 DEF FInv, ReplyCallback
<1>3. calls \in [Connections -> [asked : Nat, replied : Nat]]
  BY DEF FInv
<1>4. PICK k : k = [s EXCEPT !.phase = "idle", !.object = FALSE]
  OBVIOUS
<1>5. conns' = [conns EXCEPT ![c] = k]
  BY <1>1, <1>4 DEF ReplyCallback, Freed
<1>6. /\ calls' \in [Connections -> [asked : Nat, replied : Nat]]
      /\ calls'[c].asked = calls[c].asked /\ calls'[c].replied = calls[c].replied + 1
      /\ \A d \in Connections : d # c => calls'[d] = calls[d]
  BY <1>3 DEF ReplyCallback
<1>7. DOMAIN k = Fields /\ k.phase = "idle" /\ k.owed = s.owed
  BY <1>2, <1>4 DEF ConnOK, Fields
<1>8. ConnOK(k, calls'[c])
  BY <1>2, <1>6, <1>7 DEF ConnOK, Waiting
<1> QED
  BY <1>5, <1>6, <1>8, OneConnection

\* What a reload leaves of a connection.
LEMMA OutlivesFields ==
  ASSUME NEW k, DOMAIN k = Fields, NEW old
  PROVE LET x == Outlives(k, old)
        IN  /\ DOMAIN x = Fields /\ x.phase = k.phase /\ x.owed = k.owed
            /\ x.object = k.object
            /\ x.backend = IF k.backend \in old THEN Replaced(k.backend) ELSE k.backend
<1>1. PICK b : b = IF k.backend \in old THEN Replaced(k.backend) ELSE k.backend
  OBVIOUS
<1>2. PICK l : l = {IF d \in old THEN Replaced(d) ELSE d : d \in k.leaked}
  OBVIOUS
<1>3. PICK n : n = {<<u[1], IF u[2] \in old THEN Replaced(u[2]) ELSE u[2]>> : u \in k.unreleased}
  OBVIOUS
<1>4. PICK x : x = [k EXCEPT !.backend = b, !.leaked = l, !.unreleased = n]
  OBVIOUS
<1>5. Outlives(k, old) = x
  BY <1>1, <1>2, <1>3, <1>4 DEF Outlives
<1>6. /\ DOMAIN x = Fields /\ x.phase = k.phase /\ x.owed = k.owed /\ x.object = k.object
      /\ x.backend = b
  BY <1>4 DEF Fields
<1> QED
  BY <1>1, <1>5, <1>6

\* A reload has no effect on the replies.
LEMMA ReloadAnswers ==
  ASSUME FInv, NEW m, Reload(m), UNCHANGED calls
  PROVE FInv'
<1>1. PICK old : old = ReadyBackends(m)
  OBVIOUS
<1>2. conns' = [c \in Connections |-> Outlives(conns[c], old)]
  BY <1>1 DEF Reload
<1>3. ASSUME NEW c \in Connections PROVE ConnOK(conns'[c], calls'[c])
  <2>1. PICK k : k = conns[c]
    OBVIOUS
  <2>2. ConnOK(k, calls[c])
    BY <2>1 DEF FInv
  <2>3. PICK x : x = Outlives(k, old)
    OBVIOUS
  <2>4. DOMAIN x = Fields /\ x.phase = k.phase /\ x.owed = k.owed /\ x.object = k.object
    BY <2>2, <2>3, OutlivesFields DEF ConnOK
  <2>5. ConnOK(x, calls[c])
    BY <2>2, <2>4 DEF ConnOK
  <2>6. conns'[c] = x
    BY <1>2, <2>1, <2>3
  <2> QED
    BY <2>5, <2>6
<1>4. DOMAIN conns' = Connections /\ conns' = [c \in DOMAIN conns' |-> conns'[c]]
  BY <1>2
<1>5. \A c \in Connections : ConnOK(conns[c], calls[c])'
  BY <1>3 DEF ConnOK
<1> QED
  BY <1>4, <1>5 DEF FInv

\* Every step preserves the invariant.
LEMMA NextAnswers == FInv /\ [Next]_vars => FInv'
<1> SUFFICES ASSUME FInv, [Next]_vars PROVE FInv'
  OBVIOUS
<1>1. CASE MainThread \/ SignalHandler
  <2>1. UNCHANGED <<conns, calls>> \/ Poll
    BY <1>1 DEF MainThread, SignalHandler, Create, Stop, Stopped, StopEndpoints
  <2>2. CASE Poll
    <3>1. UNCHANGED calls /\ (UNCHANGED conns \/ \E m : Reload(m))
      BY <2>2 DEF Poll
    <3> QED
      BY <3>1, NoConnection, ReloadAnswers
  <2> QED
    BY <2>1, <2>2, NoConnection
<1>2. CASE \E r \in scenario.unary : GrpcUnary(r)
  BY <1>2, NoConnection DEF GrpcUnary
<1>3. CASE \E mv \in Versions : Unloaded(mv[1], mv[2]) \/ LoadEnds(mv[1], mv[2])
  BY <1>3, NoConnection DEF Unloaded, LoadEnds
<1>4. CASE \E c \in Connections, r \in scenario.unary : HttpUnary(c, r)
  BY <1>4, HttpUnaryAnswers
<1>5. CASE \E c \in Connections, r \in scenario.infer : HandleInfer(c, r)
  BY <1>5, HandleInferAnswers
<1>6. CASE \E c \in Connections, accepted \in BOOLEAN : InferAsync(c, accepted)
  BY <1>6, InferAsyncAnswers
<1>7. CASE \E c \in Connections : Core(c) \/ ReplyCallback(c)
  BY <1>7, RespondAnswers, ReleaseAnswers, ReplyAnswers DEF Core
<1>8. CASE \E m \in DOMAIN world.server.models : LoadModified(m)
  BY <1>8, ReloadAnswers DEF LoadModified
<1>9. CASE UNCHANGED vars
  BY <1>9, NoConnection DEF vars
<1> QED
  BY <1>1, <1>2, <1>3, <1>4, <1>5, <1>6, <1>7, <1>8, <1>9 DEF Next

\* An HTTP inference is answered once, by its handler or by the callback of
\* its final response, and the InferRequestClass exists as long as the core
\* may call InferResponseComplete with it.
THEOREM InferencesAnsweredOnce == Spec => []AnsweredOnce
<1>1. FInv => AnsweredOnce
  <2> SUFFICES ASSUME FInv, NEW c \in Connections
               PROVE /\ calls[c].asked - calls[c].replied
                          = IF conns[c].phase \in Waiting THEN 1 ELSE 0
                     /\ conns[c].owed => conns[c].object
    BY DEF AnsweredOnce
  <2>1. ConnOK(conns[c], calls[c]) /\ "paused" \in Waiting
    BY DEF FInv, Waiting
  <2>2. /\ calls[c].asked \in Nat /\ calls[c].replied \in Nat
        /\ calls[c].asked =
             IF conns[c].phase \in Waiting THEN calls[c].replied + 1 ELSE calls[c].replied
    BY <2>1 DEF ConnOK
  <2>3. conns[c].owed => conns[c].object
    BY <2>1 DEF ConnOK
  <2> QED
    BY <2>2, <2>3
<1> QED
  BY <1>1, InitAnswered, NextAnswers, PTL DEF Spec

-----------------------------------------------------------------------------
(***************************************************************************)
(* An orderly process.  An inference keeps its backend: versions of models *)
(* that an inference may refer to are ready, on their way out or replaced, *)
(* whatever clients load and unload over either front end, so the server   *)
(* has not stopped before each that is not replaced is answered.           *)
(***************************************************************************)
ServerFields == {"ready_state", "strict", "explicit", "models", "infos", "named"}

\* The states in which a backend exists, and those that Stop waits for.
Attached == {READY, UNLOADING}
Live == {READY, LOADING, UNLOADING}

\* A load of model m makes its version v ready.
Loadable(m, v) == v \in Repository[m] /\ \A x \in Repository[m] : <<m, x>> \notin Broken

\* f: the versions of model m; e: clients load and unload models.  Then a load
\* while one of the versions is in use does not end its use.
VersionsOK(e, m, f) ==
    /\ DOMAIN f \subseteq Nat /\ IsFiniteSet(DOMAIN f)
    /\ e => \A v \in DOMAIN f : f[v] \in Live => Loadable(m, v)

ServerOK(s) ==
    /\ DOMAIN s = ServerFields
    /\ \A m \in DOMAIN s.models : VersionsOK(s.explicit, m, s.models[m])

BackendLive(s, b) ==
    \E m \in DOMAIN s.models : \E v \in DOMAIN s.models[m] :
        b = [model |-> m, version |-> v] /\ s.models[m][v] \in Attached

\* g: the versions of a model some time after they were f.
Keeps(f, g) ==
    \A v \in DOMAIN f : f[v] \in Attached => v \in DOMAIN g /\ g[v] \in Attached

\* Server t some time after it was s, of the same control mode.
Follows(s, t) ==
    /\ ServerOK(t) /\ t.explicit = s.explicit
    /\ \A m \in DOMAIN s.models : m \in DOMAIN t.models /\ Keeps(s.models[m], t.models[m])

\* Induction over the naturals, for a set.
LEMMA NatSet ==
  ASSUME NEW T, T \subseteq Nat, 0 \in T, \A n \in T : n + 1 \in T
  PROVE  \A n \in Nat : n \in T
<1> DEFINE F == Nat \ T
<1>1. SUFFICES ASSUME F # {} PROVE FALSE
  OBVIOUS
<1>2. PICK m \in F : \A y \in F : ~(<<y, m>> \in OpToRel(<, Nat))
  BY <1>1, NatLessThanWellFounded, WFMin, F \subseteq Nat
<1>3. m \in Nat /\ m # 0
  OBVIOUS
<1>4. m - 1 \in Nat /\ m - 1 < m
  BY <1>3
<1>5. m - 1 \notin F
  BY <1>2, <1>3, <1>4 DEF OpToRel
<1>6. (m - 1) + 1 \in T
  BY <1>4, <1>5
<1> QED
  BY <1>3, <1>6

\* A finite set of versions has a latest one.
LEMMA LatestVersion ==
  ASSUME NEW S, S \subseteq Nat, IsFiniteSet(S), S # {}
  PROVE Max(S) \in S
<1> DEFINE T == {n \in Nat : \A R \in SUBSET Nat :
                   IsFiniteSet(R) /\ R # {} /\ Cardinality(R) = n =>
                     \E x \in R : \A y \in R : x >= y}
<1>1. 0 \in T
  BY FS_EmptySet
<1>2. ASSUME NEW n \in T PROVE n + 1 \in T
  <2> SUFFICES ASSUME NEW R \in SUBSET Nat, IsFiniteSet(R), R # {}, Cardinality(R) = n + 1
               PROVE \E x \in R : \A y \in R : x >= y
    OBVIOUS
  <2>1. PICK z \in R : TRUE
    OBVIOUS
  <2>2. PICK Q : Q = R \ {z}
    OBVIOUS
  <2>3. IsFiniteSet(Q) /\ Cardinality(Q) = Cardinality(R) - 1
    BY <2>1, <2>2, FS_RemoveElement
  <2>4. Cardinality(Q) = n
    BY <2>3
  <2>5. CASE Q = {}
    BY <2>1, <2>2, <2>5
  <2>6. CASE Q # {}
    <3>1. PICK x \in Q : \A y \in Q : x >= y
      BY <2>2, <2>3, <2>4, <2>6
    <3>2. x \in Nat /\ z \in Nat /\ x \in R
      BY <2>1, <2>2, <3>1
    <3>3. CASE x >= z
      BY <2>2, <3>1, <3>2, <3>3
    <3>4. CASE ~(x >= z)
      <4>1. \A y \in R : z >= y
        BY <2>2, <3>1, <3>2, <3>4
      <4> QED
        BY <2>1, <4>1
    <3> QED
      BY <3>3, <3>4
  <2> QED
    BY <2>5, <2>6
<1>3. \A n \in Nat : n \in T
  <2> HIDE DEF T
  <2>1. T \subseteq Nat
    BY DEF T
  <2> QED
    BY <1>1, <1>2, <2>1, NatSet
<1>4. Cardinality(S) \in Nat
  BY FS_CardinalityType
<1>5. \E x \in S : \A y \in S : x >= y
  BY <1>3, <1>4
<1> QED
  BY <1>5 DEF Max

\* An unload keeps the versions in use.
LEMMA UnloadingKeeps ==
  ASSUME NEW e, NEW m, NEW f, VersionsOK(e, m, f)
  PROVE VersionsOK(e, m, Unloading(f)) /\ Keeps(f, Unloading(f))
<1>1. DOMAIN Unloading(f) = DOMAIN f
  BY DEF Unloading
<1>2. \A v \in DOMAIN f : Unloading(f)[v] = IF f[v] = READY THEN UNLOADING ELSE f[v]
  BY DEF Unloading
<1>3. \A v \in DOMAIN f : Unloading(f)[v] \in Live => f[v] \in Live
  BY <1>2 DEF Live
<1>4. \A v \in DOMAIN f : f[v] \in Attached => Unloading(f)[v] \in Attached
  BY <1>2 DEF Attached
<1> QED
  BY <1>1, <1>3, <1>4 DEF VersionsOK, Keeps

\* A load makes all versions of a model ready, or none.
LEMMA AllOrNothing ==
  ASSUME NEW m
  PROVE /\ DOMAIN LoadedVersions(m) = Repository[m]
        /\ \A v \in Repository[m] : LoadedVersions(m)[v] \in Live => Loadable(m, v)
        /\ \A v : Loadable(m, v) => v \in Repository[m] /\ LoadedVersions(m)[v] = READY
<1>1. PICK failing : failing = {v \in Repository[m] : <<m, v>> \in Broken}
  OBVIOUS
<1>2. LoadedVersions(m) = [v \in Repository[m] |-> CASE v \in failing -> FAILED
                              [] v \notin failing /\ failing # {} -> UNLOADED
                              [] OTHER -> READY]
  BY <1>1 DEF LoadedVersions
<1>3. DOMAIN LoadedVersions(m) = Repository[m]
  BY <1>2
<1>4. \A v \in Repository[m] : LoadedVersions(m)[v] =
         IF v \in failing THEN FAILED ELSE IF failing # {} THEN UNLOADED ELSE READY
  BY <1>2
<1>5. \A v \in Repository[m] : LoadedVersions(m)[v] \in Live => failing = {}
  BY <1>4 DEF Live, FAILED, UNLOADED, READY, UNLOADING, LOADING
<1>6. \A v : Loadable(m, v) <=> v \in Repository[m] /\ failing = {}
  BY <1>1 DEF Loadable
<1> QED
  BY <1>3, <1>4, <1>5, <1>6

\* So does a load, of the versions that it can make ready.
LEMMA LoadKeeps ==
  ASSUME NEW m \in DOMAIN Repository
  PROVE /\ VersionsOK(TRUE, m, LoadedVersions(m))
        /\ \A f : VersionsOK(TRUE, m, f) => Keeps(f, LoadedVersions(m))
<1>1. Repository[m] \subseteq Nat /\ IsFiniteSet(Repository[m])
  BY FrontEndsAssumption
<1>2. VersionsOK(TRUE, m, LoadedVersions(m))
  BY <1>1, AllOrNothing DEF VersionsOK
<1>3. ASSUME NEW f, VersionsOK(TRUE, m, f) PROVE Keeps(f, LoadedVersions(m))
  <2>1. \A v \in DOMAIN f : f[v] \in Attached => Loadable(m, v)
    BY <1>3 DEF VersionsOK, Attached, Live
  <2>2. READY \in Attached
    BY DEF Attached
  <2> QED
    BY <2>1, <2>2, AllOrNothing DEF Keeps
<1> QED
  BY <1>2, <1>3

\* Nothing has happened, or one thing after the other.
LEMMA KeepsOn ==
  /\ \A f : Keeps(f, f)
  /\ \A f, g, h : Keeps(f, g) /\ Keeps(g, h) => Keeps(f, h)
BY DEF Keeps

\* What an inference refers to survives what a server does.
LEMMA FollowsKeeps ==
  ASSUME NEW s, NEW t, Follows(s, t), NEW b, BackendLive(s, b)
  PROVE BackendLive(t, b)
<1>0. PICK m \in DOMAIN s.models : \E v \in DOMAIN s.models[m] :
          b = [model |-> m, version |-> v] /\ s.models[m][v] \in Attached
  BY DEF BackendLive
<1>1. PICK v \in DOMAIN s.models[m] :
          b = [model |-> m, version |-> v] /\ s.models[m][v] \in Attached
  BY <1>0
<1>2. m \in DOMAIN t.models /\ Keeps(s.models[m], t.models[m])
  BY DEF Follows
<1> QED
  BY <1>1, <1>2 DEF BackendLive, Keeps

\* A server that does nothing.
LEMMA FollowsItself ==
  ASSUME NEW s, ServerOK(s)
  PROVE Follows(s, s)
BY KeepsOn DEF Follows

\* What a flag that is set says.
LEMMA ControlOn ==
  ASSUME NEW e, e, NEW m, NEW f
  PROVE VersionsOK(e, m, f) <=> VersionsOK(TRUE, m, f)
BY DEF VersionsOK

\* A server with other models.
LEMMA OtherModels ==
  ASSUME NEW s, ServerOK(s), NEW G,
         \A m \in DOMAIN G : VersionsOK(s.explicit, m, G[m]),
         \A m \in DOMAIN s.models : m \in DOMAIN G /\ Keeps(s.models[m], G[m]),
         NEW t, DOMAIN t = ServerFields, t.models = G, t.explicit = s.explicit
  PROVE Follows(s, t)
BY DEF Follows, ServerOK

\* The models that are loaded afresh, and the ensembles that are loaded or
\* unloaded with them.
LEMMA ReloadedFollows ==
  ASSUME NEW s, ServerOK(s), s.explicit, NEW fresh, fresh \subseteq DOMAIN Repository
  PROVE Follows(s, Reloaded(s, fresh)) /\ Reloaded(s, fresh).ready_state = s.ready_state
<1>1. PICK plain : plain = fresh \ DOMAIN DependsOn
  OBVIOUS
<1>2. PICK first : first = [m \in DOMAIN s.models \cup plain |->
                              IF m \in plain THEN LoadedVersions(m) ELSE s.models[m]]
  OBVIOUS
<1>3. PICK ready : ready = {m \in DOMAIN first : READY \in Range(first[m])}
  OBVIOUS
<1>4. PICK affected : affected = {e \in Ensembles(s) : e \in fresh \/ DependsOn[e] \cap fresh # {}}
  OBVIOUS
<1>5. PICK valid : valid = {e \in affected : DependsOn[e] \subseteq ready}
  OBVIOUS
<1>6. PICK G : G = [m \in DOMAIN first \cup valid |->
                      CASE m \in valid -> LoadedVersions(m)
                        [] m \in affected \ valid -> Unloading(first[m])
                        [] OTHER -> first[m]]
  OBVIOUS
<1>7. Reloaded(s, fresh) = [s EXCEPT !.models = G]
  BY <1>1, <1>2, <1>3, <1>4, <1>5, <1>6 DEF Reloaded
<1>8. valid \subseteq DOMAIN Repository /\ plain \subseteq DOMAIN Repository
  BY <1>1, <1>4, <1>5, FrontEndsAssumption DEF Ensembles
<1>9. \A m \in DOMAIN s.models : VersionsOK(TRUE, m, s.models[m])
  BY ControlOn DEF ServerOK
<1>10. /\ DOMAIN first = DOMAIN s.models \cup plain
       /\ \A m \in plain : first[m] = LoadedVersions(m)
       /\ \A m \in DOMAIN s.models \ plain : first[m] = s.models[m]
  BY <1>2
<1>11. \A m \in DOMAIN first : VersionsOK(TRUE, m, first[m])
  BY <1>8, <1>9, <1>10, LoadKeeps
<1>12. \A m \in DOMAIN s.models : m \in DOMAIN first /\ Keeps(s.models[m], first[m])
  BY <1>8, <1>9, <1>10, LoadKeeps, KeepsOn
<1>13. /\ DOMAIN G = DOMAIN first \cup valid
       /\ \A m \in valid : G[m] = LoadedVersions(m)
       /\ \A m \in DOMAIN first \ valid : G[m] = first[m] \/ G[m] = Unloading(first[m])
  BY <1>6
<1>14. \A m \in DOMAIN G : VersionsOK(TRUE, m, G[m])
  BY <1>8, <1>11, <1>13, LoadKeeps, UnloadingKeeps
<1>15. ASSUME NEW m \in DOMAIN first PROVE Keeps(first[m], G[m])
  <2>1. CASE m \in valid
    BY <1>8, <1>11, <1>13, <2>1, LoadKeeps
  <2>2. CASE m \notin valid
    BY <1>11, <1>13, <2>2, UnloadingKeeps, KeepsOn
  <2> QED
    BY <2>1, <2>2
<1>16. \A m \in DOMAIN s.models : m \in DOMAIN G /\ Keeps(s.models[m], G[m])
  BY <1>12, <1>13, <1>15, KeepsOn
<1>17. \A m \in DOMAIN G : VersionsOK(s.explicit, m, G[m])
  BY <1>14, ControlOn
<1>18. PICK t : t = [s EXCEPT !.models = G]
  OBVIOUS
<1>19. /\ DOMAIN t = ServerFields /\ t.models = G /\ t.explicit = s.explicit
       /\ t.ready_state = s.ready_state
  BY <1>18 DEF ServerOK, ServerFields
<1>20. Follows(s, t)
  BY <1>16, <1>17, <1>19, OtherModels
<1> QED
  BY <1>7, <1>18, <1>19, <1>20

\* An outcome of a call: its server follows s.
Serves(s, outcome) == Follows(s, outcome.server) /\ outcome.server.ready_state = s.ready_state

\* An outcome that leaves the server as it is.
LEMMA SameServer ==
  ASSUME NEW s, ServerOK(s), NEW o, o.server = s
  PROVE Serves(s, o)
BY FollowsItself DEF Serves

\* LoadModel keeps what inferences use.
LEMMA LoadFollows ==
  ASSUME NEW s, ServerOK(s), NEW model
  PROVE Serves(s, LoadModel(s, model))
<1>1. PICK fresh : fresh = ({model} \cup ComposedOf(model)) \ s.infos
  OBVIOUS
<1>2. PICK s1 : s1 = [s EXCEPT !.infos = s.infos \cup fresh,
                               !.named = s.named \cup ({model} \cap fresh)]
  OBVIOUS
<1>3. PICK after : after = Reloaded(s1, fresh)
  OBVIOUS
<1>4. LoadModel(s, model).server \in {s, after}
  BY <1>1, <1>2, <1>3 DEF LoadModel, Error, Ok
<1>5. CASE LoadModel(s, model).server = s
  BY <1>5, SameServer
<1>6. CASE LoadModel(s, model).server # s
  <2>1. s.explicit /\ model \in DOMAIN Repository
    BY <1>6 DEF LoadModel, Error, Ok
  <2>2. fresh \subseteq DOMAIN Repository
    BY <1>1, <2>1, FrontEndsAssumption DEF ComposedOf
  <2>3. /\ DOMAIN s1 = ServerFields /\ s1.models = s.models /\ s1.explicit = s.explicit
        /\ s1.ready_state = s.ready_state
    BY <1>2 DEF ServerOK, ServerFields
  <2>4. ServerOK(s1)
    BY <2>3 DEF ServerOK
  <2>5. Follows(s1, after) /\ after.ready_state = s1.ready_state
    BY <1>3, <2>1, <2>2, <2>3, <2>4, ReloadedFollows
  <2>6. Follows(s, after)
    BY <2>3, <2>5 DEF Follows
  <2> QED
    BY <1>4, <1>6, <2>3, <2>5, <2>6 DEF Serves
<1> QED
  BY <1>5, <1>6

\* The server record with all versions of some models on their way out.
LEMMA UnloadsFollow ==
  ASSUME NEW s, ServerOK(s), NEW gone,
         NEW t, DOMAIN t = ServerFields, t.explicit = s.explicit,
         t.models = [m \in DOMAIN s.models |->
                       IF m \in gone THEN Unloading(s.models[m]) ELSE s.models[m]]
  PROVE Follows(s, t)
<1>1. \A m \in DOMAIN s.models : VersionsOK(s.explicit, m, s.models[m])
  BY DEF ServerOK
<1>2. DOMAIN t.models = DOMAIN s.models
  OBVIOUS
<1>3. \A m \in DOMAIN s.models : t.models[m] = s.models[m] \/ t.models[m] = Unloading(s.models[m])
  OBVIOUS
<1>4. \A m \in DOMAIN s.models : /\ VersionsOK(s.explicit, m, t.models[m])
                                 /\ Keeps(s.models[m], t.models[m])
  BY <1>1, <1>3, UnloadingKeeps, KeepsOn
<1> QED
  BY <1>2, <1>4 DEF Follows, ServerOK

\* UnloadModel keeps what inferences use.
LEMMA UnloadFollows ==
  ASSUME NEW s, ServerOK(s), NEW model, NEW dependents
  PROVE Serves(s, UnloadModel(s, model, dependents))
<1>1. CASE ~IsServing(s) \/ ~s.explicit
  BY <1>1, SameServer DEF UnloadModel, Error
<1>2. CASE ~(~IsServing(s) \/ ~s.explicit)
  <2>1. PICK gone : gone = {model} \cup IF dependents THEN Dependents(s, model) ELSE {}
    OBVIOUS
  <2>2. PICK invalid : invalid = {e \in Ensembles(s) : DependsOn[e] \cap gone # {}}
    OBVIOUS
  <2>3. PICK G : G = [m \in DOMAIN s.models |->
                        IF m \in gone \cup invalid THEN Unloading(s.models[m]) ELSE s.models[m]]
    OBVIOUS
  <2>4. PICK t : t = [s EXCEPT !.infos = s.infos \ gone, !.named = s.named \ gone, !.models = G]
    OBVIOUS
  <2>5. UnloadModel(s, model, dependents).server = t
    BY <1>2, <2>1, <2>2, <2>3, <2>4 DEF UnloadModel, Ok
  <2>6. /\ DOMAIN t = ServerFields /\ t.models = G /\ t.explicit = s.explicit
        /\ t.ready_state = s.ready_state
    BY <2>4 DEF ServerOK, ServerFields
  <2>7. Follows(s, t)
    BY <2>3, <2>6, UnloadsFollow
  <2> QED
    BY <2>5, <2>6, <2>7 DEF Serves
<1> QED
  BY <1>1, <1>2

WorldFields == {"server", "regions"}
WorldOK(w) == DOMAIN w = WorldFields /\ ServerOK(w.server)

\* World x some time after it was w.
WorldFollows(w, x) ==
    /\ DOMAIN x = WorldFields
    /\ Follows(w.server, x.server) /\ x.server.ready_state = w.server.ready_state

\* A world in which only the server, or only the regions, have changed.
LEMMA WorldSteps ==
  ASSUME NEW w, WorldOK(w)
  PROVE /\ WorldFollows(w, w)
        /\ \A t : Follows(w.server, t) /\ t.ready_state = w.server.ready_state
                    => WorldFollows(w, [w EXCEPT !.server = t])
        /\ \A regions : WorldFollows(w, [w EXCEPT !.regions = regions])
<1>1. Follows(w.server, w.server)
  BY FollowsItself DEF WorldOK
<1>2. WorldFollows(w, w)
  BY <1>1 DEF WorldFollows, WorldOK
<1>3. ASSUME NEW t, Follows(w.server, t), t.ready_state = w.server.ready_state
      PROVE WorldFollows(w, [w EXCEPT !.server = t])
  BY <1>3 DEF WorldFollows, WorldOK, WorldFields
<1>4. ASSUME NEW regions PROVE WorldFollows(w, [w EXCEPT !.regions = regions])
  BY <1>1 DEF WorldFollows, WorldOK, WorldFields
<1> QED
  BY <1>2, <1>3, <1>4

\* The replies of both front ends.
LEMMA RepliesFollow ==
  ASSUME NEW w, WorldOK(w), NEW o
  PROVE /\ Serves(w.server, o) => WorldFollows(w, HttpReply(w, o).world)
        /\ Serves(w.server, o) => WorldFollows(w, GrpcReply(w, o).world)
        /\ WorldFollows(w, HttpShmReply(w, o).world)
        /\ WorldFollows(w, GrpcShmReply(w, o).world)
        /\ WorldFollows(w, HttpHealth(w, o).world)
        /\ WorldFollows(w, Refused(w).world)
<1>1. /\ HttpReply(w, o).world = [w EXCEPT !.server = o.server]
      /\ GrpcReply(w, o).world = [w EXCEPT !.server = o.server]
  BY DEF HttpReply, GrpcReply, HttpResult, GrpcResult
<1>2. /\ HttpShmReply(w, o).world = [w EXCEPT !.regions = o.regions]
      /\ GrpcShmReply(w, o).world = [w EXCEPT !.regions = o.regions]
  BY DEF HttpShmReply, GrpcShmReply, HttpResult, GrpcResult
<1>3. HttpHealth(w, o).world = w /\ Refused(w).world = w
  BY DEF HttpHealth, HttpResult, Refused
<1> QED
  BY <1>1, <1>2, <1>3, WorldSteps DEF Serves

\* The calls that only read.
LEMMA Reads ==
  ASSUME NEW s, NEW model, NEW version, NEW string, NEW flag
  PROVE /\ GetModelVersionFromString(s, string).server = s
        /\ IsLive(s).server = s /\ IsReady(s).server = s
        /\ GetInferenceBackend(s, model, version).server = s
        /\ ModelIsReady(s, model, version).server = s
        /\ ModelReadyVersions(s, model).server = s
        /\ AllReadyVersions(s).server = s
        /\ RepositoryIndex(s, flag).server = s
        /\ ServerMetadata(s).server = s
<1>1. \A value, code : Ok(s, value).server = s /\ Error(s, code).server = s
  BY DEF Ok, Error
<1>2. GetModelVersionFromString(s, string).server = s
  BY <1>1 DEF GetModelVersionFromString
<1>3. IsLive(s).server = s /\ IsReady(s).server = s
  BY <1>1 DEF IsLive, IsReady
<1>4. GetInferenceBackend(s, model, version).server = s
  BY <1>1 DEF GetInferenceBackend
<1>5. ModelIsReady(s, model, version).server = s /\ ModelReadyVersions(s, model).server = s
  BY <1>1 DEF ModelIsReady, ModelReadyVersions
<1>6. AllReadyVersions(s).server = s
  BY <1>1 DEF AllReadyVersions
<1>7. RepositoryIndex(s, flag).server = s
  BY <1>1 DEF RepositoryIndex
<1>8. ServerMetadata(s).server = s
  BY <1>1 DEF ServerMetadata
<1> QED
  BY <1>2, <1>3, <1>4, <1>5, <1>6, <1>7, <1>8

\* The calls that look up a backend first.
LEMMA LookUps ==
  ASSUME NEW s, NEW model, NEW version
  PROVE /\ ServerModelMetadata(s, model, version).server = s
        /\ ServerModelConfig(s, model, version).server = s
        /\ ServerModelStatistics(s, model, version).server = s
<1>1. \A value, code : Ok(s, value).server = s /\ Error(s, code).server = s
  BY DEF Ok, Error
<1>2. /\ GetInferenceBackend(s, model, version).server = s
      /\ ModelReadyVersions(s, model).server = s
      /\ AllReadyVersions(s).server = s
  BY Reads
<1>3. ServerModelMetadata(s, model, version).server = s
  BY <1>1, <1>2 DEF ServerModelMetadata, Then
<1>4. ServerModelConfig(s, model, version).server = s
  BY <1>1, <1>2 DEF ServerModelConfig, Then
<1>5. ServerModelStatistics(s, model, version).server = s
  BY <1>1, <1>2 DEF ServerModelStatistics, Then
<1> QED
  BY <1>3, <1>4, <1>5

\* The handlers of HTTP.
LEMMA HandleFollows ==
  ASSUME NEW w, WorldOK(w), NEW r, r.op \in UnaryCalls
  PROVE WorldFollows(w, Handle(w, r).world)
<1>0. PICK s : s = w.server
  OBVIOUS
<1>1. ServerOK(s)
  BY <1>0 DEF WorldOK
<1>2. \A status, value : WorldFollows(w, HttpResult(status, value, w).world)
  BY WorldSteps DEF HttpResult
<1>3. WorldFollows(w, HandleServerHealth(w, r).world)
  BY RepliesFollow DEF HandleServerHealth
<1>4. WorldFollows(w, HandleModelReady(w, r).world)
  BY RepliesFollow DEF HandleModelReady
<1>5. WorldFollows(w, HandleModelMetadata(w, r).world)
  <2>1. Serves(w.server, Then(GetModelVersionFromString(w.server, r.version),
                           LAMBDA v : ServerModelMetadata(w.server, r.model, v.value)))
    BY <1>0, <1>1, Reads, LookUps, SameServer DEF Then
  <2> QED
    BY <2>1, RepliesFollow DEF HandleModelMetadata
<1>6. WorldFollows(w, HandleModelConfig(w, r).world)
  <2>1. Serves(w.server, Then(GetModelVersionFromString(w.server, r.version),
                           LAMBDA v : ServerModelConfig(w.server, r.model, v.value)))
    BY <1>0, <1>1, Reads, LookUps, SameServer DEF Then
  <2> QED
    BY <2>1, RepliesFollow DEF HandleModelConfig
<1>7. WorldFollows(w, HandleModelStats(w, r).world)
  <2>1. Serves(w.server, Then(GetModelVersionFromString(w.server, r.version),
                           LAMBDA v : ServerModelStatistics(w.server, r.model, v.value)))
    BY <1>0, <1>1, Reads, LookUps, SameServer DEF Then
  <2> QED
    BY <2>1, RepliesFollow DEF HandleModelStats
<1>8. WorldFollows(w, HandleServerMetadata(w, r).world)
  BY <1>0, <1>1, Reads, SameServer, RepliesFollow DEF HandleServerMetadata
<1>9. WorldFollows(w, HandleRepositoryIndex(w, r).world)
  <2>1. Serves(w.server, RepositoryIndex(w.server, r.ready = "yes"))
    BY <1>0, <1>1, Reads, SameServer
  <2> QED
    BY <1>2, <2>1, RepliesFollow DEF HandleRepositoryIndex
<1>10. WorldFollows(w, HandleRepositoryControl(w, r).world)
  BY <1>0, <1>1, LoadFollows, UnloadFollows, RepliesFollow DEF HandleRepositoryControl
<1>11. CASE r.op \in {"shmStatus", "shmRegister", "shmUnregister"}
  <2>1. WorldFollows(w, HandleSystemSharedMemory(w, r).world)
    BY <1>11, RepliesFollow DEF HandleSystemSharedMemory
  <2>2. WorldFollows(w, HandleCudaSharedMemory(w, r).world)
    BY <1>11, RepliesFollow DEF HandleCudaSharedMemory
  <2> QED
    BY <1>2, <1>11, <2>1, <2>2 DEF Handle
<1>12. CASE r.op \notin {"shmStatus", "shmRegister", "shmUnregister"}
  BY <1>2, <1>3, <1>4, <1>5, <1>6, <1>7, <1>8, <1>9, <1>10, <1>12 DEF Handle, UnaryCalls
<1> QED
  BY <1>11, <1>12

\* The handlers of gRPC.
LEMMA ExecuteFollows ==
  ASSUME NEW w, WorldOK(w), NEW r, r.op \in UnaryCalls
  PROVE WorldFollows(w, Execute(w, r).world)
<1>0. PICK s : s = w.server
  OBVIOUS
<1>1. ServerOK(s)
  BY <1>0 DEF WorldOK
<1>2. \A code : Serves(w.server, Error(w.server, code))
  BY <1>0, <1>1, SameServer DEF Error
<1>3. /\ WorldFollows(w, OnExecuteServerLive(w, r).world)
      /\ WorldFollows(w, OnExecuteServerReady(w, r).world)
      /\ WorldFollows(w, OnExecuteServerMetadata(w, r).world)
  <2>1. /\ Serves(w.server, IsLive(w.server)) /\ Serves(w.server, IsReady(w.server))
        /\ Serves(w.server, ServerMetadata(w.server))
    BY <1>0, <1>1, Reads, SameServer
  <2> QED
    BY <2>1, RepliesFollow DEF OnExecuteServerLive, OnExecuteServerReady, OnExecuteServerMetadata
<1>4. WorldFollows(w, OnExecuteModelReady(w, r).world)
  <2>1. Serves(w.server, Then(GetModelVersionFromString(w.server, r.version),
                           LAMBDA v : ModelIsReady(w.server, r.model, v.value)))
    BY <1>0, <1>1, Reads, LookUps, SameServer DEF Then
  <2> QED
    BY <2>1, RepliesFollow DEF OnExecuteModelReady
<1>5. WorldFollows(w, OnExecuteModelMetadata(w, r).world)
  <2>1. Serves(w.server, Then(GetModelVersionFromString(w.server, r.version),
                           LAMBDA v : ServerModelMetadata(w.server, r.model, v.value)))
    BY <1>0, <1>1, Reads, LookUps, SameServer DEF Then
  <2> QED
    BY <2>1, RepliesFollow DEF OnExecuteModelMetadata
<1>6. WorldFollows(w, OnExecuteModelConfig(w, r).world)
  <2>1. Serves(w.server, Then(GetModelVersionFromString(w.server, r.version),
                           LAMBDA v : ServerModelConfig(w.server, r.model, v.value)))
    BY <1>0, <1>1, Reads, LookUps, SameServer DEF Then
  <2> QED
    BY <2>1, RepliesFollow DEF OnExecuteModelConfig
<1>7. WorldFollows(w, OnExecuteModelStatistics(w, r).world)
  <2>1. Serves(w.server, Then(GetModelVersionFromString(w.server, r.version),
                           LAMBDA v : ServerModelStatistics(w.server, r.model, v.value)))
    BY <1>0, <1>1, Reads, LookUps, SameServer DEF Then
  <2> QED
    BY <2>1, RepliesFollow DEF OnExecuteModelStatistics
<1>8. /\ WorldFollows(w, OnExecuteSystemSharedMemoryStatus(w, r).world)
      /\ WorldFollows(w, OnExecuteSystemSharedMemoryRegister(w, r).world)
      /\ WorldFollows(w, OnExecuteSystemSharedMemoryUnregister(w, r).world)
  BY RepliesFollow DEF OnExecuteSystemSharedMemoryStatus, OnExecuteSystemSharedMemoryRegister,
        OnExecuteSystemSharedMemoryUnregister
<1>9. /\ WorldFollows(w, OnExecuteCudaSharedMemoryStatus(w, r).world)
      /\ WorldFollows(w, OnExecuteCudaSharedMemoryRegister(w, r).world)
      /\ WorldFollows(w, OnExecuteCudaSharedMemoryUnregister(w, r).world)
  BY RepliesFollow DEF OnExecuteCudaSharedMemoryStatus, OnExecuteCudaSharedMemoryRegister,
        OnExecuteCudaSharedMemoryUnregister
<1>10. WorldFollows(w, OnExecuteRepositoryIndex(w, r).world)
  <2>1. Serves(w.server, RepositoryIndex(w.server, r.ready = "yes"))
    BY <1>0, <1>1, Reads, SameServer
  <2> QED
    BY <1>2, <2>1, RepliesFollow DEF OnExecuteRepositoryIndex
<1>11. WorldFollows(w, OnExecuteRepositoryModelLoad(w, r).world)
  BY <1>0, <1>1, <1>2, LoadFollows, RepliesFollow DEF OnExecuteRepositoryModelLoad
<1>12. WorldFollows(w, OnExecuteRepositoryModelUnload(w, r).world)
  BY <1>0, <1>1, <1>2, UnloadFollows, RepliesFollow DEF OnExecuteRepositoryModelUnload
<1> QED
  BY <1>3, <1>4, <1>5, <1>6, <1>7, <1>8, <1>9, <1>10, <1>11, <1>12 DEF Execute, UnaryCalls

\* A backend that was looked up is ready, and the server serves.
LEMMA FoundIsLive ==
  ASSUME NEW s, ServerOK(s), NEW model, NEW version,
         GetInferenceBackend(s, model, version).code = "OK"
  PROVE IsServing(s) /\ BackendLive(s, GetInferenceBackend(s, model, version).value)
<1>1. PICK found : found = IF version = -1 THEN ReadyVersions(s, model)
                           ELSE ReadyVersions(s, model) \cap {version}
  OBVIOUS
<1>2. IsServing(s) /\ found # {}
  BY <1>1 DEF GetInferenceBackend, Error, Ok
<1>3. GetInferenceBackend(s, model, version).value = [model |-> model, version |-> Max(found)]
  BY <1>1, <1>2 DEF GetInferenceBackend, Error, Ok
<1>4. /\ model \in DOMAIN s.models /\ found \subseteq DOMAIN s.models[model]
      /\ \A v \in found : s.models[model][v] = READY
  BY <1>1, <1>2 DEF ReadyVersions
<1>5. DOMAIN s.models[model] \subseteq Nat /\ IsFiniteSet(DOMAIN s.models[model])
  BY <1>4 DEF ServerOK, VersionsOK
<1>6. Max(found) \in found
  BY <1>2, <1>4, <1>5, LatestVersion, FS_Subset
<1>7. Max(found) \in DOMAIN s.models[model] /\ s.models[model][Max(found)] \in Attached
  BY <1>4, <1>6 DEF Attached
<1> QED
  BY <1>2, <1>3, <1>4, <1>7 DEF BackendLive

\* An inference that is translated has a backend that was found.
LEMMA TranslatedIsLive ==
  ASSUME NEW w, WorldOK(w), NEW r, HttpInferRequest(w, r).code = "OK"
  PROVE /\ IsServing(w.server)
        /\ BackendLive(w.server, HttpInferRequest(w, r).value.backend)
<1>1. PICK v : v = GetModelVersionFromString(w.server, r.version)
  OBVIOUS
<1>2. PICK b : b = GetInferenceBackend(w.server, r.model, v.value)
  OBVIOUS
<1>3. HttpInferRequest(w, r) = EVBufferToInput(w, r, b.value) /\ b.code = "OK"
  BY <1>1, <1>2 DEF HttpInferRequest, Then, ServerModelTransactionProperties, InferenceRequestNew,
       Error, Ok
<1>4. HttpInferRequest(w, r).value.backend = b.value
  BY <1>3 DEF EVBufferToInput, Then, Error, Ok
<1> QED
  BY <1>2, <1>3, <1>4, FoundIsLive DEF WorldOK

-----------------------------------------------------------------------------
(* The start of the process.                                               *)

\* The command line is one of the scenario's.
ScenarioInv == scenario \in Scenarios /\ options \in scenario.lines

\* Ports that collide are refused before the first service is started; what is
\* started is allowed, and listens; without the POLL mode nothing is polled.
StartInv ==
    /\ stage \notin {"parse", "failed"} => ~CheckPortCollision(options)
    /\ stage \in {"parse", "create"} => running = <<>>
    /\ stage = "start" =>
         /\ running \in Seq(Services) /\ Range(running) \subseteq options.allow
         /\ \A s \in Range(running) : bound[s]
    /\ bound \in [Services -> BOOLEAN]
    /\ stage = "poll" => options.poll
    /\ AllListen

\* What does not belong to the main thread or to the signal handler.
Others ==
    \/ \E c \in Connections, r \in scenario.unary : HttpUnary(c, r)
    \/ \E r \in scenario.unary : GrpcUnary(r)
    \/ \E c \in Connections, r \in scenario.infer : HandleInfer(c, r)
    \/ \E c \in Connections, accepted \in BOOLEAN : InferAsync(c, accepted)
    \/ \E c \in Connections : Core(c) \/ ReplyCallback(c)
    \/ \E m \in DOMAIN world.server.models : LoadModified(m)
    \/ \E mv \in Versions : Unloaded(mv[1], mv[2]) \/ LoadEnds(mv[1], mv[2])

\* The main thread waits meanwhile.
LEMMA OthersMain == Others => UNCHANGED <<scenario, mainVars>>
<1>1. ASSUME NEW c, NEW r, HttpUnary(c, r) PROVE UNCHANGED <<scenario, mainVars>>
  BY <1>1 DEF HttpUnary
<1>2. ASSUME NEW r, GrpcUnary(r) PROVE UNCHANGED <<scenario, mainVars>>
  BY <1>2 DEF GrpcUnary
<1>3. ASSUME NEW c, NEW r, HandleInfer(c, r) PROVE UNCHANGED <<scenario, mainVars>>
  BY <1>3 DEF HandleInfer
<1>4. ASSUME NEW c, NEW accepted, InferAsync(c, accepted) PROVE UNCHANGED <<scenario, mainVars>>
  BY <1>4 DEF InferAsync
<1>5. ASSUME NEW c, Core(c) \/ ReplyCallback(c) PROVE UNCHANGED <<scenario, mainVars>>
  BY <1>5 DEF Core, Respond, Release, ReplyCallback
<1>6. ASSUME NEW m, NEW v, Unloaded(m, v) \/ LoadEnds(m, v) PROVE UNCHANGED <<scenario, mainVars>>
  BY <1>6 DEF Unloaded, LoadEnds
<1>7. ASSUME NEW m, LoadModified(m) PROVE UNCHANGED <<scenario, mainVars>>
  BY <1>7 DEF LoadModified
<1> QED
  BY <1>1, <1>2, <1>3, <1>4, <1>5, <1>6, <1>7 DEF Others

\* The options do not change.
LEMMA NextScenario == ScenarioInv /\ [Next]_vars => ScenarioInv'
<1> SUFFICES ASSUME ScenarioInv, [Next]_vars PROVE UNCHANGED <<scenario, options>>
  BY DEF ScenarioInv
<1>1. CASE Others
  BY <1>1, OthersMain DEF mainVars
<1>2. CASE MainThread
  BY <1>2 DEF MainThread, Parse, StartService, Started, CheckExiting, WaitFor, Timeout, Exit,
       Create, CreateServer, Poll, PollModelRepository, Stop, BeginStop, Stopped, EndStop,
       StopEndpoints, StopService
<1>3. CASE SignalHandler
  BY <1>3 DEF SignalHandler, SignalArrives, NotifyAll
<1>4. CASE UNCHANGED vars
  BY <1>4 DEF vars, mainVars
<1> QED
  BY <1>1, <1>2, <1>3, <1>4 DEF Next, Others

\* The services that are allowed are services.
LEMMA AllowedServices == ScenarioInv => options.allow \subseteq Services
BY FrontEndsAssumption DEF ScenarioInv

\* A service is started at a port that no other has.
LEMMA StartServiceListens ==
  ASSUME ScenarioInv, StartInv, StartService
  PROVE StartInv'
<1>1. PICK k \in DOMAIN StartOrder :
        /\ ToStart(StartOrder[k])
        /\ running' = Append(running, StartOrder[k])
        /\ bound' = [bound EXCEPT ![StartOrder[k]] = \A t \in Range(running) :
                        bound[t] => options.port[t] # options.port[StartOrder[k]]]
  BY DEF StartService
<1>2. PICK s : s = StartOrder[k]
  OBVIOUS
<1>3. stage = "start" /\ UNCHANGED <<options, stage>>
  BY DEF StartService
<1>4. /\ ~CheckPortCollision(options) /\ running \in Seq(Services)
      /\ Range(running) \subseteq options.allow /\ \A t \in Range(running) : bound[t]
      /\ bound \in [Services -> BOOLEAN]
  BY <1>3 DEF StartInv
<1>5. s \in options.allow /\ s \notin Range(running) /\ s \in Services
  <2>1. s \in options.allow /\ ~Contains(running, s)
    BY <1>1, <1>2 DEF ToStart
  <2>2. s \notin Range(running)
    BY <1>4, <2>1 DEF Contains, Range
  <2> QED
    BY <2>1, <2>2, AllowedServices
<1>6. \A t \in Range(running) : options.port[t] # options.port[s]
  BY <1>4, <1>5 DEF CheckPortCollision
<1>7. bound' \in [Services -> BOOLEAN] /\ bound'[s] /\ \A t \in Range(running) : bound'[t]
  BY <1>1, <1>2, <1>4, <1>5, <1>6
<1>8. running' \in Seq(Services) /\ Range(running') = Range(running) \cup {s}
  BY <1>1, <1>2, <1>4, <1>5 DEF Range
<1> QED
  BY <1>3, <1>4, <1>5, <1>7, <1>8 DEF StartInv, AllListen, CheckPortCollision

\* The main loop begins when every allowed service is started.
LEMMA StartedListens ==
  ASSUME ScenarioInv, StartInv, Started
  PROVE StartInv'
<1>1. \A s \in options.allow : Contains(running, s)
  BY AllowedServices DEF Started, ToStart
<1>2. \A s \in Range(running) : bound[s]
  BY DEF Started, StartInv
<1>3. running \in Seq(Services)
  BY DEF Started, StartInv
<1>4. \A s \in options.allow : bound[s]
  BY <1>1, <1>2, <1>3 DEF Contains, Range
<1> QED
  BY <1>4 DEF Started, StartInv, AllListen, CheckPortCollision

\* Every step preserves the invariant of the start.
LEMMA NextStart == ScenarioInv /\ StartInv /\ [Next]_vars => StartInv'
<1> SUFFICES ASSUME ScenarioInv, StartInv, [Next]_vars PROVE StartInv'
  OBVIOUS
<1>1. ASSUME UNCHANGED mainVars PROVE StartInv'
  BY <1>1 DEF mainVars, StartInv, AllListen, CheckPortCollision
<1>2. ASSUME Parse PROVE StartInv'
  BY <1>2 DEF Parse, StartInv, AllListen, CheckPortCollision
<1>3. ASSUME NEW created, CreateServer(created) PROVE StartInv'
  <2>1. Range(<<>>) = {} /\ <<>> \in Seq(Services)
    BY DEF Range
  <2>2. running = <<>> /\ UNCHANGED <<options, running, bound>> /\ stage' \in {"start", "failed"}
    BY <1>3 DEF CreateServer, StartInv
  <2>3. ~CheckPortCollision(options) /\ bound \in [Services -> BOOLEAN]
    BY <1>3 DEF CreateServer, StartInv
  <2> QED
    BY <2>1, <2>2, <2>3 DEF StartInv, AllListen, CheckPortCollision
<1>4. ASSUME CheckExiting \/ WaitFor \/ Timeout \/ Exit \/ PollModelRepository \/ BeginStop
      PROVE StartInv'
  BY <1>4 DEF CheckExiting, WaitFor, Timeout, Exit, PollModelRepository, BeginStop, StartInv,
       AllListen, CheckPortCollision
<1>5. ASSUME NEW quiet, EndStop(quiet) PROVE StartInv'
  BY <1>5 DEF EndStop, StartInv, AllListen, CheckPortCollision
<1>6. ASSUME NEW s, StopService(s) PROVE StartInv'
  BY <1>6 DEF StopService, StartInv, AllListen, CheckPortCollision
<1>7. ASSUME SignalArrives \/ NotifyAll PROVE StartInv'
  BY <1>7 DEF SignalArrives, NotifyAll, StartInv, AllListen, CheckPortCollision
<1>8. CASE Others
  BY <1>1, <1>8, OthersMain
<1>9. CASE MainThread
  BY <1>2, <1>3, <1>4, <1>5, <1>6, <1>9, StartServiceListens, StartedListens
     DEF MainThread, Create, Poll, Stop, Stopped, StopEndpoints
<1>10. CASE SignalHandler
  BY <1>7, <1>10 DEF SignalHandler
<1>11. CASE UNCHANGED vars
  BY <1>1, <1>11 DEF vars
<1> QED
  BY <1>8, <1>9, <1>10, <1>11 DEF Next, Others

-----------------------------------------------------------------------------
(* The inferences of a server that is stopped.                             *)

\* Connection k on server s: while an inference is with the handler or with
\* its model its backend serves, is on its way out or was replaced, and the one
\* that is paused is with its model.
HeldOK(s, k) ==
    /\ k.phase = "translated" \/ k.owed => BackendLive(s, k.backend) \/ IsReplaced(k.backend)
    /\ k.phase = "paused" => k.owed

AtWork(k) == k.phase \in {"translated", "paused"}
Quiet == {"endpoints", "exited"}

\* Connection k in stage q of the main thread.
CutOffOK(q, k) == q \in Quiet /\ AtWork(k) => IsReplaced(k.backend)

HeldInv == \A c \in Connections : HeldOK(world.server, conns[c])

KInv ==
    /\ WorldOK(world) /\ world.server.explicit = scenario.explicit
    /\ stage = "stopping" \/ stage \in Quiet => world.server.ready_state = "exiting"
    /\ HeldInv
    /\ CleanStop

\* No inference is under way.
LEMMA InitKeeps == Init => ScenarioInv /\ StartInv /\ KInv
<1> SUFFICES ASSUME Init PROVE ScenarioInv /\ StartInv /\ KInv
  OBVIOUS
<1>1. ScenarioInv
  BY DEF Init, MainInit, ScenarioInv
<1>2. StartInv
  BY DEF Init, MainInit, StartInv, AllListen
<1>3. /\ world.server = [ready_state |-> "initializing", strict |-> scenario.strict,
                          explicit |-> scenario.explicit, models |-> scenario.models,
                          infos |-> DOMAIN scenario.models, named |-> {}]
      /\ DOMAIN world = WorldFields
  BY DEF Init, WorldFields
<1>4. DOMAIN world.server = ServerFields /\ world.server.models = scenario.models
      /\ world.server.explicit = scenario.explicit
  BY <1>3 DEF ServerFields
<1>5. ASSUME NEW m \in DOMAIN scenario.models
      PROVE VersionsOK(scenario.explicit, m, scenario.models[m])
  <2>1. /\ DOMAIN scenario.models[m] \subseteq Nat /\ IsFiniteSet(DOMAIN scenario.models[m])
        /\ scenario.explicit => scenario.models[m] = LoadedVersions(m)
    BY <1>1, FrontEndsAssumption DEF ScenarioInv
  <2>2. \A v \in DOMAIN LoadedVersions(m) : LoadedVersions(m)[v] \in Live => Loadable(m, v)
    BY AllOrNothing
  <2> QED
    BY <2>1, <2>2 DEF VersionsOK
<1>6. WorldOK(world) /\ world.server.explicit = scenario.explicit
  BY <1>3, <1>4, <1>5 DEF WorldOK, ServerOK
<1>7. stage = "parse"
  BY DEF Init, MainInit
<1>8. HeldInv
  BY DEF Init, HeldInv, HeldOK, Idle
<1> QED
  BY <1>1, <1>2, <1>6, <1>7, <1>8 DEF KInv, CleanStop, Quiet

\* A step that leads to a server that follows, and to connections that were
\* so before or are in order.
LEMMA KeepsHeld ==
  ASSUME KInv, scenario' = scenario, DOMAIN world' = WorldFields,
         Follows(world.server, world'.server),
         stage' = "stopping" \/ stage' \in Quiet => world'.server.ready_state = "exiting",
         stage' \in Quiet => stage \in Quiet,
         \A c \in Connections : \/ conns'[c] = conns[c]
                                \/ /\ HeldOK(world'.server, conns'[c])
                                   /\ CutOffOK(stage', conns'[c])
  PROVE KInv'
<1>1. WorldOK(world)'
  BY DEF WorldOK, Follows
<1>2. world'.server.explicit = scenario'.explicit
  BY DEF Follows, KInv
<1>3. \A c \in Connections : HeldOK(world.server, conns[c])
  BY DEF KInv, HeldInv
<1>4. \A c \in Connections : HeldOK(world'.server, conns'[c])
  BY <1>3, FollowsKeeps DEF HeldOK, IsReplaced
<1>5. HeldInv'
  BY <1>4 DEF HeldInv, HeldOK, BackendLive, IsReplaced
<1>6. \A c \in Connections : CutOffOK(stage', conns'[c])
  BY DEF KInv, CleanStop, CutOffOK, AtWork, Quiet
<1>7. CleanStop'
  BY <1>6 DEF CleanStop, CutOffOK, AtWork, Quiet, IsReplaced
<1> QED
  BY <1>1, <1>2, <1>5, <1>7 DEF KInv

\* A step that leaves the server alone.
LEMMA KeepsServer ==
  ASSUME KInv, scenario' = scenario, world' = world,
         stage' = "stopping" \/ stage' \in Quiet => stage = "stopping" \/ stage \in Quiet,
         stage' \in Quiet => stage \in Quiet,
         \A c \in Connections : \/ conns'[c] = conns[c]
                                \/ /\ HeldOK(world.server, conns'[c])
                                   /\ CutOffOK(stage', conns'[c])
  PROVE KInv'
<1>1. DOMAIN world' = WorldFields /\ ServerOK(world.server)
  BY DEF KInv, WorldOK
<1>2. Follows(world.server, world'.server)
  BY <1>1, FollowsItself
<1>3. stage' = "stopping" \/ stage' \in Quiet => world'.server.ready_state = "exiting"
  BY DEF KInv
<1>4. \A c \in Connections : \/ conns'[c] = conns[c]
                             \/ /\ HeldOK(world'.server, conns'[c])
                                /\ CutOffOK(stage', conns'[c])
  OBVIOUS
<1> QED
  BY <1>1, <1>2, <1>3, <1>4, KeepsHeld

\* A request that its handler answers.
LEMMA UnaryHolds ==
  ASSUME FInv, ScenarioInv, KInv,
         (\E c \in Connections, r \in scenario.unary : HttpUnary(c, r))
           \/ (\E r \in scenario.unary : GrpcUnary(r))
  PROVE KInv'
<1>1. WorldOK(world)
  BY DEF KInv
<1>2. \A r \in scenario.unary : r.op \in UnaryCalls
  BY FrontEndsAssumption DEF ScenarioInv
<1>3. ASSUME WorldFollows(world, world'), UNCHANGED <<scenario, mainVars>>,
             \A c \in Connections : \/ conns'[c] = conns[c]
                                    \/ HeldOK(world'.server, conns'[c]) /\ ~AtWork(conns'[c])
      PROVE KInv'
  <2>1. /\ DOMAIN world' = WorldFields /\ Follows(world.server, world'.server)
        /\ world'.server.ready_state = world.server.ready_state
    BY <1>3 DEF WorldFollows
  <2>2. scenario' = scenario /\ stage' = stage
    BY <1>3 DEF mainVars
  <2>3. stage' = "stopping" \/ stage' \in Quiet => world'.server.ready_state = "exiting"
    BY <2>1, <2>2 DEF KInv
  <2> QED
    BY <1>3, <2>1, <2>2, <2>3, KeepsHeld DEF CutOffOK
<1>4. ASSUME NEW r \in scenario.unary, GrpcUnary(r) PROVE KInv'
  <2>1. WorldFollows(world, world')
    BY <1>1, <1>2, <1>4, ExecuteFollows DEF GrpcUnary
  <2>2. UNCHANGED <<scenario, mainVars>> /\ \A c \in Connections : conns'[c] = conns[c]
    BY <1>4 DEF GrpcUnary
  <2> QED
    BY <1>3, <2>1, <2>2
<1>5. ASSUME NEW d \in Connections, NEW r \in scenario.unary, HttpUnary(d, r) PROVE KInv'
  <2>1. WorldFollows(world, world')
    BY <1>1, <1>2, <1>5, HandleFollows DEF HttpUnary
  <2>2. UNCHANGED <<scenario, mainVars>> /\ conns[d].phase = "idle"
    BY <1>5 DEF HttpUnary
  <2>3. ConnOK(conns[d], calls[d]) /\ DOMAIN conns = Connections
    BY DEF FInv
  <2>4. conns' = conns \/ conns' = [conns EXCEPT ![d].phase = "hung"]
    BY <1>5 DEF HttpUnary
  <2>5. CASE conns' = conns
    BY <1>3, <2>1, <2>2, <2>5
  <2>6. CASE conns' = [conns EXCEPT ![d].phase = "hung"]
    <3>1. /\ \A c \in Connections \ {d} : conns'[c] = conns[c]
          /\ conns'[d] = [conns[d] EXCEPT !.phase = "hung"]
      BY <2>3, <2>6
    <3>2. conns'[d].phase = "hung" /\ conns'[d].owed = conns[d].owed
      BY <2>3, <3>1 DEF ConnOK, Fields
    <3>3. ~conns[d].owed
      BY <2>2, <2>3 DEF ConnOK
    <3>4. HeldOK(world'.server, conns'[d]) /\ ~AtWork(conns'[d])
      BY <3>2, <3>3 DEF HeldOK, AtWork
    <3> QED
      BY <1>3, <2>1, <2>2, <3>1, <3>4
  <2> QED
    BY <2>4, <2>5, <2>6
<1> QED
  BY <1>4, <1>5

\* A step of one connection.
LEMMA ConnectionHolds ==
  ASSUME FInv, KInv, NEW c \in Connections, NEW k, conns' = [conns EXCEPT ![c] = k],
         UNCHANGED <<scenario, world, mainVars>>,
         HeldOK(world.server, k), CutOffOK(stage, k)
  PROVE KInv'
<1>1. conns'[c] = k /\ \A d \in Connections \ {c} : conns'[d] = conns[d]
  BY DEF FInv
<1>2. scenario' = scenario /\ world' = world /\ stage' = stage
  BY DEF mainVars
<1>3. \A d \in Connections : \/ conns'[d] = conns[d]
                             \/ /\ HeldOK(world.server, conns'[d])
                                /\ CutOffOK(stage', conns'[d])
  BY <1>1, <1>2
<1> QED
  BY <1>2, <1>3, KeepsServer

\* A server that serves is not stopped.
LEMMA ServingIsNotQuiet == KInv /\ IsServing(world.server) => stage \notin Quiet
BY DEF KInv, IsServing

\* An inference finds the backend it will use.
LEMMA HandleInferHolds ==
  ASSUME FInv, KInv, NEW c \in Connections, NEW r, HandleInfer(c, r)
  PROVE KInv'
<1>1. PICK s : s = conns[c]
  OBVIOUS
<1>2. ConnOK(s, calls[c]) /\ s.phase = "idle"
  BY <1>1 DEF FInv, HandleInfer
<1>3. ~s.owed
  BY <1>2 DEF ConnOK
<1>4. UNCHANGED <<scenario, world, mainVars>>
  BY DEF HandleInfer
<1>5. ASSUME NEW made, conns' = [conns EXCEPT ![c].leaked = @ \cup {made}] PROVE KInv'
  <2>1. PICK k : k = [s EXCEPT !.leaked = s.leaked \cup {made}]
    OBVIOUS
  <2>2. conns' = [conns EXCEPT ![c] = k]
    BY <1>1, <1>5, <2>1
  <2>3. k.phase = "idle" /\ ~k.owed
    BY <1>2, <1>3, <2>1 DEF ConnOK, Fields
  <2>4. HeldOK(world.server, k) /\ ~AtWork(k)
    BY <2>3 DEF HeldOK, AtWork
  <2> QED
    BY <1>4, <2>2, <2>4, ConnectionHolds DEF CutOffOK
<1>6. ASSUME UNCHANGED conns PROVE KInv'
  <2>1. \A d \in Connections : conns'[d] = conns[d]
    BY <1>6
  <2>2. scenario' = scenario /\ world' = world /\ stage' = stage
    BY <1>4 DEF mainVars
  <2> QED
    BY <2>1, <2>2, KeepsServer
<1>7. ASSUME NEW backend, BackendLive(world.server, backend), IsServing(world.server),
             conns' = [conns EXCEPT ![c] = [conns[c] EXCEPT !.phase = "translated",
                          !.object = TRUE, !.count = 0, !.backend = backend]]
      PROVE KInv'
  <2>1. PICK k : k = [s EXCEPT !.phase = "translated", !.object = TRUE, !.count = 0,
                               !.backend = backend]
    OBVIOUS
  <2>2. conns' = [conns EXCEPT ![c] = k]
    BY <1>1, <1>7, <2>1
  <2>3. k.phase = "translated" /\ k.backend = backend
    BY <1>2, <2>1 DEF ConnOK, Fields
  <2>4. HeldOK(world.server, k)
    BY <1>7, <2>3 DEF HeldOK
  <2> QED
    BY <1>4, <1>7, <2>2, <2>4, ServingIsNotQuiet, ConnectionHolds DEF CutOffOK
<1>8. PICK outcome : outcome = HttpInferRequest(world, r)
  OBVIOUS
<1>9. outcome.code = "OK" => IsServing(world.server) /\ BackendLive(world.server, outcome.value.backend)
  BY <1>8, TranslatedIsLive DEF KInv
<1> QED
  BY <1>5, <1>6, <1>7, <1>8, <1>9 DEF HandleInfer

\* InferAsync hands an inference to a server that serves, or gives it up.
LEMMA InferAsyncHolds ==
  ASSUME FInv, KInv, NEW c \in Connections, NEW accepted, InferAsync(c, accepted)
  PROVE KInv'
<1>1. PICK s : s = conns[c]
  OBVIOUS
<1>2. ConnOK(s, calls[c]) /\ s.phase = "translated" /\ HeldOK(world.server, s)
  BY <1>1 DEF FInv, InferAsync, KInv, HeldInv
<1>3. UNCHANGED <<scenario, world, mainVars>>
  BY DEF InferAsync
<1>4. ASSUME NEW rest, IsServing(world.server),
             conns' = [conns EXCEPT ![c] = [conns[c] EXCEPT !.phase = "paused",
                                              !.owed = TRUE, !.unreleased = rest]]
      PROVE KInv'
  <2>1. PICK k : k = [s EXCEPT !.phase = "paused", !.owed = TRUE, !.unreleased = rest]
    OBVIOUS
  <2>2. conns' = [conns EXCEPT ![c] = k]
    BY <1>1, <1>4, <2>1
  <2>3. k.phase = "paused" /\ k.owed /\ k.backend = s.backend
    BY <1>2, <2>1 DEF ConnOK, Fields
  <2>4. HeldOK(world.server, k)
    BY <1>2, <2>3 DEF HeldOK
  <2> QED
    BY <1>3, <1>4, <2>2, <2>4, ServingIsNotQuiet, ConnectionHolds DEF CutOffOK
<1>5. ASSUME conns' = [conns EXCEPT ![c] = Freed(conns[c])] PROVE KInv'
  <2>1. PICK k : k = [s EXCEPT !.phase = "idle", !.object = FALSE]
    OBVIOUS
  <2>2. conns' = [conns EXCEPT ![c] = k]
    BY <1>1, <1>5, <2>1 DEF Freed
  <2>3. k.phase = "idle" /\ k.owed = s.owed
    BY <1>2, <2>1 DEF ConnOK, Fields
  <2>4. ~s.owed
    BY <1>2 DEF ConnOK
  <2>5. HeldOK(world.server, k) /\ ~AtWork(k)
    BY <2>3, <2>4 DEF HeldOK, AtWork
  <2> QED
    BY <1>3, <2>2, <2>5, ConnectionHolds DEF CutOffOK
<1> QED
  BY <1>4, <1>5 DEF InferAsync

\* The core responds, releases a request; the reply is sent.
LEMMA CoreHolds ==
  ASSUME FInv, KInv, NEW c \in Connections, Core(c) \/ ReplyCallback(c)
  PROVE KInv'
<1>1. PICK s : s = conns[c]
  OBVIOUS
<1>3. UNCHANGED <<scenario, world, mainVars>>
  BY DEF Core, Respond, Release, ReplyCallback
<1>4. DOMAIN s = Fields /\ HeldOK(world.server, s)
  BY <1>1 DEF FInv, KInv, HeldInv, ConnOK
<1>5. CutOffOK(stage, s)
  BY <1>1 DEF KInv, CleanStop, CutOffOK, AtWork, Quiet
<1>6. ASSUME NEW final \in BOOLEAN, Respond(c, final) PROVE KInv'
  <2>1. s.owed /\ s.phase = "paused"
    BY <1>1, <1>6 DEF FInv, ConnOK, Respond
  <2>2. PICK next : next = (IF final THEN "deferred" ELSE s.phase)
    OBVIOUS
  <2>3. PICK n : n = s.count + 1
    OBVIOUS
  <2>4. PICK due : due = ~final
    OBVIOUS
  <2>5. PICK k : k = [s EXCEPT !.count = n, !.owed = due, !.phase = next]
    OBVIOUS
  <2>6. conns' = [conns EXCEPT ![c] = k]
    BY <1>1, <1>6, <2>2, <2>3, <2>4, <2>5 DEF Respond, InferResponseComplete
  <2>7. k.phase = next /\ k.owed = due /\ k.backend = s.backend
    BY <1>4, <2>5 DEF Fields
  <2>8. HeldOK(world.server, k)
    BY <1>4, <2>1, <2>2, <2>4, <2>7 DEF HeldOK
  <2>9. CutOffOK(stage, k)
    BY <1>5, <2>1, <2>7 DEF CutOffOK, AtWork
  <2> QED
    BY <1>3, <2>6, <2>8, <2>9, ConnectionHolds
<1>7. ASSUME Release(c) PROVE KInv'
  <2>1. PICK u \in conns[c].unreleased : conns' = [conns EXCEPT ![c].unreleased = @ \ {u}]
    BY <1>7 DEF Release
  <2>2. PICK k : k = [s EXCEPT !.unreleased = s.unreleased \ {u}]
    OBVIOUS
  <2>3. conns' = [conns EXCEPT ![c] = k]
    BY <1>1, <2>1, <2>2
  <2>4. k.phase = s.phase /\ k.owed = s.owed /\ k.backend = s.backend
    BY <1>4, <2>2 DEF Fields
  <2>5. HeldOK(world.server, k)
    BY <1>4, <2>4 DEF HeldOK
  <2>6. CutOffOK(stage, k)
    BY <1>5, <2>4 DEF CutOffOK, AtWork
  <2> QED
    BY <1>3, <2>3, <2>5, <2>6, ConnectionHolds
<1>8. ASSUME ReplyCallback(c) PROVE KInv'
  <2>1. PICK k : k = [s EXCEPT !.phase = "idle", !.object = FALSE]
    OBVIOUS
  <2>2. conns' = [conns EXCEPT ![c] = k]
    BY <1>1, <1>8, <2>1 DEF ReplyCallback, Freed
  <2>3. k.phase = "idle" /\ k.owed = s.owed
    BY <1>4, <2>1 DEF Fields
  <2>4. ~s.owed
    BY <1>1, <1>8 DEF FInv, ConnOK, ReplyCallback
  <2>5. HeldOK(world.server, k) /\ ~AtWork(k)
    BY <2>3, <2>4 DEF HeldOK, AtWork
  <2> QED
    BY <1>3, <2>2, <2>5, ConnectionHolds DEF CutOffOK
<1> QED
  BY <1>6, <1>7, <1>8 DEF Core

\* The server record with one version of one model in another state.
LEMMA OneVersion ==
  ASSUME NEW s, ServerOK(s), NEW m \in DOMAIN s.models, NEW v \in DOMAIN s.models[m],
         NEW state, NEW t, t = [s EXCEPT !.models[m][v] = state]
  PROVE /\ DOMAIN t = ServerFields /\ t.explicit = s.explicit /\ t.ready_state = s.ready_state
        /\ DOMAIN t.models = DOMAIN s.models
        /\ \A n \in DOMAIN s.models :
             /\ DOMAIN t.models[n] = DOMAIN s.models[n]
             /\ \A x \in DOMAIN s.models[n] :
                  t.models[n][x] = IF n = m /\ x = v THEN state ELSE s.models[n][x]
<1>1. PICK f : f = s.models[m]
  OBVIOUS
<1>2. PICK g : g = [f EXCEPT ![v] = state]
  OBVIOUS
<1>3. PICK F : F = s.models
  OBVIOUS
<1>4. PICK G : G = [F EXCEPT ![m] = g]
  OBVIOUS
<1>5. t = [s EXCEPT !.models = G]
  BY <1>1, <1>2, <1>3, <1>4
<1>6. DOMAIN s = ServerFields
  BY DEF ServerOK
<1>7. /\ DOMAIN t = ServerFields /\ t.models = G /\ t.explicit = s.explicit
      /\ t.ready_state = s.ready_state
  BY ONLY <1>5, <1>6 DEF ServerFields
<1>8. m \in DOMAIN F /\ f = F[m] /\ v \in DOMAIN f
  BY <1>1, <1>3
<1>9. /\ DOMAIN G = DOMAIN F /\ G[m] = g /\ \A n \in DOMAIN F : n # m => G[n] = F[n]
      /\ DOMAIN g = DOMAIN f /\ g[v] = state /\ \A x \in DOMAIN f : x # v => g[x] = f[x]
  BY ONLY <1>2, <1>4, <1>8
<1>10. \A n \in DOMAIN F : /\ DOMAIN G[n] = DOMAIN F[n]
                           /\ \A x \in DOMAIN F[n] :
                                G[n][x] = IF n = m /\ x = v THEN state ELSE F[n][x]
  BY ONLY <1>8, <1>9
<1> QED
  BY ONLY <1>3, <1>7, <1>9, <1>10

\* The server after SetServer.
LEMMA ServerSet ==
  ASSUME NEW w, DOMAIN w = WorldFields, NEW t
  PROVE LET x == [w EXCEPT !.server = t] IN DOMAIN x = WorldFields /\ x.server = t
BY DEF WorldFields

\* A load ends: nobody refers to a backend that is being loaded.
LEMMA LoadEndsHolds ==
  ASSUME KInv, NEW m \in DOMAIN world.server.models, NEW v \in DOMAIN world.server.models[m],
         LoadEnds(m, v)
  PROVE KInv'
<1>1. PICK s : s = world.server
  OBVIOUS
<1>2. PICK state : state = CASE <<m, v>> \in Broken -> FAILED
                             [] <<m, v>> \notin Broken /\ ~IsServing(s) -> UNLOADING
                             [] OTHER -> READY
  OBVIOUS
<1>3. PICK t : t = [s EXCEPT !.models[m][v] = state]
  OBVIOUS
<1>4. world' = [world EXCEPT !.server = t]
  BY <1>1, <1>2, <1>3 DEF LoadEnds, SetVersion, SetServer
<1>5. DOMAIN world = WorldFields /\ ServerOK(s)
  BY <1>1 DEF KInv, WorldOK
<1>6. DOMAIN world' = WorldFields /\ world'.server = t
  BY <1>4, <1>5, ServerSet
<1>7. s.models[m][v] = LOADING /\ m \in DOMAIN s.models /\ v \in DOMAIN s.models[m]
  BY <1>1 DEF LoadEnds
<1>8. /\ DOMAIN t = ServerFields /\ t.explicit = s.explicit /\ t.ready_state = s.ready_state
      /\ DOMAIN t.models = DOMAIN s.models
      /\ \A n \in DOMAIN s.models :
           /\ DOMAIN t.models[n] = DOMAIN s.models[n]
           /\ \A x \in DOMAIN s.models[n] :
                t.models[n][x] = IF n = m /\ x = v THEN state ELSE s.models[n][x]
  BY ONLY <1>3, <1>5, <1>7, OneVersion
<1>9. LOADING \in Live /\ LOADING \notin Attached
  BY DEF Live, Attached, LOADING, READY, UNLOADING
<1>10. \A n \in DOMAIN s.models : VersionsOK(s.explicit, n, s.models[n])
  BY <1>5 DEF ServerOK
<1>11. \A n \in DOMAIN s.models : VersionsOK(s.explicit, n, t.models[n])
  BY ONLY <1>7, <1>8, <1>9, <1>10 DEF VersionsOK
<1>12. \A n \in DOMAIN s.models : Keeps(s.models[n], t.models[n])
  BY ONLY <1>7, <1>8, <1>9 DEF Keeps
<1>13. Follows(s, t)
  BY ONLY <1>8, <1>11, <1>12 DEF Follows, ServerOK
<1>14. scenario' = scenario /\ stage' = stage /\ conns' = conns
  BY DEF LoadEnds, mainVars
<1>15. stage' = "stopping" \/ stage' \in Quiet => world'.server.ready_state = "exiting"
  BY <1>1, <1>6, <1>8, <1>14 DEF KInv
<1> QED
  BY <1>1, <1>6, <1>13, <1>14, <1>15, KeepsHeld

\* A backend is destroyed when no inference refers to it.
LEMMA UnloadedHolds ==
  ASSUME KInv, NEW m \in DOMAIN world.server.models, NEW v \in DOMAIN world.server.models[m],
         Unloaded(m, v)
  PROVE KInv'
<1>1. PICK s : s = world.server
  OBVIOUS
<1>3. PICK t : t = [s EXCEPT !.models[m][v] = UNLOADED]
  OBVIOUS
<1>4. world' = [world EXCEPT !.server = t]
  BY <1>1, <1>3 DEF Unloaded, SetVersion, SetServer
<1>5. DOMAIN world = WorldFields /\ ServerOK(s)
  BY <1>1 DEF KInv, WorldOK
<1>6. DOMAIN world' = WorldFields /\ world'.server = t
  BY <1>4, <1>5, ServerSet
<1>7. m \in DOMAIN s.models /\ v \in DOMAIN s.models[m]
  BY <1>1
<1>8. /\ DOMAIN t = ServerFields /\ t.explicit = s.explicit /\ t.ready_state = s.ready_state
      /\ DOMAIN t.models = DOMAIN s.models
      /\ \A n \in DOMAIN s.models :
           /\ DOMAIN t.models[n] = DOMAIN s.models[n]
           /\ \A x \in DOMAIN s.models[n] :
                t.models[n][x] = IF n = m /\ x = v THEN UNLOADED ELSE s.models[n][x]
  BY ONLY <1>3, <1>5, <1>7, OneVersion
<1>9. UNLOADED \notin Live
  BY DEF Live, LOADING, READY, UNLOADING, UNLOADED
<1>10. \A n \in DOMAIN s.models : VersionsOK(s.explicit, n, s.models[n])
  BY <1>5 DEF ServerOK
<1>11. \A n \in DOMAIN s.models : VersionsOK(s.explicit, n, t.models[n])
  BY ONLY <1>7, <1>8, <1>9, <1>10 DEF VersionsOK
<1>12. ServerOK(t)
  BY ONLY <1>8, <1>11 DEF ServerOK
<1>13. ASSUME NEW b, b # [model |-> m, version |-> v], BackendLive(s, b) PROVE BackendLive(t, b)
  <2>1. PICK n \in DOMAIN s.models : \E x \in DOMAIN s.models[n] :
          b = [model |-> n, version |-> x] /\ s.models[n][x] \in Attached
    BY <1>13 DEF BackendLive
  <2>2. PICK x \in DOMAIN s.models[n] :
          b = [model |-> n, version |-> x] /\ s.models[n][x] \in Attached
    BY <2>1
  <2>3. ~(n = m /\ x = v)
    BY <1>13, <2>2
  <2> QED
    BY <1>8, <2>1, <2>2, <2>3 DEF BackendLive
<1>14. \A c \in Connections : HeldOK(s, conns[c])
  BY <1>1 DEF KInv, HeldInv
<1>15. ASSUME NEW c \in Connections PROVE HeldOK(t, conns[c])
  <2>1. [model |-> m, version |-> v] \notin Holds(conns[c])
    BY DEF Unloaded, InUse
  <2>2. conns[c].phase = "translated" \/ conns[c].owed =>
            conns[c].backend # [model |-> m, version |-> v]
    BY <2>1 DEF Holds
  <2> QED
    BY <1>13, <1>14, <2>2 DEF HeldOK, IsReplaced
<1>16. scenario' = scenario /\ stage' = stage /\ conns' = conns
  BY DEF Unloaded, mainVars
<1>17. WorldOK(world)'
  BY <1>6, <1>12 DEF WorldOK
<1>18. world'.server.explicit = scenario'.explicit
  BY <1>1, <1>6, <1>8, <1>16 DEF KInv
<1>19. stage' = "stopping" \/ stage' \in Quiet => world'.server.ready_state = "exiting"
  BY <1>1, <1>6, <1>8, <1>16 DEF KInv
<1>20. \A c \in Connections : HeldOK(world'.server, conns'[c])
  BY <1>6, <1>15, <1>16
<1>21. HeldInv'
  BY <1>20 DEF HeldInv, HeldOK, BackendLive, IsReplaced
<1>22. CleanStop'
  BY <1>16 DEF KInv, CleanStop, IsReplaced
<1> QED
  BY <1>17, <1>18, <1>19, <1>21, <1>22 DEF KInv

\* A step of the main thread that ends in another stage only.
LEMMA StageHolds ==
  ASSUME KInv, UNCHANGED <<scenario, world, conns>>,
         stage' = stage \/ (stage' # "stopping" /\ stage' \notin Quiet)
           \/ (stage \in Quiet /\ stage' \in Quiet)
  PROVE KInv'
<1>1. \A c \in Connections : conns'[c] = conns[c]
  OBVIOUS
<1> QED
  BY <1>1, KeepsServer

\* The server is created.
LEMMA CreateHolds ==
  ASSUME KInv, NEW created, Create(created)
  PROVE KInv'
<1>1. PICK s : s = world.server
  OBVIOUS
<1>2. PICK state : state = IF created THEN "ready" ELSE s.ready_state
  OBVIOUS
<1>3. PICK t : t = [s EXCEPT !.ready_state = state]
  OBVIOUS
<1>4. world' = [world EXCEPT !.server = t]
  BY <1>1, <1>2, <1>3 DEF Create, SetServer
<1>5. DOMAIN world = WorldFields /\ ServerOK(s)
  BY <1>1 DEF KInv, WorldOK
<1>6. DOMAIN world' = WorldFields /\ world'.server = t
  BY <1>4, <1>5, ServerSet
<1>7. DOMAIN t = ServerFields /\ t.models = s.models /\ t.explicit = s.explicit
  BY <1>3, <1>5 DEF ServerOK, ServerFields
<1>8. Follows(s, t)
  BY <1>5, <1>7, KeepsOn DEF Follows, ServerOK
<1>9. scenario' = scenario /\ conns' = conns /\ stage' \in {"start", "failed"}
  BY DEF Create, CreateServer
<1> QED
  BY <1>1, <1>6, <1>8, <1>9, KeepsHeld DEF Quiet

\* The server is told to stop: all its models are unloaded.
LEMMA StopHolds ==
  ASSUME KInv, Stop
  PROVE KInv'
<1>1. PICK s : s = world.server
  OBVIOUS
<1>2. PICK G : G = [m \in DOMAIN s.models |-> Unloading(s.models[m])]
  OBVIOUS
<1>3. PICK t : t = [s EXCEPT !.ready_state = "exiting", !.models = G]
  OBVIOUS
<1>4. world' = [world EXCEPT !.server = t]
  BY <1>1, <1>2, <1>3 DEF Stop, SetServer
<1>5. DOMAIN world = WorldFields /\ ServerOK(s)
  BY <1>1 DEF KInv, WorldOK
<1>6. DOMAIN world' = WorldFields /\ world'.server = t
  BY <1>4, <1>5, ServerSet
<1>7. /\ DOMAIN t = ServerFields /\ t.models = G /\ t.explicit = s.explicit
      /\ t.ready_state = "exiting"
  BY <1>3, <1>5 DEF ServerOK, ServerFields
<1>8. G = [m \in DOMAIN s.models |->
             IF m \in DOMAIN s.models THEN Unloading(s.models[m]) ELSE s.models[m]]
  BY <1>2
<1>9. Follows(s, t)
  BY <1>5, <1>7, <1>8, UnloadsFollow
<1>10. scenario' = scenario /\ conns' = conns /\ stage' = "stopping"
  BY DEF Stop, BeginStop
<1> QED
  BY <1>1, <1>6, <1>7, <1>9, <1>10, KeepsHeld DEF Quiet

\* A reload: whoever uses a backend that is replaced goes on with it.
LEMMA ReloadHolds ==
  ASSUME FInv, KInv, NEW m, Reload(m), scenario' = scenario,
         stage' \notin Quiet, stage' # "stopping"
  PROVE KInv'
<1>1. PICK old : old = ReadyBackends(m)
  OBVIOUS
<1>2. conns' = [c \in Connections |-> Outlives(conns[c], old)] /\ world' = world
  BY <1>1 DEF Reload
<1>3. ASSUME NEW c \in Connections PROVE HeldOK(world.server, conns'[c])
  <2>1. PICK k : k = conns[c]
    OBVIOUS
  <2>2. DOMAIN k = Fields /\ HeldOK(world.server, k)
    BY <2>1 DEF FInv, ConnOK, KInv, HeldInv
  <2>3. PICK x : x = Outlives(k, old)
    OBVIOUS
  <2>4. /\ x.phase = k.phase /\ x.owed = k.owed
        /\ x.backend = IF k.backend \in old THEN Replaced(k.backend) ELSE k.backend
    BY <2>2, <2>3, OutlivesFields
  <2>5. IsReplaced(Replaced(k.backend))
    BY DEF IsReplaced, Replaced
  <2>6. HeldOK(world.server, x)
    BY <2>2, <2>4, <2>5 DEF HeldOK
  <2>7. conns'[c] = x
    BY <1>2, <2>1, <2>3
  <2> QED
    BY <2>6, <2>7
<1> QED
  BY <1>2, <1>3, KeepsServer DEF CutOffOK

\* A load by request of a model that has changed.
LEMMA LoadModifiedHolds ==
  ASSUME FInv, KInv, NEW m, LoadModified(m)
  PROVE KInv'
<1>1. /\ Reload(m) /\ scenario' = scenario /\ stage' = stage
      /\ IsServing(world.server)
  BY DEF LoadModified, mainVars
<1>2. stage \notin Quiet /\ stage # "stopping"
  BY <1>1 DEF KInv, IsServing
<1> QED
  BY <1>1, <1>2, ReloadHolds

\* A poll unloads a model whose directory has gone, loads one again that has
\* no backend left, or loads one again that has changed.
LEMMA PollHolds ==
  ASSUME FInv, ScenarioInv, StartInv, KInv, Poll
  PROVE KInv'
<1>1. PICK s : s = world.server
  OBVIOUS
<1>2. scenario' = scenario /\ stage = "poll" /\ stage' = "lock"
  BY DEF Poll, PollModelRepository
<1>3. ~s.explicit
  <2>1. options.poll
    BY <1>2 DEF StartInv
  <2>2. ~scenario.explicit
    BY <2>1, FrontEndsAssumption DEF ScenarioInv
  <2> QED
    BY <1>1, <2>2 DEF KInv
<1>4. DOMAIN world = WorldFields /\ ServerOK(s)
  BY <1>1 DEF KInv, WorldOK
<1>5. ASSUME NEW m \in DOMAIN s.models, NEW g, DOMAIN g = DOMAIN s.models[m],
             Keeps(s.models[m], g), SetServer([s EXCEPT !.models[m] = g]), UNCHANGED conns
      PROVE KInv'
  <2>1. PICK F : F = s.models
    OBVIOUS
  <2>2. PICK G : G = [F EXCEPT ![m] = g]
    OBVIOUS
  <2>3. PICK t : t = [s EXCEPT !.models = G]
    OBVIOUS
  <2>4. world' = [world EXCEPT !.server = t]
    BY <1>5, <2>1, <2>2, <2>3 DEF SetServer
  <2>5. DOMAIN world' = WorldFields /\ world'.server = t
    BY <1>4, <2>4, ServerSet
  <2>6. DOMAIN t = ServerFields /\ t.models = G /\ t.explicit = s.explicit
    BY <1>4, <2>3 DEF ServerOK, ServerFields
  <2>7. DOMAIN G = DOMAIN F /\ G[m] = g /\ \A n \in DOMAIN F : n # m => G[n] = F[n]
    BY <2>1, <2>2
  <2>8. \A n \in DOMAIN F : VersionsOK(s.explicit, n, F[n])
    BY <1>4, <2>1 DEF ServerOK
  <2>9. VersionsOK(s.explicit, m, g)
    BY <1>3, <1>5, <2>1, <2>8 DEF VersionsOK
  <2>10. \A n \in DOMAIN F : VersionsOK(s.explicit, n, G[n]) /\ Keeps(F[n], G[n])
    BY <1>5, <2>1, <2>7, <2>8, <2>9, KeepsOn
  <2>11. Follows(s, t)
    BY ONLY <2>1, <2>6, <2>7, <2>10 DEF Follows, ServerOK
  <2> QED
    BY <1>1, <1>2, <1>5, <2>5, <2>11, KeepsHeld DEF Quiet
<1>6. ASSUME NEW m \in DOMAIN s.models,
             SetServer([s EXCEPT !.models[m] = Unloading(s.models[m])]), UNCHANGED conns
      PROVE KInv'
  <2>1. VersionsOK(s.explicit, m, s.models[m])
    BY <1>4, <1>6 DEF ServerOK
  <2>2. Keeps(s.models[m], Unloading(s.models[m]))
    BY <2>1, UnloadingKeeps
  <2>3. DOMAIN Unloading(s.models[m]) = DOMAIN s.models[m]
    BY DEF Unloading
  <2> QED
    BY <1>5, <1>6, <2>2, <2>3
<1>7. ASSUME NEW m \in DOMAIN s.models, Range(s.models[m]) = {UNLOADED},
             SetServer([s EXCEPT !.models[m] = [v \in DOMAIN s.models[m] |-> LOADING]]),
             UNCHANGED conns
      PROVE KInv'
  <2>1. \A v \in DOMAIN s.models[m] : s.models[m][v] = UNLOADED
    BY <1>7 DEF Range
  <2>2. UNLOADED \notin Attached
    BY DEF Attached, UNLOADED, READY, UNLOADING
  <2>3. PICK g : g = [v \in DOMAIN s.models[m] |-> LOADING]
    OBVIOUS
  <2>4. DOMAIN g = DOMAIN s.models[m] /\ Keeps(s.models[m], g)
    BY <2>1, <2>2, <2>3 DEF Keeps
  <2> QED
    BY <1>5, <1>7, <2>3, <2>4
<1>8. CASE UNCHANGED <<world, conns>>
  BY <1>2, <1>8, StageHolds DEF Quiet
<1>9. ASSUME NEW m, Reload(m) PROVE KInv'
  BY <1>2, <1>9, ReloadHolds DEF Quiet
<1> QED
  BY <1>1, <1>6, <1>7, <1>8, <1>9 DEF Poll

\* The server has stopped when nothing is live: then no inference is left but
\* on backends that were replaced.
LEMMA StoppedHolds ==
  ASSUME KInv, Stopped
  PROVE KInv'
<1>1. UNCHANGED <<scenario, world, conns>> /\ stage = "stopping"
  BY DEF Stopped, EndStop
<1>2. CASE ~NothingLive(world.server)
  <2>1. stage' = "failed"
    BY <1>2 DEF Stopped, EndStop
  <2> QED
    BY <1>1, <2>1, StageHolds DEF Quiet
<1>3. CASE NothingLive(world.server)
  <2>1. PICK s : s = world.server
    OBVIOUS
  <2>2. \A m \in DOMAIN s.models : \A v \in DOMAIN s.models[m] : s.models[m][v] \notin Attached
    BY <1>3, <2>1 DEF NothingLive, Range, Attached
  <2>3. \A b : ~BackendLive(s, b)
    BY <2>2 DEF BackendLive
  <2>4. \A c \in Connections : HeldOK(s, conns[c])
    BY <2>1 DEF KInv, HeldInv
  <2>5. \A c \in Connections : AtWork(conns[c]) => IsReplaced(conns[c].backend)
    BY <2>3, <2>4 DEF HeldOK, AtWork
  <2>6. CleanStop'
    BY <1>1, <2>5 DEF CleanStop, AtWork, IsReplaced
  <2>7. WorldOK(world)'
    BY <1>1 DEF KInv, WorldOK
  <2>8. HeldInv'
    BY <1>1 DEF KInv, HeldInv
  <2> QED
    BY <1>1, <2>6, <2>7, <2>8 DEF KInv
<1> QED
  BY <1>2, <1>3

\* Every step preserves the invariant.
LEMMA NextHolds == FInv /\ ScenarioInv /\ StartInv /\ KInv /\ [Next]_vars => KInv'
<1> SUFFICES ASSUME FInv, ScenarioInv, StartInv, KInv, [Next]_vars PROVE KInv'
  OBVIOUS
<1>1. CASE MainThread
  <2>1. ASSUME UNCHANGED <<scenario, world, conns, calls>>,
               Parse \/ StartService \/ Started \/ CheckExiting \/ WaitFor \/ Timeout \/ Exit
        PROVE KInv'
    <3>1. stage' = stage \/ (stage' # "stopping" /\ stage' \notin Quiet)
             \/ (stage \in Quiet /\ stage' \in Quiet)
      BY <2>1 DEF Parse, StartService, Started, CheckExiting, WaitFor, Timeout, Exit, Quiet
    <3> QED
      BY <2>1, <3>1, StageHolds
  <2>2. ASSUME StopEndpoints PROVE KInv'
    BY <2>2, StageHolds DEF StopEndpoints, StopService
  <2> QED
    BY <1>1, <2>1, <2>2, CreateHolds, PollHolds, StopHolds, StoppedHolds DEF MainThread
<1>2. CASE SignalHandler
  <2>1. stage' = stage \/ stage' = "check"
    BY <1>2 DEF SignalHandler, SignalArrives, NotifyAll
  <2> QED
    BY <1>2, <2>1, StageHolds DEF SignalHandler, Quiet
<1>3. CASE \/ \E c \in Connections, r \in scenario.unary : HttpUnary(c, r)
           \/ \E r \in scenario.unary : GrpcUnary(r)
  BY <1>3, UnaryHolds
<1>4. CASE \E c \in Connections, r \in scenario.infer : HandleInfer(c, r)
  BY <1>4, HandleInferHolds
<1>5. CASE \E c \in Connections, accepted \in BOOLEAN : InferAsync(c, accepted)
  BY <1>5, InferAsyncHolds
<1>6. CASE \E c \in Connections : Core(c) \/ ReplyCallback(c)
  BY <1>6, CoreHolds
<1>7. CASE \E mv \in Versions : Unloaded(mv[1], mv[2]) \/ LoadEnds(mv[1], mv[2])
  <2>1. PICK mv \in Versions : Unloaded(mv[1], mv[2]) \/ LoadEnds(mv[1], mv[2])
    BY <1>7
  <2>2. mv[1] \in DOMAIN world.server.models /\ mv[2] \in DOMAIN world.server.models[mv[1]]
    BY <2>1 DEF Versions
  <2> QED
    BY <2>1, <2>2, UnloadedHolds, LoadEndsHolds
<1>8. CASE \E m \in DOMAIN world.server.models : LoadModified(m)
  BY <1>8, LoadModifiedHolds
<1>9. CASE UNCHANGED vars
  BY <1>9, StageHolds DEF vars, mainVars
<1> QED
  BY <1>1, <1>2, <1>3, <1>4, <1>5, <1>6, <1>7, <1>8, <1>9 DEF Next

\* From the start of the process to its end: every service that the command
\* line asked for listens in the main loop, since ports that collide are
\* refused, and when the server has stopped within its timeout no inference
\* is with a handler or with a model, since each keeps its backend, whatever is
\* loaded, unloaded and polled meanwhile; but for those whose backend was
\* replaced by a reload.
THEOREM ProcessIsOrderly == Spec => []OrderlyProcess
<1>1. StartInv /\ KInv => OrderlyProcess
  BY DEF StartInv, KInv, OrderlyProcess
<1>2. Init => FInv /\ ScenarioInv /\ StartInv /\ KInv
  BY InitAnswered, InitKeeps
<1>3. FInv /\ ScenarioInv /\ StartInv /\ KInv /\ [Next]_vars
        => FInv' /\ ScenarioInv' /\ StartInv' /\ KInv'
  BY NextAnswers, NextScenario, NextStart, NextHolds
<1> QED
  BY <1>1, <1>2, <1>3, PTL DEF Spec
==============================================================================
