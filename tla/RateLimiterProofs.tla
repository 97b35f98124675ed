------------------------- MODULE RateLimiterProofs -------------------------
(***************************************************************************)
(* Proofs about the rate limiter: its accounts of the resources are exact  *)
(* and its limits kept (ResourcesKept), and no request is lost, overlooked *)
(* or left behind (RequestsAccounted).                                     *)
(*                                                                         *)
(* RInv is the inductive invariant.  It says who holds which lock and what *)
(* that lock protects (LocksInv), how an instance's state, the sets it is  *)
(* in and the removal of its model go together (StatesInv), that a request *)
(* is in one place (SeatsInv), that for every waiting request there is a   *)
(* thread that will see it (SeenInv), and, without additions and removals, *)
(* that a staged instance has a thread that will try it and that the       *)
(* counters are the sums of the needs modulo Word (SettledInv).  The sums  *)
(* are over sets that a step changes by one element: what the recursive    *)
(* definition computes for such a set is proved first.                     *)
(***************************************************************************)
EXTENDS RateLimiter, FiniteSetTheorems, NaturalsInduction, WellFoundedInduction, TLAPS

CallerPCs == {"new", "refused", "stage", "loop", "onstage", "staged", "accepted"}
ExecutorPCs == {"idle", "running", "resources", "pending", "stage", "loop", "onstage",
                "attempt", "check", "decide", "done", "dangling"}
ManagerPCs == {"idle", "limits", "check", "decide", "wait", "erase"}

Came(r) == pc[Caller(r)] \notin {"new", "refused"}  \* request r was taken
Called(r) == pc[Executor(r)] # "idle"               \* its callback was called
Running(r) == pc[Executor(r)] = "running"
InLoop(p) == pc[p] \in {"loop", "onstage"}

\* Where the threads are, and the instance that an executor was given.
ThreadsInv ==
  /\ \A r \in Requests :
       /\ pc[Caller(r)] \in CallerPCs /\ pc[Executor(r)] \in ExecutorPCs
       /\ pc[Caller(r)] # "new" => r \in Asking
       /\ Called(r) => r \in Asking /\ on[r] \in Instances /\ ModelOf(on[r]) = Wants[r].model
  /\ pc[Manager] \in ManagerPCs

\* A staging loop has the queues of its model, and what it put aside has no
\* request.
LoopOf(p) ==
  InLoop(p) =>
    /\ qMtx[ModelOfActor(p)] = p
    /\ \A i \in backup[p] : ModelOf(i) = ModelOfActor(p) /\ ~Pending(i)

\* The instance of a removal check is available, and stays so.
CheckOf(p) ==
  At(p, "decide") =>
    /\ sMtx[Instance(p)] = p /\ state[Instance(p)] = "AVAILABLE"
    /\ removing[ModelOf(Instance(p))]
LocksInv == \A p \in Actors : LoopOf(p) /\ CheckOf(p)

----------------------------------------------------------------------------
InstanceSound(i) ==
  /\ i \in avbl => state[i] \in {"AVAILABLE", "REMOVED"} /\ ctx[ModelOf(i)] = "present"
  /\ i \in staged <=> state[i] = "STAGED"
  /\ state[i] = "STAGED" =>
       ~IgnoreResources /\ sched[i] \in Asking /\ Wants[sched[i]].model = ModelOf(i)
  /\ state[i] = "REMOVED" => removing[ModelOf(i)] /\ ~Pending(i)

Untried(m) ==
  /\ generic[m] = << >> /\ ~removing[m]
  /\ \A i \in Own(m) : state[i] = "AVAILABLE" /\ specific[i] = << >>
ModelSound(m) ==
  /\ ctx[m] = "none" => Untried(m)
  /\ ctx[m] = "removed" => \A i \in Own(m) : state[i] = "REMOVED"

RemovalInv ==
  pc[Manager] \in {"check", "decide", "wait", "erase"} =>
    /\ removing[target.model] /\ ctx[target.model] = "present"
    /\ target.index \in 1..Len(InstancesOf[target.model])
    /\ \A k \in 1..Len(InstancesOf[target.model]) :
         k < target.index \/ At(Manager, "erase") =>
           state[InstancesOf[target.model][k]] = "REMOVED"

\* An executing request has its instance for itself.
RunningInv ==
  \A r \in Requests : Running(r) =>
    /\ state[on[r]] = "ALLOCATED"
    /\ \A q \in Requests : Running(q) /\ on[q] = on[r] => q = r

StatesInv ==
  /\ \A i \in Instances : InstanceSound(i)
  /\ \A m \in Models : ModelSound(m)
  /\ RemovalInv /\ RunningInv

----------------------------------------------------------------------------
\* The queues: one for each model, and one for each instance.
Keys == {<<"generic", m>> : m \in Models} \cup {<<"specific", i>> : i \in Instances}
Queue(w) == IF w[1] = "generic" THEN generic[w[2]] ELSE specific[w[2]]
ModelOfKey(w) == IF w[1] = "generic" THEN w[2] ELSE ModelOf(w[2])

Holds(q, r) == \E k \in 1..Len(q) : q[k] = r
Distinct(q) == \A k, l \in 1..Len(q) : q[k] = q[l] => k = l

Waits(r) == \E w \in Keys : Holds(Queue(w), r)
Assigned(r, i) == state[i] = "STAGED" /\ sched[i] = r
IsAssigned(r) == \E i \in Instances : Assigned(r, i)

\* A request that was taken is in one place: a queue, a staged instance, or an
\* executor.
OneSeat(r) ==
  /\ \A v, w \in Keys : Holds(Queue(v), r) /\ Holds(Queue(w), r) => v = w
  /\ \A i, j \in Instances : Assigned(r, i) /\ Assigned(r, j) => i = j
  /\ Waits(r) => Came(r) /\ ~Called(r) /\ ~IsAssigned(r)
  /\ IsAssigned(r) => Came(r) /\ ~Called(r)
  /\ Called(r) => Came(r)
Seated(r) ==
  Came(r) /\ Wants[r].index < Len(InstancesOf[Wants[r].model]) =>
    Waits(r) \/ IsAssigned(r) \/ Called(r)

QueueSound(w) ==
  /\ Distinct(Queue(w))
  /\ \A r \in Requests : Holds(Queue(w), r) =>
       r \in Asking /\ Wants[r].model = ModelOfKey(w)

SeatsInv ==
  /\ \A w \in Keys : QueueSound(w)
  /\ \A r \in Requests : OneSeat(r) /\ Seated(r)

----------------------------------------------------------------------------
\* Thread p is about to look for requests for instance i.
Seeks(p, i) ==
  /\ p # Manager
  /\ \/ pc[p] \in {"stage", "loop", "onstage"} /\ ModelOfActor(p) = ModelOf(i)
     \/ pc[p] \in {"resources", "pending"} /\ Instance(p) = i
SeenInv ==
  \A i \in avbl : state[i] = "AVAILABLE" /\ Pending(i) => \E p \in Actors : Seeks(p, i)

----------------------------------------------------------------------------
\* Thread p is about to allocate a staged instance.
Tries(p) ==
  \/ pc[p] = "onstage"
  \/ \E r \in Requests :
       p = Executor(r) /\ pc[p] \in {"resources", "pending", "stage", "loop", "attempt"}

SettledInv ==
  Settled =>
    /\ \A m \in Models : ctx[m] = "present" /\ ~removing[m]
    /\ pc[Manager] = "idle" /\ registered = Instances /\ limit = Limits(Instances)
    /\ staged # {} /\ Allocated = {} => \E p \in Actors : Tries(p)
    /\ ~IgnoreResources =>
         \A x \in Resources : allocated[x] = (InUse(x) + InReturn(x)) % Word

RInv ==
  RLTypeOK /\ ThreadsInv /\ LocksInv /\ StatesInv /\ SeatsInv /\ SeenInv /\ SettledInv

----------------------------------------------------------------------------
(***************************************************************************)
(* Sums.                                                                   *)
(***************************************************************************)
\* Induction over the naturals, for a set.
LEMMA NatSet ==
  ASSUME NEW T, T \subseteq Nat, 0 \in T, \A n \in T : n + 1 \in T
  PROVE  \A n \in Nat : n \in T
<1> DEFINE F == Nat \ T
<1>1. SUFFICES ASSUME F # {} PROVE FALSE
  OBVIOUS
<1>2. PICK m \in F : \A y \in F : ~(<<y, m>> \in OpToRel(<, Nat))
  BY <1>1, NatLessThanWellFounded, WFMin, F \subseteq Nat
<1>3. \A y \in F : ~(y < m)
  BY <1>2 DEF OpToRel
<1>4. m # 0 /\ m \in Nat
  OBVIOUS
<1>5. m - 1 \in Nat /\ m - 1 < m
  BY <1>4
<1>6. m - 1 \in T
  BY <1>3, <1>5
<1>7. (m - 1) + 1 \in T
  BY <1>6
<1> QED BY <1>4, <1>7

\* The recursion.
Recurs(iter, f, S) ==
  iter = [s \in SUBSET S |-> IF s = {} THEN 0
            ELSE f[CHOOSE x \in s : TRUE] + iter[s \ {CHOOSE x \in s : TRUE}]]

\* A sum is what the recursion gives for the whole domain.
LEMMA Unfolds ==
  ASSUME NEW f, NEW S, S = DOMAIN f
  PROVE Total(f) = (CHOOSE iter : Recurs(iter, f, S))[S]
BY DEF Total, MapThenSumSet, MapThenFoldSet, Recurs

\* T gives the sum of f over every subset of S.
IsTotal(T, f, S) ==
  /\ T \in [SUBSET S -> Nat] /\ T[{}] = 0
  /\ \A A \in SUBSET S : \A x \in S : x \notin A => T[A \cup {x}] = f[x] + T[A]

\* Induction over the subsets of a finite set.
LEMMA SubsetInduction ==
  ASSUME NEW S, IsFiniteSet(S), NEW P, {} \in P,
         \A A \in SUBSET S : A \in P => \A x \in S : x \notin A => A \cup {x} \in P
  PROVE \A A \in SUBSET S : A \in P
<1> DEFINE T == {n \in Nat : \A A \in SUBSET S : Cardinality(A) = n => A \in P}
<1>1. \A A \in SUBSET S : IsFiniteSet(A) /\ Cardinality(A) \in Nat
  BY FS_Subset, FS_CardinalityType
<1>2. T \subseteq Nat /\ 0 \in T
  BY <1>1, FS_EmptySet
<1>3. ASSUME NEW n \in T PROVE n + 1 \in T
  <2>1. ASSUME NEW A \in SUBSET S, Cardinality(A) = n + 1 PROVE A \in P
    <3>1. A # {}
      BY <2>1, FS_EmptySet
    <3>2. PICK x \in A : TRUE
      BY <3>1
    <3>3. PICK B : B = A \ {x}
      OBVIOUS
    <3>4. Cardinality(B) = n
      BY <1>1, <2>1, <3>2, <3>3, FS_RemoveElement
    <3>5. B \in SUBSET S /\ x \in S /\ x \notin B /\ A = B \cup {x}
      BY <3>2, <3>3
    <3>6. B \in P
      BY <3>4, <3>5
    <3> QED
      BY <3>5, <3>6
  <2> QED
    BY <2>1
<1>4. \A n \in T : n + 1 \in T
  BY <1>3
<1> HIDE DEF T
<1>5. \A n \in Nat : n \in T
  BY <1>2, <1>4, NatSet
<1> QED
  BY <1>1, <1>5 DEF T

\* There is such a T.
LEMMA TotalExists ==
  ASSUME NEW S, IsFiniteSet(S), NEW f \in [S -> Nat]
  PROVE \E T : IsTotal(T, f, S)
<1> DEFINE P == {R \in SUBSET S : \E T : IsTotal(T, f, R)}
<1>1. {} \in P
  <2>1. PICK T : T = [A \in SUBSET {} |-> 0]
    OBVIOUS
  <2>2. IsTotal(T, f, {})
    BY <2>1 DEF IsTotal
  <2> QED
    BY <2>2
<1>2. ASSUME NEW R \in SUBSET S, R \in P, NEW x \in S, x \notin R PROVE R \cup {x} \in P
  <2>1. PICK T : IsTotal(T, f, R)
    BY <1>2
  <2>2. PICK U : U = [A \in SUBSET (R \cup {x}) |->
                        IF x \in A THEN f[x] + T[A \ {x}] ELSE T[A]]
    OBVIOUS
  <2>3. PICK Q : Q = R \cup {x}
    OBVIOUS
  <2>4. /\ \A A \in SUBSET Q : x \in A => U[A] = f[x] + T[A \ {x}]
        /\ \A A \in SUBSET Q : x \notin A => U[A] = T[A]
        /\ DOMAIN U = SUBSET Q /\ U = [A \in SUBSET Q |-> U[A]]
    BY <2>2, <2>3
  <2>5. \A A \in SUBSET Q : A \ {x} \in SUBSET R /\ (x \notin A => A \in SUBSET R)
    BY <2>3
  <2>6. U \in [SUBSET Q -> Nat]
    <3>1. \A B \in SUBSET R : T[B] \in Nat
      BY <2>1 DEF IsTotal
    <3>2. \A A \in SUBSET Q : U[A] \in Nat
      <4>1. f[x] \in Nat
        OBVIOUS
      <4>2. ASSUME NEW A \in SUBSET Q PROVE U[A] \in Nat
        <5>1. CASE x \in A
          <6>1. PICK B \in SUBSET R : B = A \ {x}
            BY <2>5
          <6>2. U[A] = f[x] + T[B] /\ T[B] \in Nat
            BY <2>4, <3>1, <5>1, <6>1
          <6> QED
            BY ONLY <4>1, <6>2
        <5>2. CASE x \notin A
          BY <2>4, <2>5, <3>1, <5>2
        <5> QED
          BY <5>1, <5>2
      <4> QED
        BY <4>2
    <3> QED
      BY <2>4, <3>2
  <2>7. U[{}] = 0
    BY <2>1, <2>4 DEF IsTotal
  <2>8. ASSUME NEW A \in SUBSET Q, NEW y \in Q, y \notin A
        PROVE U[A \cup {y}] = f[y] + U[A]
    <3>1. A \cup {y} \in SUBSET Q
      OBVIOUS
    <3>2. f[x] \in Nat /\ f[y] \in Nat
      BY <2>3
    <3>3. CASE y = x
      <4>1. (A \cup {y}) \ {x} = A /\ x \in A \cup {y} /\ x \notin A
        BY <2>8, <3>3
      <4> QED
        BY <2>4, <3>1, <3>3, <4>1
    <3>4. CASE y # x /\ x \in A
      <4>1. PICK B : B = A \ {x}
        OBVIOUS
      <4>2. (A \cup {y}) \ {x} = B \cup {y} /\ x \in A \cup {y} /\ B \in SUBSET R /\ y \in R
            /\ y \notin B
        BY <2>3, <2>8, <3>4, <4>1
      <4>3. T[B \cup {y}] = f[y] + T[B] /\ T[B] \in Nat
        BY <2>1, <4>2 DEF IsTotal
      <4>4. U[A \cup {y}] = f[x] + T[B \cup {y}] /\ U[A] = f[x] + T[B]
        BY <2>4, <3>1, <3>4, <4>1, <4>2
      <4> QED
        BY <3>2, <4>3, <4>4
    <3>5. CASE y # x /\ x \notin A
      <4>1. x \notin A \cup {y} /\ A \in SUBSET R /\ y \in R
        BY <2>3, <3>5
      <4>2. T[A \cup {y}] = f[y] + T[A]
        BY <2>1, <2>8, <4>1 DEF IsTotal
      <4> QED
        BY <2>4, <3>1, <3>5, <4>1, <4>2
    <3> QED
      BY <3>3, <3>4, <3>5
  <2>9. IsTotal(U, f, Q)
    BY <2>6, <2>7, <2>8 DEF IsTotal
  <2> QED
    BY <2>3, <2>9
<1> HIDE DEF P
<1>3. \A A \in SUBSET S : A \in P
  BY <1>1, <1>2, SubsetInduction
<1> QED
  BY <1>3 DEF P

\* The recursion of MapThenSumSet comes to the same.
LEMMA TotalIs ==
  ASSUME NEW S, IsFiniteSet(S), NEW f \in [S -> Nat], NEW T, IsTotal(T, f, S)
  PROVE Total(f) = T[S]
<1> DEFINE pick(s) == CHOOSE x \in s : TRUE
<1>1. \A s \in SUBSET S : s # {} => pick(s) \in s /\ pick(s) \in S
  OBVIOUS
<1>2. Recurs(T, f, S)
  <2>1. \A s \in SUBSET S : s # {} => T[s] = f[pick(s)] + T[s \ {pick(s)}]
    <3> SUFFICES ASSUME NEW s \in SUBSET S, s # {} PROVE T[s] = f[pick(s)] + T[s \ {pick(s)}]
      OBVIOUS
    <3>1. PICK x \in s : x = pick(s)
      BY <1>1
    <3>2. PICK B \in SUBSET S : B = s \ {x}
      OBVIOUS
    <3>3. x \notin B /\ x \in S /\ s = B \cup {x}
      BY <3>1, <3>2
    <3>4. T[B \cup {x}] = f[x] + T[B]
      BY <3>3 DEF IsTotal
    <3> QED
      BY <3>1, <3>2, <3>3, <3>4
  <2>2. T = [s \in SUBSET S |-> T[s]] /\ T[{}] = 0
    BY DEF IsTotal
  <2> QED
    BY <2>1, <2>2 DEF Recurs
<1>3. PICK iter : iter = CHOOSE it : Recurs(it, f, S)
  OBVIOUS
<1>4. Recurs(iter, f, S)
  BY <1>2, <1>3
<1>5. /\ iter[{}] = 0
      /\ \A s \in SUBSET S : s # {} => iter[s] = f[pick(s)] + iter[s \ {pick(s)}]
  BY <1>4 DEF Recurs
<1> HIDE DEF pick
<1> DEFINE N == {n \in Nat : \A A \in SUBSET S : Cardinality(A) = n => iter[A] = T[A]}
<1>6. \A A \in SUBSET S : IsFiniteSet(A) /\ Cardinality(A) \in Nat
  BY FS_Subset, FS_CardinalityType
<1>7. N \subseteq Nat /\ 0 \in N
  <2>1. \A A \in SUBSET S : Cardinality(A) = 0 => A = {}
    BY <1>6, FS_EmptySet
  <2> QED
    BY <1>5, <2>1 DEF IsTotal
<1>8. ASSUME NEW n \in N PROVE n + 1 \in N
  <2>0. n \in Nat /\ n + 1 # 0 /\ (n + 1) - 1 = n
    OBVIOUS
  <2>1. ASSUME NEW A \in SUBSET S, Cardinality(A) = n + 1 PROVE iter[A] = T[A]
    <3>1. A # {}
      BY <2>0, <2>1, FS_EmptySet
    <3>2. PICK x \in A : x = pick(A)
      BY <1>1, <3>1
    <3>3. PICK B \in SUBSET S : B = A \ {x}
      OBVIOUS
    <3>4. Cardinality(B) = n
      <4>1. IsFiniteSet(A) /\ x \in A
        BY <1>6, <3>2
      <4>2. Cardinality(A \ {x}) = Cardinality(A) - 1
        BY ONLY <4>1, FS_RemoveElement
      <4> QED
        BY ONLY <2>0, <2>1, <3>3, <4>2
    <3>5. iter[B] = T[B]
      BY <3>4
    <3>6. A = B \cup {x} /\ x \in S /\ x \notin B
      BY <3>2, <3>3
    <3>7. T[A] = f[x] + T[B]
      BY <3>6 DEF IsTotal
    <3>8. iter[A] = f[x] + iter[B]
      BY <1>5, <3>1, <3>2, <3>3
    <3> QED
      BY <3>5, <3>7, <3>8
  <2> QED
    BY <2>1
<1>9. \A n \in N : n + 1 \in N
  BY <1>8
<1> HIDE DEF N
<1>10. \A n \in Nat : n \in N
  BY <1>7, <1>9, NatSet
<1>11. iter[S] = T[S]
  BY <1>6, <1>10 DEF N
<1>12. S = DOMAIN f
  OBVIOUS
<1> QED
  BY <1>3, <1>11, <1>12, Unfolds

\* The sum of no value, and of one more value.
LEMMA TotalEmpty ==
  ASSUME NEW f \in [{} -> Nat]
  PROVE Total(f) = 0
<1>1. IsFiniteSet({})
  BY FS_EmptySet
<1>2. PICK T : IsTotal(T, f, {})
  BY <1>1, TotalExists
<1> QED
  BY <1>1, <1>2, TotalIs DEF IsTotal

OneMore(f, g, S, x) ==
  /\ f \in [S -> Nat] /\ x \notin S
  /\ g \in [S \cup {x} -> Nat] /\ \A s \in S : g[s] = f[s]

\* The sum over a set with one more element.
LEMMA TotalAdds ==
  ASSUME NEW S, IsFiniteSet(S), NEW x, NEW f, NEW g, OneMore(f, g, S, x)
  PROVE Total(f) \in Nat /\ Total(g) = Total(f) + g[x]
<1>0. /\ f \in [S -> Nat] /\ x \notin S
      /\ g \in [S \cup {x} -> Nat] /\ \A s \in S : g[s] = f[s]
  BY DEF OneMore
<1>1. PICK Q : Q = S \cup {x}
  OBVIOUS
<1>2. IsFiniteSet(Q) /\ g \in [Q -> Nat] /\ S \in SUBSET Q /\ x \in Q /\ x \notin S
  BY <1>0, <1>1, FS_AddElement
<1>3. PICK U : IsTotal(U, g, Q)
  BY <1>2, TotalExists
<1>4. Total(g) = U[Q] /\ U[Q] = g[x] + U[S] /\ U[S] \in Nat
  <2>1. Total(g) = U[Q]
    BY <1>2, <1>3, TotalIs
  <2>2. U[S \cup {x}] = g[x] + U[S] /\ U[S] \in Nat
    BY <1>2, <1>3 DEF IsTotal
  <2> QED
    BY <1>1, <2>1, <2>2
<1>5. PICK T : T = [A \in SUBSET S |-> U[A]]
  OBVIOUS
<1>6. IsTotal(T, f, S)
  <2>1. \A A \in SUBSET S : A \in SUBSET Q /\ U[A] \in Nat /\ T[A] = U[A]
    BY <1>2, <1>3, <1>5 DEF IsTotal
  <2>2. T \in [SUBSET S -> Nat]
    BY <1>5, <2>1
  <2>3. T[{}] = 0
    BY <1>3, <2>1 DEF IsTotal
  <2>4. ASSUME NEW A \in SUBSET S, NEW y \in S, y \notin A PROVE T[A \cup {y}] = f[y] + T[A]
    <3>1. A \cup {y} \in SUBSET S /\ y \in Q /\ f[y] = g[y]
      BY <1>0, <1>2
    <3>2. U[A \cup {y}] = g[y] + U[A]
      BY <1>3, <2>1, <2>4, <3>1 DEF IsTotal
    <3> QED
      BY <2>1, <3>1, <3>2
  <2> QED
    BY <2>2, <2>3, <2>4 DEF IsTotal
<1>7. Total(f) = U[S]
  BY <1>0, <1>5, <1>6, TotalIs
<1> QED
  BY <1>2, <1>4, <1>7

\* Sums are natural numbers.
LEMMA TotalType ==
  ASSUME NEW S, IsFiniteSet(S), NEW f \in [S -> Nat]
  PROVE Total(f) \in Nat
<1>1. PICK T : IsTotal(T, f, S)
  BY TotalExists
<1>2. T[S] \in Nat
  BY <1>1 DEF IsTotal
<1> QED
  BY <1>1, <1>2, TotalIs

----------------------------------------------------------------------------
(***************************************************************************)
(* The setting and the threads.                                            *)
(***************************************************************************)
\* What the assumption says of the setting that was chosen.
LEMMA SettingFacts ==
  ASSUME setting \in DOMAIN Settings
  PROVE /\ Models # {} /\ IsFiniteSet(Instances) /\ 0 \notin Instances
        /\ \A m \in Models :
             /\ InstancesOf[m] # << >> /\ Len(InstancesOf[m]) \in Nat /\ Len(InstancesOf[m]) >= 1
             /\ \A k \in 1..Len(InstancesOf[m]) :
                  InstancesOf[m][k] \in Instances /\ ModelOf(InstancesOf[m][k]) = m
        /\ \A i \in Instances : ModelOf(i) \in Models /\ i \in Own(ModelOf(i))
        /\ \A m \in Models : \A i \in Own(m) :
             i \in Instances /\ ModelOf(i) = m
             /\ \E k \in 1..Len(InstancesOf[m]) : InstancesOf[m][k] = i
        /\ \A i \in Instances : \A x \in Resources : Need[i][x] \in 0..Word - 1
        /\ Asking \subseteq Requests /\ IsFiniteSet(Requests) /\ 0 \notin Requests
        /\ \A r \in Asking : Wants[r].model \in Models /\ Wants[r].index \in Nat \cup {-1}
        /\ IgnoreResources \in BOOLEAN /\ Preloaded \subseteq Models
<1> DEFINE insts == DOMAIN Setting.priority
<1>1. /\ Models # {} /\ IsFiniteSet(insts) /\ 0 \notin insts
      /\ \A m \in Models : InstancesOf[m] \in Seq(insts) /\ InstancesOf[m] # << >>
      /\ \A m, o \in Models : \A k \in 1..Len(InstancesOf[m]), l \in 1..Len(InstancesOf[o]) :
           InstancesOf[m][k] = InstancesOf[o][l] => m = o /\ k = l
      /\ Need \in [insts -> [Resources -> 0..Word - 1]]
      /\ Asking \subseteq Requests /\ IsFiniteSet(Requests) /\ 0 \notin Requests
      /\ \A r \in Asking : Wants[r] \in [model : Models, index : Nat \cup {-1}]
      /\ IgnoreResources \in BOOLEAN /\ Preloaded \subseteq Models
  BY RateLimiterAssumption
     DEF Setting, Models, InstancesOf, Need, Resources, Asking, Wants, IgnoreResources, Preloaded
<1> HIDE DEF insts
<1>2. \A m \in Models : \A k \in 1..Len(InstancesOf[m]) :
        InstancesOf[m][k] \in Instances /\ InstancesOf[m][k] \in insts
  BY <1>1 DEF Instances
<1>3. \A i \in Instances : \E m \in Models : \E k \in 1..Len(InstancesOf[m]) : InstancesOf[m][k] = i
  BY DEF Instances
<1>4. Instances \subseteq insts
  BY <1>2, <1>3
<1>5. \A i \in Instances : ModelOf(i) \in Models
                           /\ \E k \in 1..Len(InstancesOf[ModelOf(i)]) : InstancesOf[ModelOf(i)][k] = i
  BY <1>3 DEF ModelOf
<1>6. \A m \in Models : \A k \in 1..Len(InstancesOf[m]) : ModelOf(InstancesOf[m][k]) = m
  BY <1>1, <1>2, <1>5
<1>7. \A m \in Models : Len(InstancesOf[m]) \in Nat /\ Len(InstancesOf[m]) >= 1
  BY <1>1
<1>8. IsFiniteSet(Instances)
  BY <1>1, <1>4, FS_Subset
<1>9. \A r \in Asking : Wants[r].model \in Models /\ Wants[r].index \in Nat \cup {-1}
  BY <1>1
<1>10. \A i \in Instances : \A x \in Resources : Need[i][x] \in 0..Word - 1
  BY <1>1, <1>4
<1> QED
  BY <1>1, <1>2, <1>4, <1>5, <1>6, <1>7, <1>8, <1>9, <1>10 DEF Own

\* The setting does not change, nor what is read from it.
LEMMA SettingFixed ==
  ASSUME UNCHANGED setting
  PROVE /\ Models' = Models /\ Instances' = Instances /\ InstancesOf' = InstancesOf
        /\ \A i : ModelOf(i)' = ModelOf(i)
        /\ \A m : Own(m)' = Own(m)
        /\ Need' = Need /\ Resources' = Resources /\ Wants' = Wants /\ Asking' = Asking
        /\ IgnoreResources' = IgnoreResources /\ Preloaded' = Preloaded /\ MayRemove' = MayRemove
        /\ Settled' = Settled /\ Keys' = Keys
        /\ \A w : ModelOfKey(w)' = ModelOfKey(w)
        /\ \A set : Limits(set)' = Limits(set)
<1>1. /\ Setting' = Setting
  BY DEF Setting
<1>2. InstancesOf' = InstancesOf /\ Need' = Need /\ Resources' = Resources /\ Wants' = Wants
      /\ IgnoreResources' = IgnoreResources /\ Preloaded' = Preloaded /\ MayRemove' = MayRemove
  BY <1>1 DEF InstancesOf, Need, Resources, Wants, IgnoreResources, Preloaded, MayRemove
<1>3. Models' = Models /\ Asking' = Asking
  BY <1>2 DEF Models, Asking
<1>4. Instances' = Instances /\ \A i : ModelOf(i)' = ModelOf(i)
  BY <1>2, <1>3 DEF Instances, ModelOf
<1>5. \A m : Own(m)' = Own(m)
  BY <1>4 DEF Own
<1>6. Settled' = Settled /\ Keys' = Keys /\ \A w : ModelOfKey(w)' = ModelOfKey(w)
  BY <1>2, <1>3, <1>4 DEF Settled, Keys, ModelOfKey
<1>7. \A set : Limits(set)' = Limits(set)
  BY <1>2 DEF Limits
<1> QED
  BY <1>2, <1>3, <1>4, <1>5, <1>6, <1>7

\* The threads have different names.
LEMMA ActorFacts ==
  /\ \A r \in Requests : Caller(r) \in Actors /\ Executor(r) \in Actors
  /\ Manager \in Actors
  /\ \A p \in Actors : p = Manager \/ \E r \in Requests : p = Caller(r) \/ p = Executor(r)
  /\ \A q, r : /\ Caller(q) # Executor(r) /\ Caller(q) # Manager /\ Executor(q) # Manager
               /\ Caller(q) = Caller(r) => q = r
               /\ Executor(q) = Executor(r) => q = r
  /\ \A r : Caller(r)[2] = r /\ Executor(r)[2] = r
  /\ \A r : Caller(r)[1] = "caller" /\ Executor(r)[1] = "executor"
  /\ Manager[1] = "manager" /\ \A p \in Actors : p # Free
<1>1. \A r : Caller(r) # Manager /\ Executor(r) # Manager
  <2>1. \A r : Len(<<"caller", r>>) = 2 /\ Len(<<"executor", r>>) = 2 /\ Len(<<"manager">>) = 1
    OBVIOUS
  <2> QED
    BY <2>1 DEF Caller, Executor, Manager
<1>2. \A q, r : /\ Caller(q) # Executor(r)
                /\ Caller(q) = Caller(r) => q = r
                /\ Executor(q) = Executor(r) => q = r
  BY DEF Caller, Executor
<1>3. \A p \in Actors : p # Free
  BY DEF Actors, Free, Caller, Executor, Manager
<1> QED
  BY <1>1, <1>2, <1>3 DEF Actors, Caller, Executor, Manager

\* The instance and the model of a thread.
LEMMA ActorWork ==
  /\ \A r : ModelOfActor(Caller(r)) = Wants[r].model /\ ModelOfActor(Executor(r)) = Wants[r].model
  /\ \A r : Instance(Executor(r)) = on[r] /\ Instance(Caller(r)) = on[r]
  /\ ModelOfActor(Manager) = target.model
  /\ Instance(Manager) = InstancesOf[target.model][target.index]
BY ActorFacts DEF ModelOfActor, Instance

\* The queues, by their keys.
LEMMA KeyFacts ==
  /\ \A m \in Models : <<"generic", m>> \in Keys /\ Queue(<<"generic", m>>) = generic[m]
                       /\ ModelOfKey(<<"generic", m>>) = m
  /\ \A i \in Instances : <<"specific", i>> \in Keys /\ Queue(<<"specific", i>>) = specific[i]
                          /\ ModelOfKey(<<"specific", i>>) = ModelOf(i)
  /\ \A w \in Keys : \/ \E m \in Models : w = <<"generic", m>>
                     \/ \E i \in Instances : w = <<"specific", i>>
  /\ \A m, i : <<"generic", m>> # <<"specific", i>>
BY DEF Keys, Queue, ModelOfKey

\* A set of numbers below a bound has a largest one.
LEMMA Largest ==
  ASSUME NEW n \in Nat, NEW S \in SUBSET (0..n), S # {}
  PROVE Max(S) \in S /\ \A y \in S : y <= Max(S)
<1> DEFINE F == {k \in Nat : n - k \in S}
<1>1. F # {} /\ F \subseteq Nat
  <2>1. PICK y \in S : TRUE
    OBVIOUS
  <2>2. n - y \in Nat /\ n - (n - y) = y
    OBVIOUS
  <2> QED
    BY <2>2
<1>2. PICK k \in F : \A y \in F : ~(<<y, k>> \in OpToRel(<, Nat))
  BY <1>1, NatLessThanWellFounded, WFMin
<1>3. \A y \in F : ~(y < k)
  BY <1>1, <1>2 DEF OpToRel
<1>4. PICK x \in S : x = n - k
  OBVIOUS
<1>5. ASSUME NEW y \in S PROVE x >= y
  <2>1. n - y \in Nat /\ n - (n - y) = y
    OBVIOUS
  <2>2. n - y \in F
    BY <2>1
  <2>3. ~(n - y < k)
    BY <1>3, <2>2
  <2> QED
    BY <1>4, <2>3
<1>6. PICK z \in S : z = Max(S) /\ \A y \in S : z >= y
  BY <1>5 DEF Max
<1> QED
  BY <1>6

\* A limit is the largest need.
LEMMA LimitFacts ==
  ASSUME setting \in DOMAIN Settings, NEW set \in SUBSET Instances
  PROVE /\ Limits(set) \in [Resources -> 0..Word - 1]
        /\ \A i \in set : \A x \in Resources : Need[i][x] <= Limits(set)[x]
        /\ \A x \in Resources : Limits(set)[x] = 0 \/ \E i \in set : Limits(set)[x] = Need[i][x]
<1>1. Word - 1 \in Nat
  BY RateLimiterAssumption
<1>2. ASSUME NEW x \in Resources
      PROVE /\ Limits(set)[x] \in 0..Word - 1
            /\ \A i \in set : Need[i][x] <= Limits(set)[x]
            /\ Limits(set)[x] = 0 \/ \E i \in set : Limits(set)[x] = Need[i][x]
  <2>1. PICK S : S = {Need[i][x] : i \in set} \cup {0}
    OBVIOUS
  <2>2. S \in SUBSET (0..Word - 1) /\ S # {}
    BY <1>1, <2>1, SettingFacts
  <2>3. Max(S) \in S /\ \A y \in S : y <= Max(S)
    BY <1>1, <2>2, Largest
  <2>4. Limits(set)[x] = Max(S)
    BY <2>1 DEF Limits
  <2> QED
    BY <2>1, <2>2, <2>3, <2>4
<1>3. Limits(set) = [x \in Resources |-> Limits(set)[x]]
  BY DEF Limits
<1> QED
  BY <1>2, <1>3

\* Counters are modulo Word.
LEMMA ModFacts ==
  ASSUME NEW W \in Nat \ {0}
  PROVE /\ \A a \in Int : a % W \in 0..W - 1
        /\ \A a \in 0..W - 1 : a % W = a
OBVIOUS

\* A number is a multiple of W and its remainder.
LEMMA ModDivides ==
  ASSUME NEW W \in Nat \ {0}, NEW a \in Int
  PROVE \E k \in Int : a = k * W + (a % W)
<1>1. a \div W \in Int /\ a = W * (a \div W) + (a % W)
  OBVIOUS
<1>2. PICK k \in Int : k = a \div W
  BY <1>1
<1>3. W * k = k * W
  OBVIOUS
<1>4. a = k * W + (a % W)
  BY <1>1, <1>2, <1>3
<1> QED
  BY <1>4

\* There is one remainder.
LEMMA ModUnique ==
  ASSUME NEW W \in Nat \ {0}, NEW j \in Int, NEW k \in Int, NEW b \in 0..W - 1, NEW c \in 0..W - 1,
         j * W + b = k * W + c
  PROVE b = c
<1>1. (j - k) * W = c - b
  OBVIOUS
<1>2. CASE j - k >= 1
  <2>1. (j - k) * W >= W
    BY <1>2
  <2> QED
    BY <1>1, <2>1
<1>3. CASE j - k <= -1
  <2>1. (j - k) * W <= -W
    BY <1>3
  <2> QED
    BY <1>1, <2>1
<1>4. CASE j - k = 0
  BY <1>1, <1>4
<1> QED
  BY <1>2, <1>3, <1>4

\* A remainder may be taken of a summand first.
LEMMA ModSum ==
  ASSUME NEW W \in Nat \ {0}, NEW a \in Int, NEW n \in Int
  PROVE ((a % W) + n) % W = (a + n) % W
<1>1. PICK k \in Int : a = k * W + (a % W)
  BY ModDivides
<1>2. a % W \in Int /\ (a % W) + n \in Int /\ a + n \in Int
  BY ModFacts
<1>3. PICK l \in Int : (a % W) + n = l * W + (((a % W) + n) % W)
  BY <1>2, ModDivides
<1>4. PICK h \in Int : a + n = h * W + ((a + n) % W)
  BY <1>2, ModDivides
<1>5. PICK b \in 0..W - 1 : b = ((a % W) + n) % W
  BY <1>2, ModFacts
<1>6. PICK c \in 0..W - 1 : c = (a + n) % W
  BY <1>2, ModFacts
<1>7. k + l \in Int /\ (k + l) * W + b = h * W + c
  <2>1. PICK d \in Int : d = a % W
    BY <1>2
  <2>2. a = k * W + d /\ d + n = l * W + b /\ a + n = h * W + c
    BY <1>1, <1>3, <1>4, <1>5, <1>6, <2>1
  <2>3. (k + l) * W = k * W + l * W
    OBVIOUS
  <2> QED
    BY <2>2, <2>3
<1>8. b = c
  BY <1>7, ModUnique
<1> QED
  BY <1>5, <1>6, <1>8

----------------------------------------------------------------------------
(***************************************************************************)
(* Steps that only move a thread.                                          *)
(***************************************************************************)
SameWork ==
  UNCHANGED <<setting, ctx, removing, generic, specific, avbl, state, sched, staged, on, target>>
Moves(p, w) == pc' = [pc EXCEPT ![p] = w]

MayGo(p, w) ==
  /\ \A r \in Requests : p = Caller(r) =>
       /\ w \in CallerPCs /\ w # "new" /\ r \in Asking
       /\ pc[p] \in {"new", "refused"} <=> w \in {"new", "refused"}
  /\ \A r \in Requests : p = Executor(r) =>
       w \in ExecutorPCs \ {"idle", "running"} /\ pc[p] # "idle"
  /\ p = Manager => w \in ManagerPCs

MayMove(p, w) ==
  /\ MayGo(p, w)
  /\ p = Manager /\ w \in {"check", "decide", "wait", "erase"} =>
       w \in {"decide", "wait"} /\ pc[p] \in {"check", "decide"}

\* The requests stay where they are.
SameStaged ==
  \A i \in Instances : /\ state[i] = "STAGED" <=> state'[i] = "STAGED"
                       /\ state[i] = "STAGED" => sched'[i] = sched[i]

\* A step that moves no request keeps them seated.
LEMMA SeatsFrame ==
  ASSUME UNCHANGED <<setting, generic, specific>>, SeatsInv, SameStaged,
         \A r \in Requests :
           /\ (Came(r) => Came(r)') /\ (Called(r)' <=> Called(r))
           /\ Came(r)' /\ ~Came(r) => ~(Wants[r].index < Len(InstancesOf[Wants[r].model]))
  PROVE SeatsInv'
<1>1. /\ Models' = Models /\ Instances' = Instances /\ InstancesOf' = InstancesOf
      /\ Wants' = Wants /\ Asking' = Asking /\ Keys' = Keys
      /\ \A w : ModelOfKey(w)' = ModelOfKey(w)
  BY SettingFixed
<1>2. \A w : Queue(w)' = Queue(w)
  BY DEF Queue
<1>3. \A w \in Keys : QueueSound(w)'
  BY <1>1, <1>2 DEF SeatsInv, QueueSound, Distinct
<1>4. \A r \in Requests : /\ Waits(r)' <=> Waits(r)
                          /\ IsAssigned(r)' <=> IsAssigned(r)
                          /\ \A i \in Instances : Assigned(r, i)' <=> Assigned(r, i)
                          /\ \A w : Holds(Queue(w), r)' <=> Holds(Queue(w), r)
  BY <1>1, <1>2 DEF Waits, IsAssigned, Assigned, Holds, SameStaged
<1>5. ASSUME NEW r \in Requests PROVE OneSeat(r)' /\ Seated(r)'
  <2>1. OneSeat(r) /\ Seated(r)
    BY DEF SeatsInv
  <2>2. OneSeat(r)'
    BY <1>1, <1>4, <2>1 DEF OneSeat
  <2>3. Seated(r)'
    BY <1>1, <1>4, <2>1 DEF Seated
  <2> QED
    BY <2>2, <2>3
<1> QED
  BY <1>1, <1>3, <1>5 DEF SeatsInv

\* The instances stay as they are.
LEMMA InstancesFrame ==
  ASSUME UNCHANGED <<setting, ctx, removing, generic, specific, avbl, state, sched, staged>>
  PROVE /\ \A i : Pending(i)' <=> Pending(i)
        /\ \A i \in Instances : InstanceSound(i)' <=> InstanceSound(i)
        /\ \A m \in Models : ModelSound(m)' <=> ModelSound(m)
<1>1. /\ \A i : ModelOf(i)' = ModelOf(i)
      /\ \A m : Own(m)' = Own(m)
      /\ IgnoreResources' = IgnoreResources /\ Wants' = Wants /\ Asking' = Asking
  BY SettingFixed
<1>2. \A i : Pending(i)' <=> Pending(i)
  BY <1>1 DEF Pending
<1> QED
  BY <1>1, <1>2 DEF InstanceSound, ModelSound, Untried

\* A thread is moved and none is called back.
LEMMA ThreadsMove ==
  ASSUME RLTypeOK, ThreadsInv, UNCHANGED <<setting, on>>,
         NEW p \in Actors, NEW w, Moves(p, w), MayGo(p, w)
  PROVE /\ ThreadsInv' /\ pc'[p] = w /\ \A q \in Actors : q # p => pc'[q] = pc[q]
        /\ \A r \in Requests : (Came(r)' <=> Came(r)) /\ (Called(r)' <=> Called(r))
                              /\ (Running(r)' => Running(r))
<1>1. pc'[p] = w /\ \A q \in Actors : q # p => pc'[q] = pc[q]
  BY DEF RLTypeOK, Moves
<1>2. /\ Models' = Models /\ Instances' = Instances /\ InstancesOf' = InstancesOf
      /\ Wants' = Wants /\ Asking' = Asking /\ \A i : ModelOf(i)' = ModelOf(i)
  BY SettingFixed
<1>3. ASSUME NEW r \in Requests
      PROVE (Came(r)' <=> Came(r)) /\ (Called(r)' <=> Called(r)) /\ (Running(r)' => Running(r))
  <2>1. Caller(r) \in Actors /\ Executor(r) \in Actors /\ Caller(r) # Executor(r)
    BY ActorFacts
  <2>2. Came(r)' <=> Came(r)
    BY <1>1, <2>1 DEF Came, MayGo
  <2>3. Called(r)' <=> Called(r)
    BY <1>1, <2>1 DEF Called, MayGo
  <2>4. Running(r)' => Running(r)
    BY <1>1, <2>1 DEF Running, MayGo
  <2> QED
    BY <2>2, <2>3, <2>4
<1>4. ThreadsInv'
  <2>1. ASSUME NEW r \in Requests
        PROVE /\ pc'[Caller(r)] \in CallerPCs /\ pc'[Executor(r)] \in ExecutorPCs
              /\ pc'[Caller(r)] # "new" => r \in Asking
              /\ Called(r)' => r \in Asking /\ on[r] \in Instances /\ ModelOf(on[r]) = Wants[r].model
    <3>1. Caller(r) \in Actors /\ Executor(r) \in Actors
      BY ActorFacts
    <3>2. pc'[Caller(r)] \in CallerPCs /\ (pc'[Caller(r)] # "new" => r \in Asking)
      BY <1>1, <3>1 DEF ThreadsInv, MayGo
    <3>3. pc'[Executor(r)] \in ExecutorPCs
      BY <1>1, <3>1 DEF ThreadsInv, MayGo
    <3> QED
      BY <1>3, <3>2, <3>3 DEF ThreadsInv
  <2>2. pc'[Manager] \in ManagerPCs
    BY <1>1, ActorFacts DEF ThreadsInv, MayGo
  <2> QED
    BY <1>2, <2>1, <2>2 DEF ThreadsInv
<1> QED
  BY <1>1, <1>3, <1>4

\* Such a step leaves the instances and the seats sound.
LEMMA MoveKeeps ==
  ASSUME RLTypeOK, ThreadsInv, StatesInv, SeatsInv, SameWork,
         NEW p \in Actors, NEW w, Moves(p, w), MayMove(p, w)
  PROVE ThreadsInv' /\ StatesInv' /\ SeatsInv'
<1>1. pc'[p] = w /\ \A q \in Actors : q # p => pc'[q] = pc[q]
  BY DEF RLTypeOK, Moves
<1>2. /\ Models' = Models /\ Instances' = Instances /\ InstancesOf' = InstancesOf
      /\ Wants' = Wants /\ Asking' = Asking /\ \A i : ModelOf(i)' = ModelOf(i)
  BY SettingFixed DEF SameWork
<1>3. \A r \in Requests : (Came(r)' <=> Came(r)) /\ (Called(r)' <=> Called(r))
                         /\ (Running(r)' => Running(r))
  BY ThreadsMove DEF SameWork, MayMove
<1>4. ThreadsInv'
  BY ThreadsMove DEF SameWork, MayMove
<1>5. RemovalInv'
  <2>1. RemovalInv
    BY DEF StatesInv
  <2>2. CASE p = Manager
    <3>1. w \in {"check", "decide", "wait", "erase"} =>
            w \in {"decide", "wait"} /\ pc[Manager] \in {"check", "decide"}
      BY <2>2 DEF MayGo, MayMove
    <3> QED
      BY <1>1, <1>2, <2>1, <2>2, <3>1 DEF RemovalInv, At, SameWork
  <2>3. CASE p # Manager
    <3>1. pc'[Manager] = pc[Manager]
      BY <1>1, <2>3, ActorFacts
    <3> QED
      BY <1>2, <2>1, <3>1 DEF RemovalInv, At, SameWork
  <2> QED
    BY <2>2, <2>3
<1>6. RunningInv'
  BY <1>3 DEF StatesInv, RunningInv, SameWork
<1>7. StatesInv'
  BY <1>2, <1>5, <1>6, InstancesFrame DEF StatesInv, SameWork
<1>8. SeatsInv'
  BY <1>3, SeatsFrame DEF SameWork, SameStaged
<1> QED
  BY <1>4, <1>7, <1>8

\* A thread that does not move goes on to look for requests for an instance.
LEMMA SeeksFrame ==
  ASSUME UNCHANGED setting, NEW q \in Actors, NEW i, Seeks(q, i), UNCHANGED pc[q],
         pc[q] \in {"resources", "pending"} => UNCHANGED on[q[2]]
  PROVE Seeks(q, i)'
<1>1. q # Manager
  BY DEF Seeks
<1>2. Wants' = Wants /\ ModelOf(i)' = ModelOf(i)
  BY SettingFixed
<1>3. ModelOfActor(q)' = ModelOfActor(q) /\ (pc[q] \in {"resources", "pending"} => Instance(q)' = Instance(q))
  BY <1>1, <1>2 DEF ModelOfActor, Instance
<1> QED
  BY <1>1, <1>2, <1>3 DEF Seeks

\* Nothing was queued for model m.
NothingNew(m) == \A i \in Instances : ModelOf(i) = m /\ Pending(i)' => Pending(i)

\* A staging loop that goes on.
LEMMA LoopFrame ==
  ASSUME UNCHANGED setting, RLTypeOK, ThreadsInv, NEW q \in Actors, LoopOf(q),
         InLoop(q)' => InLoop(q), UNCHANGED backup[q],
         InLoop(q) => NothingNew(ModelOfActor(q)),
         qMtx[ModelOfActor(q)] = q => qMtx'[ModelOfActor(q)] = q
  PROVE LoopOf(q)'
<1> SUFFICES ASSUME InLoop(q)' PROVE LoopOf(q)'
  BY DEF LoopOf
<1>1. q # Manager
  BY DEF ThreadsInv, ManagerPCs, InLoop
<1>2. Instances' = Instances /\ Wants' = Wants /\ \A i : ModelOf(i)' = ModelOf(i)
  BY SettingFixed
<1>3. ModelOfActor(q)' = ModelOfActor(q)
  BY <1>1, <1>2 DEF ModelOfActor
<1>4. backup[q] \subseteq Instances
  BY DEF RLTypeOK
<1> QED
  BY <1>2, <1>3, <1>4 DEF LoopOf, NothingNew

\* A removal check that goes on.
LEMMA CheckFrame ==
  ASSUME UNCHANGED setting, NEW q \in Actors, CheckOf(q),
         At(q, "decide")' => At(q, "decide"),
         At(q, "decide") => Instance(q)' = Instance(q),
         sMtx[Instance(q)] = q =>
           sMtx'[Instance(q)] = q /\ state'[Instance(q)] = state[Instance(q)],
         \A m : removing[m] => removing'[m]
  PROVE CheckOf(q)'
<1> SUFFICES ASSUME At(q, "decide")' PROVE CheckOf(q)'
  BY DEF CheckOf
<1>1. \A i : ModelOf(i)' = ModelOf(i)
  BY SettingFixed
<1> QED
  BY <1>1 DEF CheckOf

\* A thread that is moved goes on to look for requests.
KeepsSeeking(p) ==
  \A i \in avbl : state[i] = "AVAILABLE" /\ Pending(i) /\ Seeks(p, i) => Seeks(p, i)'

\* A thread that moves on leaves no request overlooked.
LEMMA SeenMove ==
  ASSUME RLTypeOK, SeenInv, SameWork, NEW p \in Actors, NEW w, Moves(p, w), KeepsSeeking(p)
  PROVE SeenInv'
<1>1. \A q \in Actors : q # p => pc'[q] = pc[q]
  BY DEF RLTypeOK, Moves
<1>2. Wants' = Wants /\ \A i : ModelOf(i)' = ModelOf(i)
  BY SettingFixed DEF SameWork
<1>3. \A i : Pending(i)' <=> Pending(i)
  BY InstancesFrame DEF SameWork
<1>4. ASSUME NEW i \in avbl, NEW q \in Actors, q # p, Seeks(q, i) PROVE Seeks(q, i)'
  <2>1. q # Manager /\ pc'[q] = pc[q]
    BY <1>1, <1>4 DEF Seeks
  <2>2. ModelOfActor(q)' = ModelOfActor(q) /\ Instance(q)' = Instance(q)
    BY <1>2, <2>1 DEF ModelOfActor, Instance, SameWork
  <2> QED
    BY <1>2, <1>4, <2>1, <2>2 DEF Seeks
<1>5. UNCHANGED <<avbl, state>>
  BY DEF SameWork
<1> QED
  BY <1>3, <1>4, <1>5 DEF SeenInv, KeepsSeeking

\* A thread that is moved goes on to allocate, or another does.
KeepsTrying(p) ==
  Settled /\ staged # {} /\ Allocated = {} /\ Tries(p) => \E q \in Actors : Tries(q)'

\* Nothing of what is settled changes.
LEMMA SettledFrame ==
  ASSUME RLTypeOK, SettledInv, UNCHANGED <<setting, ctx, removing, state, staged, on, registered, limit, allocated>>,
         NEW p \in Actors, NEW w, Moves(p, w), KeepsTrying(p),
         Settled => p # Manager,
         \A r \in Requests : p = Executor(r) => pc[p] # "resources" /\ w # "resources"
  PROVE SettledInv'
<1>1. /\ Settled' = Settled /\ Models' = Models /\ Instances' = Instances /\ Need' = Need
      /\ Resources' = Resources /\ IgnoreResources' = IgnoreResources
      /\ \A set : Limits(set)' = Limits(set)
  BY SettingFixed
<1> SUFFICES ASSUME Settled PROVE SettledInv'
  BY <1>1 DEF SettledInv
<1>2. pc'[p] = w /\ \A q \in Actors : q # p => pc'[q] = pc[q]
  BY DEF RLTypeOK, Moves
<1>3. pc'[Manager] = pc[Manager]
  BY <1>2, ActorFacts
<1>4. Allocated' = Allocated
  BY <1>1 DEF Allocated
<1>5. Releasing' = Releasing
  <2>1. \A r \in Requests : pc'[Executor(r)] = "resources" <=> pc[Executor(r)] = "resources"
    BY <1>2, ActorFacts
  <2> QED
    BY <2>1 DEF Releasing
<1>6. \A x : InUse(x)' = InUse(x) /\ InReturn(x)' = InReturn(x)
  BY <1>1, <1>4, <1>5 DEF InUse, InReturn
<1>7. staged # {} /\ Allocated = {} => \E q \in Actors : Tries(q)'
  <2>1. \A q \in Actors : q # p /\ Tries(q) => Tries(q)'
    BY <1>2 DEF Tries
  <2> QED
    BY <2>1 DEF SettledInv, KeepsTrying
<1> QED
  BY <1>1, <1>3, <1>4, <1>6, <1>7 DEF SettledInv

\* The same, when the queues and the instances stay as they are.
LEMMA SettledMove ==
  ASSUME RLTypeOK, SettledInv, SameWork, UNCHANGED <<registered, limit, allocated>>,
         NEW p \in Actors, NEW w, Moves(p, w), KeepsTrying(p),
         Settled => p # Manager,
         \A r \in Requests : p = Executor(r) => pc[p] # "resources" /\ w # "resources"
  PROVE SettledInv'
BY SettledFrame DEF SameWork

\* The variables that a moving thread may set have their types.
OthersTyped ==
  /\ limit' \in [Resources -> Nat] /\ allocated' \in [Resources -> 0..Word - 1]
  /\ ctxMtx' \in Actors \cup {Free}
  /\ qMtx' \in [Models -> Actors \cup {Free}]
  /\ sMtx' \in [Instances -> Actors \cup {Free}]
  /\ backup' \in [Actors -> SUBSET Instances]

\* A moving thread keeps the types.
LEMMA TypeMove ==
  ASSUME RLTypeOK, SameWork, UNCHANGED <<execCount, registered>>, OthersTyped,
         NEW p \in Actors, NEW w \in PCs, Moves(p, w)
  PROVE RLTypeOK'
<1>1. /\ Models' = Models /\ Instances' = Instances /\ Resources' = Resources
  BY SettingFixed DEF SameWork
<1>2. pc' \in [Actors -> PCs]
  BY DEF RLTypeOK, Moves
<1> QED
  BY <1>1, <1>2 DEF RLTypeOK, SameWork, OthersTyped

\* A step that moves no request leaves a thread its instance and model.
LEMMA OwnInstanceStays ==
  ASSUME SameWork
  PROVE \A q : Instance(q)' = Instance(q) /\ ModelOfActor(q)' = ModelOfActor(q)
BY SettingFixed DEF SameWork, Instance, ModelOfActor

\* The locks stay as they are.
LEMMA LocksSame ==
  ASSUME RLTypeOK, ThreadsInv, LocksInv, SameWork, UNCHANGED <<qMtx, sMtx, backup>>,
         NEW p \in Actors, NEW w, Moves(p, w),
         w \in {"loop", "onstage"} => InLoop(p), w # "decide"
  PROVE LocksInv'
<1>1. pc'[p] = w /\ \A q \in Actors : q # p => pc'[q] = pc[q]
  BY DEF RLTypeOK, Moves
<1>2. ASSUME NEW q \in Actors PROVE LoopOf(q)' /\ CheckOf(q)'
  <2>1. (InLoop(q)' => InLoop(q)) /\ (At(q, "decide")' => At(q, "decide"))
    BY <1>1 DEF InLoop, At
  <2>2. \A m : NothingNew(m)
    BY InstancesFrame DEF NothingNew, SameWork
  <2>3. Instance(q)' = Instance(q)
    BY OwnInstanceStays
  <2>4. LoopOf(q)'
    BY <2>1, <2>2, LoopFrame DEF LocksInv, SameWork
  <2>5. CheckOf(q)'
    BY <2>1, <2>3, CheckFrame DEF LocksInv, SameWork
  <2> QED
    BY <2>4, <2>5
<1> QED
  BY <1>2 DEF LocksInv

\* A thread is moved, and nothing else changes.
LEMMA PureMove ==
  ASSUME RInv, SameWork,
         UNCHANGED <<execCount, registered, limit, allocated, qMtx, sMtx, backup>>,
         ctxMtx' \in Actors \cup {Free},
         NEW p \in Actors, NEW w \in PCs, Moves(p, w), MayMove(p, w),
         w \in {"loop", "onstage"} => InLoop(p), w # "decide",
         KeepsSeeking(p), KeepsTrying(p), p # Manager,
         \A r \in Requests : p = Executor(r) => pc[p] # "resources" /\ w # "resources"
  PROVE RInv'
<1>1. RLTypeOK'
  BY TypeMove DEF RInv, RLTypeOK, OthersTyped
<1>2. ThreadsInv' /\ StatesInv' /\ SeatsInv'
  BY MoveKeeps DEF RInv
<1>3. LocksInv'
  BY LocksSame DEF RInv
<1>4. SeenInv'
  BY SeenMove DEF RInv
<1>5. SettledInv'
  BY SettledMove DEF RInv
<1> QED
  BY <1>1, <1>2, <1>3, <1>4, <1>5 DEF RInv

\* When no instance is in use and none is on its way back, every staged one
\* fits.
LEMMA FitsWhenFree ==
  ASSUME RLTypeOK, StatesInv, SettledInv, Settled, Allocated = {}, Releasing = {},
         NEW i \in staged
  PROVE Fits(i)
<1>1. i \in Instances /\ setting \in DOMAIN Settings /\ Word \in Nat \ {0}
  BY RateLimiterAssumption DEF RLTypeOK
<1>2. ~IgnoreResources
  BY <1>1 DEF StatesInv, InstanceSound
<1>3. registered = Instances /\ limit = Limits(Instances)
  BY DEF SettledInv
<1>4. ASSUME NEW x \in Resources PROVE (allocated[x] + Need[i][x]) % Word <= limit[x]
  <2>1. \A f \in [{} -> Nat] : Total(f) = 0
    BY TotalEmpty
  <2>2. InUse(x) = 0
    <3>1. PICK f : f = [j \in Allocated |-> Need[j][x]]
      OBVIOUS
    <3>2. f \in [{} -> Nat]
      BY <3>1
    <3> QED
      BY <2>1, <3>1, <3>2 DEF InUse
  <2>3. InReturn(x) = 0
    <3>1. PICK f : f = [r \in Releasing |-> Need[on[r]][x]]
      OBVIOUS
    <3>2. f \in [{} -> Nat]
      BY <3>1
    <3> QED
      BY <2>1, <3>1, <3>2 DEF InReturn
  <2>4. allocated[x] = 0 % Word
    BY <1>2, <2>2, <2>3 DEF SettledInv
  <2>5. 0 \in 0..Word - 1 /\ Need[i][x] \in 0..Word - 1
    BY <1>1, SettingFacts
  <2>6. allocated[x] = 0
    BY <1>1, <2>4, <2>5, ModFacts
  <2>7. (0 + Need[i][x]) % Word = Need[i][x]
    <3>1. PICK n \in 0..Word - 1 : n = Need[i][x]
      BY <2>5
    <3>2. n % Word = n /\ 0 + n = n
      BY <1>1, ModFacts
    <3> QED
      BY <3>1, <3>2
  <2>8. Need[i][x] <= limit[x]
    BY <1>1, <1>3, LimitFacts
  <2> QED
    BY <2>6, <2>7, <2>8
<1> QED
  BY <1>1, <1>3, <1>4 DEF Fits

\* NoModel refuses a request; RequestReturns lets its caller go.
LEMMA CallerMoves ==
  ASSUME RInv, UNCHANGED setting, NEW r \in Asking, NoModel(r) \/ RequestReturns(r)
  PROVE RInv'
<1>1. r \in Requests /\ Caller(r) \in Actors
  BY SettingFacts, ActorFacts DEF RInv, RLTypeOK
<1>2. PICK p \in Actors : p = Caller(r)
  BY <1>1
<1>3. /\ p # Manager /\ \A q : p # Executor(q)
      /\ \A q : p = Caller(q) => q = r
  BY <1>2, ActorFacts
<1>4. PICK w \in {"refused", "accepted"} :
        /\ pc' = [pc EXCEPT ![p] = w]
        /\ w = "refused" => pc[p] = "new"
        /\ w = "accepted" => pc[p] = "staged"
        /\ ctxMtx' = ctxMtx \/ ctxMtx' = Free
        /\ UNCHANGED <<execCount, registered, limit, allocated, qMtx, sMtx, backup>>
        /\ SameWork
  BY <1>2 DEF NoModel, RequestReturns, At, Goto, SameWork, queueVars, instVars, resVars
<1>5. MayMove(p, w)
  BY <1>3, <1>4 DEF MayGo, MayMove, CallerPCs
<1>6. KeepsSeeking(p) /\ KeepsTrying(p)
  BY <1>3, <1>4 DEF KeepsSeeking, Seeks, KeepsTrying, Tries
<1>7. /\ w \in PCs /\ Moves(p, w) /\ w \notin {"loop", "onstage", "decide"}
      /\ ctxMtx' \in Actors \cup {Free}
  BY <1>4 DEF PCs, Moves, RInv, RLTypeOK
<1> QED
  BY <1>3, <1>4, <1>5, <1>6, <1>7, PureMove

\* A thread of a staging loop: a caller or an executor.
LEMMA LoopThread ==
  ASSUME RInv, NEW r \in Asking, NEW p, p \in {Caller(r), Executor(r)},
         pc[p] \in {"stage", "loop", "onstage", "attempt", "resources", "pending", "check"}
  PROVE /\ p \in Actors /\ p # Manager /\ r \in Requests
        /\ ModelOfActor(p) = Wants[r].model /\ Wants[r].model \in Models
        /\ Called(r) \/ p = Caller(r)
        /\ p = Executor(r) => Called(r) /\ Instance(p) = on[r]
        /\ p = Executor(r) => on[r] \in Instances /\ ModelOf(on[r]) = Wants[r].model
        /\ p = Executor(r) \/ pc[p] \in {"stage", "loop", "onstage"}
        /\ \A q : (p = Caller(q) \/ p = Executor(q)) => q = r
        /\ Came(r) /\ (p = Caller(r) => \A q : p # Executor(q)) /\ (p = Executor(r) => \A q : p # Caller(q))
<1>1. r \in Requests /\ Wants[r].model \in Models
  BY SettingFacts DEF RInv, RLTypeOK
<1>2. p = Caller(r) => Came(r) /\ pc[p] \in {"stage", "loop", "onstage"}
  BY <1>1 DEF RInv, ThreadsInv, CallerPCs, Came
<1>3. p = Executor(r) => Called(r)
  BY DEF Called
<1>4. Called(r) => Came(r) /\ on[r] \in Instances /\ ModelOf(on[r]) = Wants[r].model
  BY <1>1 DEF RInv, SeatsInv, OneSeat, ThreadsInv
<1> QED
  BY <1>1, <1>2, <1>3, <1>4, ActorFacts, ActorWork

\* AttemptAllocation finds nothing that fits.
LEMMA NothingFitsKeeps ==
  ASSUME RInv, UNCHANGED setting, NEW r \in Asking, NEW p, p \in {Caller(r), Executor(r)},
         NothingFits(p)
  PROVE RInv'
<1>1. pc[p] \in {"onstage", "attempt"}
  BY DEF NothingFits
<1>2. /\ p \in Actors /\ p # Manager /\ r \in Requests
      /\ p = Executor(r) \/ pc[p] \in {"stage", "loop", "onstage"}
      /\ p = Executor(r) => Called(r)
      /\ \A q : (p = Caller(q) \/ p = Executor(q)) => q = r
      /\ Came(r) /\ (p = Caller(r) => \A q : p # Executor(q)) /\ (p = Executor(r) => \A q : p # Caller(q))
  BY <1>1, LoopThread
<1>3. PICK w \in {"loop", "check"} :
        /\ pc' = [pc EXCEPT ![p] = w]
        /\ pc[p] = "onstage" <=> w = "loop"
        /\ UNCHANGED <<execCount, registered, limit, allocated, qMtx, sMtx, backup, ctxMtx>>
        /\ SameWork
  BY <1>1 DEF NothingFits, Goto, Attempted, At, SameWork, queueVars, instVars, resVars
<1>4. MayMove(p, w)
  <2>1. p = Caller(r) => w = "loop" /\ pc[p] = "onstage"
    BY <1>1, <1>2, <1>3
  <2>2. p = Executor(r) => pc[p] # "idle"
    BY <1>1
  <2> QED
    BY <1>2, <1>3, <2>1, <2>2 DEF MayGo, MayMove, CallerPCs, ExecutorPCs
<1>5. pc'[p] = w /\ \A q \in Actors : q # p => pc'[q] = pc[q]
  BY <1>2, <1>3 DEF RInv, RLTypeOK
<1>6. KeepsSeeking(p)
  <2>1. ModelOfActor(p)' = ModelOfActor(p) /\ \A i : ModelOf(i)' = ModelOf(i)
    BY <1>3, OwnInstanceStays, SettingFixed
  <2> QED
    BY <1>1, <1>3, <1>5, <2>1 DEF KeepsSeeking, Seeks
<1>7. KeepsTrying(p)
  <2> SUFFICES ASSUME Settled, staged # {}, Allocated = {} PROVE \E q \in Actors : Tries(q)'
    BY DEF KeepsTrying
  <2>1. PICK i \in staged : ~Fits(i)
    BY DEF NothingFits, Top
  <2>2. Releasing # {}
    BY <2>1, FitsWhenFree DEF RInv
  <2>3. PICK q \in Requests : pc[Executor(q)] = "resources"
    BY <2>2 DEF Releasing
  <2>4. Executor(q) # p /\ Executor(q) \in Actors
    BY <1>1, <2>3, ActorFacts
  <2>5. pc'[Executor(q)] = "resources"
    BY <1>5, <2>3, <2>4
  <2> QED
    BY <2>4, <2>5 DEF Tries
<1>8. /\ w \in PCs /\ Moves(p, w) /\ w # "decide" /\ w # "resources" /\ pc[p] # "resources"
      /\ w \in {"loop", "onstage"} => InLoop(p)
      /\ ctxMtx' \in Actors \cup {Free}
  BY <1>1, <1>3 DEF PCs, Moves, RInv, RLTypeOK, InLoop
<1> QED
  BY <1>2, <1>3, <1>4, <1>6, <1>7, <1>8, PureMove

\* Release looks for requests for its instance, or finds its context erased.
LEMMA ExecutorMoves ==
  ASSUME RInv, UNCHANGED setting, NEW r \in Asking, NEW p, p = Executor(r),
         LookForRequests(p) \/ Dangle(p)
  PROVE RInv'
<1>1. r \in Requests /\ p \in Actors /\ Wants[r].model \in Models
  BY SettingFacts, ActorFacts DEF RInv, RLTypeOK
<1>2. /\ p # Manager /\ \A q : p # Caller(q)
      /\ \A q : p = Executor(q) => q = r
  BY ActorFacts
<1>3. PICK w \in {"stage", "attempt", "dangling"} :
        /\ pc' = [pc EXCEPT ![p] = w]
        /\ UNCHANGED <<execCount, registered, limit, allocated, qMtx, sMtx, backup, ctxMtx>>
        /\ SameWork
        /\ pc[p] \in {"running", "pending", "stage", "check"}
        /\ w # "dangling" =>
             pc[p] = "pending" /\ (Pending(Instance(p)) => w = "stage")
        /\ w = "dangling" => ctx[ModelOfActor(p)] # "present"
  BY DEF LookForRequests, Dangle, Goto, At, Alive, SameWork, queueVars, instVars, resVars
<1>4. Called(r) /\ on[r] \in Instances /\ ModelOf(on[r]) = Wants[r].model
  BY <1>1, <1>3 DEF RInv, ThreadsInv, Called
<1>5. MayMove(p, w)
  BY <1>2, <1>3 DEF MayGo, MayMove, ExecutorPCs
<1>6. pc'[p] = w /\ \A q \in Actors : q # p => pc'[q] = pc[q]
  BY <1>1, <1>3 DEF RInv, RLTypeOK
<1>7. ModelOfActor(p) = Wants[r].model /\ Instance(p) = on[r]
  BY ActorWork
<1>8. /\ ModelOfActor(p)' = ModelOfActor(p) /\ \A i : ModelOf(i)' = ModelOf(i)
  BY <1>3, OwnInstanceStays, SettingFixed
<1>9. KeepsSeeking(p)
  <2> SUFFICES ASSUME NEW i \in avbl, state[i] = "AVAILABLE", Pending(i), Seeks(p, i)
               PROVE Seeks(p, i)'
    BY DEF KeepsSeeking
  <2>1. ModelOf(i) = ModelOfActor(p)
    BY <1>4, <1>7 DEF Seeks
  <2>2. ctx[ModelOf(i)] = "present"
    BY DEF RInv, RLTypeOK, StatesInv, InstanceSound
  <2>3. w # "dangling"
    BY <1>3, <2>1, <2>2
  <2>4. Instance(p) = i
    BY <1>3, <2>3 DEF Seeks
  <2>5. w = "stage"
    BY <1>3, <2>3, <2>4
  <2> QED
    BY <1>2, <1>6, <1>8, <2>1, <2>5 DEF Seeks
<1>10. KeepsTrying(p)
  <2> SUFFICES ASSUME Settled PROVE Tries(p)'
    BY <1>1 DEF KeepsTrying
  <2>1. ctx[ModelOfActor(p)] = "present"
    BY <1>1, <1>7 DEF RInv, SettledInv
  <2>2. w \in {"stage", "attempt"}
    BY <1>3, <2>1
  <2> QED
    BY <1>1, <1>6, <2>2 DEF Tries
<1>11. /\ w \in PCs /\ Moves(p, w) /\ w \notin {"loop", "onstage", "decide", "resources"}
       /\ ctxMtx' \in Actors \cup {Free} /\ pc[p] # "resources"
  BY <1>3 DEF PCs, Moves, RInv, RLTypeOK
<1> QED
  BY <1>1, <1>2, <1>3, <1>5, <1>9, <1>10, <1>11, PureMove

\* The loop begins: its thread takes the queues of the model.
LEMMA EnterLoopKeeps ==
  ASSUME RInv, UNCHANGED setting, NEW r \in Asking, NEW p, p \in {Caller(r), Executor(r)},
         EnterLoop(p)
  PROVE RInv'
<1>1. pc[p] = "stage"
  BY DEF EnterLoop, At
<1>2. /\ p \in Actors /\ p # Manager /\ r \in Requests
      /\ ModelOfActor(p) = Wants[r].model /\ Wants[r].model \in Models
      /\ \A q : (p = Caller(q) \/ p = Executor(q)) => q = r
      /\ Came(r) /\ (p = Caller(r) => \A q : p # Executor(q)) /\ (p = Executor(r) => \A q : p # Caller(q))
  BY <1>1, LoopThread
<1>3. /\ Moves(p, "loop") /\ SameWork
      /\ UNCHANGED <<execCount, registered, limit, allocated, sMtx, ctxMtx>>
      /\ qMtx[ModelOfActor(p)] = Free /\ qMtx' = [qMtx EXCEPT ![ModelOfActor(p)] = p]
      /\ backup' = [backup EXCEPT ![p] = {}]
  BY DEF EnterLoop, Moves, Goto, SameWork, queueVars, instVars, resVars
<1>4. /\ qMtx \in [Models -> Actors \cup {Free}] /\ backup \in [Actors -> SUBSET Instances]
      /\ pc \in [Actors -> PCs] /\ RLTypeOK
  BY DEF RInv, RLTypeOK
<1>5. pc'[p] = "loop" /\ \A q \in Actors : q # p => pc'[q] = pc[q]
  BY <1>2, <1>3, <1>4 DEF Moves
<1>6. RLTypeOK'
  <2>1. OthersTyped
    BY <1>2, <1>3, <1>4 DEF RLTypeOK, OthersTyped
  <2>2. "loop" \in PCs
    BY DEF PCs
  <2> QED
    BY <1>2, <1>3, <1>4, <2>1, <2>2, TypeMove
<1>7. MayMove(p, "loop")
  BY <1>1, <1>2 DEF MayGo, MayMove, CallerPCs, ExecutorPCs
<1>8. ThreadsInv' /\ StatesInv' /\ SeatsInv'
  BY <1>2, <1>3, <1>7, MoveKeeps DEF RInv
<1>9. /\ \A q : ModelOfActor(q)' = ModelOfActor(q) /\ Instance(q)' = Instance(q)
      /\ \A i : ModelOf(i)' = ModelOf(i)
      /\ \A m : NothingNew(m)
  BY <1>3, OwnInstanceStays, SettingFixed, InstancesFrame DEF SameWork, NothingNew
<1>10. LocksInv'
  <2>1. ASSUME NEW q \in Actors PROVE CheckOf(q)'
    <3>1. At(q, "decide")' => At(q, "decide")
      BY <1>5 DEF At
    <3> QED
      BY <1>3, <1>9, <3>1, CheckFrame DEF RInv, LocksInv, SameWork
  <2>2. LoopOf(p)'
    BY <1>2, <1>3, <1>4, <1>5, <1>9 DEF LoopOf
  <2>3. ASSUME NEW q \in Actors, q # p PROVE LoopOf(q)'
    <3>1. LoopOf(q) /\ (InLoop(q)' <=> InLoop(q))
      BY <1>5, <2>3 DEF RInv, LocksInv, InLoop
    <3>2. q # Free
      BY ActorFacts
    <3>3. qMtx[ModelOfActor(q)] = q => qMtx'[ModelOfActor(q)] = q
      BY <1>3, <1>4, <3>2
    <3>4. backup'[q] = backup[q]
      BY <1>3, <1>4, <2>3
    <3> QED
      BY <1>4, <1>9, <3>1, <3>3, <3>4, LoopFrame DEF RInv
  <2> QED
    BY <2>1, <2>2, <2>3 DEF LocksInv
<1>11. KeepsSeeking(p)
  BY <1>1, <1>5, <1>9 DEF KeepsSeeking, Seeks
<1>12. SeenInv'
  BY <1>2, <1>3, <1>11, SeenMove DEF RInv
<1>13. KeepsTrying(p)
  BY <1>1, <1>2, <1>5 DEF KeepsTrying, Tries
<1>14. SettledInv'
  BY <1>1, <1>2, <1>3, <1>13, SettledMove DEF RInv
<1> QED
  BY <1>6, <1>8, <1>10, <1>12, <1>14 DEF RInv

\* An instance without requests is put aside.
LEMMA SkipInstanceKeeps ==
  ASSUME RInv, UNCHANGED setting, NEW r \in Asking, NEW p, p \in {Caller(r), Executor(r)},
         SkipInstance(p)
  PROVE RInv'
<1>1. pc[p] = "loop"
  BY DEF SkipInstance, At
<1>2. /\ p \in Actors /\ p # Manager /\ r \in Requests
      /\ ModelOfActor(p) = Wants[r].model /\ Wants[r].model \in Models
      /\ \A q : (p = Caller(q) \/ p = Executor(q)) => q = r
      /\ Came(r) /\ (p = Caller(r) => \A q : p # Executor(q)) /\ (p = Executor(r) => \A q : p # Caller(q))
  BY <1>1, LoopThread
<1>3. /\ UNCHANGED pc /\ SameWork
      /\ UNCHANGED <<execCount, registered, limit, allocated, qMtx, sMtx, ctxMtx>>
  BY DEF SkipInstance, SameWork, queueVars, instVars, resVars
<1>4. PICK i \in avbl \cap Own(ModelOfActor(p)) :
        ~Pending(i) /\ backup' = [backup EXCEPT ![p] = @ \cup {i}]
  BY DEF SkipInstance, Top, Unexamined
<1>5. /\ backup \in [Actors -> SUBSET Instances] /\ pc \in [Actors -> PCs] /\ RLTypeOK
      /\ i \in Instances /\ ModelOf(i) = ModelOfActor(p)
  BY <1>2, <1>4, SettingFacts DEF RInv, RLTypeOK
<1>6. Moves(p, "loop")
  BY <1>1, <1>2, <1>3, <1>5 DEF Moves
<1>7. /\ backup' \in [Actors -> SUBSET Instances] /\ backup'[p] = backup[p] \cup {i}
      /\ \A q \in Actors : q # p => backup'[q] = backup[q]
  BY <1>2, <1>4, <1>5
<1>8. RLTypeOK'
  <2>1. OthersTyped
    BY <1>3, <1>5, <1>7 DEF RLTypeOK, OthersTyped
  <2>2. "loop" \in PCs
    BY DEF PCs
  <2> QED
    BY <1>2, <1>3, <1>5, <1>6, <2>1, <2>2, TypeMove
<1>9. MayMove(p, "loop")
  BY <1>1, <1>2 DEF MayGo, MayMove, CallerPCs, ExecutorPCs
<1>10. ThreadsInv' /\ StatesInv' /\ SeatsInv'
  BY <1>2, <1>3, <1>6, <1>9, MoveKeeps DEF RInv
<1>11. /\ \A q : ModelOfActor(q)' = ModelOfActor(q) /\ Instance(q)' = Instance(q)
       /\ \A j : ModelOf(j)' = ModelOf(j) /\ (Pending(j)' <=> Pending(j))
       /\ \A m : NothingNew(m)
  BY <1>3, OwnInstanceStays, SettingFixed, InstancesFrame DEF SameWork, NothingNew
<1>12. LocksInv'
  <2>1. ASSUME NEW q \in Actors PROVE CheckOf(q)'
    <3>1. At(q, "decide")' => At(q, "decide")
      BY <1>3 DEF At
    <3> QED
      BY <1>3, <1>11, <3>1, CheckFrame DEF RInv, LocksInv, SameWork
  <2>2. LoopOf(p)'
    <3>1. LoopOf(p) /\ InLoop(p)
      BY <1>1, <1>2 DEF RInv, LocksInv, InLoop
    <3> QED
      BY <1>3, <1>4, <1>5, <1>7, <1>11, <3>1 DEF LoopOf
  <2>3. ASSUME NEW q \in Actors, q # p PROVE LoopOf(q)'
    <3>1. LoopOf(q) /\ (InLoop(q)' <=> InLoop(q)) /\ backup'[q] = backup[q]
      BY <1>3, <1>7, <2>3 DEF RInv, LocksInv, InLoop
    <3> QED
      BY <1>3, <1>5, <1>11, <3>1, LoopFrame DEF RInv
  <2> QED
    BY <2>1, <2>2, <2>3 DEF LocksInv
<1>13. KeepsSeeking(p)
  BY <1>1, <1>3, <1>11 DEF KeepsSeeking, Seeks
<1>14. SeenInv'
  BY <1>2, <1>3, <1>6, <1>13, SeenMove DEF RInv
<1>15. KeepsTrying(p)
  BY <1>1, <1>2, <1>3 DEF KeepsTrying, Tries
<1>16. SettledInv'
  BY <1>1, <1>2, <1>3, <1>6, <1>15, SettledMove DEF RInv
<1> QED
  BY <1>8, <1>10, <1>12, <1>14, <1>16 DEF RInv

\* Every available instance was offered: the queues are given back.
LEMMA LeaveLoopKeeps ==
  ASSUME RInv, UNCHANGED setting, NEW r \in Asking, NEW p, p \in {Caller(r), Executor(r)},
         LeaveLoop(p)
  PROVE RInv'
<1>1. pc[p] = "loop" /\ Unexamined(p) = {}
  BY DEF LeaveLoop, At
<1>2. /\ p \in Actors /\ p # Manager /\ r \in Requests
      /\ ModelOfActor(p) = Wants[r].model /\ Wants[r].model \in Models
      /\ \A q : (p = Caller(q) \/ p = Executor(q)) => q = r
      /\ Came(r) /\ (p = Caller(r) => \A q : p # Executor(q)) /\ (p = Executor(r) => \A q : p # Caller(q))
  BY <1>1, LoopThread
<1>3. PICK w \in {"staged", "attempt"} :
        /\ Moves(p, w) /\ SameWork
        /\ p = Caller(r) <=> w = "staged"
        /\ UNCHANGED <<execCount, registered, limit, allocated, sMtx, ctxMtx>>
        /\ qMtx' = [qMtx EXCEPT ![ModelOfActor(p)] = Free]
        /\ backup' = [backup EXCEPT ![p] = {}]
  BY ActorFacts DEF LeaveLoop, Moves, Goto, SameWork, queueVars, instVars, resVars
<1>4. /\ qMtx \in [Models -> Actors \cup {Free}] /\ backup \in [Actors -> SUBSET Instances]
      /\ pc \in [Actors -> PCs] /\ RLTypeOK
  BY DEF RInv, RLTypeOK
<1>5. pc'[p] = w /\ \A q \in Actors : q # p => pc'[q] = pc[q]
  BY <1>2, <1>3, <1>4 DEF Moves
<1>6. RLTypeOK'
  <2>1. OthersTyped
    BY <1>2, <1>3, <1>4 DEF RLTypeOK, OthersTyped
  <2>2. w \in PCs
    BY DEF PCs
  <2> QED
    BY <1>2, <1>3, <1>4, <2>1, <2>2, TypeMove
<1>7. MayMove(p, w)
  BY <1>1, <1>2, <1>3 DEF MayGo, MayMove, CallerPCs, ExecutorPCs
<1>8. ThreadsInv' /\ StatesInv' /\ SeatsInv'
  BY <1>2, <1>3, <1>7, MoveKeeps DEF RInv
<1>9. /\ \A q : ModelOfActor(q)' = ModelOfActor(q) /\ Instance(q)' = Instance(q)
      /\ \A i : ModelOf(i)' = ModelOf(i)
      /\ \A m : NothingNew(m)
  BY <1>3, OwnInstanceStays, SettingFixed, InstancesFrame DEF SameWork, NothingNew
<1>10. LoopOf(p) /\ InLoop(p)
  BY <1>1, <1>2 DEF RInv, LocksInv, InLoop
<1>11. LocksInv'
  <2>1. ASSUME NEW q \in Actors PROVE CheckOf(q)'
    <3>1. At(q, "decide")' => At(q, "decide")
      BY <1>5 DEF At
    <3> QED
      BY <1>3, <1>9, <3>1, CheckFrame DEF RInv, LocksInv, SameWork
  <2>2. LoopOf(p)'
    BY <1>5 DEF LoopOf, InLoop
  <2>3. ASSUME NEW q \in Actors, q # p PROVE LoopOf(q)'
    <3>1. LoopOf(q) /\ (InLoop(q)' <=> InLoop(q))
      BY <1>5, <2>3 DEF RInv, LocksInv, InLoop
    <3>2. qMtx[ModelOfActor(q)] = q => qMtx'[ModelOfActor(q)] = q
      BY <1>3, <1>4, <1>10, <2>3 DEF LoopOf
    <3>3. backup'[q] = backup[q]
      BY <1>3, <1>4, <2>3
    <3> QED
      BY <1>4, <1>9, <3>1, <3>2, <3>3, LoopFrame DEF RInv
  <2> QED
    BY <2>1, <2>2, <2>3 DEF LocksInv
<1>12. KeepsSeeking(p)
  <2>1. ASSUME NEW i \in avbl, Pending(i), Seeks(p, i) PROVE FALSE
    <3>1. ModelOf(i) = ModelOfActor(p) /\ i \in Instances
      BY <1>1, <1>4, <2>1 DEF Seeks, RLTypeOK
    <3>2. i \in Own(ModelOfActor(p))
      BY <1>4, <3>1, SettingFacts DEF RLTypeOK
    <3>3. i \in backup[p]
      BY <1>1, <3>2 DEF Unexamined
    <3> QED
      BY <1>10, <2>1, <3>3 DEF LoopOf
  <2> QED
    BY <2>1 DEF KeepsSeeking
<1>13. SeenInv'
  BY <1>2, <1>3, <1>12, SeenMove DEF RInv
<1>14. KeepsTrying(p)
  <2>1. CASE p = Caller(r)
    BY <1>1, <1>2, <2>1 DEF KeepsTrying, Tries
  <2>2. CASE p = Executor(r)
    BY <1>2, <1>3, <1>5, <2>2 DEF KeepsTrying, Tries
  <2> QED
    BY <2>1, <2>2
<1>15. SettledInv'
  BY <1>1, <1>2, <1>3, <1>14, SettledMove DEF RInv
<1> QED
  BY <1>6, <1>8, <1>11, <1>13, <1>15 DEF RInv

\* The instance of a removal check.
LEMMA CheckThread ==
  ASSUME RInv, NEW p, p = Manager \/ (\E r \in Asking : p = Executor(r)),
         pc[p] \in {"check", "decide"}
  PROVE /\ p \in Actors /\ Instance(p) \in Instances /\ \A r : p # Caller(r)
        /\ (p = Manager => ~Settled) /\ ModelOf(Instance(p)) = ModelOfActor(p)
        /\ ModelOfActor(p) \in Models
<1>1. setting \in DOMAIN Settings
  BY DEF RInv, RLTypeOK
<1>2. CASE p = Manager
  <2>1. target.model \in Models /\ target.index \in 1..Len(InstancesOf[target.model])
    BY <1>2 DEF RInv, RLTypeOK, StatesInv, RemovalInv
  <2>2. ~Settled
    BY <1>2 DEF RInv, SettledInv
  <2> QED
    BY <1>1, <1>2, <2>1, <2>2, SettingFacts, ActorFacts, ActorWork
<1>3. CASE \E r \in Asking : p = Executor(r)
  <2>1. PICK r \in Asking : p = Executor(r)
    BY <1>3
  <2>2. r \in Requests /\ Wants[r].model \in Models
    BY <1>1, SettingFacts
  <2>3. on[r] \in Instances /\ ModelOf(on[r]) = Wants[r].model
    BY <2>1, <2>2 DEF RInv, ThreadsInv, Called
  <2> QED
    BY <2>1, <2>2, <2>3, ActorFacts, ActorWork
<1> QED
  BY <1>2, <1>3

\* The removal check takes state_mtx_ of an idle instance.
LEMMA BeginCheckKeeps ==
  ASSUME RInv, UNCHANGED setting, NEW p, p = Manager \/ (\E r \in Asking : p = Executor(r)),
         BeginCheck(p)
  PROVE RInv'
<1>1. pc[p] = "check"
  BY DEF BeginCheck, At
<1>2. /\ p \in Actors /\ Instance(p) \in Instances /\ \A r : p # Caller(r)
      /\ p = Manager => ~Settled
  BY <1>1, CheckThread
<1>3. PICK i \in Instances : i = Instance(p)
  BY <1>2
<1>4. PICK w \in {"decide", "wait", "done"} :
        /\ Moves(p, w) /\ SameWork
        /\ p = Manager => w # "done"
        /\ p # Manager => w # "wait"
        /\ UNCHANGED <<execCount, registered, limit, allocated, qMtx, backup, ctxMtx>>
        /\ sMtx[i] = Free
        /\ w = "decide" => state[i] = "AVAILABLE" /\ removing[ModelOf(i)]
        /\ sMtx' = IF w = "decide" THEN [sMtx EXCEPT ![i] = p] ELSE sMtx
  BY <1>3 DEF BeginCheck, Checked, Moves, Goto, SameWork, queueVars, instVars, resVars
<1>5. /\ sMtx \in [Instances -> Actors \cup {Free}] /\ pc \in [Actors -> PCs] /\ RLTypeOK
  BY DEF RInv, RLTypeOK
<1>6. pc'[p] = w /\ \A q \in Actors : q # p => pc'[q] = pc[q]
  BY <1>2, <1>4, <1>5 DEF Moves
<1>7. sMtx' \in [Instances -> Actors \cup {Free}]
  BY <1>2, <1>4, <1>5
<1>8. RLTypeOK'
  <2>1. OthersTyped
    BY <1>4, <1>5, <1>7 DEF RLTypeOK, OthersTyped
  <2>2. w \in PCs
    BY DEF PCs
  <2> QED
    BY <1>2, <1>4, <1>5, <2>1, <2>2, TypeMove
<1>9. MayMove(p, w)
  BY <1>1, <1>2, <1>4, ActorFacts DEF MayGo, MayMove, ManagerPCs, ExecutorPCs
<1>10. ThreadsInv' /\ StatesInv' /\ SeatsInv'
  BY <1>2, <1>4, <1>9, MoveKeeps DEF RInv
<1>11. /\ \A q : ModelOfActor(q)' = ModelOfActor(q) /\ Instance(q)' = Instance(q)
       /\ \A j : ModelOf(j)' = ModelOf(j)
       /\ \A m : NothingNew(m)
  BY <1>4, OwnInstanceStays, SettingFixed, InstancesFrame DEF SameWork, NothingNew
<1>12. LocksInv'
  <2>1. CheckOf(p)'
    <3>1. CASE w = "decide"
      BY <1>3, <1>4, <1>5, <1>11, <3>1 DEF CheckOf, SameWork
    <3>2. CASE w # "decide"
      BY <1>6, <3>2 DEF CheckOf, At
    <3> QED
      BY <3>1, <3>2
  <2>2. ASSUME NEW q \in Actors, q # p PROVE CheckOf(q)'
    <3>1. At(q, "decide")' <=> At(q, "decide")
      BY <1>6, <2>2 DEF At
    <3>2. q # Free
      BY ActorFacts
    <3>3. sMtx[Instance(q)] = q => sMtx'[Instance(q)] = q
      BY <1>4, <1>5, <3>2
    <3> QED
      BY <1>4, <1>11, <3>1, <3>3, CheckFrame DEF RInv, LocksInv, SameWork
  <2>3. ASSUME NEW q \in Actors PROVE LoopOf(q)'
    <3>1. LoopOf(q) /\ (InLoop(q)' => InLoop(q))
      BY <1>6 DEF RInv, LocksInv, InLoop
    <3> QED
      BY <1>4, <1>5, <1>11, <3>1, LoopFrame DEF RInv
  <2> QED
    BY <2>1, <2>2, <2>3 DEF LocksInv
<1>13. KeepsSeeking(p) /\ KeepsTrying(p)
  BY <1>1 DEF KeepsSeeking, Seeks, KeepsTrying, Tries
<1>14. SeenInv'
  BY <1>2, <1>4, <1>13, SeenMove DEF RInv
<1>15. SettledInv'
  BY <1>1, <1>2, <1>4, <1>13, SettledMove DEF RInv
<1> QED
  BY <1>8, <1>10, <1>12, <1>14, <1>15 DEF RInv

\* The limits are computed again, which changes nothing that is settled.
LEMMA UpdateResourceLimitsKeeps ==
  ASSUME RInv, UNCHANGED setting, UpdateResourceLimits
  PROVE RInv'
<1>1. /\ pc[Manager] = "limits" /\ limit' = Limits(registered)
      /\ Moves(Manager, "idle") /\ SameWork
      /\ UNCHANGED <<execCount, registered, allocated, qMtx, sMtx, backup, ctxMtx>>
  BY DEF UpdateResourceLimits, At, Moves, Goto, SameWork, queueVars, instVars, resVars
<1>2. RLTypeOK /\ Manager \in Actors /\ "idle" \in PCs /\ \A r : Manager # Caller(r) /\ Manager # Executor(r)
  BY ActorFacts DEF RInv, PCs
<1>3. OthersTyped
  <2>1. setting \in DOMAIN Settings /\ registered \in SUBSET Instances /\ Word \in Nat
    BY <1>2, RateLimiterAssumption DEF RLTypeOK
  <2>2. Limits(registered) \in [Resources -> 0..Word - 1]
    BY <2>1, LimitFacts
  <2>3. Limits(registered) \in [Resources -> Nat]
    BY <2>1, <2>2
  <2> QED
    BY <1>1, <1>2, <2>3 DEF OthersTyped, RLTypeOK
<1>4. RLTypeOK'
  BY <1>1, <1>2, <1>3, TypeMove
<1>5. MayMove(Manager, "idle")
  BY <1>2 DEF MayGo, MayMove, ManagerPCs
<1>6. ThreadsInv' /\ StatesInv' /\ SeatsInv'
  BY <1>1, <1>2, <1>5, MoveKeeps DEF RInv
<1>7. LocksInv'
  BY <1>1, <1>2, LocksSame DEF RInv
<1>8. SeenInv'
  <2>1. KeepsSeeking(Manager)
    BY DEF KeepsSeeking, Seeks
  <2> QED
    BY <1>1, <1>2, <2>1, SeenMove DEF RInv
<1>9. SettledInv'
  <2>1. ~Settled /\ Settled' = Settled
    BY <1>1, SettingFixed DEF RInv, SettledInv
  <2> QED
    BY <2>1 DEF SettledInv
<1> QED
  BY <1>4, <1>6, <1>7, <1>8, <1>9 DEF RInv

\* What is in use or on its way back, of resource x.
Out(x) == InUse(x) + InReturn(x)

\* What the instances and the returning executors have.
LEMMA SumFacts ==
  ASSUME RLTypeOK, ThreadsInv, NEW x \in Resources
  PROVE /\ IsFiniteSet(Allocated) /\ IsFiniteSet(Releasing)
        /\ \A i \in Allocated : Need[i][x] \in Nat
        /\ \A r \in Releasing : on[r] \in Instances /\ Need[on[r]][x] \in Nat
        /\ InUse(x) \in Nat /\ InReturn(x) \in Nat
<1>1. setting \in DOMAIN Settings /\ Word \in Nat
  BY RateLimiterAssumption DEF RLTypeOK
<1>2. IsFiniteSet(Instances) /\ IsFiniteSet(Requests) /\ \A i \in Instances : Need[i][x] \in Nat
  BY <1>1, SettingFacts
<1>3. IsFiniteSet(Allocated) /\ IsFiniteSet(Releasing)
  <2>1. Allocated \subseteq Instances /\ Releasing \subseteq Requests
    BY DEF Allocated, Releasing
  <2> QED
    BY <1>2, <2>1, FS_Subset
<1>4. \A i \in Allocated : Need[i][x] \in Nat
  BY <1>2 DEF Allocated
<1>5. \A r \in Releasing : on[r] \in Instances /\ Need[on[r]][x] \in Nat
  BY <1>2 DEF Releasing, ThreadsInv, Called
<1>6. InUse(x) \in Nat
  <2>1. PICK f : f = [i \in Allocated |-> Need[i][x]]
    OBVIOUS
  <2>2. f \in [Allocated -> Nat]
    BY <1>4, <2>1
  <2> QED
    BY <1>3, <2>1, <2>2, TotalType DEF InUse
<1>7. InReturn(x) \in Nat
  <2>1. PICK f : f = [r \in Releasing |-> Need[on[r]][x]]
    OBVIOUS
  <2>2. f \in [Releasing -> Nat]
    BY <1>5, <2>1
  <2> QED
    BY <1>3, <2>1, <2>2, TotalType DEF InReturn
<1> QED
  BY <1>3, <1>4, <1>5, <1>6, <1>7

\* Counters that go with a sum.
LEMMA CounterFacts ==
  ASSUME NEW W \in Nat \ {0}, NEW a \in Nat, NEW n \in Nat
  PROVE /\ ((a % W) + n) % W = (a + n) % W
        /\ (((a + n) % W) - n) % W = a % W
<1>1. a \in Int /\ n \in Int /\ -n \in Int /\ a + n \in Int
  OBVIOUS
<1>2. ((a % W) + n) % W = (a + n) % W
  BY <1>1, ModSum
<1>3. (((a + n) % W) + (-n)) % W = ((a + n) + (-n)) % W
  BY <1>1, ModSum
<1>4. (a + n) + (-n) = a
  OBVIOUS
<1>5. (a + n) % W \in Int
  BY <1>1, ModFacts
<1>6. ((a + n) % W) + (-n) = ((a + n) % W) - n
  <2>1. PICK b \in Int : b = (a + n) % W
    BY <1>5
  <2> QED
    BY <2>1
<1> QED
  BY <1>2, <1>3, <1>4, <1>6

\* The removal check ends: an instance without requests is removed.
LEMMA DecideKeeps ==
  ASSUME RInv, UNCHANGED setting, NEW p, p = Manager \/ (\E r \in Asking : p = Executor(r)),
         Decide(p)
  PROVE RInv'
<1>1. pc[p] = "decide"
  BY DEF Decide, At
<1>2. /\ p \in Actors /\ Instance(p) \in Instances /\ \A r : p # Caller(r)
      /\ p = Manager => ~Settled
  BY <1>1, CheckThread
<1>3. PICK i \in Instances : i = Instance(p)
  BY <1>2
<1>4. PICK w \in {"wait", "done"} :
        /\ Moves(p, w) /\ (p = Manager <=> w = "wait")
        /\ UNCHANGED <<ctx, removing, generic, specific, avbl, sched, staged, on, target>>
        /\ UNCHANGED <<execCount, registered, limit, allocated, qMtx, backup, ctxMtx>>
        /\ state' = IF Pending(i) THEN state ELSE [state EXCEPT ![i] = "REMOVED"]
        /\ sMtx' = [sMtx EXCEPT ![i] = Free]
  BY <1>3 DEF Decide, Checked, Moves, Goto, queueVars, instVars, resVars
<1>5. /\ sMtx \in [Instances -> Actors \cup {Free}] /\ pc \in [Actors -> PCs] /\ RLTypeOK
      /\ setting \in DOMAIN Settings /\ ModelOf(i) \in Models
      /\ state \in [Instances -> {"AVAILABLE", "STAGED", "ALLOCATED", "REMOVED"}]
  BY SettingFacts DEF RInv, RLTypeOK
<1>6. sMtx[i] = p /\ state[i] = "AVAILABLE" /\ removing[ModelOf(i)]
  BY <1>1, <1>2, <1>3 DEF RInv, LocksInv, CheckOf, At
<1>7. /\ ~Settled /\ Settled' = Settled
      /\ Models' = Models /\ Instances' = Instances /\ InstancesOf' = InstancesOf
      /\ Resources' = Resources /\ Wants' = Wants /\ Asking' = Asking
      /\ IgnoreResources' = IgnoreResources
      /\ \A j : ModelOf(j)' = ModelOf(j)
      /\ \A m : Own(m)' = Own(m)
  BY <1>5, <1>6, SettingFixed DEF RInv, SettledInv
<1>8. MayMove(p, w)
  BY <1>1, <1>2, <1>4, ActorFacts DEF MayGo, MayMove, ManagerPCs, ExecutorPCs
<1>9. /\ ThreadsInv' /\ pc'[p] = w /\ \A q \in Actors : q # p => pc'[q] = pc[q]
      /\ \A r \in Requests : (Came(r)' <=> Came(r)) /\ (Called(r)' <=> Called(r))
                             /\ (Running(r)' => Running(r))
  BY <1>2, <1>4, <1>5, <1>8, ThreadsMove DEF RInv, MayMove
<1>10. /\ \A j \in Instances : state'[j] = state[j] \/ (j = i /\ ~Pending(i) /\ state'[j] = "REMOVED")
       /\ state' \in [Instances -> {"AVAILABLE", "STAGED", "ALLOCATED", "REMOVED"}]
  BY <1>4, <1>5
<1>11. \A j : Pending(j)' <=> Pending(j)
  BY <1>4, <1>7 DEF Pending
<1>12. RLTypeOK'
  <2>1. pc' \in [Actors -> PCs]
    BY <1>4, <1>5 DEF Moves, PCs
  <2>2. sMtx' \in [Instances -> Actors \cup {Free}]
    BY <1>4, <1>5
  <2> QED
    BY <1>4, <1>5, <1>7, <1>10, <2>1, <2>2 DEF RLTypeOK
<1>13. StatesInv'
  <2>1. ASSUME NEW j \in Instances PROVE InstanceSound(j)'
    <3>1. InstanceSound(j)
      BY DEF RInv, StatesInv
    <3>2. CASE state'[j] = state[j]
      BY <1>4, <1>7, <1>11, <3>1, <3>2 DEF InstanceSound
    <3>3. CASE j = i /\ ~Pending(i) /\ state'[j] = "REMOVED"
      BY <1>4, <1>6, <1>7, <1>11, <3>1, <3>3 DEF InstanceSound
    <3> QED
      BY <1>10, <3>2, <3>3
  <2>2. ASSUME NEW m \in Models PROVE ModelSound(m)'
    <3>1. ModelSound(m)
      BY DEF RInv, StatesInv
    <3>2. \A j \in Own(m) : j \in Instances /\ ModelOf(j) = m
      BY <1>5, SettingFacts
    <3>3. ctx[m] = "none" => m # ModelOf(i)
      BY <1>6, <3>1 DEF ModelSound, Untried
    <3>4. ctx[m] = "none" => \A j \in Own(m) : state'[j] = state[j]
      BY <1>10, <3>2, <3>3
    <3>5. ctx[m] = "removed" => \A j \in Own(m) : state'[j] = "REMOVED"
      BY <1>10, <3>1, <3>2 DEF ModelSound
    <3> QED
      BY <1>4, <1>7, <3>1, <3>4, <3>5 DEF ModelSound, Untried
  <2>3. RemovalInv'
    <3>1. RemovalInv /\ target.model \in Models
      BY DEF RInv, StatesInv, RLTypeOK
    <3>2. /\ pc'[Manager] \in {"check", "decide", "wait", "erase"} =>
                pc[Manager] \in {"check", "decide", "wait", "erase"}
          /\ pc'[Manager] = "erase" => pc[Manager] = "erase"
      BY <1>1, <1>4, <1>9, ActorFacts
    <3>3. \A k \in 1..Len(InstancesOf[target.model]) : InstancesOf[target.model][k] \in Instances
      BY <1>5, <3>1, SettingFacts
    <3>4. \A k \in 1..Len(InstancesOf[target.model]) :
            state[InstancesOf[target.model][k]] = "REMOVED" =>
              state'[InstancesOf[target.model][k]] = "REMOVED"
      BY <1>10, <3>3
    <3> QED
      BY <1>4, <1>7, <3>1, <3>2, <3>4 DEF RemovalInv, At
  <2>4. RunningInv'
    <3>1. \A r \in Requests : Running(r) => on[r] \in Instances /\ state[on[r]] = "ALLOCATED"
      BY DEF RInv, StatesInv, RunningInv, ThreadsInv, Called, Running
    <3>2. \A r \in Requests : Running(r) => state'[on[r]] = "ALLOCATED"
      BY <1>6, <1>10, <3>1
    <3> QED
      BY <1>4, <1>9, <3>2 DEF RInv, StatesInv, RunningInv
  <2> QED
    BY <1>7, <2>1, <2>2, <2>3, <2>4 DEF StatesInv
<1>14. SeatsInv'
  <2>1. SameStaged
    BY <1>4, <1>6, <1>10 DEF SameStaged
  <2> QED
    BY <1>4, <1>9, <2>1, SeatsFrame DEF RInv
<1>15. LocksInv'
  <2>1. \A m : NothingNew(m)
    BY <1>11 DEF NothingNew
  <2>2. \A q : Instance(q)' = Instance(q)
    BY <1>4, <1>7 DEF Instance
  <2>3. ASSUME NEW q \in Actors PROVE LoopOf(q)'
    <3>1. LoopOf(q) /\ (InLoop(q)' => InLoop(q))
      BY <1>4, <1>9 DEF RInv, LocksInv, InLoop
    <3> QED
      BY <1>4, <1>5, <2>1, <3>1, LoopFrame DEF RInv
  <2>4. CheckOf(p)'
    BY <1>4, <1>9 DEF CheckOf, At
  <2>5. ASSUME NEW q \in Actors, q # p PROVE CheckOf(q)'
    <3>1. CheckOf(q) /\ (At(q, "decide")' => At(q, "decide"))
      BY <1>9, <2>5 DEF RInv, LocksInv, At
    <3>2. At(q, "decide") => Instance(q) \in Instances
      <4>1. \A r \in Requests : r \notin Asking => pc[Executor(r)] # "decide"
        BY DEF RInv, ThreadsInv, Called
      <4>2. \A r \in Requests : pc[Caller(r)] # "decide"
        BY DEF RInv, ThreadsInv, CallerPCs
      <4> QED
        BY <4>1, <4>2, ActorFacts, CheckThread DEF At
    <3>3. At(q, "decide") => sMtx[Instance(q)] = q
      BY <3>1 DEF CheckOf
    <3>4. At(q, "decide") => Instance(q) # i
      BY <1>6, <2>5, <3>3
    <3>5. At(q, "decide") => sMtx'[Instance(q)] = q /\ state'[Instance(q)] = state[Instance(q)]
      BY <1>4, <1>5, <1>10, <3>2, <3>3, <3>4
    <3> QED
      BY <1>4, <1>7, <2>2, <3>1, <3>5 DEF CheckOf
  <2> QED
    BY <2>3, <2>4, <2>5 DEF LocksInv
<1>16. SeenInv'
  <2> SUFFICES ASSUME NEW j \in avbl, state'[j] = "AVAILABLE", Pending(j)
               PROVE \E q \in Actors : Seeks(q, j)'
    BY <1>4, <1>11 DEF SeenInv
  <2>1. j \in Instances /\ state[j] = "AVAILABLE"
    BY <1>5, <1>10 DEF RLTypeOK
  <2>2. PICK q \in Actors : Seeks(q, j)
    BY <2>1 DEF RInv, SeenInv
  <2>3. q # p
    BY <1>1, <2>2 DEF Seeks
  <2> QED
    BY <1>4, <1>9, <2>2, <2>3, SeeksFrame
<1>17. SettledInv'
  BY <1>7 DEF SettledInv
<1> QED
  BY <1>9, <1>12, <1>13, <1>14, <1>15, <1>16, <1>17 DEF RInv

----------------------------------------------------------------------------
(***************************************************************************)
(* Steps that change the queues.                                           *)
(***************************************************************************)
\* A request is put at the end of a queue.
LEMMA AppendFacts ==
  ASSUME NEW S, NEW q \in Seq(S), NEW r \in S
  PROVE /\ \A s : Holds(Append(q, r), s) <=> Holds(q, s) \/ s = r
        /\ Distinct(q) /\ ~Holds(q, r) => Distinct(Append(q, r))
        /\ Append(q, r) # << >>
<1>1. PICK n \in Nat : n = Len(q)
  OBVIOUS
<1>2. PICK a : a = Append(q, r)
  OBVIOUS
<1>3. Len(a) = n + 1 /\ a[n + 1] = r /\ \A k \in 1..n : a[k] = q[k]
  BY <1>1, <1>2
<1>4. 1..(n + 1) = (1..n) \cup {n + 1} /\ n + 1 \notin 1..n
  OBVIOUS
<1>5. \A s : Holds(a, s) <=> Holds(q, s) \/ s = r
  BY <1>1, <1>3, <1>4 DEF Holds
<1>6. Distinct(q) /\ ~Holds(q, r) => Distinct(a)
  BY <1>1, <1>3, <1>4 DEF Holds, Distinct
<1>7. a # << >>
  BY <1>2
<1> QED
  BY <1>2, <1>5, <1>6, <1>7

\* The first request leaves a queue.
LEMMA TailFacts ==
  ASSUME NEW S, NEW q \in Seq(S), q # << >>, Distinct(q)
  PROVE /\ \A s : Holds(Tail(q), s) <=> Holds(q, s) /\ s # Head(q)
        /\ Distinct(Tail(q)) /\ Holds(q, Head(q)) /\ Head(q) \in S /\ Tail(q) \in Seq(S)
<1>1. PICK n \in Nat : n = Len(q) /\ n >= 1
  OBVIOUS
<1>2. PICK t \in Seq(S) : t = Tail(q)
  <2>1. Tail(q) \in Seq(S)
    OBVIOUS
  <2> QED
    BY <2>1
<1>3. /\ Len(t) = n - 1 /\ \A k \in 1..(n - 1) : t[k] = q[k + 1]
      /\ Head(q) = q[1] /\ q[1] \in S
  BY <1>1, <1>2
<1>4. /\ 1 \in 1..n
      /\ \A k \in 1..(n - 1) : k + 1 \in 1..n /\ k + 1 # 1
      /\ \A k \in 1..n : k = 1 \/ (k - 1 \in 1..(n - 1) /\ (k - 1) + 1 = k)
      /\ \A k, l \in 1..(n - 1) : k + 1 = l + 1 => k = l
  BY <1>1
<1>5. \A k, l \in 1..n : q[k] = q[l] => k = l
  BY <1>1 DEF Distinct
<1>6. ASSUME NEW s PROVE Holds(t, s) <=> Holds(q, s) /\ s # q[1]
  <2>1. ASSUME NEW k \in 1..(n - 1), t[k] = s PROVE Holds(q, s) /\ s # q[1]
    BY <1>1, <1>3, <1>4, <1>5, <2>1 DEF Holds
  <2>2. ASSUME NEW k \in 1..n, q[k] = s, s # q[1] PROVE Holds(t, s)
    <3>1. k - 1 \in 1..(n - 1) /\ (k - 1) + 1 = k
      BY <1>4, <2>2
    <3>2. t[k - 1] = s
      BY <1>3, <2>2, <3>1
    <3> QED
      BY <1>3, <3>1, <3>2 DEF Holds
  <2> QED
    BY <1>1, <1>3, <2>1, <2>2 DEF Holds
<1>7. Distinct(t)
  BY <1>3, <1>4, <1>5 DEF Distinct
<1>8. Holds(q, Head(q))
  BY <1>1, <1>3, <1>4 DEF Holds
<1> QED
  BY <1>2, <1>3, <1>6, <1>7, <1>8

\* The queues have their types.
LEMMA QueueTypes ==
  ASSUME RLTypeOK
  PROVE \A w \in Keys : Queue(w) \in Seq(Requests)
<1>1. \A m \in Models : generic[m] \in Seq(Requests)
  BY DEF RLTypeOK
<1>2. \A i \in Instances : specific[i] \in Seq(Requests)
  BY DEF RLTypeOK
<1> QED
  BY <1>1, <1>2, KeyFacts

\* Only queue v changes.
OnlyQueue(v) == \A w \in Keys : w # v => Queue(w)' = Queue(w)

\* A request that comes is seated in the queue it is put in.
LEMMA SeatsAppend ==
  ASSUME UNCHANGED setting, RLTypeOK, SeatsInv, SameStaged, NEW r \in Asking, NEW v \in Keys,
         ModelOfKey(v) = Wants[r].model, ~Came(r), Came(r)',
         Queue(v)' = Append(Queue(v), r), OnlyQueue(v),
         \A q \in Requests : (q # r => (Came(q)' <=> Came(q))) /\ (Called(q)' <=> Called(q))
  PROVE SeatsInv'
<1>1. /\ Models' = Models /\ Instances' = Instances /\ InstancesOf' = InstancesOf
      /\ Wants' = Wants /\ Asking' = Asking /\ Keys' = Keys
      /\ \A w : ModelOfKey(w)' = ModelOfKey(w)
      /\ r \in Requests
  BY SettingFixed, SettingFacts DEF RLTypeOK
<1>2. Queue(v) \in Seq(Requests)
  BY QueueTypes
<1>3. ~Waits(r) /\ ~IsAssigned(r) /\ ~Called(r)
  BY <1>1 DEF SeatsInv, OneSeat
<1>4. \A w \in Keys : ~Holds(Queue(w), r)
  BY <1>3 DEF Waits
<1>5. \A w \in Keys : \A q : Holds(Queue(w), q)' <=> Holds(Queue(w), q) \/ (w = v /\ q = r)
  <2>1. ASSUME NEW w \in Keys, w # v, NEW q PROVE Holds(Queue(w), q)' <=> Holds(Queue(w), q)
    <3>1. Queue(w)' = Queue(w)
      BY <2>1 DEF OnlyQueue
    <3> QED
      BY <3>1 DEF Holds
  <2>2. ASSUME NEW q PROVE Holds(Queue(v), q)' <=> Holds(Queue(v), q) \/ q = r
    <3>1. Holds(Append(Queue(v), r), q) <=> Holds(Queue(v), q) \/ q = r
      BY <1>1, <1>2, AppendFacts
    <3>2. PICK a : a = Queue(v)'
      OBVIOUS
    <3>3. Holds(Queue(v), q)' <=> Holds(a, q)
      BY <3>2 DEF Holds
    <3> QED
      BY <3>1, <3>2, <3>3
  <2> QED
    BY <2>1, <2>2
<1>6. \A q \in Requests : \A i \in Instances : Assigned(q, i)' <=> Assigned(q, i)
  BY DEF SameStaged, Assigned
<1>7. \A q \in Requests : (IsAssigned(q)' <=> IsAssigned(q)) /\ (Waits(q)' <=> Waits(q) \/ q = r)
  BY <1>1, <1>5, <1>6 DEF IsAssigned, Waits
<1>8. ASSUME NEW w \in Keys PROVE QueueSound(w)'
  <2>1. QueueSound(w)
    BY DEF SeatsInv
  <2>2. \A q \in Requests : Holds(Queue(w), q)' => q \in Asking /\ Wants[q].model = ModelOfKey(w)
    BY <1>5, <2>1 DEF QueueSound
  <2>3. Distinct(Queue(w))'
    <3>1. CASE w # v
      BY <2>1, <3>1 DEF OnlyQueue, QueueSound, Distinct
    <3>2. CASE w = v
      <4>1. Distinct(Append(Queue(v), r))
        BY <1>1, <1>2, <1>4, <2>1, <3>2, AppendFacts DEF QueueSound
      <4>2. PICK a : a = Queue(v)'
        OBVIOUS
      <4> QED
        BY <3>2, <4>1, <4>2 DEF Distinct
    <3> QED
      BY <3>1, <3>2
  <2> QED
    BY <1>1, <2>2, <2>3 DEF QueueSound
<1>9. ASSUME NEW q \in Requests PROVE OneSeat(q)' /\ Seated(q)'
  <2>1. OneSeat(q) /\ Seated(q)
    BY DEF SeatsInv
  <2>2. CASE q = r
    <3>1. OneSeat(q)'
      BY <1>1, <1>3, <1>4, <1>5, <1>6, <1>7, <2>1, <2>2 DEF OneSeat
    <3>2. Seated(q)'
      BY <1>7, <2>2 DEF Seated
    <3> QED
      BY <3>1, <3>2
  <2>3. CASE q # r
    <3>1. OneSeat(q)'
      BY <1>1, <1>5, <1>6, <1>7, <2>1, <2>3 DEF OneSeat
    <3>2. Seated(q)'
      BY <1>1, <1>7, <2>1, <2>3 DEF Seated
    <3> QED
      BY <3>1, <3>2
  <2> QED
    BY <2>2, <2>3
<1> QED
  BY <1>1, <1>8, <1>9 DEF SeatsInv

\* EnqueueModelInstanceRequest: one queue of the model of request r grows, or none.
LEMMA RequestIsQueued ==
  ASSUME RLTypeOK, UNCHANGED setting, NEW r \in Asking, RequestModelInstance(r)
  PROVE /\ \/ \E v \in Keys : /\ ModelOfKey(v) = Wants[r].model /\ OnlyQueue(v)
                              /\ Queue(v)' = Append(Queue(v), r)
           \/ /\ UNCHANGED <<generic, specific>>
              /\ ~(Wants[r].index < Len(InstancesOf[Wants[r].model]))
        /\ generic' \in [Models -> Seq(Requests)] /\ specific' \in [Instances -> Seq(Requests)]
        /\ \A m \in Models : m # Wants[r].model => generic'[m] = generic[m]
        /\ \A i \in Instances : ModelOf(i) # Wants[r].model => specific'[i] = specific[i]
<1>1. PICK m : m = Wants[r].model
  OBVIOUS
<1>2. PICK n : n = Wants[r].index
  OBVIOUS
<1>3. /\ m \in Models /\ n \in Nat \cup {-1} /\ r \in Requests
      /\ Len(InstancesOf[m]) \in Nat
      /\ \A k \in 1..Len(InstancesOf[m]) : InstancesOf[m][k] \in Instances /\ ModelOf(InstancesOf[m][k]) = m
  BY <1>1, <1>2, SettingFacts DEF RLTypeOK
<1>4. generic \in [Models -> Seq(Requests)] /\ specific \in [Instances -> Seq(Requests)]
  BY DEF RLTypeOK
<1>5. CASE n = -1 /\ generic' = [generic EXCEPT ![m] = Append(@, r)] /\ UNCHANGED specific
  <2>1. PICK v : v = <<"generic", m>>
    OBVIOUS
  <2>2. v \in Keys /\ ModelOfKey(v) = m /\ Queue(v) = generic[m] /\ Queue(v)' = generic'[m]
    BY <1>3, <2>1, KeyFacts DEF Queue
  <2>3. generic'[m] = Append(generic[m], r) /\ \A o \in Models : o # m => generic'[o] = generic[o]
    BY <1>3, <1>4, <1>5
  <2>4. OnlyQueue(v)
    <3>1. \A o \in Models : <<"generic", o>> # v => o # m
      BY <2>1
    <3>2. \A o \in Models : <<"generic", o>> # v => Queue(<<"generic", o>>)' = Queue(<<"generic", o>>)
      BY <2>3, <3>1 DEF Queue
    <3>3. \A i \in Instances : Queue(<<"specific", i>>)' = Queue(<<"specific", i>>)
      BY <1>5 DEF Queue
    <3> QED
      BY <3>2, <3>3, KeyFacts DEF OnlyQueue
  <2>5. generic' \in [Models -> Seq(Requests)]
    <3>1. Append(generic[m], r) \in Seq(Requests)
      BY <1>3, <1>4
    <3> QED
      BY <1>4, <1>5, <3>1
  <2> QED
    BY <1>1, <1>4, <1>5, <2>2, <2>3, <2>4, <2>5
<1>6. CASE n \in 0..Len(InstancesOf[m]) - 1 /\ UNCHANGED generic
           /\ specific' = [specific EXCEPT ![InstancesOf[m][n + 1]] = Append(@, r)]
  <2>1. PICK i : i = InstancesOf[m][n + 1]
    OBVIOUS
  <2>2. n + 1 \in 1..Len(InstancesOf[m])
    BY <1>3, <1>6
  <2>3. i \in Instances /\ ModelOf(i) = m
    BY <1>3, <2>1, <2>2
  <2>4. PICK v : v = <<"specific", i>>
    OBVIOUS
  <2>5. v \in Keys /\ ModelOfKey(v) = m /\ Queue(v) = specific[i] /\ Queue(v)' = specific'[i]
    BY <2>3, <2>4, KeyFacts DEF Queue
  <2>6. /\ specific'[i] = Append(specific[i], r)
        /\ \A j \in Instances : j # i => specific'[j] = specific[j]
    BY <1>4, <1>6, <2>1, <2>3
  <2>7. OnlyQueue(v)
    <3>1. \A j \in Instances : <<"specific", j>> # v => j # i
      BY <2>4
    <3>2. \A j \in Instances : <<"specific", j>> # v => Queue(<<"specific", j>>)' = Queue(<<"specific", j>>)
      BY <2>6, <3>1 DEF Queue
    <3>3. \A o \in Models : Queue(<<"generic", o>>)' = Queue(<<"generic", o>>)
      BY <1>6 DEF Queue
    <3> QED
      BY <3>2, <3>3, KeyFacts DEF OnlyQueue
  <2>8. specific' \in [Instances -> Seq(Requests)]
    <3>1. Append(specific[i], r) \in Seq(Requests)
      BY <1>3, <1>4, <2>3
    <3> QED
      BY <1>4, <1>6, <2>1, <3>1
  <2> QED
    BY <1>1, <1>4, <1>6, <2>3, <2>5, <2>6, <2>7, <2>8
<1>7. CASE n >= Len(InstancesOf[m]) /\ UNCHANGED <<generic, specific>>
  BY <1>1, <1>2, <1>3, <1>4, <1>7
<1> QED
  BY <1>1, <1>2, <1>5, <1>6, <1>7 DEF RequestModelInstance

\* A request comes, and its caller goes on to look for an instance.
LEMMA RequestModelInstanceKeeps ==
  ASSUME RInv, UNCHANGED setting, NEW r \in Asking, RequestModelInstance(r)
  PROVE RInv'
<1>1. PICK m : m = Wants[r].model
  OBVIOUS
<1>2. PICK p : p = Caller(r)
  OBVIOUS
<1>3. /\ RLTypeOK /\ setting \in DOMAIN Settings /\ m \in Models /\ r \in Requests /\ p \in Actors
      /\ p # Manager /\ (\A q : p # Executor(q)) /\ \A q : p = Caller(q) => q = r
      /\ ModelOfActor(p) = m
  BY <1>1, <1>2, SettingFacts, ActorFacts, ActorWork DEF RInv, RLTypeOK
<1>4. /\ pc[p] = "new" /\ Moves(p, "stage") /\ ctx[m] = "present" /\ ~removing[m] /\ qMtx[m] = Free
      /\ ctxMtx' = p
      /\ UNCHANGED <<ctx, removing, avbl, state, sched, execCount, staged, registered, limit, allocated>>
      /\ UNCHANGED <<qMtx, sMtx, backup, on, target>>
  BY <1>1, <1>2 DEF RequestModelInstance, At, Goto, Moves, instVars, resVars
<1>5. pc'[p] = "stage" /\ \A q \in Actors : q # p => pc'[q] = pc[q]
  BY <1>3, <1>4 DEF RLTypeOK, Moves
<1>6. /\ Settled' = Settled
      /\ Models' = Models /\ Instances' = Instances /\ InstancesOf' = InstancesOf
      /\ Resources' = Resources /\ Wants' = Wants /\ Asking' = Asking
      /\ IgnoreResources' = IgnoreResources
      /\ \A j : ModelOf(j)' = ModelOf(j)
      /\ \A o : Own(o)' = Own(o)
  BY SettingFixed
<1>7. /\ generic' \in [Models -> Seq(Requests)] /\ specific' \in [Instances -> Seq(Requests)]
      /\ \A o \in Models : o # m => generic'[o] = generic[o]
      /\ \A i \in Instances : ModelOf(i) # m => specific'[i] = specific[i]
  BY <1>1, <1>3, RequestIsQueued
<1>8. /\ ~Came(r) /\ Came(r)'
      /\ \A q \in Requests : (q # r => (Came(q)' <=> Came(q))) /\ (Called(q)' <=> Called(q))
      /\ \A q \in Requests : Running(q)' <=> Running(q)
  <2>1. ~Came(r) /\ Came(r)'
    BY <1>2, <1>4, <1>5 DEF Came
  <2>2. ASSUME NEW q \in Requests
        PROVE (q # r => (Came(q)' <=> Came(q))) /\ (Called(q)' <=> Called(q)) /\ (Running(q)' <=> Running(q))
    <3>1. pc'[Executor(q)] = pc[Executor(q)] /\ (q # r => pc'[Caller(q)] = pc[Caller(q)])
      BY <1>3, <1>5, ActorFacts
    <3> QED
      BY <3>1 DEF Came, Called, Running
  <2> QED
    BY <2>1, <2>2
<1>9. \A i \in Instances : ModelOf(i) # m => (Pending(i)' <=> Pending(i))
  <2>1. \A i \in Instances : ModelOf(i) \in Models
    BY <1>3, SettingFacts
  <2> QED
    BY <1>6, <1>7, <2>1 DEF Pending
<1>10. RLTypeOK'
  <2>1. pc' \in [Actors -> PCs]
    BY <1>3, <1>4 DEF Moves, PCs, RLTypeOK
  <2> QED
    BY <1>3, <1>4, <1>6, <1>7, <2>1 DEF RLTypeOK
<1>11. ThreadsInv'
  <2>1. ThreadsInv
    BY DEF RInv
  <2>2. ASSUME NEW q \in Requests
        PROVE /\ pc'[Caller(q)] \in CallerPCs /\ pc'[Executor(q)] \in ExecutorPCs
              /\ pc'[Caller(q)] # "new" => q \in Asking
              /\ Called(q)' => q \in Asking /\ on[q] \in Instances /\ ModelOf(on[q]) = Wants[q].model
    <3>1. Caller(q) \in Actors /\ Executor(q) \in Actors
      BY ActorFacts
    <3>2. pc'[Caller(q)] \in CallerPCs /\ (pc'[Caller(q)] # "new" => q \in Asking)
      <4>1. CASE q = r
        BY <1>2, <1>5, <4>1 DEF CallerPCs
      <4>2. CASE q # r
        BY <1>3, <1>5, <2>1, <3>1, <4>2 DEF ThreadsInv
      <4> QED
        BY <4>1, <4>2
    <3>3. pc'[Executor(q)] \in ExecutorPCs
      BY <1>3, <1>5, <2>1, <3>1 DEF ThreadsInv
    <3> QED
      BY <1>8, <2>1, <3>2, <3>3 DEF ThreadsInv
  <2>3. pc'[Manager] \in ManagerPCs
    BY <1>3, <1>5, <2>1, ActorFacts DEF ThreadsInv
  <2> QED
    BY <1>4, <1>6, <2>2, <2>3 DEF ThreadsInv
<1>12. StatesInv'
  <2>1. ASSUME NEW j \in Instances PROVE InstanceSound(j)'
    <3>1. InstanceSound(j)
      BY DEF RInv, StatesInv
    <3>2. state[j] = "REMOVED" => ModelOf(j) # m
      BY <1>4, <3>1 DEF InstanceSound
    <3> QED
      BY <1>4, <1>6, <1>9, <3>1, <3>2 DEF InstanceSound
  <2>2. ASSUME NEW o \in Models PROVE ModelSound(o)'
    <3>1. ModelSound(o)
      BY DEF RInv, StatesInv
    <3>2. CASE o = m
      BY <1>4, <1>6, <3>1, <3>2 DEF ModelSound
    <3>3. CASE o # m
      <4>1. \A j \in Own(o) : specific'[j] = specific[j]
        BY <1>3, <1>7, <3>3, SettingFacts
      <4> QED
        BY <1>4, <1>6, <1>7, <3>1, <3>3, <4>1 DEF ModelSound, Untried
    <3> QED
      BY <3>2, <3>3
  <2>3. RemovalInv'
    <3>1. pc'[Manager] = pc[Manager]
      BY <1>3, <1>5, ActorFacts
    <3> QED
      BY <1>4, <1>6, <3>1 DEF RInv, StatesInv, RemovalInv, At
  <2>4. RunningInv'
    BY <1>4, <1>8 DEF RInv, StatesInv, RunningInv
  <2> QED
    BY <1>6, <2>1, <2>2, <2>3, <2>4 DEF StatesInv
<1>13. SeatsInv'
  <2>1. SeatsInv /\ SameStaged
    BY <1>4 DEF RInv, SameStaged
  <2>2. ASSUME NEW v \in Keys, ModelOfKey(v) = Wants[r].model, OnlyQueue(v), Queue(v)' = Append(Queue(v), r)
        PROVE SeatsInv'
    BY <1>3, <1>8, <2>1, <2>2, SeatsAppend
  <2>3. CASE UNCHANGED <<generic, specific>> /\ ~(Wants[r].index < Len(InstancesOf[Wants[r].model]))
    <3>1. \A q \in Requests :
            /\ (Came(q) => Came(q)') /\ (Called(q)' <=> Called(q))
            /\ Came(q)' /\ ~Came(q) => ~(Wants[q].index < Len(InstancesOf[Wants[q].model]))
      BY <1>8, <2>3
    <3> QED
      BY <2>1, <2>3, <3>1, SeatsFrame
  <2> QED
    BY <1>3, <2>2, <2>3, RequestIsQueued
<1>14. LocksInv'
  <2>1. \A q : Instance(q)' = Instance(q) /\ ModelOfActor(q)' = ModelOfActor(q)
    BY <1>4, <1>6 DEF Instance, ModelOfActor
  <2>2. ASSUME NEW q \in Actors PROVE LoopOf(q)' /\ CheckOf(q)'
    <3>1. LoopOf(q) /\ CheckOf(q) /\ q # Free
      BY ActorFacts DEF RInv, LocksInv
    <3>2. (InLoop(q)' => InLoop(q)) /\ (At(q, "decide")' => At(q, "decide"))
      BY <1>5 DEF InLoop, At
    <3>3. InLoop(q) => NothingNew(ModelOfActor(q))
      <4>1. InLoop(q) => ModelOfActor(q) # m
        BY <1>4, <3>1 DEF LoopOf
      <4> QED
        BY <1>9, <4>1 DEF NothingNew
    <3>4. LoopOf(q)'
      BY <1>3, <1>4, <3>1, <3>2, <3>3, LoopFrame DEF RInv
    <3>5. CheckOf(q)'
      BY <1>4, <2>1, <3>1, <3>2, CheckFrame
    <3> QED
      BY <3>4, <3>5
  <2> QED
    BY <2>2 DEF LocksInv
<1>15. SeenInv'
  <2> SUFFICES ASSUME NEW j \in avbl, state[j] = "AVAILABLE", Pending(j)'
               PROVE \E q \in Actors : Seeks(q, j)'
    BY <1>4 DEF SeenInv
  <2>1. j \in Instances
    BY <1>3 DEF RLTypeOK
  <2>2. CASE ModelOf(j) = m
    <3>1. ModelOfActor(p)' = m /\ ModelOf(j)' = m
      BY <1>3, <1>6, <2>2 DEF ModelOfActor
    <3>2. Seeks(p, j)'
      BY <1>3, <1>5, <3>1 DEF Seeks
    <3> QED
      BY <1>3, <3>2
  <2>3. CASE ModelOf(j) # m
    <3>1. Pending(j)
      BY <1>9, <2>1, <2>3
    <3>2. PICK q \in Actors : Seeks(q, j)
      BY <3>1 DEF RInv, SeenInv
    <3>3. q # p
      BY <1>4, <3>2 DEF Seeks
    <3> QED
      BY <1>4, <1>5, <3>2, <3>3, SeeksFrame
  <2> QED
    BY <2>2, <2>3
<1>16. SettledInv'
  <2>1. KeepsTrying(p)
    BY <1>3, <1>4 DEF KeepsTrying, Tries
  <2> QED
    BY <1>3, <1>4, <2>1, SettledFrame DEF RInv
<1> QED
  BY <1>10, <1>11, <1>12, <1>13, <1>14, <1>15, <1>16 DEF RInv

----------------------------------------------------------------------------
(***************************************************************************)
(* Steps that change the resources in use.                                 *)
(***************************************************************************)
Uses(S, x) == Total([i \in S |-> Need[i][x]])
Returns(S, x) == Total([r \in S |-> Need[on[r]][x]])
Given(S) == \A r \in S : on[r] \in Instances

\* One more instance is in use.
LEMMA UsesAdds ==
  ASSUME RLTypeOK, NEW x \in Resources, NEW S \in SUBSET Instances, NEW a \in Instances, a \notin S
  PROVE /\ Uses(S, x) \in Nat /\ Need[a][x] \in Nat
        /\ Uses(S \cup {a}, x) = Uses(S, x) + Need[a][x]
<1>1. setting \in DOMAIN Settings /\ Word \in Nat
  BY RateLimiterAssumption DEF RLTypeOK
<1>2. IsFiniteSet(S) /\ \A i \in Instances : Need[i][x] \in Nat
  BY <1>1, SettingFacts, FS_Subset
<1>3. PICK T : T = S \cup {a}
  OBVIOUS
<1>4. PICK f : f = [i \in S |-> Need[i][x]]
  OBVIOUS
<1>5. PICK g : g = [i \in T |-> Need[i][x]]
  OBVIOUS
<1>6. f \in [S -> Nat] /\ g \in [T -> Nat] /\ g[a] = Need[a][x] /\ \A s \in S : g[s] = f[s]
  BY <1>2, <1>3, <1>4, <1>5
<1>7. OneMore(f, g, S, a)
  BY <1>3, <1>6 DEF OneMore
<1>8. Total(f) \in Nat /\ Total(g) = Total(f) + g[a]
  BY ONLY <1>2, <1>7, TotalAdds
<1>9. Uses(S, x) = Total(f) /\ Uses(S \cup {a}, x) = Total(g)
  BY <1>3, <1>4, <1>5 DEF Uses
<1> QED
  BY <1>2, <1>6, <1>8, <1>9

\* One more executor returns its resources.
LEMMA ReturnsAdds ==
  ASSUME RLTypeOK, NEW x \in Resources, NEW S \in SUBSET Requests, NEW a \in Requests, a \notin S,
         Given(S \cup {a})
  PROVE /\ Returns(S, x) \in Nat /\ Need[on[a]][x] \in Nat
        /\ Returns(S \cup {a}, x) = Returns(S, x) + Need[on[a]][x]
<1>1. setting \in DOMAIN Settings /\ Word \in Nat
  BY RateLimiterAssumption DEF RLTypeOK
<1>2. IsFiniteSet(S) /\ \A i \in Instances : Need[i][x] \in Nat
  BY <1>1, SettingFacts, FS_Subset
<1>3. PICK T : T = S \cup {a}
  OBVIOUS
<1>4. PICK f : f = [q \in S |-> Need[on[q]][x]]
  OBVIOUS
<1>5. PICK g : g = [q \in T |-> Need[on[q]][x]]
  OBVIOUS
<1>6. \A q \in T : Need[on[q]][x] \in Nat
  BY <1>2, <1>3 DEF Given
<1>7. f \in [S -> Nat] /\ g \in [T -> Nat] /\ g[a] = Need[on[a]][x] /\ \A s \in S : g[s] = f[s]
  BY <1>3, <1>4, <1>5, <1>6
<1>8. OneMore(f, g, S, a)
  BY <1>3, <1>7 DEF OneMore
<1>9. Total(f) \in Nat /\ Total(g) = Total(f) + g[a]
  BY ONLY <1>2, <1>8, TotalAdds
<1>10. Returns(S, x) = Total(f) /\ Returns(S \cup {a}, x) = Total(g)
  BY <1>3, <1>4, <1>5 DEF Returns
<1> QED
  BY <1>3, <1>6, <1>7, <1>9, <1>10

\* The resources of a returned instance are given back.
LEMMA ReleaseResourcesKeeps ==
  ASSUME RInv, UNCHANGED setting, NEW r \in Asking, NEW p, p = Executor(r), ReleaseResources(p)
  PROVE RInv' /\ \A x \in Resources : Out(x)' \in Nat /\ Out(x) = Out(x)' + Need[on[r]][x]
<1>1. /\ pc[p] = "resources" /\ Moves(p, "pending") /\ SameWork
      /\ UNCHANGED <<execCount, registered, limit, qMtx, sMtx, backup, ctxMtx>>
      /\ allocated' = IF on[r] \in registered
                      THEN [x \in Resources |-> (allocated[x] - Need[on[r]][x]) % Word]
                      ELSE allocated
  BY ActorWork DEF ReleaseResources, At, Moves, Goto, SameWork, queueVars, instVars, resVars
<1>2. /\ p \in Actors /\ p # Manager /\ r \in Requests /\ on[r] \in Instances
      /\ \A q : p = Executor(q) => q = r
      /\ \A q : p # Caller(q)
  BY <1>1, LoopThread, ActorFacts
<1>3. /\ RLTypeOK /\ ThreadsInv /\ "pending" \in PCs /\ setting \in DOMAIN Settings
      /\ Word \in Nat \ {0}
  BY RateLimiterAssumption DEF RInv, RLTypeOK, PCs
<1>4. pc'[p] = "pending" /\ \A q \in Actors : q # p => pc'[q] = pc[q]
  BY <1>1, <1>2, <1>3 DEF Moves, RLTypeOK
<1>5. OthersTyped
  <2>1. \A x \in Resources : Need[on[r]][x] \in Int /\ allocated[x] \in Int
    BY <1>2, <1>3, SettingFacts DEF RLTypeOK
  <2>2. \A x \in Resources : allocated[x] - Need[on[r]][x] \in Int
    BY <2>1
  <2>3. \A x \in Resources : (allocated[x] - Need[on[r]][x]) % Word \in 0..Word - 1
    BY <1>3, <2>2, ModFacts
  <2>4. allocated' \in [Resources -> 0..Word - 1]
    BY <1>1, <1>3, <2>3 DEF RLTypeOK
  <2> QED
    BY <1>1, <1>3, <2>4 DEF RLTypeOK, OthersTyped
<1>6. RLTypeOK'
  BY <1>1, <1>2, <1>3, <1>5, TypeMove
<1>7. MayMove(p, "pending")
  BY <1>1, <1>2 DEF MayGo, MayMove, ExecutorPCs
<1>8. ThreadsInv' /\ StatesInv' /\ SeatsInv'
  BY <1>1, <1>2, <1>7, MoveKeeps DEF RInv
<1>9. LocksInv'
  BY <1>1, <1>2, LocksSame DEF RInv
<1>10. SeenInv'
  <2>1. Instance(p)' = Instance(p) /\ \A i : ModelOf(i)' = ModelOf(i)
    BY <1>1, OwnInstanceStays, SettingFixed
  <2>2. KeepsSeeking(p)
    BY <1>1, <1>2, <1>4, <2>1 DEF KeepsSeeking, Seeks
  <2> QED
    BY <1>1, <1>2, <2>2, SeenMove DEF RInv
<1>11. /\ Models' = Models /\ Instances' = Instances /\ Need' = Need /\ Settled' = Settled
       /\ Resources' = Resources /\ IgnoreResources' = IgnoreResources
       /\ \A set : Limits(set)' = Limits(set)
  BY SettingFixed
<1>12. r \in Releasing /\ Releasing' = Releasing \ {r}
  <2>1. \A q \in Requests : pc'[Executor(q)] = "resources" <=> pc[Executor(q)] = "resources" /\ q # r
    BY <1>1, <1>2, <1>4, ActorFacts
  <2> QED
    BY <1>1, <1>2, <2>1 DEF Releasing
<1>13. ASSUME NEW x \in Resources
       PROVE /\ InUse(x)' = InUse(x) /\ InUse(x) \in Nat /\ InReturn(x)' \in Nat
             /\ Need[on[r]][x] \in Nat /\ InReturn(x) = InReturn(x)' + Need[on[r]][x]
  <2>1. Allocated' = Allocated
    BY <1>1, <1>11 DEF Allocated, SameWork
  <2>2. InUse(x)' = InUse(x) /\ InUse(x) \in Nat
    BY <1>3, <1>11, <2>1, SumFacts DEF InUse
  <2>3. PICK S : S = Releasing'
    OBVIOUS
  <2>4. S \in SUBSET Requests /\ r \notin S /\ Releasing = S \cup {r}
    BY <1>12, <2>3 DEF Releasing
  <2>5. Given(S \cup {r})
    BY <1>3, <2>4 DEF Given, Releasing, ThreadsInv, Called
  <2>6. InReturn(x)' = Returns(S, x) /\ InReturn(x) = Returns(S \cup {r}, x)
    BY <1>1, <1>11, <2>3, <2>4 DEF InReturn, Returns, SameWork
  <2>7. /\ Returns(S, x) \in Nat /\ Need[on[r]][x] \in Nat
        /\ Returns(S \cup {r}, x) = Returns(S, x) + Need[on[r]][x]
    BY <1>2, <1>3, <2>4, <2>5, ReturnsAdds
  <2> QED
    BY <2>2, <2>6, <2>7
<1>14. SettledInv'
  <2> SUFFICES ASSUME Settled PROVE SettledInv'
    BY <1>11 DEF SettledInv
  <2>1. /\ \A m \in Models : ctx[m] = "present" /\ ~removing[m]
        /\ pc[Manager] = "idle" /\ registered = Instances /\ limit = Limits(Instances)
    BY DEF RInv, SettledInv
  <2>2. pc'[Manager] = "idle"
    BY <1>2, <1>4, <2>1, ActorFacts
  <2>3. Tries(p)'
    BY <1>2, <1>4 DEF Tries
  <2>4. ASSUME NEW x \in Resources, ~IgnoreResources
        PROVE allocated'[x] = (InUse(x)' + InReturn(x)') % Word
    <3>1. PICK u \in Nat : u = InUse(x)
      BY <1>13
    <3>2. PICK v \in Nat : v = InReturn(x)'
      BY <1>13
    <3>3. PICK n \in Nat : n = Need[on[r]][x]
      BY <1>13
    <3>4. allocated[x] = (u + (v + n)) % Word
      BY <1>13, <2>4, <3>1, <3>2, <3>3 DEF RInv, SettledInv
    <3>5. allocated'[x] = (allocated[x] - n) % Word
      BY <1>1, <1>2, <2>1, <3>3
    <3>6. u + (v + n) = (u + v) + n /\ u + v \in Nat
      OBVIOUS
    <3>7. ((((u + v) + n) % Word) - n) % Word = (u + v) % Word
      BY ONLY <1>3, <3>6, n \in Nat, CounterFacts
    <3> QED
      BY <1>13, <3>1, <3>2, <3>4, <3>5, <3>6, <3>7
  <2> QED
    BY <1>1, <1>2, <1>11, <2>1, <2>2, <2>3, <2>4 DEF SettledInv, SameWork
<1>15. \A x \in Resources : Out(x)' \in Nat /\ Out(x) = Out(x)' + Need[on[r]][x]
  BY <1>13 DEF Out
<1> QED
  BY <1>6, <1>8, <1>9, <1>10, <1>14, <1>15 DEF RInv

\* Release makes its instance available again.
LEMMA AddAvailableInstanceKeeps ==
  ASSUME RInv, UNCHANGED setting, NEW r \in Asking, NEW p, p = Executor(r), AddAvailableInstance(p)
  PROVE RInv' /\ \A x \in Resources : Out(x)' = Out(x)
<1>1. PICK i : i = on[r]
  OBVIOUS
<1>2. /\ pc[p] = "running" /\ Moves(p, "resources") /\ ctx[ModelOfActor(p)] = "present"
      /\ qMtx[ModelOf(i)] = Free /\ sMtx[i] = Free
      /\ avbl' = avbl \cup {i} /\ state' = [state EXCEPT ![i] = "AVAILABLE"]
      /\ UNCHANGED <<ctx, removing, generic, specific, sched, execCount, staged>>
      /\ UNCHANGED <<registered, limit, allocated, ctxMtx, qMtx, sMtx, backup, on, target>>
  BY <1>1, ActorWork DEF AddAvailableInstance, Alive, At, Moves, Goto, resVars
<1>3. /\ RLTypeOK /\ ThreadsInv /\ setting \in DOMAIN Settings /\ r \in Requests /\ p \in Actors
      /\ p # Manager /\ (\A q : p # Caller(q)) /\ (\A q : p = Executor(q) => q = r)
      /\ state \in [Instances -> {"AVAILABLE", "STAGED", "ALLOCATED", "REMOVED"}]
      /\ Instance(p) = i
  BY <1>1, SettingFacts, ActorFacts, ActorWork DEF RInv, RLTypeOK
<1>4. i \in Instances /\ ModelOf(i) = Wants[r].model /\ ModelOfActor(p) = ModelOf(i) /\ Running(r)
  BY <1>1, <1>2, <1>3, ActorWork DEF ThreadsInv, Called, Running
<1>5. state[i] = "ALLOCATED" /\ \A q \in Requests : Running(q) /\ on[q] = i => q = r
  BY <1>1, <1>3, <1>4 DEF RInv, StatesInv, RunningInv
<1>6. state'[i] = "AVAILABLE" /\ (\A j \in Instances : j # i => state'[j] = state[j])
      /\ state' \in [Instances -> {"AVAILABLE", "STAGED", "ALLOCATED", "REMOVED"}]
  BY <1>2, <1>3, <1>4
<1>7. /\ Settled' = Settled
      /\ Models' = Models /\ Instances' = Instances /\ InstancesOf' = InstancesOf
      /\ Need' = Need /\ Resources' = Resources /\ Wants' = Wants /\ Asking' = Asking
      /\ IgnoreResources' = IgnoreResources
      /\ \A j : ModelOf(j)' = ModelOf(j)
      /\ \A m : Own(m)' = Own(m)
      /\ \A set : Limits(set)' = Limits(set)
  BY SettingFixed
<1>8. MayMove(p, "resources")
  BY <1>2, <1>3 DEF MayGo, MayMove, ExecutorPCs
<1>9. /\ ThreadsInv' /\ pc'[p] = "resources" /\ \A q \in Actors : q # p => pc'[q] = pc[q]
      /\ \A q \in Requests : (Came(q)' <=> Came(q)) /\ (Called(q)' <=> Called(q))
                             /\ (Running(q)' => Running(q))
  BY <1>2, <1>3, <1>8, ThreadsMove DEF MayMove
<1>10. \A j : Pending(j)' <=> Pending(j)
  BY <1>2, <1>7 DEF Pending
<1>11. RLTypeOK'
  <2>1. pc' \in [Actors -> PCs]
    BY <1>2, <1>3 DEF Moves, PCs, RLTypeOK
  <2> QED
    BY <1>2, <1>3, <1>4, <1>6, <1>7, <2>1 DEF RLTypeOK
<1>12. StatesInv'
  <2>1. ASSUME NEW j \in Instances PROVE InstanceSound(j)'
    <3>1. InstanceSound(j)
      BY DEF RInv, StatesInv
    <3>2. CASE j # i
      BY <1>2, <1>6, <1>7, <1>10, <3>1, <3>2 DEF InstanceSound
    <3>3. CASE j = i
      BY <1>2, <1>4, <1>5, <1>6, <1>7, <3>1, <3>3 DEF InstanceSound
    <3> QED
      BY <3>2, <3>3
  <2>2. ASSUME NEW m \in Models PROVE ModelSound(m)'
    <3>1. ModelSound(m) /\ \A j \in Own(m) : j \in Instances /\ ModelOf(j) = m
      BY <1>3, SettingFacts DEF RInv, StatesInv
    <3>2. CASE m = ModelOf(i)
      BY <1>2, <1>4, <3>2 DEF ModelSound
    <3>3. CASE m # ModelOf(i)
      BY <1>2, <1>6, <1>7, <3>1, <3>3 DEF ModelSound, Untried
    <3> QED
      BY <3>2, <3>3
  <2>3. RemovalInv'
    <3>1. RemovalInv /\ target.model \in Models /\ pc'[Manager] = pc[Manager]
      BY <1>3, <1>9, ActorFacts DEF RInv, StatesInv, RLTypeOK
    <3>2. \A k \in 1..Len(InstancesOf[target.model]) :
            InstancesOf[target.model][k] \in Instances
      BY <1>3, <3>1, SettingFacts
    <3>3. \A k \in 1..Len(InstancesOf[target.model]) :
            state[InstancesOf[target.model][k]] = "REMOVED" =>
              state'[InstancesOf[target.model][k]] = "REMOVED"
      BY <1>5, <1>6, <3>2
    <3> QED
      BY <1>2, <1>7, <3>1, <3>3 DEF RemovalInv, At
  <2>4. RunningInv'
    <3>1. ASSUME NEW q \in Requests, Running(q)' PROVE state'[on[q]] = "ALLOCATED"
      <4>1. Running(q) /\ q # r
        BY <1>9, <3>1 DEF Running
      <4>2. on[q] \in Instances /\ state[on[q]] = "ALLOCATED" /\ on[q] # i
        BY <1>5, <4>1 DEF RInv, StatesInv, RunningInv, ThreadsInv, Called, Running
      <4> QED
        BY <1>6, <4>2
    <3> QED
      BY <1>2, <1>9, <3>1 DEF RInv, StatesInv, RunningInv
  <2> QED
    BY <1>7, <2>1, <2>2, <2>3, <2>4 DEF StatesInv
<1>13. SeatsInv'
  <2>1. SameStaged
    BY <1>2, <1>5, <1>6 DEF SameStaged
  <2> QED
    BY <1>2, <1>9, <2>1, SeatsFrame DEF RInv
<1>14. LocksInv'
  <2>1. \A q : Instance(q)' = Instance(q)
    BY <1>2, <1>7 DEF Instance
  <2>2. ASSUME NEW q \in Actors PROVE LoopOf(q)' /\ CheckOf(q)'
    <3>1. LoopOf(q) /\ CheckOf(q) /\ q # Free
      BY ActorFacts DEF RInv, LocksInv
    <3>2. (InLoop(q)' => InLoop(q)) /\ (At(q, "decide")' => At(q, "decide"))
      BY <1>9 DEF InLoop, At
    <3>3. \A m : NothingNew(m)
      BY <1>10 DEF NothingNew
    <3>4. LoopOf(q)'
      BY <1>2, <1>3, <3>1, <3>2, <3>3, LoopFrame
    <3>5. sMtx[Instance(q)] = q => state'[Instance(q)] = state[Instance(q)]
      BY <1>2, <1>3, <3>1
    <3>6. CheckOf(q)'
      BY <1>2, <2>1, <3>1, <3>2, <3>5, CheckFrame
    <3> QED
      BY <3>4, <3>6
  <2> QED
    BY <2>2 DEF LocksInv
<1>15. SeenInv'
  <2> SUFFICES ASSUME NEW j \in avbl \cup {i}, state'[j] = "AVAILABLE", Pending(j)
               PROVE \E q \in Actors : Seeks(q, j)'
    BY <1>2, <1>10 DEF SeenInv
  <2>1. CASE j = i
    <3>1. Instance(p)' = i
      BY <1>2, <1>3, <1>7 DEF Instance
    <3>2. Seeks(p, j)'
      BY <1>3, <1>9, <2>1, <3>1 DEF Seeks
    <3> QED
      BY <1>3, <3>2
  <2>2. CASE j # i
    <3>1. j \in avbl /\ state[j] = "AVAILABLE"
      BY <1>3, <1>6, <2>2 DEF RLTypeOK
    <3>2. PICK q \in Actors : Seeks(q, j)
      BY <3>1 DEF RInv, SeenInv
    <3>3. q # p
      BY <1>2, <3>2 DEF Seeks
    <3> QED
      BY <1>2, <1>9, <3>2, <3>3, SeeksFrame
  <2> QED
    BY <2>1, <2>2
<1>16. PICK S : S = Allocated'
  OBVIOUS
<1>17. S \in SUBSET Instances /\ i \notin S /\ Allocated = S \cup {i}
  BY <1>4, <1>5, <1>6, <1>7, <1>16 DEF Allocated
<1>18. r \notin Releasing /\ Releasing' = Releasing \cup {r} /\ Releasing \in SUBSET Requests
  <2>1. \A q \in Requests : pc'[Executor(q)] = "resources" <=> pc[Executor(q)] = "resources" \/ q = r
    BY <1>3, <1>9, ActorFacts
  <2> QED
    BY <1>2, <1>3, <2>1 DEF Releasing
<1>19. Given(Releasing \cup {r})
  BY <1>1, <1>4, <1>3 DEF Given, Releasing, ThreadsInv, Called
<1>20. ASSUME NEW x \in Resources PROVE InUse(x)' + InReturn(x)' = InUse(x) + InReturn(x)
  <2>1. InUse(x)' = Uses(S, x) /\ InUse(x) = Uses(S \cup {i}, x)
    BY <1>7, <1>16, <1>17 DEF InUse, Uses
  <2>2. InReturn(x)' = Returns(Releasing \cup {r}, x) /\ InReturn(x) = Returns(Releasing, x)
    BY <1>2, <1>7, <1>18 DEF InReturn, Returns
  <2>3. /\ Uses(S, x) \in Nat /\ Need[i][x] \in Nat
        /\ Uses(S \cup {i}, x) = Uses(S, x) + Need[i][x]
    BY <1>3, <1>4, <1>17, UsesAdds
  <2>4. /\ Returns(Releasing, x) \in Nat
        /\ Returns(Releasing \cup {r}, x) = Returns(Releasing, x) + Need[i][x]
    BY <1>1, <1>3, <1>18, <1>19, ReturnsAdds
  <2> QED
    BY ONLY <2>1, <2>2, <2>3, <2>4
<1>21. SettledInv'
  <2> SUFFICES ASSUME Settled PROVE SettledInv'
    BY <1>7 DEF SettledInv
  <2>1. /\ \A m \in Models : ctx[m] = "present" /\ ~removing[m]
        /\ pc[Manager] = "idle" /\ registered = Instances /\ limit = Limits(Instances)
        /\ ~IgnoreResources => \A x \in Resources : allocated[x] = (InUse(x) + InReturn(x)) % Word
    BY DEF RInv, SettledInv
  <2>2. pc'[Manager] = "idle"
    BY <1>3, <1>9, <2>1, ActorFacts
  <2>3. Tries(p)'
    BY <1>3, <1>9 DEF Tries
  <2> QED
    BY <1>2, <1>3, <1>7, <1>20, <2>1, <2>2, <2>3 DEF SettledInv
<1>22. \A x \in Resources : Out(x)' = Out(x)
  BY <1>20 DEF Out
<1> QED
  BY <1>9, <1>11, <1>12, <1>13, <1>14, <1>15, <1>21, <1>22 DEF RInv

\* AllocateResources and ModelInstance::Allocate: the request of a staged
\* instance is called back.
LEMMA AllocateKeeps ==
  ASSUME RInv, UNCHANGED setting, NEW r \in Asking, NEW p, p \in {Caller(r), Executor(r)},
         Allocate(p)
  PROVE /\ RInv'
        /\ \E i \in staged :
             /\ Fits(i) /\ \A x \in Resources : Out(x)' = Out(x) + Need[i][x]
             /\ allocated' = [x \in Resources |-> (allocated[x] + Need[i][x]) % Word]
<1>1. PICK i \in staged :
        /\ Fits(i) /\ sMtx[i] = Free
        /\ allocated' = [x \in Resources |-> (allocated[x] + Need[i][x]) % Word]
        /\ staged' = staged \ {i}
        /\ state' = [state EXCEPT ![i] = "ALLOCATED"]
        /\ execCount' = [execCount EXCEPT ![i] = @ + 1]
        /\ on' = [on EXCEPT ![sched[i]] = i]
        /\ pc' = [pc EXCEPT ![p] = Attempted(p), ![Executor(sched[i])] = "running"]
  BY DEF Allocate, Top
<1>2. /\ pc[p] \in {"onstage", "attempt"}
      /\ UNCHANGED <<ctx, removing, generic, specific, avbl, sched, registered, limit>>
      /\ UNCHANGED <<ctxMtx, qMtx, sMtx, backup, target>>
  BY DEF Allocate, queueVars
<1>3. /\ p \in Actors /\ p # Manager /\ r \in Requests
      /\ p = Executor(r) \/ pc[p] = "onstage"
      /\ \A q : (p = Caller(q) \/ p = Executor(q)) => q = r
      /\ Came(r) /\ (p = Caller(r) => \A q : p # Executor(q)) /\ (p = Executor(r) => \A q : p # Caller(q))
  BY <1>2, LoopThread
<1>4. /\ RLTypeOK /\ ThreadsInv /\ SeatsInv /\ setting \in DOMAIN Settings
      /\ state \in [Instances -> {"AVAILABLE", "STAGED", "ALLOCATED", "REMOVED"}]
      /\ on \in [Requests -> Instances \cup {0}] /\ pc \in [Actors -> PCs]
      /\ execCount \in [Instances -> Nat] /\ i \in Instances /\ staged \subseteq Instances
      /\ Word \in Nat \ {0}
  BY RateLimiterAssumption DEF RInv, RLTypeOK
<1>5. PICK s : s = sched[i]
  OBVIOUS
<1>6. /\ state[i] = "STAGED" /\ ~IgnoreResources /\ s \in Asking /\ s \in Requests
      /\ Wants[s].model = ModelOf(i) /\ i \notin avbl /\ ModelOf(i) \in Models
  BY <1>4, <1>5, SettingFacts DEF RInv, StatesInv, InstanceSound
<1>7. Assigned(s, i) /\ IsAssigned(s) /\ Came(s) /\ ~Called(s) /\ ~Waits(s)
  BY <1>4, <1>5, <1>6 DEF SeatsInv, OneSeat, IsAssigned, Assigned
<1>8. PICK e \in Actors : e = Executor(s)
  BY <1>6, ActorFacts
<1>9. /\ pc[e] = "idle" /\ e # p /\ e # Manager /\ (\A q : e # Caller(q)) /\ \A q : e = Executor(q) => q = s
  BY <1>2, <1>7, <1>8, ActorFacts DEF Called
<1>10. PICK w \in {"loop", "check"} : w = Attempted(p) /\ (pc[p] = "onstage" <=> w = "loop")
  BY <1>2 DEF Attempted, At
<1>11. /\ pc'[p] = w /\ pc'[e] = "running" /\ \A q \in Actors : q # p /\ q # e => pc'[q] = pc[q]
       /\ pc' \in [Actors -> PCs]
  BY <1>1, <1>3, <1>4, <1>5, <1>8, <1>9, <1>10 DEF PCs
<1>12. /\ state'[i] = "ALLOCATED" /\ (\A j \in Instances : j # i => state'[j] = state[j])
       /\ state' \in [Instances -> {"AVAILABLE", "STAGED", "ALLOCATED", "REMOVED"}]
       /\ on'[s] = i /\ (\A q \in Requests : q # s => on'[q] = on[q])
       /\ on' \in [Requests -> Instances \cup {0}]
  BY <1>1, <1>4, <1>5, <1>6
<1>13. /\ Settled' = Settled
       /\ Models' = Models /\ Instances' = Instances /\ InstancesOf' = InstancesOf
       /\ Need' = Need /\ Resources' = Resources /\ Wants' = Wants /\ Asking' = Asking
       /\ IgnoreResources' = IgnoreResources /\ Keys' = Keys
       /\ \A j : ModelOf(j)' = ModelOf(j)
       /\ \A m : Own(m)' = Own(m)
       /\ \A v : ModelOfKey(v)' = ModelOfKey(v)
       /\ \A set : Limits(set)' = Limits(set)
  BY SettingFixed
<1>14. \A j : Pending(j)' <=> Pending(j)
  BY <1>2, <1>13 DEF Pending
<1>15. RLTypeOK'
  <2>1. execCount' \in [Instances -> Nat]
    BY <1>1, <1>4
  <2>2. \A x \in Resources : allocated[x] + Need[i][x] \in Int
    <3>1. \A x \in Resources : allocated[x] \in Int /\ Need[i][x] \in Int
      BY <1>4, SettingFacts DEF RLTypeOK
    <3> QED
      BY <3>1
  <2>3. allocated' \in [Resources -> 0..Word - 1]
    BY <1>1, <1>4, <2>2, ModFacts
  <2>4. staged' \subseteq Instances
    BY <1>1, <1>4
  <2> QED
    BY <1>2, <1>4, <1>11, <1>12, <1>13, <2>1, <2>3, <2>4 DEF RLTypeOK
<1>16. ASSUME NEW q \in Requests
       PROVE /\ Came(q)' <=> Came(q)
             /\ Called(q)' <=> Called(q) \/ q = s
             /\ Running(q)' <=> Running(q) \/ q = s
             /\ pc'[Caller(q)] \in CallerPCs /\ pc'[Executor(q)] \in ExecutorPCs
             /\ pc'[Caller(q)] # "new" => q \in Asking
             /\ pc'[Executor(q)] = "resources" <=> pc[Executor(q)] = "resources"
  <2>1. Caller(q) \in Actors /\ Executor(q) \in Actors /\ Caller(q) # e /\ (Executor(q) = e <=> q = s)
    BY <1>8, <1>9, ActorFacts
  <2>2. pc[Caller(q)] \in CallerPCs /\ pc[Executor(q)] \in ExecutorPCs /\ (pc[Caller(q)] # "new" => q \in Asking)
    BY <1>4 DEF ThreadsInv
  <2>3. CASE Caller(q) = p
    <3>1. w = "loop" /\ pc[p] = "onstage" /\ Executor(q) # p
      BY <1>3, <1>10, <2>3, ActorFacts
    <3>2. pc'[Executor(q)] = IF q = s THEN "running" ELSE pc[Executor(q)]
      BY <1>11, <2>1, <3>1
    <3> QED
      BY <1>8, <1>9, <1>11, <2>2, <2>3, <3>1, <3>2 DEF Came, Called, Running, CallerPCs, ExecutorPCs
  <2>4. CASE Executor(q) = p
    <3>1. Caller(q) # p /\ q # s
      BY <1>8, <1>9, <2>4, ActorFacts
    <3>2. pc'[Caller(q)] = pc[Caller(q)] /\ pc'[Executor(q)] = w
      BY <1>11, <2>1, <2>4, <3>1
    <3> QED
      BY <1>2, <2>2, <2>4, <3>1, <3>2 DEF Came, Called, Running, ExecutorPCs
  <2>5. CASE Caller(q) # p /\ Executor(q) # p
    <3>1. pc'[Caller(q)] = pc[Caller(q)]
      BY <1>11, <2>1, <2>5
    <3>2. pc'[Executor(q)] = IF q = s THEN "running" ELSE pc[Executor(q)]
      BY <1>11, <2>1, <2>5
    <3> QED
      BY <1>8, <1>9, <2>2, <3>1, <3>2 DEF Came, Called, Running, ExecutorPCs
  <2> QED
    BY <2>3, <2>4, <2>5
<1>17. pc'[Manager] = pc[Manager]
  BY <1>3, <1>9, <1>11, ActorFacts
<1>18. ThreadsInv'
  <2>1. \A q \in Requests : Called(q)' => q \in Asking /\ on'[q] \in Instances /\ ModelOf(on'[q]) = Wants[q].model
    BY <1>4, <1>6, <1>12, <1>16 DEF ThreadsInv
  <2> QED
    BY <1>4, <1>13, <1>16, <1>17, <2>1 DEF ThreadsInv
<1>19. StatesInv'
  <2>1. ASSUME NEW j \in Instances PROVE InstanceSound(j)'
    <3>1. InstanceSound(j)
      BY DEF RInv, StatesInv
    <3>2. CASE j # i
      BY <1>1, <1>2, <1>12, <1>13, <1>14, <3>1, <3>2 DEF InstanceSound
    <3>3. CASE j = i
      BY <1>1, <1>2, <1>6, <1>12, <3>3 DEF InstanceSound
    <3> QED
      BY <3>2, <3>3
  <2>2. ASSUME NEW m \in Models PROVE ModelSound(m)'
    <3>1. ModelSound(m) /\ (\A j \in Own(m) : j \in Instances /\ ModelOf(j) = m)
          /\ i \in Own(ModelOf(i))
      BY <1>4, SettingFacts DEF RInv, StatesInv
    <3>2. CASE m = ModelOf(i)
      <4>1. ctx[m] # "none" /\ ctx[m] # "removed"
        BY <1>6, <3>1, <3>2 DEF ModelSound, Untried
      <4> QED
        BY <1>2, <4>1 DEF ModelSound
    <3>3. CASE m # ModelOf(i)
      BY <1>2, <1>12, <1>13, <3>1, <3>3 DEF ModelSound, Untried
    <3> QED
      BY <3>2, <3>3
  <2>3. RemovalInv'
    <3>1. RemovalInv /\ target.model \in Models
      BY DEF RInv, StatesInv, RLTypeOK
    <3>2. \A k \in 1..Len(InstancesOf[target.model]) : InstancesOf[target.model][k] \in Instances
      BY <1>4, <3>1, SettingFacts
    <3>3. \A k \in 1..Len(InstancesOf[target.model]) :
            state[InstancesOf[target.model][k]] = "REMOVED" =>
              state'[InstancesOf[target.model][k]] = "REMOVED"
      BY <1>6, <1>12, <3>2
    <3> QED
      BY <1>2, <1>13, <1>17, <3>1, <3>3 DEF RemovalInv, At
  <2>4. RunningInv'
    <3>1. ASSUME NEW q \in Requests, Running(q)'
          PROVE state'[on'[q]] = "ALLOCATED" /\ (q # s => on'[q] = on[q] /\ Running(q) /\ on[q] # i)
      <4>1. CASE q = s
        BY <1>12, <4>1
      <4>2. CASE q # s
        <5>1. Running(q)
          BY <1>16, <3>1, <4>2
        <5>2. on[q] \in Instances /\ state[on[q]] = "ALLOCATED"
          BY <5>1 DEF RInv, StatesInv, RunningInv, ThreadsInv, Called, Running
        <5> QED
          BY <1>6, <1>12, <4>2, <5>1, <5>2
      <4> QED
        BY <4>1, <4>2
    <3>2. ASSUME NEW q \in Requests, NEW o \in Requests, Running(q)', Running(o)', on'[o] = on'[q]
          PROVE o = q
      <4>1. CASE q = s \/ o = s
        BY <1>12, <3>1, <3>2, <4>1
      <4>2. CASE q # s /\ o # s
        BY <3>1, <3>2, <4>2 DEF RInv, StatesInv, RunningInv
      <4> QED
        BY <4>1, <4>2
    <3> QED
      BY <3>1, <3>2 DEF RunningInv
  <2> QED
    BY <1>13, <2>1, <2>2, <2>3, <2>4 DEF StatesInv
<1>20. SeatsInv'
  <2>1. \A v : Queue(v)' = Queue(v)
    BY <1>2 DEF Queue
  <2>2. \A v \in Keys : QueueSound(v)'
    BY <1>4, <1>13, <2>1 DEF SeatsInv, QueueSound, Distinct, Holds
  <2>3. \A q \in Requests : \A v : Holds(Queue(v), q)' <=> Holds(Queue(v), q)
    BY <2>1 DEF Holds
  <2>4. \A q \in Requests : \A j \in Instances : Assigned(q, j)' <=> Assigned(q, j) /\ j # i
    BY <1>2, <1>12 DEF Assigned
  <2>5. \A q \in Requests : q # s => ~Assigned(q, i)
    BY <1>5 DEF Assigned
  <2>6. ASSUME NEW q \in Requests PROVE OneSeat(q)' /\ Seated(q)'
    <3>1. OneSeat(q) /\ Seated(q) /\ (Waits(q)' <=> Waits(q))
      BY <1>4, <1>13, <2>3 DEF SeatsInv, Waits
    <3>2. CASE q = s
      <4>1. ~IsAssigned(q)'
        BY <1>4, <1>7, <1>13, <2>4, <3>1, <3>2 DEF OneSeat, IsAssigned
      <4>2. OneSeat(q)'
        BY <1>7, <1>13, <1>16, <2>3, <2>4, <3>1, <3>2, <4>1 DEF OneSeat
      <4>3. Seated(q)'
        BY <1>16, <3>2 DEF Seated
      <4> QED
        BY <4>2, <4>3
    <3>3. CASE q # s
      <4>1. IsAssigned(q)' <=> IsAssigned(q)
        BY <1>13, <2>4, <2>5, <3>3 DEF IsAssigned
      <4>2. OneSeat(q)'
        BY <1>13, <1>16, <2>3, <2>4, <3>1, <3>3, <4>1 DEF OneSeat
      <4>3. Seated(q)'
        BY <1>13, <1>16, <3>1, <3>3, <4>1 DEF Seated
      <4> QED
        BY <4>2, <4>3
    <3> QED
      BY <3>2, <3>3
  <2> QED
    BY <1>13, <2>2, <2>6 DEF SeatsInv
<1>21. \A q \in Actors : q # e /\ (\A o : q # Caller(o)) => Instance(q)' = Instance(q)
  <2>1. \A o \in Requests : Executor(o) # e => o # s
    BY <1>8
  <2>2. Instance(Manager)' = Instance(Manager)
    BY <1>2, <1>13 DEF Instance
  <2>3. ASSUME NEW o \in Requests, Executor(o) # e PROVE Instance(Executor(o))' = Instance(Executor(o))
    <3>1. Executor(o) # Manager /\ Executor(o)[2] = o
      BY ActorFacts
    <3>2. Instance(Executor(o)) = on[o] /\ Instance(Executor(o))' = on'[o]
      BY <3>1 DEF Instance
    <3> QED
      BY <1>12, <2>1, <2>3, <3>2
  <2> QED
    BY <2>2, <2>3, ActorFacts
<1>22. LocksInv'
  <2>1. ASSUME NEW q \in Actors PROVE LoopOf(q)' /\ CheckOf(q)'
    <3>1. LoopOf(q) /\ CheckOf(q) /\ q # Free
      BY ActorFacts DEF RInv, LocksInv
    <3>2. (InLoop(q)' => InLoop(q)) /\ (At(q, "decide")' => At(q, "decide") /\ q # e)
      BY <1>10, <1>11 DEF InLoop, At
    <3>3. \A m : NothingNew(m)
      BY <1>14 DEF NothingNew
    <3>4. LoopOf(q)'
      BY <1>2, <1>4, <3>1, <3>2, <3>3, LoopFrame
    <3>5. At(q, "decide") => \A o : q # Caller(o)
      BY <1>4, ActorFacts DEF At, ThreadsInv, CallerPCs
    <3>6. At(q, "decide") => Instance(q)' = Instance(q)
      BY <1>9, <1>21, <3>5 DEF At
    <3>7. sMtx[Instance(q)] = q => state'[Instance(q)] = state[Instance(q)]
      BY <1>1, <1>4, <3>1
    <3>8. CheckOf(q)'
      BY <1>2, <3>1, <3>2, <3>6, <3>7, CheckFrame
    <3> QED
      BY <3>4, <3>8
  <2> QED
    BY <2>1 DEF LocksInv
<1>23. SeenInv'
  <2> SUFFICES ASSUME NEW j \in avbl, state'[j] = "AVAILABLE", Pending(j)
               PROVE \E q \in Actors : Seeks(q, j)'
    BY <1>2, <1>14 DEF SeenInv
  <2>1. state[j] = "AVAILABLE"
    BY <1>4, <1>6, <1>12 DEF RLTypeOK
  <2>2. PICK q \in Actors : Seeks(q, j)
    BY <2>1 DEF RInv, SeenInv
  <2>3. q # e
    BY <1>9, <2>2 DEF Seeks
  <2>4. CASE q = p
    <3>1. pc[p] = "onstage" /\ ModelOfActor(p) = ModelOf(j)
      BY <1>2, <2>2, <2>4 DEF Seeks
    <3>2. ModelOfActor(p)' = ModelOfActor(p)
      BY <1>3, <1>13 DEF ModelOfActor
    <3>3. Seeks(p, j)'
      BY <1>3, <1>10, <1>11, <1>13, <3>1, <3>2 DEF Seeks
    <3> QED
      BY <1>3, <3>3
  <2>5. CASE q # p
    <3>1. pc'[q] = pc[q]
      BY <1>11, <2>3, <2>5
    <3>2. pc[q] \in {"resources", "pending"} => UNCHANGED on[q[2]]
      <4>1. pc[q] \in {"resources", "pending"} => \E o \in Requests : q = Executor(o) /\ o # s
        BY <1>4, <1>8, <2>3, ActorFacts DEF ThreadsInv, CallerPCs, ManagerPCs
      <4> QED
        BY <1>12, <4>1, ActorFacts
    <3> QED
      BY <2>2, <3>1, <3>2, SeeksFrame
  <2> QED
    BY <2>4, <2>5
<1>24. i \notin Allocated /\ Allocated' = Allocated \cup {i} /\ Allocated \in SUBSET Instances
  BY <1>4, <1>6, <1>12, <1>13 DEF Allocated
<1>25. Releasing' = Releasing /\ s \notin Releasing
  BY <1>8, <1>9, <1>16 DEF Releasing
<1>26. ASSUME NEW x \in Resources
       PROVE /\ InUse(x) \in Nat /\ InReturn(x) \in Nat /\ Need[i][x] \in Nat
             /\ InUse(x)' = InUse(x) + Need[i][x] /\ InReturn(x)' = InReturn(x)
  <2>1. InUse(x)' = Uses(Allocated \cup {i}, x) /\ InUse(x) = Uses(Allocated, x)
    BY <1>13, <1>24 DEF InUse, Uses
  <2>2. InReturn(x)' = InReturn(x) /\ InReturn(x) \in Nat
    <3>1. \A q \in Releasing : on'[q] = on[q]
      BY <1>12, <1>25 DEF Releasing
    <3>2. InReturn(x)' = InReturn(x)
      BY <1>13, <1>25, <3>1 DEF InReturn
    <3> QED
      BY <1>4, <3>2, SumFacts
  <2>3. /\ Uses(Allocated, x) \in Nat /\ Need[i][x] \in Nat
        /\ Uses(Allocated \cup {i}, x) = Uses(Allocated, x) + Need[i][x]
    BY <1>4, <1>24, UsesAdds
  <2> QED
    BY <2>1, <2>2, <2>3
<1>27. SettledInv'
  <2> SUFFICES ASSUME Settled PROVE SettledInv'
    BY <1>13 DEF SettledInv
  <2>1. /\ \A m \in Models : ctx[m] = "present" /\ ~removing[m]
        /\ pc[Manager] = "idle" /\ registered = Instances /\ limit = Limits(Instances)
        /\ \A x \in Resources : allocated[x] = (InUse(x) + InReturn(x)) % Word
    BY <1>6 DEF RInv, SettledInv
  <2>2. ASSUME NEW x \in Resources PROVE allocated'[x] = (InUse(x)' + InReturn(x)') % Word
    <3>1. PICK u \in Nat : u = InUse(x)
      BY <1>26
    <3>2. PICK v \in Nat : v = InReturn(x)
      BY <1>26
    <3>3. PICK n \in Nat : n = Need[i][x]
      BY <1>26
    <3>4. allocated[x] = (u + v) % Word /\ allocated'[x] = (allocated[x] + n) % Word
      BY <1>1, <2>1, <3>1, <3>2, <3>3
    <3>5. InUse(x)' + InReturn(x)' = (u + v) + n /\ u + v \in Nat
      BY <1>26, <3>1, <3>2, <3>3
    <3>6. (((u + v) % Word) + n) % Word = ((u + v) + n) % Word
      BY ONLY <1>4, <3>5, n \in Nat, CounterFacts
    <3> QED
      BY <3>4, <3>5, <3>6
  <2> QED
    BY <1>2, <1>13, <1>17, <1>24, <2>1, <2>2 DEF SettledInv
<1>28. \A x \in Resources : Out(x)' = Out(x) + Need[i][x]
  BY <1>26 DEF Out
<1> QED
  BY <1>1, <1>15, <1>18, <1>19, <1>20, <1>22, <1>23, <1>27, <1>28 DEF RInv

\* The queue that the first request for an instance leaves.
LEMMA RequestIsPopped ==
  ASSUME RLTypeOK, UNCHANGED setting, NEW i \in Instances, Pending(i), PopRequest(i)
  PROVE /\ \E v \in Keys : /\ Queue(v) # << >> /\ OnlyQueue(v) /\ Queue(v)' = Tail(Queue(v))
                           /\ FirstRequest(i) = Head(Queue(v)) /\ ModelOfKey(v) = ModelOf(i)
        /\ generic' \in [Models -> Seq(Requests)] /\ specific' \in [Instances -> Seq(Requests)]
        /\ \A m \in Models : m # ModelOf(i) => generic'[m] = generic[m]
        /\ \A j \in Instances : j # i => specific'[j] = specific[j]
        /\ \A m \in Models : generic[m] = << >> => generic'[m] = << >>
        /\ \A j \in Instances : specific[j] = << >> => specific'[j] = << >>
<1>1. PICK m \in Models : m = ModelOf(i)
  BY SettingFacts DEF RLTypeOK
<1>2. /\ generic \in [Models -> Seq(Requests)] /\ specific \in [Instances -> Seq(Requests)]
  BY DEF RLTypeOK
<1>3. CASE specific[i] # << >>
  <2>1. specific' = [specific EXCEPT ![i] = Tail(specific[i])] /\ generic' = generic
    BY <1>3 DEF PopRequest
  <2>2. PICK v : v = <<"specific", i>>
    OBVIOUS
  <2>3. v \in Keys /\ ModelOfKey(v) = m /\ Queue(v) = specific[i] /\ Queue(v)' = specific'[i]
    BY <1>1, <2>2, KeyFacts DEF Queue
  <2>4. specific'[i] = Tail(specific[i]) /\ \A j \in Instances : j # i => specific'[j] = specific[j]
    BY <1>2, <2>1
  <2>5. OnlyQueue(v)
    <3>1. \A j \in Instances : <<"specific", j>> # v => j # i
      BY <2>2
    <3>2. \A j \in Instances : <<"specific", j>> # v => Queue(<<"specific", j>>)' = Queue(<<"specific", j>>)
      BY <2>4, <3>1 DEF Queue
    <3>3. \A o \in Models : Queue(<<"generic", o>>)' = Queue(<<"generic", o>>)
      BY <2>1 DEF Queue
    <3> QED
      BY <3>2, <3>3, KeyFacts DEF OnlyQueue
  <2>6. FirstRequest(i) = Head(specific[i])
    <3>1. PICK a \in Seq(Requests) : a = specific[i] /\ a # << >>
      BY <1>2, <1>3
    <3>2. PICK b \in Seq(Requests) : b = generic[m]
      BY <1>2
    <3>3. Head(a \o b) = Head(a)
      BY <3>1
    <3> QED
      BY <1>1, <3>1, <3>2, <3>3 DEF FirstRequest
  <2>7. specific' \in [Instances -> Seq(Requests)]
    <3>1. Tail(specific[i]) \in Seq(Requests)
      <4>1. PICK a \in Seq(Requests) : a = specific[i] /\ a # << >>
        BY <1>2, <1>3
      <4>2. Tail(a) \in Seq(Requests)
        BY <4>1
      <4> QED
        BY <4>1, <4>2
    <3> QED
      BY <1>2, <2>1, <3>1
  <2> QED
    BY <1>1, <1>2, <1>3, <2>1, <2>3, <2>4, <2>5, <2>6, <2>7
<1>4. CASE specific[i] = << >>
  <2>1. generic' = [generic EXCEPT ![m] = Tail(generic[m])] /\ specific' = specific /\ generic[m] # << >>
    BY <1>1, <1>4 DEF PopRequest, Pending
  <2>2. PICK v : v = <<"generic", m>>
    OBVIOUS
  <2>3. v \in Keys /\ ModelOfKey(v) = m /\ Queue(v) = generic[m] /\ Queue(v)' = generic'[m]
    BY <1>1, <2>2, KeyFacts DEF Queue
  <2>4. generic'[m] = Tail(generic[m]) /\ \A o \in Models : o # m => generic'[o] = generic[o]
    BY <1>2, <2>1
  <2>5. OnlyQueue(v)
    <3>1. \A o \in Models : <<"generic", o>> # v => o # m
      BY <2>2
    <3>2. \A o \in Models : <<"generic", o>> # v => Queue(<<"generic", o>>)' = Queue(<<"generic", o>>)
      BY <2>4, <3>1 DEF Queue
    <3>3. \A j \in Instances : Queue(<<"specific", j>>)' = Queue(<<"specific", j>>)
      BY <2>1 DEF Queue
    <3> QED
      BY <3>2, <3>3, KeyFacts DEF OnlyQueue
  <2>6. FirstRequest(i) = Head(generic[m])
    <3>1. PICK b \in Seq(Requests) : b = generic[m]
      BY <1>2
    <3>2. << >> \o b = b
      BY <3>1
    <3> QED
      BY <1>1, <1>4, <3>1, <3>2 DEF FirstRequest
  <2>7. generic' \in [Models -> Seq(Requests)]
    <3>1. Tail(generic[m]) \in Seq(Requests)
      <4>1. PICK a \in Seq(Requests) : a = generic[m] /\ a # << >>
        BY <1>2, <2>1
      <4>2. Tail(a) \in Seq(Requests)
        BY <4>1
      <4> QED
        BY <4>1, <4>2
    <3> QED
      BY <1>2, <2>1, <3>1
  <2> QED
    BY <1>1, <1>2, <2>1, <2>3, <2>4, <2>5, <2>6, <2>7
<1> QED
  BY <1>3, <1>4

\* Request s leaves queue v for instance i: it is assigned to it (b), or called
\* back.
NewSeat(s, i, b) ==
  \A q \in Requests :
    /\ Came(q)' <=> Came(q)
    /\ Called(q)' <=> Called(q) \/ (~b /\ q = s)
    /\ \A j \in Instances : Assigned(q, j)' <=> Assigned(q, j) \/ (b /\ q = s /\ j = i)

\* A request that leaves its queue is seated again.
LEMMA SeatsPop ==
  ASSUME UNCHANGED setting, RLTypeOK, SeatsInv, NEW v \in Keys, Queue(v) # << >>, OnlyQueue(v),
         Queue(v)' = Tail(Queue(v)), NEW s, s = Head(Queue(v)), NEW i \in Instances,
         NEW b \in BOOLEAN, NewSeat(s, i, b)
  PROVE SeatsInv'
<1>1. /\ Models' = Models /\ Instances' = Instances /\ InstancesOf' = InstancesOf
      /\ Wants' = Wants /\ Asking' = Asking /\ Keys' = Keys
      /\ \A w : ModelOfKey(w)' = ModelOfKey(w)
  BY SettingFixed
<1>2. Queue(v) \in Seq(Requests) /\ Distinct(Queue(v))
  BY QueueTypes DEF SeatsInv, QueueSound
<1>3. /\ \A q : Holds(Tail(Queue(v)), q) <=> Holds(Queue(v), q) /\ q # s
      /\ Distinct(Tail(Queue(v))) /\ Holds(Queue(v), s) /\ s \in Requests
  BY <1>2, TailFacts
<1>4. Waits(s) /\ Came(s) /\ ~Called(s) /\ ~IsAssigned(s)
  BY <1>3 DEF SeatsInv, OneSeat, Waits
<1>5. \A w \in Keys : \A q \in Requests : Holds(Queue(w), q)' <=> Holds(Queue(w), q) /\ q # s
  <2>1. ASSUME NEW w \in Keys, w # v, NEW q \in Requests PROVE Holds(Queue(w), q)' <=> Holds(Queue(w), q)
    <3>1. Queue(w)' = Queue(w)
      BY <2>1 DEF OnlyQueue
    <3> QED
      BY <3>1 DEF Holds
  <2>2. ASSUME NEW q \in Requests PROVE Holds(Queue(v), q)' <=> Holds(Queue(v), q) /\ q # s
    <3>1. PICK a : a = Queue(v)'
      OBVIOUS
    <3>2. Holds(Queue(v), q)' <=> Holds(a, q)
      BY <3>1 DEF Holds
    <3> QED
      BY <1>3, <3>1, <3>2
  <2>3. \A w \in Keys : w # v => ~Holds(Queue(w), s)
    BY <1>3 DEF SeatsInv, OneSeat
  <2> QED
    BY <2>1, <2>2, <2>3
<1>6. ASSUME NEW w \in Keys PROVE QueueSound(w)'
  <2>1. QueueSound(w)
    BY DEF SeatsInv
  <2>2. \A q \in Requests : Holds(Queue(w), q)' => q \in Asking /\ Wants[q].model = ModelOfKey(w)
    BY <1>5, <2>1 DEF QueueSound
  <2>3. Distinct(Queue(w))'
    <3>1. CASE w # v
      BY <2>1, <3>1 DEF OnlyQueue, QueueSound, Distinct
    <3>2. CASE w = v
      <4>1. PICK a : a = Queue(v)'
        OBVIOUS
      <4> QED
        BY <1>3, <3>2, <4>1 DEF Distinct
    <3> QED
      BY <3>1, <3>2
  <2> QED
    BY <1>1, <2>2, <2>3 DEF QueueSound
<1>7. ASSUME NEW q \in Requests PROVE OneSeat(q)' /\ Seated(q)'
  <2>1. OneSeat(q) /\ Seated(q)
    BY DEF SeatsInv
  <2>2. /\ Came(q)' <=> Came(q)
        /\ Called(q)' <=> Called(q) \/ (~b /\ q = s)
        /\ \A j \in Instances : Assigned(q, j)' <=> Assigned(q, j) \/ (b /\ q = s /\ j = i)
    BY DEF NewSeat
  <2>3. (Waits(q)' <=> Waits(q) /\ q # s) /\ (IsAssigned(q)' <=> IsAssigned(q) \/ (b /\ q = s))
    BY <1>1, <1>5, <2>2 DEF Waits, IsAssigned
  <2>4. CASE q = s
    <3>1. \A j \in Instances : ~Assigned(q, j)
      BY <1>4, <2>4 DEF IsAssigned
    <3>2. OneSeat(q)'
      BY <1>1, <1>4, <1>5, <2>1, <2>2, <2>3, <2>4, <3>1 DEF OneSeat
    <3>3. Seated(q)'
      BY <2>2, <2>3, <2>4 DEF Seated
    <3> QED
      BY <3>2, <3>3
  <2>5. CASE q # s
    <3>1. OneSeat(q)'
      BY <1>1, <1>5, <2>1, <2>2, <2>3, <2>5 DEF OneSeat
    <3>2. Seated(q)'
      BY <1>1, <2>1, <2>2, <2>3, <2>5 DEF Seated
    <3> QED
      BY <3>1, <3>2
  <2> QED
    BY <2>4, <2>5
<1> QED
  BY <1>1, <1>6, <1>7 DEF SeatsInv

\* ModelInstance::Stage or DirectAllocate: an available instance takes the first
\* request for it.
LEMMA OfferInstanceKeeps ==
  ASSUME RInv, UNCHANGED setting, NEW r \in Asking, NEW p, p \in {Caller(r), Executor(r)},
         OfferInstance(p)
  PROVE RInv' /\ (~IgnoreResources => \A x \in Resources : Out(x)' = Out(x))
<1> DEFINE stage == ~IgnoreResources
<1>1. PICK i \in Unexamined(p) :
        /\ Pending(i) /\ sMtx[i] = Free /\ PopRequest(i)
        /\ LET s == FirstRequest(i)
               ok == state[i] = "AVAILABLE"
               d == ok /\ SkipsStaging
               t == ok /\ ~SkipsStaging
           IN  /\ avbl' = avbl \ {i}
               /\ sched' = [sched EXCEPT ![i] = IF ok THEN s ELSE @]
               /\ state' = [state EXCEPT ![i] = IF d THEN "ALLOCATED"
                                                ELSE IF t THEN "STAGED" ELSE @]
               /\ execCount' = [execCount EXCEPT ![i] = IF d THEN @ + 1 ELSE @]
               /\ staged' = IF t THEN staged \cup {i} ELSE staged
               /\ on' = [on EXCEPT ![s] = IF d THEN i ELSE @]
               /\ pc' = [pc EXCEPT ![Executor(s)] = IF d THEN "running" ELSE @,
                                   ![p] = IF t THEN "onstage" ELSE @]
  BY DEF OfferInstance, Top
<1>2. /\ pc[p] = "loop"
      /\ UNCHANGED <<ctx, removing, registered, limit, allocated, ctxMtx, qMtx, sMtx, backup, target>>
  BY DEF OfferInstance, At, resVars
<1>3. /\ p \in Actors /\ p # Manager /\ r \in Requests
      /\ ModelOfActor(p) = Wants[r].model /\ Wants[r].model \in Models
      /\ \A q : (p = Caller(q) \/ p = Executor(q)) => q = r
      /\ Came(r) /\ (p = Caller(r) => \A q : p # Executor(q)) /\ (p = Executor(r) => \A q : p # Caller(q))
  BY <1>2, LoopThread
<1>4. /\ RLTypeOK /\ ThreadsInv /\ SeatsInv /\ setting \in DOMAIN Settings
      /\ state \in [Instances -> {"AVAILABLE", "STAGED", "ALLOCATED", "REMOVED"}]
      /\ on \in [Requests -> Instances \cup {0}] /\ pc \in [Actors -> PCs]
      /\ sched \in [Instances -> Requests \cup {0}]
      /\ execCount \in [Instances -> Nat] /\ staged \subseteq Instances /\ avbl \subseteq Instances
      /\ stage \in BOOLEAN
  BY SettingFacts DEF RInv, RLTypeOK
<1>5. i \in Instances /\ i \in avbl /\ ModelOf(i) = Wants[r].model
  BY <1>3, <1>4, SettingFacts DEF Unexamined
<1>6. state[i] = "AVAILABLE" /\ ctx[ModelOf(i)] = "present" /\ i \notin staged
  BY <1>1, <1>4, <1>5 DEF RInv, StatesInv, InstanceSound
<1>7. PICK s : s = FirstRequest(i)
  OBVIOUS
<1>8. PICK v \in Keys : /\ Queue(v) # << >> /\ OnlyQueue(v) /\ Queue(v)' = Tail(Queue(v))
                        /\ s = Head(Queue(v)) /\ ModelOfKey(v) = ModelOf(i)
  BY <1>1, <1>4, <1>5, <1>7, RequestIsPopped
<1>9. Queue(v) \in Seq(Requests) /\ QueueSound(v)
  BY <1>4, QueueTypes DEF SeatsInv
<1>10. s \in Requests /\ Holds(Queue(v), s)
  BY <1>8, <1>9, TailFacts DEF QueueSound
<1>11. s \in Asking /\ Wants[s].model = ModelOf(i)
  BY <1>8, <1>9, <1>10 DEF QueueSound
<1>12. Came(s) /\ ~Called(s) /\ ~IsAssigned(s)
  BY <1>4, <1>10 DEF SeatsInv, OneSeat, Waits
<1>13. PICK e \in Actors : e = Executor(s)
  BY <1>10, ActorFacts
<1>14. /\ pc[e] = "idle" /\ e # p /\ e # Manager /\ (\A q : e # Caller(q)) /\ \A q : e = Executor(q) => q = s
  BY <1>2, <1>12, <1>13, ActorFacts DEF Called
<1>15. /\ pc' = [pc EXCEPT ![e] = IF stage THEN pc[e] ELSE "running", ![p] = IF stage THEN "onstage" ELSE "loop"]
       /\ on' = [on EXCEPT ![s] = IF stage THEN on[s] ELSE i]
       /\ state' = [state EXCEPT ![i] = IF stage THEN "STAGED" ELSE "ALLOCATED"]
       /\ sched' = [sched EXCEPT ![i] = s]
       /\ execCount' = [execCount EXCEPT ![i] = IF stage THEN execCount[i] ELSE execCount[i] + 1]
       /\ staged' = (IF stage THEN staged \cup {i} ELSE staged) /\ avbl' = avbl \ {i}
  BY <1>1, <1>2, <1>3, <1>4, <1>5, <1>6, <1>7, <1>10, <1>13, <1>14 DEF SkipsStaging
<1> HIDE DEF stage
<1>16. /\ pc'[p] = (IF stage THEN "onstage" ELSE "loop")
       /\ pc'[e] = (IF stage THEN "idle" ELSE "running")
       /\ \A q \in Actors : q # p /\ q # e => pc'[q] = pc[q]
       /\ pc' \in [Actors -> PCs]
  BY <1>3, <1>4, <1>14, <1>15 DEF PCs
<1>17. /\ state'[i] = (IF stage THEN "STAGED" ELSE "ALLOCATED")
       /\ \A j \in Instances : j # i => state'[j] = state[j]
       /\ state' \in [Instances -> {"AVAILABLE", "STAGED", "ALLOCATED", "REMOVED"}]
  BY <1>4, <1>5, <1>15
<1>18. /\ on'[s] = (IF stage THEN on[s] ELSE i) /\ \A q \in Requests : q # s => on'[q] = on[q]
       /\ on' \in [Requests -> Instances \cup {0}]
       /\ sched'[i] = s /\ \A j \in Instances : j # i => sched'[j] = sched[j]
       /\ sched' \in [Instances -> Requests \cup {0}]
  BY <1>4, <1>5, <1>10, <1>15
<1>19. /\ Settled' = Settled
       /\ Models' = Models /\ Instances' = Instances /\ InstancesOf' = InstancesOf
       /\ Need' = Need /\ Resources' = Resources /\ Wants' = Wants /\ Asking' = Asking
       /\ IgnoreResources' = IgnoreResources
       /\ \A j : ModelOf(j)' = ModelOf(j)
       /\ \A m : Own(m)' = Own(m)
       /\ \A set : Limits(set)' = Limits(set)
  BY SettingFixed
<1>20. /\ generic' \in [Models -> Seq(Requests)] /\ specific' \in [Instances -> Seq(Requests)]
       /\ \A m \in Models : generic[m] = << >> => generic'[m] = << >>
       /\ \A j \in Instances : specific[j] = << >> => specific'[j] = << >>
  BY <1>1, <1>4, <1>5, RequestIsPopped
<1>21. \A j \in Instances : Pending(j)' => Pending(j)
  <2>1. \A j \in Instances : ModelOf(j) \in Models
    BY <1>4, SettingFacts
  <2> QED
    BY <1>19, <1>20, <2>1 DEF Pending
<1>22. RLTypeOK'
  <2>1. execCount' \in [Instances -> Nat]
    BY <1>4, <1>5, <1>15
  <2>2. staged' \subseteq Instances /\ avbl' \subseteq Instances
    BY <1>4, <1>5, <1>15
  <2> QED
    BY <1>2, <1>4, <1>16, <1>17, <1>18, <1>19, <1>20, <2>1, <2>2 DEF RLTypeOK
<1>23. ASSUME NEW q \in Requests
       PROVE /\ Came(q)' <=> Came(q)
             /\ Called(q)' <=> Called(q) \/ (~stage /\ q = s)
             /\ Running(q)' <=> Running(q) \/ (~stage /\ q = s)
             /\ pc'[Caller(q)] \in CallerPCs /\ pc'[Executor(q)] \in ExecutorPCs
             /\ pc'[Caller(q)] # "new" => q \in Asking
             /\ pc'[Executor(q)] = "resources" <=> pc[Executor(q)] = "resources"
  <2>1. Caller(q) \in Actors /\ Executor(q) \in Actors /\ Caller(q) # e /\ (Executor(q) = e <=> q = s)
    BY <1>13, <1>14, ActorFacts
  <2>2. pc[Caller(q)] \in CallerPCs /\ pc[Executor(q)] \in ExecutorPCs /\ (pc[Caller(q)] # "new" => q \in Asking)
    BY <1>4 DEF ThreadsInv
  <2>3. CASE Caller(q) = p
    <3>1. Executor(q) # p /\ q = r
      BY <1>3, <2>3, ActorFacts
    <3>2. pc'[Executor(q)] = IF ~stage /\ q = s THEN "running" ELSE pc[Executor(q)]
      BY <1>13, <1>14, <1>16, <2>1, <3>1
    <3> QED
      BY <1>2, <1>13, <1>14, <1>16, <2>2, <2>3, <3>1, <3>2 DEF Came, Called, Running, CallerPCs, ExecutorPCs
  <2>4. CASE Executor(q) = p
    <3>1. Caller(q) # p /\ q # s
      BY <1>13, <1>14, <2>4, ActorFacts
    <3>2. pc'[Caller(q)] = pc[Caller(q)] /\ pc'[Executor(q)] \in {"loop", "onstage"}
      BY <1>16, <2>1, <2>4, <3>1
    <3> QED
      BY <1>2, <2>2, <2>4, <3>1, <3>2 DEF Came, Called, Running, ExecutorPCs
  <2>5. CASE Caller(q) # p /\ Executor(q) # p
    <3>1. pc'[Caller(q)] = pc[Caller(q)]
      BY <1>16, <2>1, <2>5
    <3>2. pc'[Executor(q)] = IF ~stage /\ q = s THEN "running" ELSE pc[Executor(q)]
      BY <1>13, <1>14, <1>16, <2>1, <2>5
    <3> QED
      BY <1>13, <1>14, <2>2, <3>1, <3>2 DEF Came, Called, Running, ExecutorPCs
  <2> QED
    BY <2>3, <2>4, <2>5
<1>24. pc'[Manager] = pc[Manager]
  BY <1>3, <1>14, <1>16, ActorFacts
<1>25. ThreadsInv'
  <2>1. \A q \in Requests : Called(q)' => q \in Asking /\ on'[q] \in Instances /\ ModelOf(on'[q]) = Wants[q].model
    BY <1>4, <1>5, <1>11, <1>12, <1>18, <1>23 DEF ThreadsInv
  <2> QED
    BY <1>4, <1>19, <1>23, <1>24, <2>1 DEF ThreadsInv
<1>26. StatesInv'
  <2>1. ASSUME NEW j \in Instances PROVE InstanceSound(j)'
    <3>1. InstanceSound(j)
      BY DEF RInv, StatesInv
    <3>2. CASE j # i
      BY <1>2, <1>15, <1>17, <1>18, <1>19, <1>21, <3>1, <3>2 DEF InstanceSound
    <3>3. CASE j = i
      BY <1>6, <1>11, <1>15, <1>17, <1>18, <1>19, <3>3 DEF InstanceSound, stage
    <3> QED
      BY <3>2, <3>3
  <2>2. ASSUME NEW m \in Models PROVE ModelSound(m)'
    <3>1. ModelSound(m) /\ (\A j \in Own(m) : j \in Instances /\ ModelOf(j) = m)
      BY <1>4, SettingFacts DEF RInv, StatesInv
    <3>2. CASE m = ModelOf(i)
      BY <1>2, <1>6, <3>2 DEF ModelSound
    <3>3. CASE m # ModelOf(i)
      BY <1>2, <1>17, <1>19, <1>20, <3>1, <3>3 DEF ModelSound, Untried
    <3> QED
      BY <3>2, <3>3
  <2>3. RemovalInv'
    <3>1. RemovalInv /\ target.model \in Models
      BY DEF RInv, StatesInv, RLTypeOK
    <3>2. \A k \in 1..Len(InstancesOf[target.model]) : InstancesOf[target.model][k] \in Instances
      BY <1>4, <3>1, SettingFacts
    <3>3. \A k \in 1..Len(InstancesOf[target.model]) :
            state[InstancesOf[target.model][k]] = "REMOVED" =>
              state'[InstancesOf[target.model][k]] = "REMOVED"
      BY <1>6, <1>17, <3>2
    <3> QED
      BY <1>2, <1>19, <1>24, <3>1, <3>3 DEF RemovalInv, At
  <2>4. RunningInv'
    <3>1. ASSUME NEW q \in Requests, Running(q)'
          PROVE state'[on'[q]] = "ALLOCATED"
                /\ (~(~stage /\ q = s) => on'[q] = on[q] /\ Running(q) /\ on[q] # i)
      <4>1. CASE ~stage /\ q = s
        BY <1>17, <1>18, <4>1
      <4>2. CASE ~(~stage /\ q = s)
        <5>1. Running(q)
          BY <1>23, <3>1, <4>2
        <5>2. on[q] \in Instances /\ state[on[q]] = "ALLOCATED"
          BY <5>1 DEF RInv, StatesInv, RunningInv, ThreadsInv, Called, Running
        <5> QED
          BY <1>6, <1>17, <1>18, <4>2, <5>1, <5>2
      <4> QED
        BY <4>1, <4>2
    <3>2. ASSUME NEW q \in Requests, NEW o \in Requests, Running(q)', Running(o)', on'[o] = on'[q]
          PROVE o = q
      <4>1. CASE ~stage /\ (q = s \/ o = s)
        BY <1>18, <3>1, <3>2, <4>1
      <4>2. CASE ~(~stage /\ (q = s \/ o = s))
        BY <3>1, <3>2, <4>2 DEF RInv, StatesInv, RunningInv
      <4> QED
        BY <4>1, <4>2
    <3> QED
      BY <3>1, <3>2 DEF RunningInv
  <2> QED
    BY <1>19, <2>1, <2>2, <2>3, <2>4 DEF StatesInv
<1>27. SeatsInv'
  <2>1. \A q \in Requests : \A j \in Instances :
          Assigned(q, j)' <=> Assigned(q, j) \/ (stage /\ q = s /\ j = i)
    BY <1>6, <1>17, <1>18 DEF Assigned
  <2>2. NewSeat(s, i, stage)
    BY <1>23, <2>1 DEF NewSeat
  <2> QED
    BY <1>4, <1>5, <1>8, <2>2, SeatsPop
<1>28. \A q \in Actors : q # e /\ (\A o : q # Caller(o)) => Instance(q)' = Instance(q)
  <2>1. \A o \in Requests : Executor(o) # e => o # s
    BY <1>13
  <2>2. Instance(Manager)' = Instance(Manager)
    BY <1>2, <1>19 DEF Instance
  <2>3. ASSUME NEW o \in Requests, Executor(o) # e PROVE Instance(Executor(o))' = Instance(Executor(o))
    <3>1. Executor(o) # Manager /\ Executor(o)[2] = o
      BY ActorFacts
    <3>2. Instance(Executor(o)) = on[o] /\ Instance(Executor(o))' = on'[o]
      BY <3>1 DEF Instance
    <3> QED
      BY <1>18, <2>1, <2>3, <3>2
  <2> QED
    BY <2>2, <2>3, ActorFacts
<1>29. LocksInv'
  <2>1. ASSUME NEW q \in Actors PROVE LoopOf(q)' /\ CheckOf(q)'
    <3>1. LoopOf(q) /\ CheckOf(q) /\ q # Free
      BY ActorFacts DEF RInv, LocksInv
    <3>2. (InLoop(q)' => InLoop(q)) /\ (At(q, "decide")' => At(q, "decide") /\ q # e)
      BY <1>2, <1>16 DEF InLoop, At
    <3>3. \A m : NothingNew(m)
      BY <1>21 DEF NothingNew
    <3>4. LoopOf(q)'
      BY <1>2, <1>4, <3>1, <3>2, <3>3, LoopFrame
    <3>5. At(q, "decide") => \A o : q # Caller(o)
      BY <1>4, ActorFacts DEF At, ThreadsInv, CallerPCs
    <3>6. At(q, "decide") => Instance(q)' = Instance(q)
      BY <1>14, <1>28, <3>5 DEF At
    <3>7. sMtx[Instance(q)] = q => state'[Instance(q)] = state[Instance(q)]
      BY <1>1, <1>4, <1>15, <3>1
    <3>8. CheckOf(q)'
      BY <1>2, <3>1, <3>2, <3>6, <3>7, CheckFrame
    <3> QED
      BY <3>4, <3>8
  <2> QED
    BY <2>1 DEF LocksInv
<1>30. SeenInv'
  <2> SUFFICES ASSUME NEW j \in avbl, j # i, state'[j] = "AVAILABLE", Pending(j)'
               PROVE \E q \in Actors : Seeks(q, j)'
    BY <1>15 DEF SeenInv
  <2>1. state[j] = "AVAILABLE" /\ Pending(j)
    BY <1>4, <1>17, <1>21
  <2>2. PICK q \in Actors : Seeks(q, j)
    BY <2>1 DEF RInv, SeenInv
  <2>3. q # e
    BY <1>14, <2>2 DEF Seeks
  <2>4. CASE q = p
    <3>1. ModelOfActor(p) = ModelOf(j)
      BY <1>2, <2>2, <2>4 DEF Seeks
    <3>2. ModelOfActor(p)' = ModelOfActor(p)
      BY <1>3, <1>19 DEF ModelOfActor
    <3>3. Seeks(p, j)'
      BY <1>3, <1>16, <1>19, <3>1, <3>2 DEF Seeks
    <3> QED
      BY <1>3, <3>3
  <2>5. CASE q # p
    <3>1. pc'[q] = pc[q]
      BY <1>16, <2>3, <2>5
    <3>2. pc[q] \in {"resources", "pending"} => UNCHANGED on[q[2]]
      <4>1. pc[q] \in {"resources", "pending"} => \E o \in Requests : q = Executor(o) /\ o # s
        BY <1>4, <1>13, <2>3, ActorFacts DEF ThreadsInv, CallerPCs, ManagerPCs
      <4> QED
        BY <1>18, <4>1, ActorFacts
    <3> QED
      BY <2>2, <3>1, <3>2, SeeksFrame
  <2> QED
    BY <2>4, <2>5
<1>31. Releasing' = Releasing /\ s \notin Releasing
  BY <1>13, <1>14, <1>23 DEF Releasing
<1>32. ASSUME stage, NEW x \in Resources PROVE InUse(x)' = InUse(x) /\ InReturn(x)' = InReturn(x)
  <2>1. Allocated' = Allocated
    BY <1>6, <1>17, <1>19, <1>32 DEF Allocated
  <2>2. InUse(x)' = InUse(x)
    BY <1>19, <2>1 DEF InUse
  <2>3. \A q \in Releasing : on'[q] = on[q]
    BY <1>18, <1>31 DEF Releasing
  <2>4. InReturn(x)' = InReturn(x)
    BY <1>19, <1>31, <2>3 DEF InReturn
  <2> QED
    BY <2>2, <2>4
<1>33. SettledInv'
  <2> SUFFICES ASSUME Settled PROVE SettledInv'
    BY <1>19 DEF SettledInv
  <2>1. /\ \A m \in Models : ctx[m] = "present" /\ ~removing[m]
        /\ pc[Manager] = "idle" /\ registered = Instances /\ limit = Limits(Instances)
        /\ stage => \A x \in Resources : allocated[x] = (InUse(x) + InReturn(x)) % Word
    BY DEF RInv, SettledInv, stage
  <2>2. stage => Tries(p)'
    BY <1>16 DEF Tries
  <2>3. ~stage => i \in Allocated'
    BY <1>5, <1>17, <1>19 DEF Allocated
  <2>4. stage => \A x \in Resources : allocated'[x] = (InUse(x)' + InReturn(x)') % Word
    BY <1>2, <1>32, <2>1
  <2> QED
    BY <1>2, <1>3, <1>19, <1>24, <2>1, <2>2, <2>3, <2>4 DEF SettledInv, stage
<1>34. ~IgnoreResources => \A x \in Resources : Out(x)' = Out(x)
  BY <1>32 DEF Out, stage
<1> QED
  BY <1>22, <1>25, <1>26, <1>27, <1>29, <1>30, <1>33, <1>34 DEF RInv

----------------------------------------------------------------------------
(***************************************************************************)
(* AddModel and RemoveModel.                                               *)
(***************************************************************************)
SameRequests ==
  UNCHANGED <<setting, generic, specific, state, sched, staged, qMtx, sMtx, backup, on>>
Removals == \A m : removing[m] => removing'[m]
NewIdle == \A j \in avbl' : j \in avbl \/ ~Pending(j)

\* What the manager leaves alone.
LEMMA ManagerFrame ==
  ASSUME RInv, SameRequests, Removals, NewIdle, ~Settled, pc[Manager] # "decide",
         NEW w \in ManagerPCs, w # "decide", Moves(Manager, w)
  PROVE /\ ThreadsInv' /\ LocksInv' /\ RunningInv' /\ SeatsInv' /\ SeenInv' /\ SettledInv'
        /\ pc'[Manager] = w /\ pc' \in [Actors -> PCs]
        /\ \A j : Pending(j)' <=> Pending(j)
<1>1. /\ RLTypeOK /\ ThreadsInv /\ Manager \in Actors /\ UNCHANGED <<setting, on>>
      /\ \A r : Manager # Caller(r) /\ Manager # Executor(r)
  BY ActorFacts DEF RInv, SameRequests
<1>2. MayGo(Manager, w)
  BY <1>1 DEF MayGo
<1>3. /\ ThreadsInv' /\ pc'[Manager] = w /\ \A q \in Actors : q # Manager => pc'[q] = pc[q]
      /\ \A r \in Requests : (Came(r)' <=> Came(r)) /\ (Called(r)' <=> Called(r))
                             /\ (Running(r)' => Running(r))
  BY <1>1, <1>2, ThreadsMove
<1>4. /\ Settled' = Settled /\ Instances' = Instances /\ Wants' = Wants
      /\ \A j : ModelOf(j)' = ModelOf(j)
  BY SettingFixed DEF SameRequests
<1>5. \A j : Pending(j)' <=> Pending(j)
  BY <1>4 DEF Pending, SameRequests
<1>6. RunningInv'
  BY <1>3 DEF RInv, StatesInv, RunningInv, SameRequests
<1>7. SeatsInv'
  <2>1. SameStaged
    BY DEF SameStaged, SameRequests
  <2> QED
    BY <1>3, <2>1, SeatsFrame DEF RInv, SameRequests
<1>8. LocksInv'
  <2>1. ASSUME NEW q \in Actors PROVE LoopOf(q)' /\ CheckOf(q)'
    <3>1. LoopOf(q) /\ CheckOf(q)
      BY DEF RInv, LocksInv
    <3>2. /\ InLoop(q)' => InLoop(q)
          /\ At(q, "decide")' => At(q, "decide")
          /\ At(q, "decide") => q # Manager
      BY <1>3 DEF InLoop, At, ManagerPCs
    <3>3. \A m : NothingNew(m)
      BY <1>5 DEF NothingNew
    <3>4. LoopOf(q)'
      BY <1>1, <3>1, <3>2, <3>3, LoopFrame DEF SameRequests
    <3>5. At(q, "decide") => Instance(q)' = Instance(q)
      BY <3>2 DEF Instance, SameRequests
    <3>6. CheckOf(q)'
      BY <3>1, <3>2, <3>5, CheckFrame DEF SameRequests, Removals
    <3> QED
      BY <3>4, <3>6
  <2> QED
    BY <2>1 DEF LocksInv
<1>9. SeenInv'
  <2> SUFFICES ASSUME NEW j \in avbl', state[j] = "AVAILABLE", Pending(j)
               PROVE \E q \in Actors : Seeks(q, j)'
    BY <1>5 DEF SeenInv, SameRequests
  <2>1. j \in avbl
    BY DEF NewIdle
  <2>2. PICK q \in Actors : Seeks(q, j)
    BY <2>1 DEF RInv, SeenInv
  <2>3. q # Manager
    BY <2>2 DEF Seeks
  <2> QED
    BY <1>1, <1>3, <2>2, <2>3, SeeksFrame
<1>10. SettledInv'
  BY <1>4 DEF SettledInv
<1>11. pc' \in [Actors -> PCs]
  BY <1>1 DEF RLTypeOK, Moves, ManagerPCs, PCs
<1> QED
  BY <1>3, <1>5, <1>6, <1>7, <1>8, <1>9, <1>10, <1>11

\* A model is added, with its instances.
LEMMA AddModelKeeps ==
  ASSUME RInv, UNCHANGED setting, NEW m \in Models, AddModel(m)
  PROVE RInv'
<1>1. /\ pc[Manager] = "idle" /\ ctx[m] = "none" /\ Moves(Manager, "limits")
      /\ ctx' = [ctx EXCEPT ![m] = "present"]
      /\ avbl' = avbl \cup Own(m) /\ registered' = registered \cup Own(m)
      /\ UNCHANGED <<removing, execCount, limit, allocated, ctxMtx, target>> /\ SameRequests
  BY DEF AddModel, At, Goto, Moves, SameRequests, instVars
<1>2. /\ RLTypeOK /\ setting \in DOMAIN Settings
      /\ ctx \in [Models -> {"none", "present", "removed"}] /\ avbl \subseteq Instances
      /\ registered \subseteq Instances
  BY DEF RInv, RLTypeOK
<1>3. \A o \in Models : \A j \in Own(o) : j \in Instances /\ ModelOf(j) = o
  BY <1>2, SettingFacts
<1>4. Untried(m) /\ ~Settled
  BY <1>1 DEF RInv, StatesInv, ModelSound, SettledInv
<1>5. NewIdle /\ Removals
  BY <1>1, <1>3, <1>4 DEF NewIdle, Removals, Untried, Pending
<1>6. /\ ThreadsInv' /\ LocksInv' /\ RunningInv' /\ SeatsInv' /\ SeenInv' /\ SettledInv'
      /\ pc'[Manager] = "limits" /\ pc' \in [Actors -> PCs]
      /\ \A j : Pending(j)' <=> Pending(j)
  BY <1>1, <1>4, <1>5, ManagerFrame DEF ManagerPCs
<1>7. /\ Models' = Models /\ Instances' = Instances /\ Wants' = Wants /\ Asking' = Asking
      /\ Resources' = Resources /\ IgnoreResources' = IgnoreResources
      /\ \A j : ModelOf(j)' = ModelOf(j)
      /\ \A o : Own(o)' = Own(o)
  BY SettingFixed
<1>8. RLTypeOK'
  <2>1. ctx' \in [Models -> {"none", "present", "removed"}] /\ avbl' \subseteq Instances
        /\ registered' \subseteq Instances
    BY <1>1, <1>2, <1>3
  <2> QED
    BY <1>1, <1>2, <1>6, <1>7, <2>1 DEF RLTypeOK, SameRequests
<1>9. ctx'[m] = "present" /\ \A o \in Models : o # m => ctx'[o] = ctx[o]
  BY <1>1, <1>2
<1>10. ASSUME NEW j \in Instances PROVE InstanceSound(j)'
  <2>1. InstanceSound(j) /\ ModelOf(j) \in Models
    BY <1>2, SettingFacts DEF RInv, StatesInv
  <2>2. j \in avbl' => state[j] \in {"AVAILABLE", "REMOVED"} /\ ctx'[ModelOf(j)] = "present"
    <3>1. CASE j \in Own(m)
      BY <1>3, <1>4, <1>9, <3>1 DEF Untried
    <3>2. CASE j \notin Own(m)
      BY <1>1, <1>9, <2>1, <3>2 DEF InstanceSound
    <3> QED
      BY <3>1, <3>2
  <2> QED
    BY <1>1, <1>6, <1>7, <2>1, <2>2 DEF InstanceSound, SameRequests
<1>11. ASSUME NEW o \in Models PROVE ModelSound(o)'
  <2>1. ModelSound(o)
    BY DEF RInv, StatesInv
  <2>2. CASE o = m
    BY <1>9, <2>2 DEF ModelSound
  <2>3. CASE o # m
    BY <1>1, <1>7, <1>9, <2>1, <2>3 DEF ModelSound, Untried, SameRequests
  <2> QED
    BY <2>2, <2>3
<1>12. RemovalInv'
  BY <1>6 DEF RemovalInv
<1>13. StatesInv'
  BY <1>6, <1>7, <1>10, <1>11, <1>12 DEF StatesInv
<1> QED
  BY <1>6, <1>8, <1>13 DEF RInv

\* RemoveModel begins: no more requests are taken for the model.
LEMMA RemoveModelKeeps ==
  ASSUME RInv, UNCHANGED setting, NEW m \in Models, RemoveModel(m)
  PROVE RInv'
<1>1. /\ pc[Manager] = "idle" /\ ctx[m] = "present" /\ m \in MayRemove /\ Moves(Manager, "check")
      /\ removing' = [removing EXCEPT ![m] = TRUE] /\ ctxMtx' = Manager
      /\ target' = [model |-> m, index |-> 1]
      /\ UNCHANGED <<ctx, avbl, execCount, registered, limit, allocated>> /\ SameRequests
  BY DEF RemoveModel, At, Goto, Moves, SameRequests, queueVars, instVars, resVars
<1>2. /\ RLTypeOK /\ setting \in DOMAIN Settings /\ removing \in [Models -> BOOLEAN]
      /\ Manager \in Actors /\ ~Settled
  BY <1>1, ActorFacts DEF RInv, RLTypeOK, Settled
<1>3. /\ removing' \in [Models -> BOOLEAN] /\ removing'[m]
      /\ \A o \in Models : o # m => removing'[o] = removing[o]
  BY <1>1, <1>2
<1>4. NewIdle /\ Removals
  <2>1. \A o : o # m => removing'[o] = removing[o]
    BY <1>1
  <2> QED
    BY <1>1, <1>3, <2>1 DEF NewIdle, Removals
<1>5. /\ ThreadsInv' /\ LocksInv' /\ RunningInv' /\ SeatsInv' /\ SeenInv' /\ SettledInv'
      /\ pc'[Manager] = "check" /\ pc' \in [Actors -> PCs]
      /\ \A j : Pending(j)' <=> Pending(j)
  BY <1>1, <1>2, <1>4, ManagerFrame DEF ManagerPCs
<1>6. /\ Models' = Models /\ Instances' = Instances /\ Wants' = Wants /\ Asking' = Asking
      /\ Resources' = Resources /\ IgnoreResources' = IgnoreResources /\ InstancesOf' = InstancesOf
      /\ \A j : ModelOf(j)' = ModelOf(j)
      /\ \A o : Own(o)' = Own(o)
  BY SettingFixed
<1>7. RLTypeOK'
  BY <1>1, <1>2, <1>3, <1>5, <1>6 DEF RLTypeOK, SameRequests
<1>8. ASSUME NEW j \in Instances PROVE InstanceSound(j)'
  <2>1. InstanceSound(j)
    BY DEF RInv, StatesInv
  <2> QED
    BY <1>1, <1>4, <1>5, <1>6, <2>1 DEF InstanceSound, SameRequests, Removals
<1>9. ASSUME NEW o \in Models PROVE ModelSound(o)'
  <2>1. ModelSound(o)
    BY DEF RInv, StatesInv
  <2> QED
    BY <1>1, <1>3, <1>6, <2>1 DEF ModelSound, Untried, SameRequests
<1>10. RemovalInv'
  <2>1. Len(InstancesOf[m]) \in Nat /\ Len(InstancesOf[m]) >= 1
    BY <1>2, SettingFacts
  <2>2. target'.model = m /\ target'.index = 1
    BY <1>1
  <2> QED
    BY <1>1, <1>3, <1>5, <1>6, <2>1, <2>2 DEF RemovalInv, At
<1>11. StatesInv'
  BY <1>5, <1>6, <1>8, <1>9, <1>10 DEF StatesInv
<1> QED
  BY <1>5, <1>7, <1>11 DEF RInv

\* The removal goes on to the next instance.
LEMMA InstanceRemovedKeeps ==
  ASSUME RInv, UNCHANGED setting, InstanceRemoved
  PROVE RInv'
<1>1. PICK last \in BOOLEAN : last <=> target.index = Len(InstancesOf[target.model])
  OBVIOUS
<1>2. PICK w \in {"erase", "check"} : w = (IF last THEN "erase" ELSE "check")
  BY <1>1
<1>3. /\ pc[Manager] = "wait" /\ state[InstancesOf[target.model][target.index]] = "REMOVED"
      /\ Moves(Manager, w)
      /\ registered' = registered \ {Instance(Manager)}
      /\ target' = (IF last THEN target ELSE [target EXCEPT !.index = target.index + 1])
      /\ UNCHANGED <<ctx, removing, avbl, execCount, limit, allocated, ctxMtx>> /\ SameRequests
  BY <1>1, <1>2, ActorWork DEF InstanceRemoved, At, Goto, Moves, SameRequests, queueVars, instVars, resVars
<1>4. /\ RLTypeOK /\ setting \in DOMAIN Settings /\ ~Settled
      /\ target \in [model : Models, index : Nat \ {0}] /\ RemovalInv
  BY <1>3 DEF RInv, RLTypeOK, SettledInv, StatesInv
<1>5. PICK n \in Nat : n = Len(InstancesOf[target.model])
  BY <1>4, SettingFacts
<1>6. PICK m \in Models : m = target.model
  BY <1>4
<1>7. PICK k \in Nat : k = target.index /\ k >= 1
  BY <1>4
<1>8. /\ removing[m] /\ ctx[m] = "present" /\ k <= n
      /\ \A l \in 1..n : l < k => state[InstancesOf[m][l]] = "REMOVED"
      /\ state[InstancesOf[m][k]] = "REMOVED"
  BY <1>3, <1>4, <1>5, <1>6, <1>7 DEF RemovalInv
<1>9. target'.model = m /\ target'.index = (IF last THEN k ELSE k + 1)
      /\ target' \in [model : Models, index : Nat \ {0}]
  BY <1>3, <1>4, <1>6, <1>7
<1>10. NewIdle /\ Removals
  BY <1>3 DEF NewIdle, Removals
<1>11. /\ ThreadsInv' /\ LocksInv' /\ RunningInv' /\ SeatsInv' /\ SeenInv' /\ SettledInv'
       /\ pc'[Manager] = w /\ pc' \in [Actors -> PCs]
       /\ \A j : Pending(j)' <=> Pending(j)
  BY <1>3, <1>4, <1>10, ManagerFrame DEF ManagerPCs
<1>12. /\ Models' = Models /\ Instances' = Instances /\ Wants' = Wants /\ Asking' = Asking
       /\ Resources' = Resources /\ IgnoreResources' = IgnoreResources /\ InstancesOf' = InstancesOf
       /\ \A j : ModelOf(j)' = ModelOf(j)
       /\ \A o : Own(o)' = Own(o)
  BY SettingFixed
<1>13. RLTypeOK'
  BY <1>3, <1>4, <1>9, <1>11, <1>12 DEF RLTypeOK, SameRequests
<1>14. ASSUME NEW j \in Instances PROVE InstanceSound(j)'
  <2>1. InstanceSound(j)
    BY DEF RInv, StatesInv
  <2> QED
    BY <1>3, <1>11, <1>12, <2>1 DEF InstanceSound, SameRequests
<1>15. ASSUME NEW o \in Models PROVE ModelSound(o)'
  <2>1. ModelSound(o)
    BY DEF RInv, StatesInv
  <2> QED
    BY <1>3, <1>12, <2>1 DEF ModelSound, Untried, SameRequests
<1>16. RemovalInv'
  <2>1. \A l \in 1..n : l <= k => state[InstancesOf[m][l]] = "REMOVED"
    BY <1>7, <1>8
  <2>2. target'.index \in 1..n
    BY <1>1, <1>5, <1>7, <1>8, <1>9
  <2>3. \A l \in 1..n : l < target'.index \/ w = "erase" => l <= k
    BY <1>1, <1>2, <1>5, <1>7, <1>9
  <2>4. \A l \in 1..n : l < target'.index \/ w = "erase" => state[InstancesOf[m][l]] = "REMOVED"
    BY <2>1, <2>3
  <2> QED
    BY <1>3, <1>5, <1>6, <1>8, <1>9, <1>11, <1>12, <2>2, <2>4 DEF RemovalInv, At, SameRequests
<1>17. StatesInv'
  BY <1>11, <1>12, <1>14, <1>15, <1>16 DEF StatesInv
<1> QED
  BY <1>11, <1>13, <1>17 DEF RInv

\* All instances were removed: the context is erased.
LEMMA EraseModelKeeps ==
  ASSUME RInv, UNCHANGED setting, EraseModel
  PROVE RInv'
<1>1. /\ pc[Manager] = "erase" /\ Moves(Manager, "limits")
      /\ ctx' = [ctx EXCEPT ![target.model] = "removed"] /\ ctxMtx' = Free
      /\ avbl' = avbl \ Own(target.model)
      /\ UNCHANGED <<removing, execCount, registered, limit, allocated, target>> /\ SameRequests
  BY DEF EraseModel, At, Goto, Moves, SameRequests, instVars, resVars
<1>2. /\ RLTypeOK /\ setting \in DOMAIN Settings /\ ~Settled /\ RemovalInv
      /\ ctx \in [Models -> {"none", "present", "removed"}]
  BY <1>1 DEF RInv, RLTypeOK, SettledInv, StatesInv
<1>3. PICK m \in Models : m = target.model
  BY <1>2 DEF RLTypeOK
<1>4. /\ \A j \in Instances : ModelOf(j) = m => j \in Own(m)
      /\ \A j \in Own(m) : \E k \in 1..Len(InstancesOf[m]) : InstancesOf[m][k] = j
  BY <1>2, SettingFacts
<1>5. \A j \in Own(m) : state[j] = "REMOVED"
  BY <1>1, <1>2, <1>3, <1>4 DEF RemovalInv, At
<1>6. NewIdle /\ Removals
  BY <1>1 DEF NewIdle, Removals
<1>7. /\ ThreadsInv' /\ LocksInv' /\ RunningInv' /\ SeatsInv' /\ SeenInv' /\ SettledInv'
      /\ pc'[Manager] = "limits" /\ pc' \in [Actors -> PCs]
      /\ \A j : Pending(j)' <=> Pending(j)
  BY <1>1, <1>2, <1>6, ManagerFrame DEF ManagerPCs
<1>8. /\ Models' = Models /\ Instances' = Instances /\ Wants' = Wants /\ Asking' = Asking
      /\ Resources' = Resources /\ IgnoreResources' = IgnoreResources
      /\ \A j : ModelOf(j)' = ModelOf(j)
      /\ \A o : Own(o)' = Own(o)
  BY SettingFixed
<1>9. ctx'[m] = "removed" /\ \A o \in Models : o # m => ctx'[o] = ctx[o]
  BY <1>1, <1>2, <1>3
<1>10. RLTypeOK'
  <2>1. ctx' \in [Models -> {"none", "present", "removed"}]
    BY <1>1, <1>2
  <2> QED
    BY <1>1, <1>2, <1>7, <1>8, <2>1 DEF RLTypeOK, SameRequests
<1>11. ASSUME NEW j \in Instances PROVE InstanceSound(j)'
  <2>1. InstanceSound(j) /\ ModelOf(j) \in Models
    BY <1>2, SettingFacts DEF RInv, StatesInv
  <2>2. j \in avbl' => j \in avbl /\ ctx'[ModelOf(j)] = ctx[ModelOf(j)]
    BY <1>1, <1>3, <1>4, <1>9, <2>1
  <2> QED
    BY <1>1, <1>7, <1>8, <2>1, <2>2 DEF InstanceSound, SameRequests
<1>12. ASSUME NEW o \in Models PROVE ModelSound(o)'
  <2>1. ModelSound(o)
    BY DEF RInv, StatesInv
  <2>2. CASE o = m
    BY <1>1, <1>5, <1>8, <1>9, <2>2 DEF ModelSound, SameRequests
  <2>3. CASE o # m
    BY <1>1, <1>8, <1>9, <2>1, <2>3 DEF ModelSound, Untried, SameRequests
  <2> QED
    BY <2>2, <2>3
<1>13. RemovalInv'
  BY <1>7 DEF RemovalInv
<1>14. StatesInv'
  BY <1>7, <1>8, <1>11, <1>12, <1>13 DEF StatesInv
<1> QED
  BY <1>7, <1>10, <1>14 DEF RInv

----------------------------------------------------------------------------
(***************************************************************************)
(* The invariant.                                                          *)
(***************************************************************************)
\* It holds when the limiter starts.
LEMMA InitKeeps ==
  ASSUME Init
  PROVE RInv
<1>1. setting \in DOMAIN Settings /\ Word \in Nat \ {0}
  BY RateLimiterAssumption DEF Init
<1>2. /\ ctx = [m \in Models |-> IF m \in Preloaded THEN "present" ELSE "none"]
      /\ removing = [m \in Models |-> FALSE] /\ generic = [m \in Models |-> << >>]
      /\ specific = [i \in Instances |-> << >>] /\ avbl = LoadedInstances
      /\ state = [i \in Instances |-> "AVAILABLE"] /\ sched = [i \in Instances |-> 0]
      /\ execCount = [i \in Instances |-> 0] /\ staged = {} /\ registered = LoadedInstances
      /\ limit = Limits(LoadedInstances) /\ allocated = [x \in Resources |-> 0]
      /\ ctxMtx = Free /\ qMtx = [m \in Models |-> Free] /\ sMtx = [i \in Instances |-> Free]
      /\ backup = [p \in Actors |-> {}] /\ on = [r \in Requests |-> 0]
      /\ target = [model |-> CHOOSE m \in Models : TRUE, index |-> 1]
  BY DEF Init
<1>3. /\ \A r \in Requests : pc[Caller(r)] = "new" /\ pc[Executor(r)] = "idle"
      /\ pc[Manager] = "idle" /\ pc \in [Actors -> PCs]
      /\ \A p \in Actors : pc[p] \in {"new", "idle"}
  BY ActorFacts DEF Init, PCs
<1>4. /\ LoadedInstances \in SUBSET Instances
      /\ \A i \in LoadedInstances : ModelOf(i) \in Preloaded
      /\ Preloaded = Models => LoadedInstances = Instances
      /\ \A i \in Instances : ModelOf(i) \in Models
      /\ \A m \in Models : \A i \in Own(m) : i \in Instances
      /\ Preloaded \subseteq Models
  BY <1>1, SettingFacts DEF LoadedInstances
<1>5. \A i \in Instances : ~Pending(i)
  BY <1>2, <1>4 DEF Pending
<1>6. RLTypeOK
  <2>1. limit \in [Resources -> Nat]
    <3>1. Limits(LoadedInstances) \in [Resources -> 0..Word - 1]
      BY <1>1, <1>4, LimitFacts
    <3> QED
      BY <1>1, <1>2, <3>1
  <2>2. allocated \in [Resources -> 0..Word - 1]
    BY <1>1, <1>2
  <2>3. target \in [model : Models, index : Nat \ {0}]
    BY <1>1, <1>2, SettingFacts
  <2>4. << >> \in Seq(Requests)
    OBVIOUS
  <2>5. generic \in [Models -> Seq(Requests)] /\ specific \in [Instances -> Seq(Requests)]
    BY <1>2, <2>4
  <2>6. /\ ctx \in [Models -> {"none", "present", "removed"}]
        /\ removing \in [Models -> BOOLEAN]
        /\ avbl \subseteq Instances /\ staged \subseteq Instances
        /\ state \in [Instances -> {"AVAILABLE", "STAGED", "ALLOCATED", "REMOVED"}]
        /\ sched \in [Instances -> Requests \cup {0}]
        /\ execCount \in [Instances -> Nat]
        /\ registered \subseteq Instances
        /\ ctxMtx \in Actors \cup {Free}
        /\ qMtx \in [Models -> Actors \cup {Free}]
        /\ sMtx \in [Instances -> Actors \cup {Free}]
        /\ backup \in [Actors -> SUBSET Instances]
        /\ on \in [Requests -> Instances \cup {0}]
    BY <1>2, <1>4
  <2> QED
    BY <1>1, <1>3, <2>1, <2>2, <2>3, <2>5, <2>6 DEF RLTypeOK
<1>7. ThreadsInv
  BY <1>3 DEF ThreadsInv, CallerPCs, ExecutorPCs, ManagerPCs, Called
<1>8. LocksInv
  BY <1>3 DEF LocksInv, LoopOf, CheckOf, InLoop, At
<1>9. StatesInv
  <2>1. ASSUME NEW i \in Instances PROVE InstanceSound(i)
    <3>1. i \in avbl => ctx[ModelOf(i)] = "present"
      BY <1>2, <1>4
    <3> QED
      BY <1>2, <3>1 DEF InstanceSound
  <2>2. ASSUME NEW m \in Models PROVE ModelSound(m)
    BY <1>2, <1>4 DEF ModelSound, Untried
  <2>3. RemovalInv
    BY <1>3 DEF RemovalInv
  <2>4. RunningInv
    BY <1>3 DEF RunningInv, Running
  <2> QED
    BY <2>1, <2>2, <2>3, <2>4 DEF StatesInv
<1>10. SeatsInv
  <2>1. \A w \in Keys : Queue(w) = << >>
    <3>1. (\A m \in Models : generic[m] = << >>) /\ \A i \in Instances : specific[i] = << >>
      BY <1>2
    <3> QED
      BY <3>1, KeyFacts
  <2>2. \A w \in Keys : \A r : ~Holds(Queue(w), r)
    BY <2>1 DEF Holds
  <2>3. \A w \in Keys : QueueSound(w)
    <3>1. \A w \in Keys : Distinct(Queue(w))
      BY <2>1 DEF Distinct
    <3> QED
      BY <2>2, <3>1 DEF QueueSound
  <2>4. \A r \in Requests : ~Waits(r) /\ ~IsAssigned(r) /\ ~Called(r) /\ ~Came(r)
    BY <1>2, <1>3, <2>2 DEF Waits, IsAssigned, Assigned, Called, Came
  <2>5. \A r \in Requests : \A i \in Instances : ~Assigned(r, i)
    BY <1>2 DEF Assigned
  <2>6. \A r \in Requests : OneSeat(r) /\ Seated(r)
    BY <2>2, <2>4, <2>5 DEF OneSeat, Seated
  <2> QED
    BY <2>3, <2>6 DEF SeatsInv
<1>11. SeenInv
  BY <1>2, <1>4, <1>5 DEF SeenInv
<1>12. SettledInv
  <2> SUFFICES ASSUME Settled PROVE SettledInv
    BY DEF SettledInv
  <2>1. \A x : InUse(x) = 0 /\ InReturn(x) = 0
    <3>1. Allocated = {} /\ Releasing = {}
      BY <1>2, <1>3 DEF Allocated, Releasing
    <3>2. ASSUME NEW x PROVE InUse(x) = 0 /\ InReturn(x) = 0
      <4>1. PICK f : f = [j \in Allocated |-> Need[j][x]]
        OBVIOUS
      <4>2. PICK g : g = [r \in Releasing |-> Need[on[r]][x]]
        OBVIOUS
      <4>3. f \in [{} -> Nat] /\ g \in [{} -> Nat]
        BY <3>1, <4>1, <4>2
      <4>4. Total(f) = 0 /\ Total(g) = 0
        BY <4>3, TotalEmpty
      <4> QED
        BY <4>1, <4>2, <4>4 DEF InUse, InReturn
    <3> QED
      BY <3>2
  <2>2. (0 + 0) % Word = 0
    <3>1. 0 \in 0..Word - 1 /\ 0 + 0 = 0
      BY <1>1
    <3> QED
      BY <1>1, <3>1, ModFacts
  <2>3. Preloaded = Models
    BY DEF Settled
  <2>4. \A m \in Models : ctx[m] = "present" /\ ~removing[m]
    BY <1>2, <2>3
  <2> QED
    BY <1>2, <1>3, <1>4, <2>1, <2>2, <2>3, <2>4 DEF SettledInv
<1> QED
  BY <1>6, <1>7, <1>8, <1>9, <1>10, <1>11, <1>12 DEF RInv

\* A step of a staging loop keeps it.
LEMMA LoopStepKeeps ==
  ASSUME RInv, UNCHANGED setting, NEW r \in Asking, NEW p, p \in {Caller(r), Executor(r)},
         LoopStep(p)
  PROVE RInv'
BY EnterLoopKeeps, OfferInstanceKeeps, SkipInstanceKeeps, LeaveLoopKeeps, NothingFitsKeeps,
   AllocateKeeps DEF LoopStep

\* Every step keeps it.
LEMMA NextKeeps ==
  ASSUME RInv, [Next]_vars
  PROVE RInv'
<1>1. CASE UNCHANGED vars
  <2>1. /\ SameWork
        /\ UNCHANGED <<execCount, registered, limit, allocated, ctxMtx, qMtx, sMtx, backup, pc>>
    BY <1>1 DEF vars, SameWork, queueVars, instVars, resVars
  <2>2. PICK r : r = Manager
    OBVIOUS
  <2>3. r \in Actors /\ pc[r] \in PCs /\ RLTypeOK
    BY <2>2, ActorFacts DEF RInv, RLTypeOK
  <2>4. Moves(r, pc[r])
    BY <2>1, <2>3 DEF Moves, RLTypeOK
  <2>5. RLTypeOK'
    <3>1. OthersTyped
      BY <2>1, <2>3 DEF OthersTyped, RLTypeOK
    <3> QED
      BY <2>1, <2>3, <2>4, <3>1, TypeMove
  <2>6. UNCHANGED setting
    BY <2>1 DEF SameWork
  <2>7. /\ Models' = Models /\ Instances' = Instances /\ InstancesOf' = InstancesOf
        /\ Wants' = Wants /\ Asking' = Asking /\ Need' = Need /\ Resources' = Resources
        /\ IgnoreResources' = IgnoreResources /\ Settled' = Settled
        /\ \A i : ModelOf(i)' = ModelOf(i)
        /\ \A set : Limits(set)' = Limits(set)
    BY <2>6, SettingFixed
  <2>8. ThreadsInv'
    BY <2>1, <2>7 DEF RInv, ThreadsInv, Called, SameWork
  <2>9. StatesInv'
    <3>1. RemovalInv' /\ RunningInv'
      BY <2>1, <2>7 DEF RInv, StatesInv, RemovalInv, RunningInv, Running, At, SameWork
    <3> QED
      BY <2>1, <2>7, <3>1, InstancesFrame DEF RInv, StatesInv, SameWork
  <2>10. SeatsInv'
    <3>1. SameStaged /\ \A q \in Requests : (Came(q)' <=> Came(q)) /\ (Called(q)' <=> Called(q))
      BY <2>1 DEF SameStaged, Came, Called, SameWork
    <3> QED
      BY <2>1, <3>1, SeatsFrame DEF RInv, SameWork
  <2>11. LocksInv'
    <3>1. \A q : Instance(q)' = Instance(q) /\ ModelOfActor(q)' = ModelOfActor(q)
      BY <2>1, OwnInstanceStays
    <3>2. \A i : Pending(i)' <=> Pending(i)
      BY <2>1, InstancesFrame DEF SameWork
    <3> QED
      BY <2>1, <2>7, <3>1, <3>2 DEF RInv, LocksInv, LoopOf, CheckOf, InLoop, At, SameWork
  <2>12. SeenInv'
    <3>1. KeepsSeeking(r)
      BY <2>2 DEF KeepsSeeking, Seeks
    <3> QED
      BY <2>1, <2>3, <2>4, <3>1, SeenMove DEF RInv
  <2>13. SettledInv'
    <3>1. Allocated' = Allocated /\ Releasing' = Releasing
      BY <2>1, <2>7 DEF Allocated, Releasing, SameWork
    <3>2. \A x : InUse(x)' = InUse(x) /\ InReturn(x)' = InReturn(x)
      BY <2>1, <2>7, <3>1 DEF InUse, InReturn, SameWork
    <3>3. \A q : Tries(q)' <=> Tries(q)
      BY <2>1 DEF Tries
    <3> QED
      BY <2>1, <2>7, <3>1, <3>2, <3>3 DEF RInv, SettledInv, SameWork
  <2> QED
    BY <2>5, <2>8, <2>9, <2>10, <2>11, <2>12, <2>13 DEF RInv
<1>2. CASE Next
  <2>1. UNCHANGED setting
    BY <1>2 DEF Next
  <2>2. ASSUME NEW r \in Asking, NoModel(r) \/ CallerStep(r) PROVE RInv'
    <3>1. CASE NoModel(r) \/ RequestReturns(r)
      BY <2>1, <3>1, CallerMoves
    <3>2. CASE RequestModelInstance(r)
      BY <2>1, <3>2, RequestModelInstanceKeeps
    <3>3. CASE LoopStep(Caller(r))
      BY <2>1, <3>3, LoopStepKeeps
    <3> QED
      BY <2>2, <3>1, <3>2, <3>3 DEF CallerStep
  <2>3. ASSUME NEW r \in Asking, ExecutorStep(Executor(r)) PROVE RInv'
    <3>1. CASE AddAvailableInstance(Executor(r))
      BY <2>1, <3>1, AddAvailableInstanceKeeps
    <3>2. CASE ReleaseResources(Executor(r))
      BY <2>1, <3>2, ReleaseResourcesKeeps
    <3>3. CASE LookForRequests(Executor(r)) \/ Dangle(Executor(r))
      BY <2>1, <3>3, ExecutorMoves
    <3>4. CASE LoopStep(Executor(r))
      BY <2>1, <3>4, LoopStepKeeps
    <3>5. CASE BeginCheck(Executor(r))
      BY <2>1, <3>5, BeginCheckKeeps
    <3>6. CASE Decide(Executor(r))
      BY <2>1, <3>6, DecideKeeps
    <3> QED
      BY <2>3, <3>1, <3>2, <3>3, <3>4, <3>5, <3>6 DEF ExecutorStep
  <2>4. ASSUME NEW m \in Models, AddModel(m) \/ RemoveModel(m) PROVE RInv'
    BY <2>1, <2>4, AddModelKeeps, RemoveModelKeeps
  <2>5. CASE ManagerStep
    BY <2>1, <2>5, UpdateResourceLimitsKeeps, BeginCheckKeeps, DecideKeeps, InstanceRemovedKeeps,
       EraseModelKeeps DEF ManagerStep
  <2> QED
    BY <1>2, <2>2, <2>3, <2>4, <2>5 DEF Next
<1> QED
  BY <1>1, <1>2

\* The inductive invariant of the rate limiter holds in every reachable state.
LEMMA RInvHolds == Spec => []RInv
BY InitKeeps, NextKeeps, PTL DEF Spec

----------------------------------------------------------------------------
(***************************************************************************)
(* What follows from the invariant.                                        *)
(***************************************************************************)
\* Where a request is queued.
LEMMA QueuedIs ==
  ASSUME NEW r
  PROVE \A w : w \in Queued(r) <=> w \in Keys /\ Holds(Queue(w), r)
<1>1. \A m \in Models : <<"generic", m>> \in Queued(r) <=> Holds(generic[m], r)
  BY KeyFacts DEF Queued, Holds
<1>2. \A i \in Instances : <<"specific", i>> \in Queued(r) <=> Holds(specific[i], r)
  BY KeyFacts DEF Queued, Holds
<1>3. \A w \in Queued(r) : w \in Keys
  BY DEF Queued, Keys
<1> QED
  BY <1>1, <1>2, <1>3, KeyFacts

\* A set with at most one element.
LEMMA AtMostOne ==
  ASSUME NEW S, \A v, w \in S : v = w
  PROVE Cardinality(S) = IF S = {} THEN 0 ELSE 1
<1>1. CASE S = {}
  BY <1>1, FS_EmptySet
<1>2. CASE S # {}
  <2>1. PICK v : v \in S
    BY <1>2
  <2>2. S = {v}
    BY <2>1
  <2> QED
    BY <1>2, <2>2, FS_Singleton
<1> QED
  BY <1>1, <1>2

\* A taken request is in one place.
LEMMA NoneLostFollows ==
  ASSUME RInv
  PROVE NoneLost
<1> SUFFICES ASSUME NEW r \in Asking, Wants[r].index < Len(InstancesOf[Wants[r].model])
             PROVE InOnePlace(r)
  BY DEF NoneLost
<1>1. r \in Requests
  BY SettingFacts DEF RInv, RLTypeOK
<1>2. OneSeat(r) /\ Seated(r)
  BY <1>1 DEF RInv, SeatsInv
<1>3. (Queued(r) # {}) <=> Waits(r)
  BY QueuedIs DEF Waits
<1>4. (AssignedTo(r) # {}) <=> IsAssigned(r)
  BY DEF AssignedTo, IsAssigned, Assigned
<1>5. Cardinality(Queued(r)) = IF Waits(r) THEN 1 ELSE 0
  <2>1. \A v, w \in Queued(r) : v = w
    BY <1>2, QueuedIs DEF OneSeat
  <2> QED
    BY <1>3, <2>1, AtMostOne
<1>6. Cardinality(AssignedTo(r)) = IF IsAssigned(r) THEN 1 ELSE 0
  <2>1. \A i, j \in AssignedTo(r) : i = j
    BY <1>2 DEF OneSeat, AssignedTo, Assigned
  <2> QED
    BY <1>4, <2>1, AtMostOne
<1>7. /\ Waits(r) => Came(r) /\ ~Called(r) /\ ~IsAssigned(r)
      /\ IsAssigned(r) => Came(r) /\ ~Called(r)
      /\ Called(r) => Came(r)
      /\ Came(r) => Waits(r) \/ IsAssigned(r) \/ Called(r)
  BY <1>2 DEF OneSeat, Seated
<1>8. Places(r) = (IF Waits(r) THEN 1 ELSE 0) + (IF IsAssigned(r) THEN 1 ELSE 0)
                  + (IF Called(r) THEN 1 ELSE 0)
  BY <1>5, <1>6 DEF Places, Called
<1>9. Places(r) = IF Came(r) THEN 1 ELSE 0
  BY ONLY <1>7, <1>8
<1> QED
  BY <1>9 DEF InOnePlace, Came

\* Outside the limiter a staged instance waits for one that executes, and no
\* request waits for an available instance.
LEMMA NoneMissedFollows ==
  ASSUME RInv
  PROVE StagedWaitsForRelease /\ NoMissedRequest
<1>1. Quiet => \A p \in Actors : ~Tries(p) /\ \A i : ~Seeks(p, i)
  <2> SUFFICES ASSUME Quiet, NEW p \in Actors
               PROVE ~Tries(p) /\ \A i : ~Seeks(p, i)
    OBVIOUS
  <2>1. p = Manager \/ \E r \in Requests : p = Caller(r) \/ p = Executor(r)
    BY ActorFacts
  <2>2. pc[p] \notin {"onstage", "resources", "pending", "stage", "loop", "attempt"}
    BY <2>1 DEF Quiet
  <2> QED
    BY <2>2 DEF Tries, Seeks
<1>2. StagedWaitsForRelease
  BY <1>1 DEF RInv, SettledInv, StagedWaitsForRelease
<1>3. NoMissedRequest
  BY <1>1 DEF RInv, SeenInv, NoMissedRequest
<1> QED
  BY <1>2, <1>3

\* A model is erased without a request.
LEMMA RemovedIsDrainedFollows ==
  ASSUME RInv
  PROVE RemovedIsDrained
<1> SUFFICES ASSUME NEW m \in Models, ctx[m] = "removed", NEW r \in Asking, Wants[r].model = m
             PROVE Queued(r) = {} /\ AssignedTo(r) = {} /\ pc[Executor(r)] # "running"
  BY DEF RemovedIsDrained
<1>1. r \in Requests /\ setting \in DOMAIN Settings
  BY SettingFacts DEF RInv, RLTypeOK
<1>2. \A i \in Instances : ModelOf(i) = m => state[i] = "REMOVED" /\ ~Pending(i)
  BY DEF RInv, StatesInv, ModelSound, InstanceSound, Own
<1>3. generic[m] = << >>
  <2>1. PICK i \in Instances : ModelOf(i) = m
    <3>1. 1 \in 1..Len(InstancesOf[m])
      BY <1>1, SettingFacts
    <3> QED
      BY <1>1, <3>1, SettingFacts
  <2> QED
    BY <1>2, <2>1 DEF Pending
<1>4. \A i \in Instances : ModelOf(i) = m => specific[i] = << >>
  BY <1>2 DEF Pending
<1>5. ASSUME NEW w \in Queued(r) PROVE FALSE
  <2>1. w \in Keys /\ Holds(Queue(w), r)
    BY QueuedIs
  <2>2. ModelOfKey(w) = m
    BY <1>1, <2>1 DEF RInv, SeatsInv, QueueSound
  <2>3. Queue(w) = << >>
    BY <1>3, <1>4, <2>1, <2>2, KeyFacts
  <2> QED
    BY <2>1, <2>3 DEF Holds
<1>6. ASSUME NEW i \in AssignedTo(r) PROVE FALSE
  <2>1. i \in Instances /\ state[i] = "STAGED" /\ sched[i] = r
    BY DEF AssignedTo
  <2>2. ModelOf(i) = m
    BY <2>1 DEF RInv, StatesInv, InstanceSound
  <2> QED
    BY <1>2, <2>1, <2>2
<1>7. ASSUME pc[Executor(r)] = "running" PROVE FALSE
  <2>1. on[r] \in Instances /\ ModelOf(on[r]) = m
    BY <1>1, <1>7 DEF RInv, ThreadsInv, Called
  <2>2. state[on[r]] = "ALLOCATED"
    BY <1>1, <1>7 DEF RInv, StatesInv, RunningInv, Running
  <2> QED
    BY <1>2, <2>1, <2>2
<1> QED
  BY <1>5, <1>6, <1>7

(***************************************************************************)
(* Every request that RequestModelInstance accepted, for an index that     *)
(* exists, is in one place (a queue, a staged instance, or called back); a *)
(* thread outside the limiter has overlooked neither a staged instance nor *)
(* a request for an available one; and a model is erased only when its     *)
(* requests are gone: for any models, requests, priorities and needs.      *)
(***************************************************************************)
THEOREM RequestsAccounted == Spec => []RequestsSound
<1>1. RInv => RequestsSound
  BY NoneLostFollows, NoneMissedFollows, RemovedIsDrainedFollows DEF RequestsSound
<1> QED
  BY <1>1, RInvHolds, PTL

----------------------------------------------------------------------------
(***************************************************************************)
(* The limits.  The counters are modulo Word: an instance that fits is     *)
(* within the limit for sure only if two needs together are below Word.    *)
(***************************************************************************)
Roomy == \A i \in Instances : \A x \in Resources : 2 * Need[i][x] < Word
Unerased == \A m \in Models : ctx[m] # "removed"

\* Of resource x: what is out is counted, and the count is within the limit;
\* the limit is one that a registered instance set, or none.
Bounded(x) ==
  /\ Out(x) <= allocated[x] /\ allocated[x] <= limit[x] /\ 2 * limit[x] < Word
  /\ pc[Manager] \in {"idle", "limits"} => limit[x] <= Limits(registered)[x]
BudgetInv ==
  Roomy /\ ~IgnoreResources /\ Unerased => \A x \in Resources : Bounded(x)

\* The numbers of a state.
LEMMA NumberFacts ==
  ASSUME RInv, NEW x \in Resources
  PROVE /\ Out(x) \in Nat /\ allocated[x] \in 0..Word - 1 /\ limit[x] \in Nat
        /\ \A i \in Instances : Need[i][x] \in 0..Word - 1
        /\ Limits(registered)[x] \in Nat
        /\ Roomy => 2 * Limits(registered)[x] < Word
        /\ Word \in Nat \ {0} /\ setting \in DOMAIN Settings
<1>1. RLTypeOK /\ ThreadsInv /\ setting \in DOMAIN Settings /\ Word \in Nat \ {0}
      /\ 0..Word - 1 \subseteq Nat /\ registered \in SUBSET Instances
  BY RateLimiterAssumption DEF RInv, RLTypeOK
<1>2. Out(x) \in Nat
  BY <1>1, SumFacts DEF Out
<1>3. allocated[x] \in 0..Word - 1 /\ limit[x] \in Nat
  BY <1>1 DEF RLTypeOK
<1>4. \A i \in Instances : Need[i][x] \in 0..Word - 1
  BY <1>1, SettingFacts
<1>5. PICK l : l = Limits(registered)[x]
  OBVIOUS
<1>6. l \in Nat /\ (l = 0 \/ \E i \in Instances : l = Need[i][x])
  BY <1>1, <1>5, LimitFacts
<1>7. Roomy => 2 * l < Word
  <2>1. 2 * 0 < Word
    BY <1>1
  <2> QED
    BY <1>6, <2>1 DEF Roomy
<1> QED
  BY <1>1, <1>2, <1>3, <1>4, <1>5, <1>6, <1>7

\* More instances have no smaller limit.
LEMMA LimitsGrow ==
  ASSUME setting \in DOMAIN Settings, NEW S \in SUBSET Instances, NEW T \in SUBSET Instances,
         S \subseteq T, NEW x \in Resources
  PROVE Limits(S)[x] <= Limits(T)[x]
<1>1. Limits(S)[x] = 0 \/ \E i \in S : Limits(S)[x] = Need[i][x]
  BY LimitFacts
<1>2. Limits(T)[x] \in Nat /\ \A i \in T : Need[i][x] <= Limits(T)[x]
  <2>1. 0..Word - 1 \subseteq Nat
    BY RateLimiterAssumption
  <2> QED
    BY <2>1, LimitFacts
<1> QED
  BY <1>1, <1>2

\* The executing instances and the returning executors are the same.
LEMMA OutFrame ==
  ASSUME RInv, UNCHANGED <<setting, on>>, NEW p, NEW w,
         \A i \in Instances : (state'[i] = "ALLOCATED") <=> (state[i] = "ALLOCATED"),
         pc' = [pc EXCEPT ![p] = w] \/ pc' = pc, w # "resources", pc[p] # "resources"
  PROVE \A x : Out(x)' = Out(x)
<1>1. Instances' = Instances /\ Need' = Need
  BY SettingFixed
<1>2. Allocated' = Allocated
  BY <1>1 DEF Allocated
<1>3. Releasing' = Releasing
  <2>1. \A r \in Requests : (pc'[Executor(r)] = "resources") <=> (pc[Executor(r)] = "resources")
    BY ActorFacts DEF RInv, RLTypeOK
  <2> QED
    BY <2>1 DEF Releasing
<1>4. \A x : InUse(x)' = InUse(x) /\ InReturn(x)' = InReturn(x)
  BY <1>1, <1>2, <1>3 DEF InUse, InReturn
<1> QED
  BY <1>4 DEF Out

----------------------------------------------------------------------------
\* What a step does to what is out and to its count: nothing, or an instance
\* returns what it needs, or one that fits takes it.
Keeps == allocated' = allocated /\ \A x \in Resources : Out(x)' = Out(x)
Returned ==
  \E i \in Instances :
    /\ \A x \in Resources : Out(x)' \in Nat /\ Out(x) = Out(x)' + Need[i][x]
    /\ \/ allocated' = allocated
       \/ allocated' = [x \in Resources |-> (allocated[x] - Need[i][x]) % Word]
Grows ==
  \E i \in Instances :
    /\ Fits(i) /\ \A x \in Resources : Out(x)' = Out(x) + Need[i][x]
    /\ allocated' = [x \in Resources |-> (allocated[x] + Need[i][x]) % Word]

\* What it does to the limits: nothing, or they follow the registered
\* instances, of which there are more.
SameLimits ==
  UNCHANGED <<registered, limit>> /\ pc'[Manager] = pc[Manager]
LimitsFollow ==
  \/ SameLimits
  \/ limit' = limit /\ pc'[Manager] \notin {"idle", "limits"}
  \/ limit' = limit /\ registered \subseteq registered' /\ pc[Manager] = "idle"
  \/ limit' = Limits(registered) /\ registered' = registered /\ pc[Manager] = "limits"
Accounted == (Keeps \/ Returned \/ Grows) /\ LimitsFollow

\* A thread other than the manager that only goes on.
LEMMA PlainStep ==
  ASSUME RInv, UNCHANGED <<setting, state, on, allocated, registered, limit>>,
         NEW p, NEW w, p # Manager, w # "resources", pc[p] # "resources",
         pc' = [pc EXCEPT ![p] = w] \/ pc' = pc
  PROVE Accounted
<1>1. \A x : Out(x)' = Out(x)
  BY OutFrame
<1>2. pc'[Manager] = pc[Manager]
  BY ActorFacts DEF RInv, RLTypeOK
<1> QED
  BY <1>1, <1>2 DEF Accounted, Keeps, LimitsFollow, SameLimits

\* A step of a staging loop, or of an attempt to allocate.
LEMMA LoopAccounted ==
  ASSUME RInv, UNCHANGED setting, ~IgnoreResources, NEW r \in Asking,
         NEW p, p \in {Caller(r), Executor(r)}, LoopStep(p)
  PROVE Accounted
<1>0. p # Manager /\ (\A q : Executor(q) # Manager) /\ Manager \in Actors
  BY ActorFacts
<1>1. CASE Allocate(p)
  <2>1. SameLimits
    BY <1>0, <1>1 DEF Allocate, SameLimits, RInv, RLTypeOK
  <2>2. Grows
    <3>1. staged \subseteq Instances
      BY DEF RInv, RLTypeOK
    <3> QED
      BY <1>1, <3>1, AllocateKeeps DEF Grows
  <2> QED
    BY <2>1, <2>2 DEF Accounted, LimitsFollow
<1>2. CASE OfferInstance(p)
  <2>1. SameLimits /\ allocated' = allocated
    BY <1>0, <1>2 DEF OfferInstance, SameLimits, resVars, RInv, RLTypeOK
  <2>2. \A x \in Resources : Out(x)' = Out(x)
    BY <1>2, OfferInstanceKeeps
  <2> QED
    BY <2>1, <2>2 DEF Accounted, Keeps, LimitsFollow
<1>3. CASE EnterLoop(p) \/ LeaveLoop(p) \/ NothingFits(p)
  <2>1. PICK w \in {"loop", "staged", "attempt", "check"} :
          /\ pc' = [pc EXCEPT ![p] = w] /\ UNCHANGED <<state, on, allocated, registered, limit>>
          /\ pc[p] \in {"stage", "loop", "onstage", "attempt"}
    BY <1>3 DEF EnterLoop, LeaveLoop, NothingFits, At, Goto, Attempted, instVars, resVars
  <2> QED
    BY <1>0, <2>1, PlainStep
<1>4. CASE SkipInstance(p)
  <2>1. pc' = pc /\ UNCHANGED <<state, on, allocated, registered, limit>> /\ pc[p] = "loop"
    BY <1>4 DEF SkipInstance, At, instVars, resVars
  <2> QED
    BY <1>0, <2>1, PlainStep
<1> QED
  BY <1>1, <1>2, <1>3, <1>4 DEF LoopStep

\* A removal check ends.
LEMMA DecideAccounted ==
  ASSUME RInv, UNCHANGED setting, NEW p, p = Manager \/ (\E r \in Asking : p = Executor(r)),
         Decide(p)
  PROVE Accounted
<1>1. PICK w \in {"wait", "done"} :
        /\ pc[p] = "decide" /\ pc' = [pc EXCEPT ![p] = w] /\ (p = Manager => w = "wait")
        /\ UNCHANGED <<on, registered, limit, allocated>>
  BY DEF Decide, At, Goto, Checked, resVars
<1>2. p \in Actors /\ CheckOf(p)
  BY <1>1, CheckThread DEF RInv, LocksInv
<1>3. state[Instance(p)] = "AVAILABLE"
  BY <1>1, <1>2 DEF CheckOf, At
<1>4. \A i \in Instances : (state'[i] = "ALLOCATED") <=> (state[i] = "ALLOCATED")
  BY <1>3 DEF Decide, RInv, RLTypeOK
<1>5. \A x : Out(x)' = Out(x)
  BY <1>1, <1>4, OutFrame
<1>6. pc'[Manager] = pc[Manager] \/ pc'[Manager] = "wait"
  BY <1>1, <1>2, ActorFacts DEF RInv, RLTypeOK
<1> QED
  BY <1>1, <1>5, <1>6 DEF Accounted, Keeps, LimitsFollow, SameLimits

\* A step of an executor.
LEMMA ExecutorAccounted ==
  ASSUME RInv, UNCHANGED setting, ~IgnoreResources, NEW r \in Asking, ExecutorStep(Executor(r))
  PROVE Accounted
<1>1. PICK p : p = Executor(r)
  OBVIOUS
<1>2. p # Manager /\ p \in Actors /\ Manager \in Actors /\ r \in Requests
  BY <1>1, ActorFacts, SettingFacts DEF RInv, RLTypeOK
<1>3. CASE AddAvailableInstance(p)
  <2>1. SameLimits /\ allocated' = allocated
    BY <1>2, <1>3 DEF AddAvailableInstance, SameLimits, Goto, resVars, RInv, RLTypeOK
  <2>2. \A x \in Resources : Out(x)' = Out(x)
    BY <1>1, <1>3, AddAvailableInstanceKeeps
  <2> QED
    BY <2>1, <2>2 DEF Accounted, Keeps, LimitsFollow
<1>4. CASE ReleaseResources(p)
  <2>0. SameLimits
    BY <1>2, <1>4 DEF ReleaseResources, SameLimits, Goto, RInv, RLTypeOK
  <2>1. \/ allocated' = allocated
        \/ allocated' = [x \in Resources |-> (allocated[x] - Need[on[r]][x]) % Word]
    BY ONLY <1>1, <1>4, ActorWork DEF ReleaseResources
  <2>2. on[r] \in Instances
    BY <1>1, <1>2, <1>4 DEF ReleaseResources, At, RInv, ThreadsInv, Called
  <2>3. \A x \in Resources : Out(x)' \in Nat /\ Out(x) = Out(x)' + Need[on[r]][x]
    BY <1>1, <1>4, ReleaseResourcesKeeps
  <2>4. Returned
    BY <2>1, <2>2, <2>3 DEF Returned
  <2> QED
    BY <2>0, <2>4 DEF Accounted, LimitsFollow
<1>5. CASE LookForRequests(p) \/ Dangle(p) \/ BeginCheck(p)
  <2>1. PICK w \in {"stage", "attempt", "dangling", "decide", "done", "wait"} :
          /\ pc' = [pc EXCEPT ![p] = w] /\ UNCHANGED <<state, on, allocated, registered, limit>>
          /\ pc[p] \in {"running", "pending", "stage", "check"}
    BY <1>5 DEF LookForRequests, Dangle, BeginCheck, Checked, At, Goto, instVars, resVars
  <2> QED
    BY <1>2, <2>1, PlainStep
<1>6. CASE LoopStep(p)
  BY <1>1, <1>6, LoopAccounted
<1>7. CASE Decide(p)
  BY <1>1, <1>7, DecideAccounted
<1> QED
  BY <1>1, <1>3, <1>4, <1>5, <1>6, <1>7 DEF ExecutorStep

\* A step of the manager.
LEMMA ManagerAccounted ==
  ASSUME RInv, UNCHANGED setting, NEW m \in Models,
         AddModel(m) \/ RemoveModel(m) \/ ManagerStep, Unerased'
  PROVE Accounted
<1>1. CASE Decide(Manager)
  BY <1>1, DecideAccounted
<1>2. ~EraseModel
  <2>1. target.model \in Models /\ Models' = Models /\ ctx \in [Models -> {"none", "present", "removed"}]
    BY SettingFixed DEF RInv, RLTypeOK
  <2> QED
    BY <2>1 DEF EraseModel, Unerased
<1>3. CASE ~Decide(Manager)
  <2>1. PICK w \in {"limits", "check", "idle", "decide", "wait", "erase"} :
          /\ pc' = [pc EXCEPT ![Manager] = w] /\ UNCHANGED <<state, on, allocated>>
          /\ pc[Manager] \in {"idle", "limits", "check", "wait"}
          /\ \/ limit' = limit /\ w \notin {"idle", "limits"}
             \/ limit' = limit /\ registered \subseteq registered' /\ pc[Manager] = "idle"
             \/ limit' = Limits(registered) /\ registered' = registered /\ pc[Manager] = "limits"
    BY <1>2, <1>3 DEF ManagerStep, AddModel, RemoveModel, UpdateResourceLimits, BeginCheck,
       InstanceRemoved, Checked, At, Goto, instVars, resVars
  <2>2. \A x : Out(x)' = Out(x)
    BY <2>1, OutFrame
  <2>3. pc'[Manager] = w
    BY <2>1, ActorFacts DEF RInv, RLTypeOK
  <2> QED
    BY <2>1, <2>2, <2>3 DEF Accounted, Keeps, LimitsFollow
<1> QED
  BY <1>1, <1>3

\* Any step.
LEMMA StepAccounted ==
  ASSUME RInv, ~IgnoreResources, [Next]_vars, Unerased'
  PROVE Accounted
<1>1. CASE UNCHANGED vars
  <2>1. UNCHANGED <<setting, state, on, allocated, registered, limit, pc>>
    BY <1>1 DEF vars, instVars, resVars
  <2>2. PICK p : p = Manager
    OBVIOUS
  <2>3. pc[p] # "resources"
    BY <2>2 DEF RInv, ThreadsInv, ManagerPCs
  <2>4. \A x : Out(x)' = Out(x)
    BY <2>1, <2>3, "idle" # "resources", OutFrame
  <2> QED
    BY <2>1, <2>4 DEF Accounted, Keeps, LimitsFollow, SameLimits
<1>2. CASE Next
  <2>1. UNCHANGED setting
    BY <1>2 DEF Next
  <2>2. ASSUME NEW r \in Asking, NoModel(r) \/ CallerStep(r) PROVE Accounted
    <3>1. CASE NoModel(r) \/ RequestModelInstance(r) \/ RequestReturns(r)
      <4>1. PICK w \in {"refused", "stage", "accepted"} :
              /\ pc' = [pc EXCEPT ![Caller(r)] = w]
              /\ UNCHANGED <<state, on, allocated, registered, limit>>
              /\ pc[Caller(r)] \in {"new", "staged"}
        BY <3>1 DEF NoModel, RequestModelInstance, RequestReturns, At, Goto, instVars, resVars
      <4>2. Caller(r) # Manager
        BY ActorFacts
      <4> QED
        BY <2>1, <4>1, <4>2, PlainStep
    <3>2. CASE LoopStep(Caller(r))
      BY <2>1, <3>2, LoopAccounted
    <3> QED
      BY <2>2, <3>1, <3>2 DEF CallerStep
  <2>3. ASSUME NEW r \in Asking, ExecutorStep(Executor(r)) PROVE Accounted
    BY <2>1, <2>3, ExecutorAccounted
  <2>4. ASSUME NEW m \in Models, AddModel(m) \/ RemoveModel(m) PROVE Accounted
    BY <2>1, <2>4, ManagerAccounted
  <2>5. CASE ManagerStep
    <3>1. PICK m \in Models : TRUE
      BY SettingFacts DEF RInv, RLTypeOK
    <3> QED
      BY <2>1, <2>5, <3>1, ManagerAccounted
  <2> QED
    BY <1>2, <2>2, <2>3, <2>4, <2>5 DEF Next
<1> QED
  BY <1>1, <1>2

----------------------------------------------------------------------------
\* A counter that does not wrap around: an instance that fits leaves it within
\* the limit, and one that returns its need leaves it above what is out.
LEMMA CounterBounds ==
  ASSUME NEW W \in Nat \ {0}, NEW a \in 0..W - 1, NEW n \in 0..W - 1, NEW l \in Nat, NEW o \in Nat,
         a <= l, 2 * l < W, 2 * n < W
  PROVE /\ (a + n) % W = a + n
        /\ n <= a => (a - n) % W = a - n
<1>1. a + n \in 0..W - 1 /\ (n <= a => a - n \in 0..W - 1)
  OBVIOUS
<1> QED
  BY <1>1, ModFacts

\* The accounts stay bounded.
LEMMA CountsBounded ==
  ASSUME RInv, Roomy, NEW x \in Resources, Bounded(x), Keeps \/ Returned \/ Grows
  PROVE Out(x)' <= allocated'[x] /\ allocated'[x] <= limit[x]
<1>1. /\ Out(x) \in Nat /\ allocated[x] \in 0..Word - 1 /\ limit[x] \in Nat
      /\ (\A i \in Instances : Need[i][x] \in 0..Word - 1) /\ Word \in Nat \ {0}
  BY NumberFacts
<1>2. Out(x) <= allocated[x] /\ allocated[x] <= limit[x] /\ 2 * limit[x] < Word
  BY DEF Bounded
<1>3. CASE Keeps
  BY <1>2, <1>3 DEF Keeps
<1>4. CASE Returned
  <2>1. PICK i \in Instances :
          /\ Out(x)' \in Nat /\ Out(x) = Out(x)' + Need[i][x]
          /\ allocated'[x] = allocated[x] \/ allocated'[x] = (allocated[x] - Need[i][x]) % Word
    BY <1>4 DEF Returned
  <2>2. PICK o \in Nat : o = Out(x)'
    BY <2>1
  <2>3. PICK n \in 0..Word - 1 : n = Need[i][x]
    BY <1>1
  <2>4. PICK a \in 0..Word - 1 : a = allocated[x]
    BY <1>1
  <2>5. PICK l \in Nat : l = limit[x]
    BY <1>1
  <2>6. o + n <= a /\ a <= l /\ 2 * l < Word /\ 2 * n < Word
    BY <1>2, <2>1, <2>2, <2>3, <2>4, <2>5 DEF Roomy
  <2>7. n <= a
    BY ONLY <1>1, <2>6, o \in Nat, n \in 0..Word - 1, a \in 0..Word - 1
  <2>8. (a - n) % Word = a - n
    BY ONLY <1>1, <2>6, <2>7, o \in Nat, n \in 0..Word - 1, a \in 0..Word - 1, l \in Nat, CounterBounds
  <2>9. o <= a /\ o <= a - n /\ a - n <= l
    BY ONLY <1>1, <2>6, o \in Nat, n \in 0..Word - 1, a \in 0..Word - 1, l \in Nat
  <2> QED
    BY <2>1, <2>2, <2>3, <2>4, <2>5, <2>6, <2>8, <2>9
<1>5. CASE Grows
  <2>1. PICK i \in Instances :
          /\ Fits(i) /\ Out(x)' = Out(x) + Need[i][x]
          /\ allocated'[x] = (allocated[x] + Need[i][x]) % Word
    BY <1>5 DEF Grows
  <2>2. PICK o \in Nat : o = Out(x)
    BY <1>1
  <2>3. PICK n \in 0..Word - 1 : n = Need[i][x]
    BY <1>1
  <2>4. PICK a \in 0..Word - 1 : a = allocated[x]
    BY <1>1
  <2>5. PICK l \in Nat : l = limit[x]
    BY <1>1
  <2>6. o <= a /\ a <= l /\ 2 * l < Word /\ 2 * n < Word
    BY <1>2, <2>1, <2>2, <2>3, <2>4, <2>5 DEF Roomy
  <2>7. (a + n) % Word = a + n
    BY ONLY <1>1, <2>6, o \in Nat, n \in 0..Word - 1, a \in 0..Word - 1, l \in Nat, CounterBounds
  <2>8. n > 0 => (a + n) % Word <= l
    BY <2>1, <2>3, <2>4, <2>5 DEF Fits
  <2>9. a + n <= l /\ o + n <= a + n
    BY ONLY <1>1, <2>6, <2>7, <2>8, o \in Nat, n \in 0..Word - 1, a \in 0..Word - 1, l \in Nat
  <2> QED
    BY <2>1, <2>2, <2>3, <2>4, <2>5, <2>7, <2>9
<1> QED
  BY <1>3, <1>4, <1>5

\* The limits are kept at the start.
LEMMA InitBudget ==
  ASSUME Init
  PROVE BudgetInv
<1>1. RInv
  BY InitKeeps
<1> SUFFICES ASSUME Roomy, NEW x \in Resources
             PROVE Bounded(x)
  BY DEF BudgetInv
<1>2. /\ Out(x) \in Nat /\ Limits(registered)[x] \in Nat /\ 2 * Limits(registered)[x] < Word
  BY <1>1, NumberFacts
<1>3. Allocated = {}
  BY DEF Init, Allocated
<1>4. Releasing = {}
  BY ActorFacts DEF Init, Releasing
<1>5. InUse(x) = 0 /\ InReturn(x) = 0
  BY <1>3, <1>4, TotalEmpty DEF InUse, InReturn
<1>6. Out(x) = 0
  BY <1>5 DEF Out
<1>7. allocated[x] = 0 /\ limit = Limits(registered)
  BY DEF Init
<1> QED
  BY ONLY <1>2, <1>6, <1>7 DEF Bounded

\* Every step keeps them.
LEMMA StepBudget ==
  ASSUME RInv, BudgetInv, RInv', [Next]_vars
  PROVE BudgetInv'
<1>1. UNCHANGED setting
  BY DEF Next, vars
<1>2. /\ Instances' = Instances /\ Need' = Need /\ Resources' = Resources /\ Models' = Models
      /\ IgnoreResources' = IgnoreResources /\ \A set : Limits(set)' = Limits(set)
  BY <1>1, SettingFixed
<1> SUFFICES ASSUME Roomy, ~IgnoreResources, Unerased', NEW x \in Resources
             PROVE Bounded(x)'
  BY <1>2 DEF BudgetInv, Roomy
<1>3. Accounted
  BY StepAccounted
<1>4. Unerased
  <2>1. ASSUME NEW p, LoopStep(p) PROVE ctx' = ctx
    BY <2>1 DEF LoopStep, EnterLoop, OfferInstance, SkipInstance, LeaveLoop, NothingFits, Allocate
  <2>2. ASSUME NEW r \in Asking, NoModel(r) \/ CallerStep(r) PROVE ctx' = ctx
    BY <2>1, <2>2 DEF NoModel, CallerStep, RequestModelInstance, RequestReturns
  <2>3. ASSUME NEW p, BeginCheck(p) \/ Decide(p) PROVE ctx' = ctx
    BY <2>3 DEF BeginCheck, Decide
  <2>4. ASSUME NEW p, ExecutorStep(p) PROVE ctx' = ctx
    BY <2>1, <2>3, <2>4 DEF ExecutorStep, AddAvailableInstance, ReleaseResources, LookForRequests,
       Dangle
  <2>5. \/ ctx' = ctx \/ EraseModel
        \/ \E m \in Models : ctx[m] = "none" /\ ctx' = [ctx EXCEPT ![m] = "present"]
    BY <2>2, <2>3, <2>4 DEF Next, vars, ManagerStep, AddModel, RemoveModel, UpdateResourceLimits,
       InstanceRemoved
  <2>6. ASSUME NEW n \in Models, ctx[n] = "removed" PROVE ctx'[n] = "removed"
    BY <2>5, <2>6 DEF EraseModel, RInv, RLTypeOK
  <2> QED
    BY <1>2, <2>6 DEF Unerased
<1>5. Bounded(x)
  BY <1>4 DEF BudgetInv
<1>6. Out(x)' <= allocated'[x] /\ allocated'[x] <= limit[x]
  BY <1>3, <1>5, CountsBounded DEF Accounted
<1>7. /\ limit[x] \in Nat /\ Limits(registered)[x] \in Nat
      /\ 2 * Limits(registered)[x] < Word /\ setting \in DOMAIN Settings
  BY NumberFacts
<1>8. 2 * limit[x] < Word /\ (pc[Manager] \in {"idle", "limits"} => limit[x] <= Limits(registered)[x])
  BY <1>5 DEF Bounded
<1>9. registered \in SUBSET Instances /\ registered' \in SUBSET Instances
      /\ allocated'[x] \in 0..Word - 1 /\ limit'[x] \in Nat
  BY <1>2 DEF RInv, RLTypeOK
<1>10. PICK S : S = registered'
  OBVIOUS
<1>11. Limits(registered)'[x] = Limits(S)[x]
  BY <1>2, <1>10
<1>12. limit[x] <= limit'[x] /\ 2 * limit'[x] < Word
  BY <1>3, <1>7, <1>8 DEF Accounted, LimitsFollow, SameLimits
<1>13. pc'[Manager] \in {"idle", "limits"} => limit'[x] <= Limits(S)[x]
  <2>1. registered \subseteq S => Limits(registered)[x] <= Limits(S)[x] /\ Limits(S)[x] \in Nat
    <3>1. S \in SUBSET Instances
      BY <1>9, <1>10
    <3>2. Limits(S)[x] \in Nat
      BY <1>7, <3>1, LimitFacts, RateLimiterAssumption
    <3> QED
      BY <1>7, <1>9, <3>1, <3>2, LimitsGrow
  <2>2. CASE SameLimits
    BY <1>8, <1>10, <2>2 DEF SameLimits
  <2>3. CASE limit' = limit /\ registered \subseteq registered' /\ pc[Manager] = "idle"
    BY <1>7, <1>8, <1>10, <2>1, <2>3
  <2>4. CASE limit' = Limits(registered) /\ registered' = registered
    BY <1>7, <1>10, <2>4
  <2> QED
    BY <1>3, <2>2, <2>3, <2>4 DEF Accounted, LimitsFollow
<1>14. allocated'[x] <= limit'[x]
  BY <1>6, <1>7, <1>9, <1>12
<1> QED
  BY <1>6, <1>11, <1>12, <1>13, <1>14 DEF Bounded

(***************************************************************************)
(* As long as no two needs of a resource add up to the width of its        *)
(* counter: while no model is added or removed, allocated_resources_ is    *)
(* exactly what the executing instances need plus what Release is about to *)
(* return; and, until a model is erased, instances that execute together   *)
(* never need more than max_resources_, whatever is requested, released or *)
(* added: for any number of models, instances, requests and resources.     *)
(***************************************************************************)
THEOREM ResourcesKept == Spec => [](Roomy => ResourcesSound)
<1>1. Init => BudgetInv
  BY InitBudget
<1>2. RInv /\ BudgetInv /\ RInv' /\ [Next]_vars => BudgetInv'
  BY StepBudget
<1>3. RInv /\ BudgetInv => (Roomy => ResourcesSound)
  <2> SUFFICES ASSUME RInv, BudgetInv, Roomy
               PROVE ResourcesSound
    OBVIOUS
  <2>1. RLTypeOK /\ ThreadsInv /\ Word \in Nat \ {0}
    BY RateLimiterAssumption DEF RInv
  <2>2. ASSUME ~IgnoreResources, Unerased, NEW x \in Resources
        PROVE /\ InUse(x) <= limit[x]
              /\ Settled => allocated[x] = Out(x)
    <3>1. InUse(x) \in Nat /\ InReturn(x) \in Nat /\ Out(x) = InUse(x) + InReturn(x)
      BY <2>1, SumFacts DEF Out
    <3>2. limit[x] \in Nat /\ allocated[x] \in 0..Word - 1
      BY NumberFacts
    <3>3. Out(x) <= allocated[x] /\ allocated[x] <= limit[x]
      BY <2>2 DEF BudgetInv, Bounded
    <3>4. InUse(x) <= limit[x] /\ Out(x) \in 0..Word - 1
      BY ONLY <2>1, <3>1, <3>2, <3>3
    <3>5. Settled => allocated[x] = Out(x) % Word
      BY <2>2 DEF RInv, SettledInv, Out
    <3>6. Out(x) % Word = Out(x)
      BY <2>1, <3>4, ModFacts
    <3> QED
      BY <3>4, <3>5, <3>6
  <2>3. Settled => Unerased
    BY DEF RInv, SettledInv, Unerased
  <2> QED
    BY <2>1, <2>2, <2>3 DEF ResourcesSound, ResourcesExact, WithinLimits, Out, Unerased
<1> QED
  BY <1>1, <1>2, <1>3, RInvHolds, PTL DEF Spec
=============================================================================
