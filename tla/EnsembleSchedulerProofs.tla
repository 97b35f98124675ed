---------------------- MODULE EnsembleSchedulerProofs ----------------------
(***************************************************************************)
(* What EnsembleScheduler promises the client of any ensemble, with any    *)
(* number of steps, responses and failures: it is answered once, the       *)
(* request is given back after that and when no model holds a part of it,  *)
(* and inflight_step_counter_ counts the Steps at work.                    *)
(*                                                                         *)
(* The inductive invariant EInv ties three counts together.  Sending a     *)
(* Step raises the tracker's counter, which is safe only while the request *)
(* has not been given back: a Step that waits is in flight, so the count   *)
(* of Steps in flight is not zero, so the client has not been answered and *)
(* the tracker still counts itself.  That needs a Step in one list of one  *)
(* thread only (ListsOK) and a new Step to have a name of its own          *)
(* (NamesOK).                                                              *)
(***************************************************************************)
EXTENDS EnsembleScheduler, FiniteSetTheorems, WellFoundedInduction, TLAPS

Places ==
  {"ready", "running", "proceed", "scheduling", "gone", "abandoned"}
Fields == {"at", "responses", "final", "failed", "updated", "held"}

IsStep(r) ==
  /\ DOMAIN r = Fields
  /\ r.at \in Places /\ r.final \in BOOLEAN /\ r.held \in BOOLEAN
  /\ r.at = "ready" => ~r.held /\ ~r.final

IsBusy(r) ==
  \/ r.at = "ready"
  \/ r.at \in {"running", "proceed", "scheduling"}
       /\ ~(r.final /\ r.at = "scheduling")
BusyIn(S) == {x \in DOMAIN S : IsBusy(S[x])}
HeldIn(S) == {x \in DOMAIN S : S[x].held}
OfStep(D, s) == {x \in D : x[1] = s}

\* The numbers of the Steps of one index do not exceed how many there are.
NamesOK(D) ==
  /\ D \subseteq Nat \X Nat /\ IsFiniteSet(D)
  /\ \A x \in D : x[2] <= Cardinality(OfStep(D, x[1]))

\* The Steps a thread has yet to send are waiting, each in one place.
ListsOK(S, L) ==
  /\ \A y \in DOMAIN L : L[y] \in Seq(DOMAIN S)
  /\ \A y \in DOMAIN L : \A i \in DOMAIN L[y] : S[L[y][i]].at = "ready"
  /\ \A y, z \in DOMAIN L : \A i \in DOMAIN L[y], j \in DOMAIN L[z] :
       L[y][i] = L[z][j] => y = z /\ i = j

StepsOK(S, L) ==
  /\ NamesOK(DOMAIN S)
  /\ S = [x \in DOMAIN S |-> S[x]] /\ \A x \in DOMAIN S : IsStep(S[x])
  /\ L = [y \in DOMAIN L |-> L[y]]
  /\ ListsOK(S, L)

\* What the client was sent.
SentOK ==
  /\ sent \in Seq({"output", "error", "final"})
  /\ tracked \in BOOLEAN
  /\ tracked => \A i \in 1..Len(sent) : sent[i] = "output" /\ Decoupled
  /\ ~tracked => Answered
  /\ \A i \in 1..Len(sent) : i < Len(sent) => sent[i] = "output" /\ Decoupled

\* When the request is given back.
CounterOK ==
  /\ counter = (IF tracked THEN 1 ELSE 0) + Cardinality(HeldIn(step))
  /\ released \in BOOLEAN
  /\ released => ~tracked /\ HeldIn(step) = {}

InFlightOK ==
  /\ status \in {"ok", "error"} /\ inflight \in Int
  /\ status = "ok" => inflight = Cardinality(BusyIn(step))
  /\ status = "ok" /\ ~tracked => inflight = 0

\* Before Enqueue nothing has happened; later threads are those of Steps.
ThreadsOK ==
  /\ Threads \subseteq DOMAIN step \cup {Caller}
  /\ Caller \notin Threads => tracked /\ DOMAIN step = {}

EInv ==
  /\ config \in DOMAIN Ensembles
  /\ StepsOK(step, ready) /\ SentOK /\ CounterOK /\ InFlightOK /\ ThreadsOK

----------------------------------------------------------------------------
(* Induction over the naturals, for a set.                                 *)
LEMMA NatSet ==
  ASSUME NEW T, T \subseteq Nat, 0 \in T, \A n \in T : n + 1 \in T
  PROVE  \A n \in Nat : n \in T
<1> DEFINE F == Nat \ T
<1>1. SUFFICES ASSUME F # {} PROVE FALSE
  OBVIOUS
<1>2. PICK m \in F : \A y \in F : ~(<<y, m>> \in OpToRel(<, Nat))
  BY <1>1, NatLessThanWellFounded, WFMin, F \subseteq Nat
<1>3. \A y \in F : ~(y < m)
  BY <1>2 DEF OpToRel
<1>4. m # 0 /\ m \in Nat
  OBVIOUS
<1>5. m - 1 \in Nat /\ m - 1 < m
  BY <1>4
<1>6. m - 1 \in T
  BY <1>3, <1>5
<1>7. (m - 1) + 1 \in T
  BY <1>6
<1> QED BY <1>4, <1>7

(* The elements of a set of numbers up to n, in increasing order.          *)
LEMMA SortedList ==
  \A n \in Nat : \A S \in SUBSET (1..n) :
    \E l \in [1..Cardinality(S) -> S] :
      \A i, j \in 1..Cardinality(S) : i < j => l[i] < l[j]
<1> DEFINE Listed(S) ==
      \E l \in [1..Cardinality(S) -> S] :
        \A i, j \in 1..Cardinality(S) : i < j => l[i] < l[j]
           T == {n \in Nat : \A S \in SUBSET (1..n) : Listed(S)}
<1>1. 0 \in T
  <2>1. SUFFICES ASSUME NEW S \in SUBSET (1..0) PROVE Listed(S)
    OBVIOUS
  <2>2. S = {} /\ Cardinality(S) = 0
    BY FS_EmptySet, 1..0 = {}
  <2>3. 1..Cardinality(S) = {}
    BY <2>2
  <2>4. [i \in {} |-> i] \in [1..Cardinality(S) -> S]
    BY <2>3, <2>2
  <2> QED BY <2>4, <2>3
<1>2. ASSUME NEW n \in T PROVE n + 1 \in T
  <2>1. n \in Nat /\ \A S \in SUBSET (1..n) : Listed(S)
    OBVIOUS
  <2> HIDE DEF T
  <2>2. SUFFICES ASSUME NEW S \in SUBSET (1..(n + 1)) PROVE Listed(S)
    BY <2>1 DEF T
  <2>3. CASE n + 1 \notin S
    <3>1. S \subseteq 1..n
      BY <2>1, <2>3
    <3> QED BY <2>1, <3>1
  <2>4. CASE n + 1 \in S
    <3> DEFINE R == S \ {n + 1}
    <3>1. R \in SUBSET (1..n)
      BY <2>1
    <3>2. IsFiniteSet(1..(n + 1))
      BY <2>1, FS_Interval, 1 \in Int, n + 1 \in Int
    <3>3. IsFiniteSet(S) /\ IsFiniteSet(R)
      BY <3>2, FS_Subset
    <3>4. Cardinality(R) \in Nat /\ Cardinality(S) = Cardinality(R) + 1
      BY <3>3, <2>4, FS_RemoveElement, FS_CardinalityType
    <3>5. PICK l \in [1..Cardinality(R) -> R] :
            \A i, j \in 1..Cardinality(R) : i < j => l[i] < l[j]
      BY <2>1, <3>1
    <3>c. PICK c : c = Cardinality(R)
      OBVIOUS
    <3>d. c \in Nat /\ l \in [1..c -> S] /\ \A i \in 1..c : l[i] \in 1..n
      BY <3>c, <3>4, <3>5, <3>1
    <3>e. \A i, j \in 1..c : i < j => l[i] < l[j]
      BY <3>c, <3>5
    <3> HIDE DEF R
    <3> DEFINE k == [i \in 1..(c + 1) |-> IF i = c + 1 THEN n + 1 ELSE l[i]]
    <3>6. k \in [1..(c + 1) -> S]
      <4>1. \A i \in 1..(c + 1) : i = c + 1 \/ i \in 1..c
        BY <3>d
      <4>2. \A i \in 1..(c + 1) : (IF i = c + 1 THEN n + 1 ELSE l[i]) \in S
        BY <3>d, <2>4, <4>1
      <4> QED BY <4>2
    <3>7. ASSUME NEW i \in 1..(c + 1), NEW j \in 1..(c + 1), i < j
          PROVE  k[i] < k[j]
      <4>1. i \in 1..c /\ i # c + 1 /\ k[i] = l[i] /\ l[i] \in 1..n
        BY <3>7, <3>d
      <4>2. CASE j = c + 1
        BY <4>1, <4>2, <2>1
      <4>3. CASE j # c + 1
        BY <4>1, <4>3, <3>d, <3>e, <3>7
      <4> QED BY <4>2, <4>3
    <3>8. 1..Cardinality(S) = 1..(c + 1)
      BY <3>4, <3>c
    <3> HIDE DEF k
    <3> QED BY <3>6, <3>7, <3>8
  <2> QED BY <2>3, <2>4
<1>3. T \subseteq Nat
  OBVIOUS
<1> HIDE DEF T
<1>4. \A n \in Nat : n \in T
  BY <1>1, <1>2, <1>3, NatSet
<1> QED BY <1>4 DEF T

----------------------------------------------------------------------------
(* The names of the Steps that are created, one for each index in I.       *)
Names(D, I) == {<<s, Cardinality(OfStep(D, s)) + 1>> : s \in I}

(* There are as many new names as indices.                                 *)
LEMMA NamesCount ==
  ASSUME NEW D, NEW I, IsFiniteSet(I)
  PROVE  IsFiniteSet(Names(D, I)) /\ Cardinality(Names(D, I)) = Cardinality(I)
<1> DEFINE f == [s \in I |-> <<s, Cardinality(OfStep(D, s)) + 1>>]
<1>1. f \in [I -> Names(D, I)]
  BY DEF Names
<1>2. \A a, b \in I : f[a] = f[b] => a = b
  OBVIOUS
<1>3. \A t \in Names(D, I) : \E s \in I : f[s] = t
  BY DEF Names
<1> HIDE DEF f
<1>4. f \in Bijection(I, Names(D, I))
  BY <1>1, <1>2, <1>3 DEF Bijection, Injection, Surjection, IsInjective
<1>5. ExistsBijection(I, Names(D, I))
  BY <1>4 DEF ExistsBijection
<1> QED BY <1>5, FS_Bijection

(* A Step that is created has a name that no Step had before.              *)
LEMMA NamesFresh ==
  ASSUME NEW D, NamesOK(D), NEW I \in SUBSET Nat, IsFiniteSet(I)
  PROVE  NamesOK(D \cup Names(D, I)) /\ Names(D, I) \cap D = {}
<1>1. D \subseteq Nat \X Nat /\ IsFiniteSet(D)
  BY DEF NamesOK
<1>2. \A s : IsFiniteSet(OfStep(D, s)) /\ Cardinality(OfStep(D, s)) \in Nat
  <2>1. \A s : OfStep(D, s) \in SUBSET D
    BY DEF OfStep
  <2> QED BY <2>1, <1>1, FS_Subset, FS_CardinalityType
<1>3. Names(D, I) \subseteq Nat \X Nat
  BY <1>2 DEF Names
<1>4. IsFiniteSet(D \cup Names(D, I))
  BY <1>1, NamesCount, FS_Union
<1>5. \A x \in D : x[2] <= Cardinality(OfStep(D, x[1]))
  BY DEF NamesOK
<1>6. Names(D, I) \cap D = {}
  <2>1. SUFFICES ASSUME NEW s \in I, <<s, Cardinality(OfStep(D, s)) + 1>> \in D
                 PROVE  FALSE
    BY DEF Names
  <2>2. Cardinality(OfStep(D, s)) + 1 <= Cardinality(OfStep(D, s))
    BY <1>5, <2>1
  <2> QED BY <2>2, <1>2
<1>7. ASSUME NEW x \in D \cup Names(D, I)
      PROVE  x[2] <= Cardinality(OfStep(D \cup Names(D, I), x[1]))
  <2> DEFINE A == D \cup Names(D, I)
  <2>1. OfStep(A, x[1]) \in SUBSET A /\ OfStep(D, x[1]) \in SUBSET OfStep(A, x[1])
    BY DEF OfStep
  <2>2. IsFiniteSet(OfStep(A, x[1])) /\ Cardinality(OfStep(A, x[1])) \in Nat
    BY <2>1, <1>4, FS_Subset, FS_CardinalityType
  <2>3. CASE x \in D
    <3>1. Cardinality(OfStep(D, x[1])) <= Cardinality(OfStep(A, x[1]))
      BY <2>1, <2>2, FS_Subset
    <3>2. x[2] \in Nat
      BY <1>1, <2>3
    <3> HIDE DEF A
    <3>3. x[2] <= Cardinality(OfStep(A, x[1]))
      BY <3>1, <3>2, <1>2, <1>5, <2>2, <2>3
    <3> QED BY <3>3 DEF A
  <2>4. CASE x \in Names(D, I)
    <3>1. PICK s \in I : x = <<s, Cardinality(OfStep(D, s)) + 1>>
      BY <2>4 DEF Names
    <3>2. x \notin OfStep(D, s) /\ x[1] = s /\ x \in OfStep(A, s)
      BY <1>6, <2>4, <3>1 DEF OfStep
    <3>3. Cardinality(OfStep(D, s) \cup {x}) = Cardinality(OfStep(D, s)) + 1
      BY <3>2, <1>2, FS_AddElement
    <3>4. OfStep(D, s) \cup {x} \in SUBSET OfStep(A, s)
      BY <3>2, <2>1
    <3>5. Cardinality(OfStep(D, s) \cup {x}) <= Cardinality(OfStep(A, s))
      BY <3>4, <3>2, <2>2, FS_Subset
    <3> HIDE DEF A
    <3>6. x[2] <= Cardinality(OfStep(A, x[1]))
      BY <3>1, <3>2, <3>3, <3>5
    <3> QED BY <3>6 DEF A
  <2> QED BY <2>3, <2>4
<1>8. D \cup Names(D, I) \subseteq Nat \X Nat
  BY <1>1, <1>3
<1> HIDE DEF Names
<1> QED BY <1>4, <1>6, <1>7, <1>8 DEF NamesOK

IsSorted(l) == \A i, j \in DOMAIN l : i < j => l[i][1] < l[j][1]

(* The list of Steps that ScheduleSteps is given exists: it is in the      *)
(* order of their indices.                                                 *)
LEMMA ListExists ==
  ASSUME NEW D, NEW n \in Nat, NEW I \in SUBSET (1..n)
  PROVE  \E l \in [1..Cardinality(Names(D, I)) -> Names(D, I)] : IsSorted(l)
<1>1. IsFiniteSet(I)
  BY FS_Interval, FS_Subset, 1 \in Int, n \in Int
<1>2. Cardinality(Names(D, I)) = Cardinality(I)
  BY <1>1, NamesCount
<1>3. PICK k \in [1..Cardinality(I) -> I] :
        \A i, j \in 1..Cardinality(I) : i < j => k[i] < k[j]
  BY SortedList
<1>4. PICK c : c = Cardinality(I)
  OBVIOUS
<1> DEFINE l == [i \in 1..c |-> <<k[i], Cardinality(OfStep(D, k[i])) + 1>>]
<1>5. l \in [1..c -> Names(D, I)]
  BY <1>3, <1>4 DEF Names
<1>6. DOMAIN l = 1..c /\ \A i \in 1..c : l[i][1] = k[i]
  OBVIOUS
<1> HIDE DEF l
<1>7. IsSorted(l)
  BY <1>3, <1>4, <1>6 DEF IsSorted
<1> QED BY <1>2, <1>4, <1>5, <1>7

Extended(S, N) == [n \in DOMAIN S \cup N |-> IF n \in N THEN NewStep ELSE S[n]]
Listed(L, x, l) == [y \in DOMAIN L \cup {x} |-> IF y = x THEN l ELSE L[y]]

(* New Steps join those there are, and thread x has them to send.          *)
LEMMA StepsAdded ==
  ASSUME NEW S, NEW L, StepsOK(S, L), NEW x, NEW N, NEW l,
         NamesOK(DOMAIN S \cup N), N \cap DOMAIN S = {}, IsFiniteSet(N),
         l \in [1..Cardinality(N) -> N], IsSorted(l)
  PROVE  /\ StepsOK(Extended(S, N), Listed(L, x, l))
         /\ HeldIn(Extended(S, N)) = HeldIn(S)
         /\ Cardinality(BusyIn(Extended(S, N)))
              = Cardinality(BusyIn(S)) + Cardinality(N)
<1> DEFINE A == Extended(S, N)
           B == Listed(L, x, l)
<1>1. /\ DOMAIN A = DOMAIN S \cup N
      /\ \A n \in N : A[n] = NewStep
      /\ \A n \in DOMAIN S : A[n] = S[n]
  BY DEF Extended
<1>2. /\ DOMAIN B = DOMAIN L \cup {x} /\ B[x] = l
      /\ \A y \in DOMAIN L : y # x => B[y] = L[y]
  BY DEF Listed
<1>3. A = [n \in DOMAIN A |-> A[n]] /\ B = [y \in DOMAIN B |-> B[y]]
  BY DEF Extended, Listed
<1> HIDE DEF A, B
<1>4. IsStep(NewStep) /\ NewStep.at = "ready" /\ ~NewStep.held /\ IsBusy(NewStep)
  BY DEF IsStep, NewStep, Fields, Places, IsBusy
<1>5. NamesOK(DOMAIN S) /\ IsFiniteSet(DOMAIN S) /\ \A n \in DOMAIN S : IsStep(S[n])
  BY DEF StepsOK, NamesOK
<1>6. \A n \in DOMAIN A : IsStep(A[n])
  BY <1>1, <1>4, <1>5
<1>7. HeldIn(A) = HeldIn(S)
  BY <1>1, <1>4 DEF HeldIn
<1>8. BusyIn(A) = BusyIn(S) \cup N /\ BusyIn(S) \cap N = {}
  BY <1>1, <1>4 DEF BusyIn
<1>9. IsFiniteSet(BusyIn(S))
  <2>1. BusyIn(S) \in SUBSET (DOMAIN S)
    BY DEF BusyIn
  <2> QED BY <2>1, <1>5, FS_Subset
<1>10. Cardinality(BusyIn(A)) = Cardinality(BusyIn(S)) + Cardinality(N)
  <2>1. Cardinality(BusyIn(S) \cup N)
          = Cardinality(BusyIn(S)) + Cardinality(N) - Cardinality(BusyIn(S) \cap N)
    BY <1>9, FS_Union
  <2>2. Cardinality(BusyIn(S) \cap N) = 0
    BY <1>8, FS_EmptySet
  <2>3. Cardinality(BusyIn(S)) \in Nat /\ Cardinality(N) \in Nat
    BY <1>9, FS_CardinalityType
  <2> QED BY <1>8, <2>1, <2>2, <2>3
<1>11. Cardinality(N) \in Nat
  BY FS_CardinalityType
<1>12. l \in Seq(DOMAIN A) /\ DOMAIN l = 1..Cardinality(N)
  BY <1>1, <1>11
<1>13. /\ \A y \in DOMAIN L : L[y] \in Seq(DOMAIN S)
       /\ \A y \in DOMAIN L : \A i \in DOMAIN L[y] : S[L[y][i]].at = "ready"
  BY DEF StepsOK, ListsOK
<1>14. \A y \in DOMAIN L : \A i \in DOMAIN L[y] : L[y][i] \in DOMAIN S
  BY <1>13
<1>15. \A y \in DOMAIN B : B[y] \in Seq(DOMAIN A)
  BY <1>1, <1>2, <1>12, <1>13
<1>16. \A y \in DOMAIN B : \A i \in DOMAIN B[y] : A[B[y][i]].at = "ready"
  <2>1. \A i \in DOMAIN l : A[l[i]].at = "ready"
    BY <1>1, <1>4, <1>12
  <2>2. \A y \in DOMAIN L : \A i \in DOMAIN L[y] : A[L[y][i]].at = "ready"
    BY <1>1, <1>13, <1>14
  <2> QED BY ZenonT(60), <2>1, <2>2, <1>2
<1>17. \A i, j \in DOMAIN l : l[i] = l[j] => i = j
  <2>1. SUFFICES ASSUME NEW i \in DOMAIN l, NEW j \in DOMAIN l, l[i] = l[j], i # j
                 PROVE  FALSE
    OBVIOUS
  <2>2. i \in Nat /\ j \in Nat
    BY <1>12, <1>11
  <2>3. l[i] \in Nat \X Nat
    BY <1>12, <1>1 DEF NamesOK
  <2>4. l[i][1] \in Nat
    BY <2>3
  <2>5. l[i][1] < l[i][1]
    BY <2>1, <2>2 DEF IsSorted
  <2> QED BY <2>4, <2>5
<1>18. \A y, z \in DOMAIN L : \A i \in DOMAIN L[y], j \in DOMAIN L[z] :
         L[y][i] = L[z][j] => y = z /\ i = j
  BY DEF StepsOK, ListsOK
<1>19. \A y \in DOMAIN L : \A i \in DOMAIN L[y], j \in DOMAIN l : L[y][i] # l[j]
  BY <1>14, <1>12
<1>20. ASSUME NEW y \in DOMAIN B, NEW z \in DOMAIN B,
              NEW i \in DOMAIN B[y], NEW j \in DOMAIN B[z], B[y][i] = B[z][j]
       PROVE  y = z /\ i = j
  <2>1. CASE y = x /\ z = x
    BY <2>1, <1>2, <1>17, <1>20
  <2>2. CASE y # x /\ z = x
    BY <2>2, <1>2, <1>19, <1>20
  <2>3. CASE y = x /\ z # x
    BY <2>3, <1>2, <1>19, <1>20
  <2>4. CASE y # x /\ z # x
    <3>1. y \in DOMAIN L /\ z \in DOMAIN L /\ B[y] = L[y] /\ B[z] = L[z]
      BY <2>4, <1>2
    <3> QED BY <3>1, <1>18, <1>20
  <2> QED BY <2>1, <2>2, <2>3, <2>4
<1>21. ListsOK(A, B)
  BY <1>15, <1>16, <1>20 DEF ListsOK
<1>22. StepsOK(A, B)
  BY <1>1, <1>3, <1>6, <1>21 DEF StepsOK
<1> QED BY <1>7, <1>10, <1>22 DEF A, B

(* PrepareSteps leaves thread x with new Steps to send, and starts no      *)
(* model: as many Steps as were created are in flight in addition.         *)
LEMMA SchedulesSound ==
  ASSUME config \in DOMAIN Ensembles,
         NEW x, NEW I \in SUBSET Steps, NEW after, DOMAIN after = DOMAIN step,
         StepsOK(after, ready), Schedules(x, I, after)
  PROVE  /\ StepsOK(step', ready') /\ HeldIn(step') = HeldIn(after)
         /\ Cardinality(BusyIn(step')) = Cardinality(BusyIn(after)) + Cardinality(I)
         /\ DOMAIN ready' = Threads \cup {x}
         /\ Cardinality(BusyIn(after)) \in Nat /\ Cardinality(I) \in Nat
<1> DEFINE D == DOMAIN after
           N == Names(D, I)
           l == StepList(N)
<1>1. PICK n \in Nat : Steps = 1..n
  BY EnsembleAssumption DEF Steps, Ensemble
<1>2. I \in SUBSET (1..n) /\ I \in SUBSET Nat /\ IsFiniteSet(I)
  <2>1. I \in SUBSET (1..n) /\ 1..n \subseteq Nat
    BY <1>1
  <2>2. IsFiniteSet(1..n)
    BY FS_Interval, 1 \in Int, n \in Int
  <2> QED BY <2>1, <2>2, FS_Subset
<1>3. NamesOK(D) /\ IsFiniteSet(D)
  BY DEF StepsOK, NamesOK
<1>4. NamesOK(D \cup N) /\ N \cap D = {} /\ IsFiniteSet(N)
      /\ Cardinality(N) = Cardinality(I)
  BY <1>2, <1>3, NamesFresh, NamesCount
<1>5. l \in [1..Cardinality(N) -> N] /\ IsSorted(l)
  BY <1>2, ListExists DEF StepList, IsSorted
<1>6. {<<s, Created(s) + 1>> : s \in I} = N
  BY DEF Created, Names, OfStep
<1>7. step' = Extended(after, N) /\ ready' = Listed(ready, x, l)
  <2> HIDE DEF N
  <2> QED BY <1>6 DEF Schedules, Extended, Listed, Threads
<1>8. BusyIn(after) \in SUBSET D
  BY DEF BusyIn
<1>9. Cardinality(BusyIn(after)) \in Nat /\ Cardinality(I) \in Nat
  BY <1>8, <1>2, <1>3, FS_Subset, FS_CardinalityType
<1>10. DOMAIN ready' = Threads \cup {x}
  BY <1>7 DEF Listed, Threads
<1> HIDE DEF D, N, l
<1>11. N \cap DOMAIN after = {} /\ NamesOK(DOMAIN after \cup N)
  BY <1>4 DEF D
<1>12. /\ StepsOK(Extended(after, N), Listed(ready, x, l))
       /\ HeldIn(Extended(after, N)) = HeldIn(after)
       /\ Cardinality(BusyIn(Extended(after, N)))
            = Cardinality(BusyIn(after)) + Cardinality(N)
  BY <1>4, <1>5, <1>11, StepsAdded
<1> QED BY <1>4, <1>7, <1>9, <1>10, <1>12

----------------------------------------------------------------------------
Put(f, x, v) == [f EXCEPT ![x] = v]
Dropped(S, R) ==
  [y \in DOMAIN S |-> IF y \in R THEN [S[y] EXCEPT !.at = "gone"] ELSE S[y]]

(* A Step that no thread has to send changes.                              *)
LEMMA StepChanged ==
  ASSUME NEW S, NEW L, StepsOK(S, L), NEW x \in DOMAIN S, NEW r, IsStep(r),
         S[x].at # "ready"
  PROVE  LET A == Put(S, x, r)
         IN  /\ StepsOK(A, L) /\ DOMAIN A = DOMAIN S
             /\ r.held = S[x].held => HeldIn(A) = HeldIn(S)
             /\ ~r.held => HeldIn(A) = HeldIn(S) \ {x}
             /\ IsBusy(r) /\ IsBusy(S[x]) => BusyIn(A) = BusyIn(S)
             /\ ~IsBusy(r) => BusyIn(A) = BusyIn(S) \ {x}
<1> DEFINE A == Put(S, x, r)
<1>1. DOMAIN A = DOMAIN S /\ A[x] = r /\ \A y \in DOMAIN S : y # x => A[y] = S[y]
  BY DEF StepsOK, Put
<1>2. A = [y \in DOMAIN A |-> A[y]]
  BY DEF Put
<1> HIDE DEF A
<1>3. \A y \in DOMAIN A : IsStep(A[y])
  BY <1>1 DEF StepsOK
<1>4. ListsOK(S, L)
  BY DEF StepsOK
<1>5. \A y \in DOMAIN L : \A i \in DOMAIN L[y] : L[y][i] \in DOMAIN S /\ L[y][i] # x
  BY <1>4 DEF ListsOK
<1>6. ListsOK(A, L)
  BY <1>1, <1>4, <1>5 DEF ListsOK
<1>7. StepsOK(A, L)
  BY <1>1, <1>2, <1>3, <1>6 DEF StepsOK
<1>8. r.held = S[x].held => HeldIn(A) = HeldIn(S)
  BY <1>1 DEF HeldIn
<1>9. ~r.held => HeldIn(A) = HeldIn(S) \ {x}
  BY <1>1 DEF HeldIn
<1>10. IsBusy(r) /\ IsBusy(S[x]) => BusyIn(A) = BusyIn(S)
  BY <1>1 DEF BusyIn
<1>11. ~IsBusy(r) => BusyIn(A) = BusyIn(S) \ {x}
  BY <1>1 DEF BusyIn
<1> QED BY <1>1, <1>7, <1>8, <1>9, <1>10, <1>11 DEF A

(* A thread takes the first of the Steps that it has to send.              *)
LEMMA HeadTaken ==
  ASSUME NEW S, NEW L, StepsOK(S, L), NEW y \in DOMAIN L, L[y] # << >>,
         NEW r, IsStep(r)
  PROVE  LET h == Head(L[y])
             A == Put(S, h, r)
         IN  /\ h \in DOMAIN S /\ S[h].at = "ready" /\ ~S[h].held /\ ~S[h].final
             /\ StepsOK(A, Put(L, y, Tail(L[y])))
             /\ r.held => HeldIn(A) = HeldIn(S) \cup {h} /\ h \notin HeldIn(S)
             /\ ~r.held => HeldIn(A) = HeldIn(S)
             /\ IsBusy(r) => BusyIn(A) = BusyIn(S)
<1> DEFINE h == Head(L[y])
           A == Put(S, h, r)
           B == Put(L, y, Tail(L[y]))
<1>1. L[y] \in Seq(DOMAIN S)
  BY DEF StepsOK, ListsOK
<1>2. 1 \in DOMAIN L[y] /\ h = L[y][1] /\ h \in DOMAIN S
  BY <1>1
<1>3. S[h].at = "ready" /\ IsStep(S[h])
  BY <1>2 DEF StepsOK, ListsOK
<1>4. ~S[h].held /\ ~S[h].final /\ IsBusy(S[h])
  BY <1>3 DEF IsStep, IsBusy
<1>5. DOMAIN A = DOMAIN S /\ A[h] = r /\ \A z \in DOMAIN S : z # h => A[z] = S[z]
  BY <1>2 DEF StepsOK, Put
<1>6. /\ DOMAIN B = DOMAIN L /\ B[y] = Tail(L[y])
      /\ \A z \in DOMAIN L : z # y => B[z] = L[z]
  BY DEF Put
<1>7. A = [z \in DOMAIN A |-> A[z]] /\ B = [z \in DOMAIN B |-> B[z]]
  BY DEF Put
<1>8. /\ Tail(L[y]) \in Seq(DOMAIN S)
      /\ \A i \in DOMAIN Tail(L[y]) :
           i + 1 \in DOMAIN L[y] /\ i \in Nat /\ i + 1 # 1 /\ Tail(L[y])[i] = L[y][i + 1]
  <2>1. DOMAIN Tail(L[y]) = 1..(Len(L[y]) - 1) /\ Len(L[y]) \in Nat
        /\ Tail(L[y]) \in Seq(DOMAIN S)
    BY <1>1
  <2> QED BY <2>1, <1>1
<1> HIDE DEF A, B, h
<1>9. \A z \in DOMAIN A : IsStep(A[z])
  BY <1>5 DEF StepsOK
<1>10. ListsOK(S, L)
  BY DEF StepsOK
<1>11. \A z, w \in DOMAIN L : \A i \in DOMAIN L[z], j \in DOMAIN L[w] :
         L[z][i] = L[w][j] => z = w /\ i = j
  BY <1>10 DEF ListsOK
<1> DEFINE from(z, i) == IF z = y THEN i + 1 ELSE i
<1>12. ASSUME NEW z \in DOMAIN B, NEW i \in DOMAIN B[z]
       PROVE  /\ z \in DOMAIN L /\ from(z, i) \in DOMAIN L[z]
              /\ B[z][i] = L[z][from(z, i)] /\ (z = y => from(z, i) # 1)
  <2>1. CASE z = y
    BY <2>1, <1>6, <1>8
  <2>2. CASE z # y
    BY <2>2, <1>6
  <2> QED BY <2>1, <2>2
<1>13. \A z \in DOMAIN B : B[z] \in Seq(DOMAIN A)
  BY <1>5, <1>6, <1>8, <1>10 DEF ListsOK
<1>14. ASSUME NEW z \in DOMAIN B, NEW i \in DOMAIN B[z]
       PROVE  A[B[z][i]].at = "ready"
  <2>1. /\ z \in DOMAIN L /\ from(z, i) \in DOMAIN L[z]
        /\ B[z][i] = L[z][from(z, i)] /\ (z = y => from(z, i) # 1)
    BY <1>12
  <2> HIDE DEF from
  <2>2. B[z][i] # h
    BY <1>2, <1>11, <2>1
  <2>3. S[B[z][i]].at = "ready" /\ B[z][i] \in DOMAIN S
    BY <2>1, <1>10 DEF ListsOK
  <2> QED BY <2>2, <2>3, <1>5
<1>15. ASSUME NEW z \in DOMAIN B, NEW w \in DOMAIN B,
              NEW i \in DOMAIN B[z], NEW j \in DOMAIN B[w], B[z][i] = B[w][j]
       PROVE  z = w /\ i = j
  <2>1. /\ z \in DOMAIN L /\ from(z, i) \in DOMAIN L[z] /\ B[z][i] = L[z][from(z, i)]
        /\ w \in DOMAIN L /\ from(w, j) \in DOMAIN L[w] /\ B[w][j] = L[w][from(w, j)]
    BY <1>12
  <2> HIDE DEF from
  <2>2. z = w /\ from(z, i) = from(w, j)
    <3>1. PICK a, b : a = from(z, i) /\ b = from(w, j)
      OBVIOUS
    <3>2. a \in DOMAIN L[z] /\ b \in DOMAIN L[w] /\ L[z][a] = L[w][b]
      BY <2>1, <3>1, <1>15
    <3>3. z = w /\ a = b
      BY <1>11, <2>1, <3>2
    <3> QED BY <3>1, <3>3
  <2>3. CASE z = y
    <3>1. i \in Nat /\ j \in Nat
      BY <2>2, <2>3, <1>6, <1>8
    <3> QED BY <2>2, <2>3, <3>1 DEF from
  <2>4. CASE z # y
    BY <2>2, <2>4 DEF from
  <2> QED BY <2>2, <2>3, <2>4
<1>16. StepsOK(A, B)
  <2>1. ListsOK(A, B)
    BY <1>13, <1>14, <1>15 DEF ListsOK
  <2> QED BY <1>5, <1>7, <1>9, <2>1 DEF StepsOK
<1>17. r.held => HeldIn(A) = HeldIn(S) \cup {h} /\ h \notin HeldIn(S)
  BY <1>2, <1>4, <1>5 DEF HeldIn
<1>18. ~r.held => HeldIn(A) = HeldIn(S)
  BY <1>2, <1>4, <1>5 DEF HeldIn
<1>19. IsBusy(r) => BusyIn(A) = BusyIn(S)
  BY <1>2, <1>4, <1>5 DEF BusyIn
<1> QED BY <1>2, <1>3, <1>4, <1>16, <1>17, <1>18, <1>19 DEF A, B, h

(* The Steps that a thread has yet to send are destroyed.                  *)
LEMMA ListDropped ==
  ASSUME NEW S, NEW L, StepsOK(S, L), NEW x \in DOMAIN L, NEW R,
         R = Range(L[x])
  PROVE  /\ StepsOK(Dropped(S, R), Put(L, x, << >>))
         /\ HeldIn(Dropped(S, R)) = HeldIn(S)
<1> DEFINE A == Dropped(S, R)
           B == Put(L, x, << >>)
<1>1. /\ DOMAIN A = DOMAIN S /\ A = [y \in DOMAIN A |-> A[y]]
      /\ \A y \in DOMAIN S : y \notin R => A[y] = S[y]
      /\ \A y \in DOMAIN S : y \in R => A[y] = [S[y] EXCEPT !.at = "gone"]
  BY DEF Dropped
<1>2. /\ DOMAIN B = DOMAIN L /\ B[x] = << >> /\ B = [y \in DOMAIN B |-> B[y]]
      /\ \A y \in DOMAIN L : y # x => B[y] = L[y]
  BY DEF Put
<1> HIDE DEF A, B
<1>3. \A y \in DOMAIN S : IsStep(S[y])
  BY DEF StepsOK
<1>4. ASSUME NEW y \in DOMAIN S PROVE IsStep(A[y]) /\ A[y].held = S[y].held
  <2>1. CASE y \notin R
    BY <2>1, <1>1, <1>3
  <2>2. CASE y \in R
    <3>1. A[y] = [S[y] EXCEPT !.at = "gone"] /\ DOMAIN S[y] = Fields
      BY <2>2, <1>1, <1>3 DEF IsStep
    <3>2. /\ DOMAIN A[y] = Fields /\ A[y].at = "gone"
          /\ A[y].held = S[y].held /\ A[y].final = S[y].final
      BY <3>1 DEF Fields
    <3>3. S[y].held \in BOOLEAN /\ S[y].final \in BOOLEAN
      BY <1>3 DEF IsStep
    <3> QED BY <3>2, <3>3 DEF IsStep, Places
  <2> QED BY <2>1, <2>2
<1>5. HeldIn(A) = HeldIn(S)
  BY <1>1, <1>4 DEF HeldIn
<1>6. ListsOK(S, L)
  BY DEF StepsOK
<1>7. \A y \in DOMAIN B : y = x \/ (y \in DOMAIN L /\ B[y] = L[y])
  BY <1>2
<1>8. ASSUME NEW y \in DOMAIN B, NEW i \in DOMAIN B[y]
      PROVE  /\ y \in DOMAIN L /\ y # x /\ B[y] = L[y] /\ L[y][i] \notin R
             /\ L[y][i] \in DOMAIN S /\ S[L[y][i]].at = "ready"
  <2>1. y # x /\ y \in DOMAIN L /\ B[y] = L[y]
    <3>1. DOMAIN << >> = {}
      OBVIOUS
    <3> QED BY <1>2, <3>1
  <2>2. L[y][i] \in DOMAIN S /\ S[L[y][i]].at = "ready"
    BY <2>1, <1>6 DEF ListsOK
  <2>3. L[y][i] \notin R
    BY <2>1, <1>6 DEF ListsOK, Range
  <2> QED BY <2>1, <2>2, <2>3
<1>9. \A y \in DOMAIN B : B[y] \in Seq(DOMAIN A)
  <2>1. << >> \in Seq(DOMAIN A)
    OBVIOUS
  <2> QED BY <2>1, <1>1, <1>2, <1>6 DEF ListsOK
<1>10. \A y \in DOMAIN B : \A i \in DOMAIN B[y] : A[B[y][i]].at = "ready"
  BY <1>8, <1>1
<1>11. \A y, z \in DOMAIN B : \A i \in DOMAIN B[y], j \in DOMAIN B[z] :
         B[y][i] = B[z][j] => y = z /\ i = j
  BY <1>8, <1>6 DEF ListsOK
<1>12. ListsOK(A, B)
  BY <1>9, <1>10, <1>11 DEF ListsOK
<1>13. StepsOK(A, B)
  BY <1>1, <1>2, <1>4, <1>12 DEF StepsOK
<1> QED BY <1>5, <1>13 DEF A, B

----------------------------------------------------------------------------
(* FinishEnsemble answers at most once, and gives the request back when    *)
(* nobody else holds it.                                                   *)
LEMMA FinishSound ==
  ASSUME SentOK, CounterOK, config' = config, IsFiniteSet(HeldIn(step)),
         HeldIn(step') = HeldIn(step),
         NEW st \in {"ok", "error"}, NEW n, NEW out \in BOOLEAN,
         st = "ok" /\ ~Decoupled => out,
         FinishEnsemble(st, n, out)
  PROVE  /\ SentOK' /\ CounterOK'
         /\ tracked /\ st = "ok" /\ ~tracked' => ~Decoupled \/ n = 0
<1> DEFINE K == {"output", "error", "final"}
           output == IF out THEN <<"output">> ELSE << >>
           last == CASE st = "error" -> <<"error">>
                     [] st = "ok" /\ Decoupled -> output \o <<"final">>
                     [] OTHER -> output
<1>d. Decoupled' = Decoupled
  BY DEF Decoupled, Ensemble
<1>t. sent \in Seq(K) /\ tracked \in BOOLEAN /\ released \in BOOLEAN
  BY DEF SentOK, CounterOK
<1>h. Cardinality(HeldIn(step)) \in Nat
  BY FS_CardinalityType
<1>1. CASE ~tracked
  <2>1. UNCHANGED <<sent, tracked, counter, released>>
    BY <1>1 DEF FinishEnsemble
  <2>2. SentOK'
    BY <2>1, <1>d DEF SentOK, Answered
  <2>3. CounterOK'
    BY <2>1 DEF CounterOK
  <2> QED BY <1>1, <2>2, <2>3
<1>2. CASE tracked
  <2>1. \A i \in 1..Len(sent) : sent[i] = "output" /\ Decoupled
    BY <1>2 DEF SentOK
  <2>2. ~released
    BY <1>2 DEF CounterOK
  <2>3. CASE st = "error" \/ ~Decoupled \/ n = 0
    <3>1. sent' = sent \o last /\ tracked' = FALSE /\ Decrement(counter)
      BY <1>2, <2>3 DEF FinishEnsemble
    <3>2. counter = 1 + Cardinality(HeldIn(step))
      BY <1>2 DEF CounterOK
    <3>3. counter' = Cardinality(HeldIn(step))
      BY <3>1, <3>2, <1>h DEF Decrement
    <3>4. released' => HeldIn(step) = {}
      <4>1. released' => counter = 1
        BY <3>1, <2>2 DEF Decrement
      <4>2. counter = 1 => Cardinality(HeldIn(step)) = 0
        BY <3>2, <1>h
      <4> QED BY <4>1, <4>2, FS_EmptySet
    <3>5. released' \in BOOLEAN
      BY <3>1 DEF Decrement
    <3>6. CounterOK'
      BY <3>1, <3>3, <3>4, <3>5, <1>h DEF CounterOK
    <3>7. /\ sent' \in Seq(K) /\ sent' # << >>
          /\ Decoupled => sent'[Len(sent')] \in Final
          /\ \A i \in 1..Len(sent') : i < Len(sent') => sent'[i] = "output" /\ Decoupled
      <4>1. CASE st = "error"
        <5>1. sent' = Append(sent, "error")
          BY <4>1, <3>1, <1>t
        <5>2. /\ Len(sent') = Len(sent) + 1 /\ Len(sent) \in Nat
              /\ sent'[Len(sent')] = "error" /\ sent' \in Seq(K)
              /\ \A i \in 1..Len(sent) : sent'[i] = sent[i]
          BY <5>1, <1>t
        <5> QED BY <5>2, <2>1 DEF Final
      <4>2. CASE st = "ok" /\ ~Decoupled
        <5>1. Len(sent) = 0
          BY <2>1, <4>2, <1>t
        <5>2. last = <<"output">>
          BY <4>2
        <5>3. sent' = <<"output">>
          BY <5>1, <5>2, <3>1, <1>t
        <5> QED BY <5>3, <4>2
      <4>3. CASE st = "ok" /\ Decoupled
        <5>1. PICK m : m = sent \o output
          OBVIOUS
        <5>2. m \in Seq(K) /\ \A i \in 1..Len(m) : m[i] = "output"
          <6>1. CASE out
            <7>1. m = Append(sent, "output")
              BY <5>1, <6>1, <1>t
            <7> QED BY <7>1, <2>1, <1>t
          <6>2. CASE ~out
            <7>1. m = sent
              BY <5>1, <6>2, <1>t
            <7> QED BY <7>1, <2>1, <1>t
          <6> QED BY <6>1, <6>2
        <5>3. last = output \o <<"final">>
          BY <4>3
        <5>4. sent' = Append(m, "final")
          <6>1. output \in Seq(K)
            <7>1. << >> \in Seq(K) /\ <<"output">> \in Seq(K)
              OBVIOUS
            <7> HIDE DEF K
            <7> QED BY <7>1
          <6>2. sent \o (output \o <<"final">>) = (sent \o output) \o <<"final">>
            <7> HIDE DEF output
            <7> QED BY <1>t, <6>1
          <6>3. sent' = m \o <<"final">>
            BY <3>1, <5>1, <5>3, <6>2
          <6> QED BY <6>3, <5>2
        <5>5. /\ Len(sent') = Len(m) + 1 /\ Len(m) \in Nat
              /\ sent'[Len(sent')] = "final" /\ sent' \in Seq(K)
              /\ \A i \in 1..Len(m) : sent'[i] = m[i]
          BY <5>2, <5>4
        <5> QED BY <5>2, <5>5, <4>3 DEF Final
      <4> QED BY <4>1, <4>2, <4>3
    <3>8. SentOK'
      BY <3>1, <3>7, <1>d DEF SentOK, Answered
    <3> QED BY <3>6, <3>8, <2>3
  <2>4. CASE ~(st = "error" \/ ~Decoupled \/ n = 0)
    <3>1. sent' = sent \o output /\ UNCHANGED <<tracked, counter, released>>
      BY <1>2, <2>4 DEF FinishEnsemble
    <3>2. sent' \in Seq(K) /\ \A i \in 1..Len(sent') : sent'[i] = "output"
      <4>1. CASE out
        <5>1. sent' = Append(sent, "output")
          BY <3>1, <4>1, <1>t
        <5> QED BY <5>1, <2>1, <1>t
      <4>2. CASE ~out
        <5>1. sent' = sent
          BY <3>1, <4>2, <1>t
        <5> QED BY <5>1, <2>1, <1>t
      <4> QED BY <4>1, <4>2
    <3>3. SentOK'
      BY <3>1, <3>2, <1>2, <1>d, <2>4 DEF SentOK
    <3>4. CounterOK'
      BY <3>1 DEF CounterOK
    <3> QED BY <3>1, <3>3, <3>4, <1>2
  <2> QED BY <2>3, <2>4
<1> QED BY <1>1, <1>2, <1>t

----------------------------------------------------------------------------
(* A step that sends nothing leaves what the client was sent.              *)
LEMMA SameSent ==
  ASSUME SentOK, config' = config, UNCHANGED <<sent, tracked>>
  PROVE  SentOK'
BY DEF SentOK, Answered, Decoupled, Ensemble

(* A step by which no model gets or gives back a request leaves the tracker. *)
LEMMA SameCounter ==
  ASSUME CounterOK, HeldIn(step') = HeldIn(step),
         UNCHANGED <<tracked, counter, released>>
  PROVE  CounterOK'
BY DEF CounterOK

(* A step that ends no Step and creates none leaves the Steps in flight.   *)
LEMMA SameInFlight ==
  ASSUME InFlightOK, BusyIn(step') = BusyIn(step),
         UNCHANGED <<status, inflight, tracked>>
  PROVE  InFlightOK'
BY DEF InFlightOK

(* Finitely many Steps are at work.                                        *)
LEMMA FinitelyHeld ==
  ASSUME NEW S, NEW L, StepsOK(S, L)
  PROVE  /\ IsFiniteSet(HeldIn(S)) /\ IsFiniteSet(BusyIn(S))
         /\ Cardinality(HeldIn(S)) \in Nat /\ Cardinality(BusyIn(S)) \in Nat
<1>1. HeldIn(S) \in SUBSET DOMAIN S /\ BusyIn(S) \in SUBSET DOMAIN S
  BY DEF HeldIn, BusyIn
<1>2. IsFiniteSet(DOMAIN S)
  BY DEF StepsOK, NamesOK
<1> QED BY <1>1, <1>2, FS_Subset, FS_CardinalityType

(* The ensemble fails: the client is told, if it was not answered before.  *)
LEMMA FailsSound ==
  ASSUME EInv, NEW x, NEW n \in Int, NEW after, DOMAIN after = DOMAIN step,
         StepsOK(after, ready), HeldIn(after) = HeldIn(step),
         x \in DOMAIN step \cup {Caller}, x = Caller \/ Caller \in Threads,
         Fails(x, n, after)
  PROVE  EInv'
<1> USE DEF EInv
<1>1. /\ StepsOK(step', ready') /\ HeldIn(step') = HeldIn(after)
      /\ DOMAIN ready' = Threads \cup {x}
  BY SchedulesSound, {} \in SUBSET Steps DEF Fails
<1>2. config' = config /\ HeldIn(step') = HeldIn(step)
  BY <1>1 DEF Fails
<1>3. SentOK' /\ CounterOK'
  <2>1. IsFiniteSet(HeldIn(step))
    BY FinitelyHeld
  <2>2. FinishEnsemble("error", n, FALSE)
    BY DEF Fails
  <2> QED BY <1>2, <2>1, <2>2, FinishSound
<1>4. InFlightOK'
  BY DEF Fails, InFlightOK
<1>5. DOMAIN step \subseteq DOMAIN step'
  BY DEF Fails, Schedules
<1>6. ThreadsOK'
  BY <1>1, <1>5 DEF ThreadsOK, Threads
<1> QED BY <1>1, <1>2, <1>3, <1>4, <1>6

(* PrepareSteps of an ensemble that has not failed.                        *)
LEMMA AdvancesSound ==
  ASSUME EInv, NEW x, NEW upd, NEW n, NEW after, DOMAIN after = DOMAIN step,
         StepsOK(after, ready), HeldIn(after) = HeldIn(step),
         x \in DOMAIN step \cup {Caller}, x = Caller \/ Caller \in Threads,
         tracked, status = "ok", n = Cardinality(BusyIn(after)),
         Advances(x, upd, n, after)
  PROVE  EInv'
<1> USE DEF EInv
<1> DEFINE I == {p[1] : p \in NextSteps(upd)}
           total == n + Cardinality(I)
           checks == total = 0 \/ Decoupled
           reply == checks /\ OutputReady(upd)
           stuck == checks /\ ~reply /\ ~Decoupled
<1>1. I \in SUBSET Steps
  BY DEF NextSteps
<1>2. n \in Nat /\ IsFiniteSet(HeldIn(step))
  BY FinitelyHeld
<1>3. IsFiniteSet(I) /\ Cardinality(I) \in Nat
  <2>1. PICK m \in Nat : Steps = 1..m
    BY EnsembleAssumption DEF Steps, Ensemble
  <2>2. IsFiniteSet(Steps)
    BY <2>1, FS_Interval, 1 \in Int, m \in Int
  <2> QED BY <1>1, <2>2, FS_Subset, FS_CardinalityType
<1>4. CASE Fails(x, n, after)
  BY <1>2, <1>4, FailsSound
<1>5. CASE /\ status' = "error" /\ inflight' = total
           /\ FinishEnsemble("error", total, FALSE)
           /\ Schedules(x, {}, after) /\ config' = config
  <2> HIDE DEF total
  <2>1. /\ StepsOK(step', ready') /\ HeldIn(step') = HeldIn(step)
        /\ DOMAIN ready' = Threads \cup {x}
    BY <1>5, SchedulesSound, {} \in SUBSET Steps
  <2>2. SentOK' /\ CounterOK'
    BY <1>2, <1>5, <2>1, FinishSound
  <2>3. total \in Int
    BY <1>2, <1>3 DEF total
  <2>4. InFlightOK'
    BY <1>5, <2>3 DEF InFlightOK
  <2>5. DOMAIN step \subseteq DOMAIN step'
    BY <1>5 DEF Schedules
  <2>6. ThreadsOK'
    BY <2>1, <2>5 DEF ThreadsOK, Threads
  <2> QED BY <1>5, <2>1, <2>2, <2>4, <2>6
<1>6. CASE /\ ~stuck /\ inflight' = total
           /\ IF checks THEN FinishEnsemble("ok", total, reply)
              ELSE UNCHANGED <<sent, tracked, counter, released>>
           /\ Schedules(x, I, after)
           /\ UNCHANGED <<config, status>>
  <2>1. Cardinality(I) \in Nat /\ total \in Nat
    BY <1>2, <1>3
  <2> HIDE DEF I
  <2>2. /\ StepsOK(step', ready') /\ HeldIn(step') = HeldIn(step)
        /\ DOMAIN ready' = Threads \cup {x}
        /\ Cardinality(BusyIn(step')) = total
    BY <1>1, <1>6, SchedulesSound
  <2>3. SentOK' /\ CounterOK' /\ (~tracked' => total = 0)
    <3>1. CASE checks
      <4>1. reply \in BOOLEAN /\ (~Decoupled => reply) /\ (~Decoupled => total = 0)
        BY <1>6, <3>1 DEF OutputReady
      <4>2. FinishEnsemble("ok", total, reply) /\ config' = config
        BY <1>6, <3>1
      <4> HIDE DEF reply, total, checks
      <4>3. /\ SentOK' /\ CounterOK'
            /\ tracked /\ "ok" = "ok" /\ ~tracked' => ~Decoupled \/ total = 0
        BY <1>2, <2>2, <4>1, <4>2, FinishSound
      <4> QED BY <4>1, <4>3
    <3>2. CASE ~checks
      <4>1. UNCHANGED <<sent, tracked, counter, released>> /\ config' = config
        BY <1>6, <3>2
      <4> QED BY <2>2, <4>1, SameSent, SameCounter
    <3> QED BY <3>1, <3>2
  <2> HIDE DEF total
  <2>4. InFlightOK'
    BY <1>6, <2>1, <2>2, <2>3 DEF InFlightOK
  <2>5. DOMAIN step \subseteq DOMAIN step'
    BY <1>6 DEF Schedules
  <2>6. ThreadsOK'
    BY <2>2, <2>5 DEF ThreadsOK, Threads
  <2> QED BY <1>6, <2>2, <2>3, <2>4, <2>6
<1> HIDE DEF EInv
<1>7. QED BY <1>4, <1>5, <1>6 DEF Advances

----------------------------------------------------------------------------
(* Enqueue: the context is new.                                            *)
LEMMA EnqueueSound == EInv /\ Enqueue => EInv'
<1> SUFFICES ASSUME EInv, Enqueue PROVE EInv'
  OBVIOUS
<1>1. StepsOK(step, ready) /\ tracked /\ DOMAIN step = {}
  BY DEF EInv, Enqueue, ThreadsOK
<1>2. Caller \in DOMAIN step \cup {Caller}
  OBVIOUS
<1>3. CASE status = "error"
  <2>1. Fails(Caller, 0, step)
    BY <1>3 DEF Enqueue
  <2> QED BY <1>1, <1>2, <2>1, FailsSound, 0 \in Int
<1>4. CASE status # "error"
  <2>1. status = "ok"
    BY <1>4 DEF EInv, InFlightOK
  <2>2. PICK upd : Advances(Caller, upd, 0, step)
    BY <1>4 DEF Enqueue
  <2>3. BusyIn(step) = {}
    BY <1>1 DEF BusyIn
  <2>4. 0 = Cardinality(BusyIn(step))
    BY <2>3, FS_EmptySet
  <2> QED BY <1>1, <1>2, <2>1, <2>2, <2>4, AdvancesSound
<1> QED BY <1>3, <1>4

(* PrepareSteps on the thread of Step x.                                   *)
LEMMA PrepareStepsSound ==
  ASSUME EInv, NEW x \in DOMAIN step, PrepareSteps(x)
  PROVE  EInv'
<1> DEFINE s == step[x]
           r == [[s EXCEPT !.at = "scheduling"] EXCEPT !.updated = {}]
           after == [step EXCEPT ![x].at = "scheduling", ![x].updated = {}]
           n == StillInFlight(s)
<1>1. IsStep(s) /\ s.at = "proceed" /\ StepsOK(step, ready)
  BY DEF EInv, StepsOK, PrepareSteps
<1>2. /\ DOMAIN r = Fields /\ r.at = "scheduling"
      /\ r.final = s.final /\ r.held = s.held
  BY <1>1 DEF IsStep, Fields
<1>3. after = Put(step, x, r)
  BY DEF Put
<1>4. /\ s.at = "proceed"
      /\ IF status = "error"
         THEN /\ Schedules(x, {}, after)
              /\ UNCHANGED <<config, ctx, sent, released>>
         ELSE IF s.failed THEN Fails(x, n, after)
         ELSE Advances(x, s.updated, n, after)
  BY DEF PrepareSteps
<1> HIDE DEF r, after
<1>5. IsStep(r) /\ s.final \in BOOLEAN
  BY <1>1, <1>2 DEF IsStep, Places
<1>6. IsBusy(s) /\ (IsBusy(r) <=> ~s.final)
  BY <1>1, <1>2, <1>5 DEF IsBusy
<1>7. /\ StepsOK(after, ready) /\ DOMAIN after = DOMAIN step
      /\ HeldIn(after) = HeldIn(step)
      /\ BusyIn(after) = IF s.final THEN BusyIn(step) \ {x} ELSE BusyIn(step)
  BY <1>1, <1>2, <1>3, <1>5, <1>6, StepChanged
<1>8. Caller \in Threads /\ x \in DOMAIN step \cup {Caller}
  BY DEF EInv, ThreadsOK
<1>9. x \in BusyIn(step)
  BY <1>6 DEF BusyIn
<1>10. IsFiniteSet(BusyIn(step)) /\ Cardinality(BusyIn(step)) \in Nat
  BY <1>1, FinitelyHeld
<1>11. inflight \in Int /\ n \in Int
  BY DEF EInv, InFlightOK, StillInFlight
<1>12. CASE status = "error"
  <2>1. Schedules(x, {}, after) /\ UNCHANGED <<config, ctx, sent, released>>
    BY <1>4, <1>12
  <2>2. /\ StepsOK(step', ready') /\ HeldIn(step') = HeldIn(step)
        /\ DOMAIN ready' = Threads \cup {x}
    BY <1>7, <2>1, SchedulesSound, {} \in SUBSET Steps DEF EInv
  <2>3. SentOK'
    BY <2>1, SameSent DEF EInv, ctx
  <2>4. CounterOK'
    BY <2>1, <2>2, SameCounter DEF EInv, ctx
  <2>5. InFlightOK'
    BY <2>1, <1>12 DEF EInv, ctx, InFlightOK
  <2>6. DOMAIN step \subseteq DOMAIN step'
    BY <2>1, <1>7 DEF Schedules
  <2>7. ThreadsOK'
    BY <1>8, <2>2, <2>6 DEF EInv, ThreadsOK, Threads
  <2> QED BY <2>1, <2>2, <2>3, <2>4, <2>5, <2>7 DEF EInv
<1>13. CASE status # "error" /\ s.failed
  BY <1>4, <1>7, <1>8, <1>11, <1>13, FailsSound
<1>14. CASE status # "error" /\ ~s.failed
  <2>1. status = "ok" /\ inflight = Cardinality(BusyIn(step))
    BY <1>14 DEF EInv, InFlightOK
  <2>2. Cardinality(BusyIn(step)) # 0
    BY <1>9, <1>10, FS_EmptySet
  <2>3. tracked
    BY <2>1, <2>2 DEF EInv, InFlightOK
  <2>4. n = Cardinality(BusyIn(after))
    <3>1. CASE s.final
      BY <3>1, <1>7, <1>9, <1>10, <2>1, FS_RemoveElement DEF StillInFlight
    <3>2. CASE ~s.final
      BY <3>2, <1>7, <2>1 DEF StillInFlight
    <3> QED BY <3>1, <3>2
  <2>5. Advances(x, s.updated, n, after)
    BY <1>4, <1>14
  <2> HIDE DEF n, s
  <2> QED BY <1>7, <1>8, <2>1, <2>3, <2>4, <2>5, AdvancesSound
<1> QED BY <1>12, <1>13, <1>14

(* ScheduleSteps sends a Step: the request cannot have been given back.    *)
LEMMA SendStepSound ==
  ASSUME EInv, NEW x \in Threads, SendStep(x)
  PROVE  EInv'
<1> DEFINE h == Head(ready[x])
           s == step[h]
           r == [[s EXCEPT !.at = "running"] EXCEPT !.held = TRUE]
<1>1. StepsOK(step, ready) /\ ready[x] # << >> /\ x \in DOMAIN ready
  BY DEF EInv, SendStep, Threads
<1>2. h \in DOMAIN step /\ s.at = "ready" /\ ~s.final /\ ready[x] \in Seq(DOMAIN step)
  BY <1>1 DEF StepsOK, ListsOK, IsStep
<1>3. IsStep(s)
  BY <1>1, <1>2 DEF StepsOK
<1>4. DOMAIN r = Fields /\ r.at = "running" /\ r.final = s.final /\ r.held = TRUE
  BY <1>3 DEF IsStep, Fields
<1>5. step' = Put(step, h, r) /\ ready' = Put(ready, x, Tail(ready[x]))
  BY DEF SendStep, Pop, Put
<1> HIDE DEF r
<1>6. IsStep(r) /\ IsBusy(r)
  BY <1>3, <1>4, <1>2 DEF IsStep, IsBusy, Places
<1>7. /\ StepsOK(step', ready') /\ h \notin HeldIn(step)
      /\ HeldIn(step') = HeldIn(step) \cup {h} /\ BusyIn(step') = BusyIn(step)
  BY <1>1, <1>4, <1>5, <1>6, HeadTaken
<1>8. UNCHANGED <<config, status, inflight, tracked, sent, released>>
      /\ counter' = counter + 1 /\ status = "ok"
  BY DEF SendStep
<1>9. IsFiniteSet(BusyIn(step)) /\ IsFiniteSet(HeldIn(step))
      /\ Cardinality(HeldIn(step)) \in Nat
  BY <1>1, FinitelyHeld
<1>10. h \in BusyIn(step)
  BY <1>2 DEF BusyIn, IsBusy
<1>11. tracked
  <2>1. Cardinality(BusyIn(step)) # 0
    BY <1>9, <1>10, FS_EmptySet
  <2> QED BY <2>1, <1>8 DEF EInv, InFlightOK
<1>12. SentOK'
  BY <1>8, SameSent DEF EInv
<1>13. CounterOK'
  <2>1. Cardinality(HeldIn(step')) = Cardinality(HeldIn(step)) + 1
    BY <1>7, <1>9, FS_AddElement
  <2> QED BY <2>1, <1>8, <1>9, <1>11 DEF EInv, CounterOK
<1>14. InFlightOK'
  BY <1>7, <1>8, SameInFlight DEF EInv
<1>15. DOMAIN step' = DOMAIN step /\ DOMAIN ready' = DOMAIN ready
  BY <1>5 DEF Put
<1>16. ThreadsOK'
  BY <1>2, <1>8, <1>15 DEF EInv, ThreadsOK, Threads
<1> QED BY <1>7, <1>8, <1>12, <1>13, <1>14, <1>16 DEF EInv

(* InferAsync refuses a Step.                                              *)
LEMMA RefuseStepSound ==
  ASSUME EInv, NEW x \in Threads, RefuseStep(x)
  PROVE  EInv'
<1>1. StepsOK(step, ready) /\ ready[x] # << >> /\ x \in DOMAIN ready
  BY DEF EInv, RefuseStep, Threads
<1>2. PICK R : R = Range(ready[x])
  OBVIOUS
<1>3. step' = Dropped(step, R) /\ ready' = Put(ready, x, << >>)
  BY <1>2 DEF RefuseStep, Dropped, Put
<1>4. StepsOK(step', ready') /\ HeldIn(step') = HeldIn(step)
  BY <1>1, <1>2, <1>3, ListDropped
<1>5. /\ UNCHANGED <<config, inflight>> /\ status' = "error"
      /\ FinishEnsemble("error", inflight, FALSE)
  BY DEF RefuseStep
<1>6. IsFiniteSet(HeldIn(step))
  BY <1>1, FinitelyHeld
<1>7. SentOK' /\ CounterOK'
  BY <1>4, <1>5, <1>6, FinishSound DEF EInv
<1>8. InFlightOK'
  BY <1>5 DEF EInv, InFlightOK
<1>9. DOMAIN step' = DOMAIN step /\ DOMAIN ready' = DOMAIN ready
  BY <1>3 DEF Put, Dropped
<1>10. DOMAIN step # {}
  <2>1. ready[x] \in Seq(DOMAIN step)
    BY <1>1 DEF StepsOK, ListsOK
  <2> QED BY <2>1, <1>1
<1>11. ThreadsOK'
  BY <1>9, <1>10 DEF EInv, ThreadsOK, Threads
<1> QED BY <1>4, <1>5, <1>7, <1>8, <1>11 DEF EInv

(* The ensemble has failed: a Step is given up.                            *)
LEMMA AbandonStepSound ==
  ASSUME EInv, NEW x \in Threads, AbandonStep(x)
  PROVE  EInv'
<1> DEFINE h == Head(ready[x])
           s == step[h]
           r == [s EXCEPT !.at = "abandoned"]
<1>1. StepsOK(step, ready) /\ ready[x] # << >> /\ x \in DOMAIN ready
  BY DEF EInv, AbandonStep, Threads
<1>2. h \in DOMAIN step /\ s.at = "ready" /\ ready[x] \in Seq(DOMAIN step)
  BY <1>1 DEF StepsOK, ListsOK
<1>3. IsStep(s) /\ ~s.held
  BY <1>1, <1>2 DEF StepsOK, IsStep
<1>4. DOMAIN r = Fields /\ r.at = "abandoned" /\ r.final = s.final /\ r.held = s.held
  BY <1>3 DEF IsStep, Fields
<1>5. step' = Put(step, h, r) /\ ready' = Put(ready, x, Tail(ready[x]))
  BY DEF AbandonStep, Pop, Put
<1> HIDE DEF r
<1>6. IsStep(r) /\ ~r.held
  BY <1>3, <1>4 DEF IsStep, Places
<1>7. StepsOK(step', ready') /\ HeldIn(step') = HeldIn(step)
  BY <1>1, <1>5, <1>6, HeadTaken
<1>8. UNCHANGED <<config, ctx, sent, released>> /\ status = "error"
  BY DEF AbandonStep
<1>9. SentOK'
  BY <1>8, SameSent DEF EInv, ctx
<1>10. CounterOK'
  BY <1>7, <1>8, SameCounter DEF EInv, ctx
<1>11. InFlightOK'
  BY <1>8 DEF EInv, InFlightOK, ctx
<1>12. DOMAIN step' = DOMAIN step /\ DOMAIN ready' = DOMAIN ready
  BY <1>5 DEF Put
<1>13. ThreadsOK'
  BY <1>2, <1>12 DEF EInv, ThreadsOK, Threads
<1> QED BY <1>7, <1>8, <1>9, <1>10, <1>11, <1>13 DEF EInv

(* A Step changes, and nothing but the tensors with it.                    *)
LEMMA StepMoves ==
  ASSUME EInv, NEW x \in DOMAIN step, NEW r, IsStep(r), step[x].at # "ready",
         r.held = step[x].held, IsBusy(r) <=> IsBusy(step[x]),
         step' = Put(step, x, r),
         UNCHANGED <<config, status, inflight, tracked, counter, ready, sent,
                     released>>
  PROVE  EInv'
<1>1. StepsOK(step, ready)
  BY DEF EInv
<1>2. /\ StepsOK(step', ready) /\ DOMAIN step' = DOMAIN step
      /\ HeldIn(step') = HeldIn(step)
  BY <1>1, StepChanged
<1>3. BusyIn(step') = BusyIn(step)
  <2>1. CASE IsBusy(r)
    BY <1>1, <2>1, StepChanged
  <2>2. CASE ~IsBusy(r)
    <3>1. BusyIn(step') = BusyIn(step) \ {x}
      BY <1>1, <2>2, StepChanged
    <3> QED BY <2>2, <3>1 DEF BusyIn
  <2> QED BY <2>1, <2>2
<1>4. SentOK' /\ CounterOK' /\ InFlightOK'
  BY <1>2, <1>3, SameSent, SameCounter, SameInFlight DEF EInv
<1>5. ThreadsOK'
  BY <1>2 DEF EInv, ThreadsOK, Threads
<1> QED BY <1>2, <1>4, <1>5 DEF EInv

(* The thread of Step x leaves the context.                                *)
LEMMA LeaveSound ==
  ASSUME EInv, NEW x \in Threads, Leave(x)
  PROVE  EInv'
<1> DEFINE s == step[x]
           r == [s EXCEPT !.at = IF s.final THEN "gone" ELSE "running"]
<1>1. x \in DOMAIN step
  BY DEF EInv, ThreadsOK, Leave
<1>2. IsStep(s) /\ s.at = "scheduling"
  BY <1>1 DEF EInv, StepsOK, Leave
<1>3. /\ DOMAIN r = Fields /\ r.final = s.final /\ r.held = s.held
      /\ r.at = IF s.final THEN "gone" ELSE "running"
  BY <1>2 DEF IsStep, Fields
<1>4. step' = Put(step, x, r)
  BY DEF Leave, Put
<1> HIDE DEF r
<1>5. IsStep(r) /\ (IsBusy(r) <=> IsBusy(s))
  BY <1>2, <1>3 DEF IsStep, IsBusy, Places
<1>6. UNCHANGED <<config, status, inflight, tracked, counter, ready, sent, released>>
  BY DEF Leave, ctx
<1> QED BY <1>1, <1>2, <1>3, <1>4, <1>5, <1>6, StepMoves

(* A model sends a response with outputs.                                  *)
LEMMA ResponseCompleteSound ==
  ASSUME EInv, NEW x \in DOMAIN step, NEW final \in BOOLEAN,
         ResponseComplete(x, final)
  PROVE  EInv'
<1>1. IsStep(step[x]) /\ step[x].at = "running"
  BY DEF EInv, StepsOK, ResponseComplete, Ends
<1>2. PICK c, u :
        step' = [step EXCEPT ![x].at = "proceed", ![x].final = final,
                             ![x].responses = c, ![x].updated = u]
  <2>1. PICK u : u = {<<t, next[t]>> : t \in Out(x[1])}
    OBVIOUS
  <2>2. step' = [step EXCEPT ![x].at = "proceed", ![x].final = final,
                             ![x].responses = step[x].responses + 1, ![x].updated = u]
    BY <2>1, <1>1 DEF ResponseComplete, IsStep, Fields, EInv, StepsOK
  <2> QED BY <2>2
<1> DEFINE s == step[x]
           r == [[[[s EXCEPT !.at = "proceed"] EXCEPT !.final = final]
                  EXCEPT !.responses = c] EXCEPT !.updated = u]
<1>3. /\ DOMAIN r = Fields /\ r.at = "proceed" /\ r.final = final
      /\ r.held = s.held
  BY <1>1 DEF IsStep, Fields
<1>4. step' = Put(step, x, r)
  BY <1>2 DEF Put
<1> HIDE DEF r
<1>5. IsStep(r) /\ IsBusy(r) /\ IsBusy(s)
  BY <1>1, <1>3 DEF IsStep, IsBusy, Places
<1>6. UNCHANGED <<config, status, inflight, tracked, counter, ready, sent, released>>
  BY DEF ResponseComplete
<1> QED BY <1>1, <1>3, <1>4, <1>5, <1>6, StepMoves

(* A model sends an error, or a final flag and nothing else.               *)
LEMMA EmptyResponseSound ==
  ASSUME EInv, NEW x \in DOMAIN step, NEW failed \in BOOLEAN,
         EmptyResponse(x, failed)
  PROVE  EInv'
<1> DEFINE s == step[x]
           r == [[[s EXCEPT !.at = "proceed"] EXCEPT !.final = TRUE]
                 EXCEPT !.failed = failed]
<1>1. IsStep(s) /\ s.at = "running"
  BY DEF EInv, StepsOK, EmptyResponse, Ends
<1>2. /\ DOMAIN r = Fields /\ r.at = "proceed" /\ r.final = TRUE
      /\ r.held = s.held
  BY <1>1 DEF IsStep, Fields
<1>3. step' = Put(step, x, r)
  BY DEF Put, EmptyResponse
<1> HIDE DEF r
<1>4. IsStep(r) /\ IsBusy(r) /\ IsBusy(s)
  BY <1>1, <1>2 DEF IsStep, IsBusy, Places
<1>5. UNCHANGED <<config, status, inflight, tracked, counter, ready, sent, released>>
  BY DEF EmptyResponse, ctx
<1> QED BY <1>1, <1>2, <1>3, <1>4, <1>5, StepMoves

(* A model gives the internal request back.                                *)
LEMMA RequestCompleteSound ==
  ASSUME EInv, NEW x \in DOMAIN step, RequestComplete(x)
  PROVE  EInv'
<1> DEFINE s == step[x]
           r == [s EXCEPT !.held = FALSE]
<1>1. IsStep(s) /\ s.held /\ StepsOK(step, ready)
  BY DEF EInv, StepsOK, RequestComplete
<1>2. DOMAIN r = Fields /\ r.at = s.at /\ r.final = s.final /\ r.held = FALSE
  BY <1>1 DEF IsStep, Fields
<1>3. step' = Put(step, x, r)
  BY DEF Put, RequestComplete
<1> HIDE DEF r
<1>4. IsStep(r) /\ (IsBusy(r) <=> IsBusy(s)) /\ s.at # "ready"
  BY <1>1, <1>2 DEF IsStep, IsBusy
<1>5. /\ StepsOK(step', ready) /\ DOMAIN step' = DOMAIN step
      /\ HeldIn(step') = HeldIn(step) \ {x}
  BY <1>1, <1>2, <1>3, <1>4, StepChanged
<1>6. BusyIn(step') = BusyIn(step)
  <2>1. CASE IsBusy(r)
    BY <1>1, <1>3, <1>4, <2>1, StepChanged
  <2>2. CASE ~IsBusy(r)
    <3>1. BusyIn(step') = BusyIn(step) \ {x}
      BY <1>1, <1>3, <1>4, <2>2, StepChanged
    <3> QED BY <1>4, <2>2, <3>1 DEF BusyIn
  <2> QED BY <2>1, <2>2
<1>7. UNCHANGED <<config, status, inflight, tracked, ready, sent>> /\ Decrement(counter)
  BY DEF RequestComplete
<1>8. SentOK' /\ InFlightOK'
  BY <1>6, <1>7, SameSent, SameInFlight DEF EInv
<1>9. ThreadsOK'
  BY <1>5, <1>7 DEF EInv, ThreadsOK, Threads
<1>10. IsFiniteSet(HeldIn(step)) /\ Cardinality(HeldIn(step)) \in Nat /\ x \in HeldIn(step)
  BY <1>1, FinitelyHeld DEF HeldIn
<1>11. /\ IsFiniteSet(HeldIn(step'))
       /\ Cardinality(HeldIn(step')) = Cardinality(HeldIn(step)) - 1
       /\ Cardinality(HeldIn(step')) \in Nat
  BY <1>5, <1>10, FS_RemoveElement, FS_CardinalityType
<1>12. CounterOK'
  <2>1. /\ counter = (IF tracked THEN 1 ELSE 0) + Cardinality(HeldIn(step))
        /\ released \in BOOLEAN /\ ~released /\ tracked \in BOOLEAN
    BY <1>10 DEF EInv, CounterOK, SentOK
  <2>2. /\ counter' = (IF tracked' THEN 1 ELSE 0) + Cardinality(HeldIn(step'))
        /\ released' \in BOOLEAN /\ (released' <=> counter = 1)
    <3>1. counter' = counter - 1 /\ tracked' = tracked
      BY <1>7 DEF Decrement
    <3>2. released' = (released \/ counter = 1)
      BY <1>7 DEF Decrement
    <3>3. released' \in BOOLEAN /\ (released' <=> counter = 1)
      BY <2>1, <3>2, Zenon
    <3>4. CASE tracked
      BY <2>1, <3>1, <3>3, <3>4, <1>10, <1>11
    <3>5. CASE ~tracked
      BY <2>1, <3>1, <3>3, <3>5, <1>10, <1>11
    <3> QED BY <3>4, <3>5
  <2>3. released' => ~tracked' /\ Cardinality(HeldIn(step')) = 0
    BY <2>1, <2>2, <1>7, <1>10, <1>11
  <2>4. released' => ~tracked' /\ HeldIn(step') = {}
    BY <2>3, <1>11, FS_EmptySet
  <2> QED BY <2>2, <2>4 DEF CounterOK
<1> QED BY <1>5, <1>7, <1>8, <1>9, <1>12 DEF EInv

----------------------------------------------------------------------------
(* The invariant holds when the request arrives.                           *)
LEMMA InvInit == Init => EInv
<1> SUFFICES ASSUME Init PROVE EInv
  OBVIOUS
<1>1. DOMAIN step = {} /\ DOMAIN ready = {} /\ step = [x \in DOMAIN step |-> step[x]]
      /\ ready = [x \in DOMAIN ready |-> ready[x]]
  BY DEF Init
<1>2. NamesOK(DOMAIN step)
  BY <1>1, FS_EmptySet DEF NamesOK
<1>3. StepsOK(step, ready)
  BY <1>1, <1>2 DEF StepsOK, ListsOK
<1>4. HeldIn(step) = {} /\ BusyIn(step) = {}
  BY <1>1 DEF HeldIn, BusyIn
<1>5. Cardinality(HeldIn(step)) = 0 /\ Cardinality(BusyIn(step)) = 0
  BY <1>4, FS_EmptySet
<1>6. SentOK
  BY DEF Init, SentOK
<1>7. CounterOK
  <2>1. tracked = TRUE /\ counter = 1 /\ released = FALSE
    BY DEF Init
  <2>2. counter = (IF tracked THEN 1 ELSE 0) + Cardinality(HeldIn(step))
    BY <1>5, <2>1
  <2> QED BY <2>1, <2>2 DEF CounterOK
<1>8. InFlightOK
  BY <1>5 DEF Init, InFlightOK
<1>9. ThreadsOK
  BY <1>1 DEF Init, ThreadsOK, Threads
<1> QED BY <1>3, <1>6, <1>7, <1>8, <1>9 DEF Init, EInv

(* Every step of every thread preserves it.                                *)
LEMMA InvNext == EInv /\ [Next]_vars => EInv'
<1> SUFFICES ASSUME EInv, [Next]_vars PROVE EInv'
  OBVIOUS
<1>1. CASE Enqueue
  BY <1>1, EnqueueSound
<1>2. ASSUME NEW x \in Threads, Thread(x) PROVE EInv'
  BY <1>2, SendStepSound, RefuseStepSound, AbandonStepSound, LeaveSound DEF Thread
<1>3. ASSUME NEW x \in DOMAIN step, PrepareSteps(x) PROVE EInv'
  BY <1>3, PrepareStepsSound
<1>4. ASSUME NEW x \in DOMAIN step, Model(x) PROVE EInv'
  BY <1>4, ResponseCompleteSound, EmptyResponseSound DEF Model
<1>5. ASSUME NEW x \in DOMAIN step, RequestComplete(x) PROVE EInv'
  BY <1>5, RequestCompleteSound
<1>6. CASE UNCHANGED vars
  <2>1. UNCHANGED <<config, status, inflight, tracked, counter, step, ready, sent,
                    released>>
    BY <1>6 DEF vars, ctx
  <2>2. SentOK' /\ CounterOK' /\ InFlightOK'
    BY <2>1, SameSent, SameCounter, SameInFlight DEF EInv
  <2>3. ThreadsOK' /\ StepsOK(step', ready')
    BY <2>1 DEF EInv, ThreadsOK, Threads
  <2> QED BY <2>1, <2>2, <2>3 DEF EInv
<1> QED BY <1>1, <1>2, <1>3, <1>4, <1>5, <1>6 DEF Next

(* The promises are parts of it.                                           *)
LEMMA InvImplies == EInv => AnsweredOnce /\ InFlightExact
<1> SUFFICES ASSUME EInv PROVE AnsweredOnce /\ InFlightExact
  OBVIOUS
<1>1. BusyIn(step) = {x \in DOMAIN step :
                        \/ step[x].at = "ready"
                        \/ Alive(x) /\ ~(step[x].final /\ step[x].at = "scheduling")}
  BY DEF BusyIn, IsBusy, Alive
<1>2. HeldIn(step) = {x \in DOMAIN step : step[x].held}
  BY DEF HeldIn
<1>3. SentOK /\ CounterOK /\ InFlightOK
  BY DEF EInv
<1>4. tracked => ~Answered
  BY <1>3 DEF SentOK, Answered, Final
<1>5. AnsweredOnce
  <2>1. \A i \in 1..Len(sent) : i < Len(sent) => sent[i] = "output" /\ Decoupled
    BY <1>3 DEF SentOK
  <2>2. released => Answered /\ \A x \in DOMAIN step : ~step[x].held
    BY <1>2, <1>3 DEF SentOK, CounterOK
  <2>3. (Answered \/ tracked) /\ (Answered => ~tracked)
    BY <1>3, <1>4 DEF SentOK
  <2>4. counter = (IF tracked THEN 1 ELSE 0)
                     + Cardinality({x \in DOMAIN step : step[x].held})
    BY <1>2, <1>3 DEF CounterOK
  <2> QED BY <2>1, <2>2, <2>3, <2>4 DEF AnsweredOnce
<1>6. InFlightExact
  BY <1>1, <1>3, <1>4 DEF InFlightOK, InFlightExact
<1> QED BY <1>5, <1>6

(* Whatever the ensemble, its models and what fails: FinishEnsemble, which *)
(* several threads reach on several paths, answers the client once, and    *)
(* the request is given back after that, when no model holds an internal   *)
(* request whose callback would use the tracker.                           *)
THEOREM EnsembleAnswersOnce == Spec => []AnsweredOnce
<1>1. Init => EInv
  BY InvInit
<1>2. EInv /\ [Next]_vars => EInv'
  BY InvNext
<1>3. EInv => AnsweredOnce
  BY InvImplies
<1> QED BY <1>1, <1>2, <1>3, PTL DEF Spec

(* inflight_step_counter_ is the number of Steps at work until the         *)
(* ensemble fails, and the client is answered with its outputs only when   *)
(* it is zero.                                                             *)
THEOREM InFlightCounts == Spec => []InFlightExact
<1>1. Init => EInv
  BY InvInit
<1>2. EInv /\ [Next]_vars => EInv'
  BY InvNext
<1>3. EInv => InFlightExact
  BY InvImplies
<1> QED BY <1>1, <1>2, <1>3, PTL DEF Spec
============================================================================
