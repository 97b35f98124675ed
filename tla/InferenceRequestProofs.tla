----------------------- MODULE InferenceRequestProofs -----------------------
(***************************************************************************)
(* The request objects of InferenceRequest, for every configuration, every *)
(* client and any number of calls, inferences and buffers.                 *)
(*                                                                         *)
(* QInv is the inductive invariant.  PreparedFresh speaks of a request in  *)
(* the core, but what it relies on was computed in an earlier inference if *)
(* the request is sent again unchanged: a request that needs no            *)
(* normalization is normalized as its inputs and outputs are now           *)
(* (PreparedInv).                                                          *)
(***************************************************************************)
EXTENDS RequestExecution, FiniteSetTheorems, NaturalsInduction, WellFoundedInduction, TLAPS


IsRequest(r) ==
  r = [original |-> r.original, outputs |-> r.outputs, requested |-> r.requested,
       needs |-> r.needs, batch |-> r.batch, inputs |-> r.inputs,
       overrides |-> r.overrides, priority |-> r.priority]
IsInput(x) ==
  x = [type |-> x.type, original |-> x.original, shape |-> x.shape, withBatch |-> x.withBatch,
       shapeTensor |-> x.shapeTensor, data |-> x.data, policyData |-> x.policyData]

\* The final shape of input name whose original shape is given.
FinalShape(c, name, original) ==
  LET io == ConfigOf(c.inputs, name)
      shape == Unbatched(c, name, original)
  IN  IF io.reshape = <<>> THEN shape ELSE Reshaped(io.dims, io.reshape[1], shape)

\* The input is normalized for the batch size.
IsNormal(c, name, x, b) ==
  LET final == FinalShape(c, name, x.original)
  IN  /\ x.shape = final /\ x.shapeTensor = IsShapeTensor(c, name)
      /\ x.withBatch = IF b = 0 THEN final ELSE <<b>> \o final

(* What Normalize makes of an input is normalized.                         *)
LEMMA NormalizedFields ==
  ASSUME NEW c, NEW name, NEW x, NEW b, IsInput(x)
  PROVE  LET y == Normalized(c, name, x, b)
         IN  /\ IsInput(y) /\ y.type = x.type /\ y.original = x.original
             /\ y.data = x.data /\ y.policyData = x.policyData
             /\ IsNormal(c, name, y, b)
<1> DEFINE y == Normalized(c, name, x, b)
           f == FinalShape(c, name, x.original)
           w == IF b = 0 THEN f ELSE <<b>> \o f
           t == IsShapeTensor(c, name)
<1>1. y = [x EXCEPT !.shape = f, !.shapeTensor = t, !.withBatch = w]
  BY DEF Normalized, FinalShape
<1> HIDE DEF y, f, w, t
<1>2. y = [type |-> x.type, original |-> x.original, shape |-> f, withBatch |-> w,
           shapeTensor |-> t, data |-> x.data, policyData |-> x.policyData]
  BY <1>1 DEF IsInput
<1>3. /\ IsInput(y) /\ y.type = x.type /\ y.original = x.original
      /\ y.data = x.data /\ y.policyData = x.policyData
      /\ y.shape = f /\ y.withBatch = w /\ y.shapeTensor = t
  BY <1>2 DEF IsInput
<1>4. IsNormal(c, name, y, b)
  BY <1>3 DEF IsNormal, f, w, t
<1> QED BY <1>3, <1>4 DEF y

(* An input that is normalized stays as it is.                             *)
LEMMA NormalizedStays ==
  ASSUME NEW c, NEW name, NEW x, NEW b, IsInput(x), IsNormal(c, name, x, b)
  PROVE  Normalized(c, name, x, b) = x
<1> DEFINE y == Normalized(c, name, x, b)
           f == FinalShape(c, name, x.original)
           w == IF b = 0 THEN f ELSE <<b>> \o f
           t == IsShapeTensor(c, name)
<1>1. y = [x EXCEPT !.shape = f, !.shapeTensor = t, !.withBatch = w]
  BY DEF Normalized, FinalShape
<1>2. x.shape = f /\ x.withBatch = w /\ x.shapeTensor = t
  BY DEF IsNormal
<1> HIDE DEF y, f, w, t
<1>3. y = x
  BY <1>1, <1>2 DEF IsInput
<1> QED BY <1>3 DEF y

\* Requests r and s have the same outputs and, up to their data, inputs.
SameInputs(r, s) ==
  /\ DOMAIN s.original = DOMAIN r.original /\ s.outputs = r.outputs
  /\ \A name \in DOMAIN r.original :
       /\ s.original[name].type = r.original[name].type
       /\ s.original[name].original = r.original[name].original

(* Normalize looks at nothing else.                                        *)
LEMMA NormalizeSame ==
  ASSUME NEW c, NEW r, NEW s, NEW order, SameInputs(r, s)
  PROVE  Normalize(c, s, order) = Normalize(c, r, order)
<1> DEFINE F(q) == \A name \in DOMAIN q.original : Fits(c, name, q.original[name])
           S(q) == [name \in DOMAIN q.original |-> q.original[name].original]
           K(q) == DOMAIN q.original = InputNames(c) /\ q.outputs \subseteq OutputNames(c)
           Z(q) == IF K(q) THEN BatchSize(c, S(q), order) ELSE Failed
           N(q) == [ok |-> Z(q).ok /\ ToInt(Z(q).batch) <= c.batch /\ F(q),
                    batch |-> Z(q).batch,
                    requested |-> IF q.outputs = {} THEN OutputNames(c) ELSE {}]
<1>1. Normalize(c, r, order) = N(r) /\ Normalize(c, s, order) = N(s)
  BY DEF Normalize
<1>2. S(s) = S(r)
  BY DEF SameInputs
<1>3. F(s) <=> F(r)
  BY DEF Fits, SameInputs
<1>4. K(s) <=> K(r)
  BY DEF SameInputs
<1>5. s.outputs = r.outputs
  BY DEF SameInputs
<1> HIDE DEF F, S, K
<1>6. Z(s) = Z(r)
  BY <1>2, <1>4
<1> HIDE DEF Z
<1>7. N(s) = N(r)
  BY <1>3, <1>5, <1>6
<1> QED BY <1>1, <1>7

----------------------------------------------------------------------------
(* The invariant.                                                          *)

\* What was computed of request r when it was normalized for a model with
\* configuration c is what its inputs and outputs say now.
NormalRequest(c, r) ==
  /\ \E order \in SetToSeqs(DOMAIN r.original) :
       /\ Normalize(c, r, order).ok
       /\ r.batch = Normalize(c, r, order).batch
       /\ r.requested = Normalize(c, r, order).requested
  /\ \A name \in DOMAIN r.original : IsNormal(c, name, r.original[name], r.batch)

\* The objects.
ObjectsInv ==
  /\ scenario \in Scenarios
  /\ model = [stage |-> model.stage, config |-> model.config]
  /\ model.stage \in {"polled", "loaded", "refused"} /\ owner \in {"caller", "core"}
  /\ model.stage = "loaded" => model.config = GetNormalizedModelConfig(File) /\ Accepted(File)
  /\ IsRequest(request) /\ request.needs \in BOOLEAN /\ IsFiniteSet(DOMAIN request.original)
  /\ \A name \in DOMAIN request.original : IsInput(request.original[name])

\* A request that needs no normalization is normalized; the core has no other.
PreparedInv ==
  /\ ~request.needs => NormalRequest(model.config, request)
  /\ model.stage # "loaded" => request.needs
  /\ owner = "core" => ~request.needs

\* inputs_ has the original inputs and this inference's overrides.
ShownInv ==
  owner = "core" =>
    /\ DOMAIN request.inputs = DOMAIN request.original \cup overridden
    /\ \A name \in DOMAIN request.inputs :
         request.inputs[name] = IF name \in overridden THEN "override" ELSE "original"

\* The buffers of the outputs are buffers of the allocator, each of one
\* output and none the null pointer; one that is held has not been released,
\* any other that is memory once.
IsAllocation(b) ==
  "null" \in DOMAIN b /\ "released" \in DOMAIN b /\ b = [x \in DOMAIN b |-> b[x]]

BuffersInv ==
  /\ response.phase \in {"none", "open", "sent"}
  /\ response = [phase |-> response.phase, outputs |-> response.outputs]
  /\ response.phase = "none" => response.outputs = <<>>
  /\ DOMAIN response.outputs = 1..Len(response.outputs) /\ Len(response.outputs) \in Nat
  /\ DOMAIN buffers = 1..Len(buffers) /\ Len(buffers) \in Nat
  /\ \A i \in 1..Len(response.outputs) : /\ "buffer" \in DOMAIN response.outputs[i]
                                            /\ response.outputs[i].buffer \in 0..Len(buffers)
  /\ \A b \in 1..Len(buffers) : IsAllocation(buffers[b])
  /\ \A b \in Held : ~buffers[b].null
  /\ BuffersReturned

QInv == ObjectsInv /\ PreparedInv /\ ShownInv /\ BuffersInv /\ PriorityIsLevel

(* Steps that leave the buffers and those who have them alone.             *)
LEMMA BuffersAlone ==
  ASSUME BuffersInv, UNCHANGED <<response, buffers>>
  PROVE  BuffersInv'
BY DEF BuffersInv, BuffersReturned, Held

(* It says what PreparedFresh says.                                        *)
LEMMA FreshFollows == ObjectsInv /\ PreparedInv /\ ShownInv => PreparedFresh
<1> SUFFICES ASSUME ObjectsInv, PreparedInv, ShownInv, owner = "core" PROVE PreparedFresh
  BY DEF PreparedFresh
<1>1. NormalRequest(model.config, request)
  BY DEF PreparedInv, ObjectsInv
<1>2. ASSUME NEW name \in DOMAIN request.original
      PROVE  request.original[name]
               = Normalized(model.config, name, request.original[name], request.batch)
  <2>1. IsInput(request.original[name])
    BY DEF ObjectsInv
  <2>2. IsNormal(model.config, name, request.original[name], request.batch)
    BY <1>1 DEF NormalRequest
  <2> QED BY <2>1, <2>2, NormalizedStays
<1>3. \E order \in SetToSeqs(DOMAIN request.original) :
        /\ Fresh(order).ok
        /\ request.batch = Fresh(order).batch
        /\ request.requested = Fresh(order).requested
  BY <1>1 DEF NormalRequest, Fresh
<1> QED BY <1>2, <1>3 DEF PreparedFresh, ShownInv

(* A request whose inputs differ only in their data is as normalized.      *)
LEMMA NormalSame ==
  ASSUME NEW c, NEW r, NEW s, NormalRequest(c, r), SameInputs(r, s),
         s.batch = r.batch, s.requested = r.requested,
         \A name \in DOMAIN r.original :
           /\ s.original[name].shape = r.original[name].shape
           /\ s.original[name].withBatch = r.original[name].withBatch
           /\ s.original[name].shapeTensor = r.original[name].shapeTensor
  PROVE  NormalRequest(c, s)
<1>1. PICK order \in SetToSeqs(DOMAIN r.original) :
        /\ Normalize(c, r, order).ok
        /\ r.batch = Normalize(c, r, order).batch
        /\ r.requested = Normalize(c, r, order).requested
  BY DEF NormalRequest
<1>2. Normalize(c, s, order) = Normalize(c, r, order) /\ order \in SetToSeqs(DOMAIN s.original)
  BY NormalizeSame DEF SameInputs
<1>3. ASSUME NEW name \in DOMAIN s.original
      PROVE  IsNormal(c, name, s.original[name], s.batch)
  <2>1. name \in DOMAIN r.original /\ s.original[name].original = r.original[name].original
    BY DEF SameInputs
  <2>2. IsNormal(c, name, r.original[name], r.batch)
    BY <2>1 DEF NormalRequest
  <2> QED BY <2>1, <2>2 DEF IsNormal
<1> QED BY <1>1, <1>2, <1>3 DEF NormalRequest

\* Request z is what InferAsync makes of r when it is normalized.
Prepares(c, r, order, z) ==
  /\ IsRequest(r) /\ \A name \in DOMAIN r.original : IsInput(r.original[name])
  /\ order \in SetToSeqs(DOMAIN r.original) /\ Normalize(c, r, order).ok
  /\ z = ShowOriginals(Renormalized(c, r, Normalize(c, r, order)))

(* A request that has just been normalized.                                *)
LEMMA NormalNow ==
  ASSUME NEW c, NEW r, NEW order, NEW z, Prepares(c, r, order, z)
  PROVE  /\ NormalRequest(c, z) /\ IsRequest(z) /\ ~z.needs /\ z.needs \in BOOLEAN
         /\ z.priority = r.priority /\ DOMAIN z.original = DOMAIN r.original
         /\ z.inputs = [name \in DOMAIN r.original |-> "original"]
         /\ \A name \in DOMAIN r.original : IsInput(z.original[name])
<1>0. PICK n : n = Normalize(c, r, order)
  OBVIOUS
<1>a. /\ IsRequest(r) /\ \A name \in DOMAIN r.original : IsInput(r.original[name])
      /\ order \in SetToSeqs(DOMAIN r.original) /\ n.ok
      /\ z = ShowOriginals(Renormalized(c, r, n))
  BY <1>0 DEF Prepares
<1> DEFINE o == [name \in DOMAIN r.original |-> Normalized(c, name, r.original[name], n.batch)]
           t == Renormalized(c, r, n)
           s == ShowOriginals(t)
           shown == [name \in DOMAIN o |-> "original"]
<1>1. t = [r EXCEPT !.needs = FALSE, !.batch = n.batch, !.requested = n.requested, !.original = o]
  BY DEF Renormalized
<1>2. DOMAIN o = DOMAIN r.original
  OBVIOUS
<1>3. ASSUME NEW name \in DOMAIN r.original
      PROVE  /\ IsInput(o[name]) /\ o[name].type = r.original[name].type
             /\ o[name].original = r.original[name].original
             /\ IsNormal(c, name, o[name], n.batch)
  <2>1. IsInput(r.original[name]) /\ o[name] = Normalized(c, name, r.original[name], n.batch)
    BY <1>a
  <2> HIDE DEF o
  <2> QED BY <2>1, NormalizedFields
<1> HIDE DEF o
<1>4. t = [original |-> o, outputs |-> r.outputs, requested |-> n.requested, needs |-> FALSE,
           batch |-> n.batch, inputs |-> r.inputs, overrides |-> r.overrides,
           priority |-> r.priority]
  BY <1>a, <1>1 DEF IsRequest
<1> HIDE DEF t
<1>5. s = [original |-> o, outputs |-> r.outputs, requested |-> n.requested, needs |-> FALSE,
           batch |-> n.batch, inputs |-> shown, overrides |-> NoFunction,
           priority |-> r.priority]
  <2>1. t.original = o
    BY <1>4
  <2>2. s = [t EXCEPT !.overrides = NoFunction, !.inputs = shown]
    BY <2>1 DEF ShowOriginals
  <2> HIDE DEF s, shown
  <2> QED BY <1>4, <2>2
<1> HIDE DEF s, shown
<1>6. /\ IsRequest(s) /\ s.needs = FALSE /\ s.original = o /\ s.outputs = r.outputs
      /\ s.requested = n.requested /\ s.batch = n.batch /\ s.inputs = shown
      /\ s.priority = r.priority
  BY <1>5 DEF IsRequest
<1>7. SameInputs(r, s)
  BY <1>2, <1>3, <1>6 DEF SameInputs
<1>8. Normalize(c, s, order) = n
  BY <1>0, <1>7, NormalizeSame
<1>9. NormalRequest(c, s)
  BY <1>a, <1>2, <1>3, <1>6, <1>8 DEF NormalRequest
<1>10. z = s
  BY <1>a DEF s, t
<1> QED BY <1>2, <1>3, <1>6, <1>9, <1>10 DEF shown

----------------------------------------------------------------------------
(* Priorities.                                                             *)

\* p is a level of the queue of a model with configuration c.
IsLevel(c, p) ==
  IF MaxPriorityLevel(c) = 0 THEN c.dynamic = <<>> => p = 0
  ELSE p \in 1..MaxPriorityLevel(c)

(* Normalization keeps the levels of the dynamic batcher.                  *)
LEMMA NormalizedLevels ==
  ASSUME NEW c, "dynamic" \in DOMAIN c,
         c.dynamic = <<>> \/ DOMAIN c.dynamic = {1},
         \A i \in DOMAIN c.dynamic : {"levels", "default"} \subseteq DOMAIN c.dynamic[i]
  PROVE  LET n == GetNormalizedModelConfig(c).dynamic
         IN  /\ n = <<>> <=> c.dynamic = <<>>
             /\ DOMAIN n = DOMAIN c.dynamic
             /\ \A i \in DOMAIN n : /\ n[i].levels = c.dynamic[i].levels
                                    /\ n[i].default = c.dynamic[i].default
<1> DEFINE x == FillPlatform(FillBackend(c))
           y == FillScheduling(x)
           z == FillGroups(y)
           d == [i \in DOMAIN x.dynamic |->
                   [x.dynamic[i] EXCEPT !.preferred = PreferredSizes(@, x.batch)]]
<1>1. x.dynamic = c.dynamic /\ DOMAIN x = DOMAIN c
  <2>1. FillBackend(c).dynamic = c.dynamic /\ DOMAIN FillBackend(c) = DOMAIN c
    BY DEF FillBackend
  <2>2. ASSUME NEW b, "dynamic" \in DOMAIN b
        PROVE  FillPlatform(b).dynamic = b.dynamic /\ DOMAIN FillPlatform(b) = DOMAIN b
    BY <2>2 DEF FillPlatform
  <2> QED BY <2>1, <2>2
<1> HIDE DEF x
<1>2. y.dynamic = d /\ "dynamic" \in DOMAIN y
  <2> DEFINE policy == IF x.policy = "unset" THEN "latest" ELSE x.policy
             sequence == [i \in DOMAIN x.sequence |->
               [x.sequence[i] EXCEPT !.preferred =
                  IF x.sequence[i].strategy = "oldest" THEN PreferredSizes(@, x.batch) ELSE @]]
  <2>1. y = [x EXCEPT !.policy = policy, !.dynamic = d, !.sequence = sequence]
    BY Zenon DEF FillScheduling
  <2> HIDE DEF policy, sequence, d, y
  <2> QED BY <1>1, <2>1
<1> HIDE DEF y
<1>3. z.dynamic = d
  BY <1>2 DEF FillGroups
<1>4. GetNormalizedModelConfig(c) = z
  BY DEF GetNormalizedModelConfig, x, y
<1> HIDE DEF z
<1>5. DOMAIN d = DOMAIN c.dynamic
  BY <1>1
<1>6. ASSUME NEW i \in DOMAIN c.dynamic
      PROVE  d[i].levels = c.dynamic[i].levels /\ d[i].default = c.dynamic[i].default
  BY <1>1
<1>7. d = <<>> <=> c.dynamic = <<>>
  <2>1. CASE c.dynamic = <<>>
    BY <1>1, <2>1
  <2>2. CASE DOMAIN c.dynamic = {1}
    BY <1>5, <2>2
  <2> QED BY <2>1, <2>2
<1> HIDE DEF d
<1> QED BY <1>3, <1>4, <1>5, <1>6, <1>7

(* SetPriority sets a level.                                               *)
LEMMA PrioritySet ==
  ASSUME NEW s \in Scenarios, NEW c, c = GetNormalizedModelConfig(s.file), Accepted(s.file),
         NEW p \in Nat
  PROVE  IsLevel(c, SetPriority(c, p))
<1>1. /\ "dynamic" \in DOMAIN s.file
      /\ s.file.dynamic = <<>> \/ DOMAIN s.file.dynamic = {1}
      /\ \A i \in DOMAIN s.file.dynamic :
           /\ {"levels", "default"} \subseteq DOMAIN s.file.dynamic[i]
           /\ s.file.dynamic[i].levels \in Nat
  BY RequestAssumption
<1>2. /\ c.dynamic = <<>> <=> s.file.dynamic = <<>>
      /\ DOMAIN c.dynamic = DOMAIN s.file.dynamic
      /\ \A i \in DOMAIN c.dynamic : c.dynamic[i].levels \in Nat
  BY <1>1, NormalizedLevels
<1>3. \A e \in Range(c.dynamic) : ValidateDynamicBatching(e, c.batch)
  BY DEF Accepted, ValidateModelConfig
<1>4. CASE c.dynamic = <<>>
  BY <1>4 DEF IsLevel, SetPriority, MaxPriorityLevel, DefaultPriorityLevel
<1>5. CASE c.dynamic # <<>>
  <2>1. 1 \in DOMAIN c.dynamic /\ c.dynamic[1].levels \in Nat
    BY <1>1, <1>2, <1>5
  <2>2. c.dynamic[1] \in Range(c.dynamic)
    BY <2>1 DEF Range
  <2>3. c.dynamic[1].levels # 0 => c.dynamic[1].default \in 1..c.dynamic[1].levels
    BY <1>3, <2>2 DEF ValidateDynamicBatching
  <2> QED BY <1>5, <2>1, <2>3 DEF IsLevel, SetPriority, MaxPriorityLevel, DefaultPriorityLevel
<1> QED BY <1>4, <1>5

----------------------------------------------------------------------------
(* The steps.                                                              *)

\* A call of the client that leaves s may be made of request r of a model
\* with configuration c.
Admissible(c, r, s) ==
  /\ IsRequest(s) /\ s.needs \in BOOLEAN /\ IsFiniteSet(DOMAIN s.original)
  /\ \A name \in DOMAIN s.original : IsInput(s.original[name])
  /\ s.needs \/ (s.needs = r.needs /\ (NormalRequest(c, r) => NormalRequest(c, s)))
  /\ s.priority = r.priority \/ IsLevel(c, s.priority)

(* Such a call keeps the invariant.                                        *)
LEMMA CallKeeps ==
  ASSUME QInv, NEW s, Call(s), Admissible(model.config, request, s)
  PROVE  QInv'
<1>1. /\ model.stage = "loaded" /\ owner = "caller" /\ request' = s
      /\ UNCHANGED <<scenario, model, owner, overridden, null, response, buffers, runs>>
  BY DEF Call
<1>2. ObjectsInv'
  BY <1>1 DEF QInv, ObjectsInv, Admissible, File
<1>3. PreparedInv'
  <2>1. ~s.needs => NormalRequest(model.config, s)
    BY DEF QInv, PreparedInv, Admissible, ObjectsInv
  <2> QED BY <1>1, <2>1 DEF PreparedInv
<1>4. ShownInv'
  BY <1>1 DEF ShownInv
<1>5. BuffersInv'
  BY <1>1, BuffersAlone DEF QInv
<1>6. PriorityIsLevel'
  BY <1>1 DEF QInv, PriorityIsLevel, Admissible, IsLevel
<1> QED BY <1>2, <1>3, <1>4, <1>5, <1>6 DEF QInv

(* A request with other inputs that is to be normalized again.             *)
LEMMA InputsAdmissible ==
  ASSUME NEW c, NEW r, IsRequest(r), NEW o, \A name \in DOMAIN o : IsInput(o[name]),
         IsFiniteSet(DOMAIN o)
  PROVE  Admissible(c, r, [r EXCEPT !.original = o, !.needs = TRUE])
<1>1. PICK b : b = TRUE
  OBVIOUS
<1> DEFINE s == [r EXCEPT !.original = o, !.needs = b]
<1>2. s = [original |-> o, outputs |-> r.outputs, requested |-> r.requested,
           needs |-> b, batch |-> r.batch, inputs |-> r.inputs,
           overrides |-> r.overrides, priority |-> r.priority]
  <2>1. PICK t : t = [r EXCEPT !.original = o]
    OBVIOUS
  <2>2. t = [original |-> o, outputs |-> r.outputs, requested |-> r.requested,
             needs |-> r.needs, batch |-> r.batch, inputs |-> r.inputs,
             overrides |-> r.overrides, priority |-> r.priority]
    BY <2>1 DEF IsRequest
  <2>3. s = [t EXCEPT !.needs = b]
    BY <2>1
  <2> HIDE DEF s
  <2> QED BY <2>2, <2>3
<1> HIDE DEF s
<1>3. IsRequest(s) /\ s.needs = b /\ s.original = o /\ s.priority = r.priority
  BY <1>2 DEF IsRequest
<1>4. Admissible(c, r, s)
  BY <1>1, <1>3 DEF Admissible
<1> QED BY <1>1, <1>4 DEF s

(* A request with other data.                                              *)
LEMMA DataAdmissible ==
  ASSUME NEW c, NEW r, IsRequest(r), \A name \in DOMAIN r.original : IsInput(r.original[name]),
         r.needs \in BOOLEAN, IsFiniteSet(DOMAIN r.original),
         NEW name \in DOMAIN r.original, NEW x, IsInput(x),
         LET y == r.original[name]
         IN  /\ x.type = y.type /\ x.original = y.original /\ x.shape = y.shape
             /\ x.withBatch = y.withBatch /\ x.shapeTensor = y.shapeTensor
  PROVE  Admissible(c, r, [r EXCEPT !.original = [@ EXCEPT ![name] = x]])
<1> DEFINE o == [r.original EXCEPT ![name] = x]
           s == [r EXCEPT !.original = o]
<1>1. s = [original |-> o, outputs |-> r.outputs, requested |-> r.requested,
           needs |-> r.needs, batch |-> r.batch, inputs |-> r.inputs,
           overrides |-> r.overrides, priority |-> r.priority]
  BY DEF IsRequest
<1>2. /\ DOMAIN o = DOMAIN r.original /\ o[name] = x
      /\ \A n \in DOMAIN r.original : n # name => o[n] = r.original[n]
  OBVIOUS
<1> HIDE DEF s, o
<1>3. /\ IsRequest(s) /\ s.needs = r.needs /\ s.original = o /\ s.priority = r.priority
      /\ s.outputs = r.outputs /\ s.batch = r.batch /\ s.requested = r.requested
  BY <1>1 DEF IsRequest
<1>4. \A n \in DOMAIN s.original : IsInput(s.original[n])
  BY <1>2, <1>3
<1>5. SameInputs(r, s)
  BY <1>2, <1>3 DEF SameInputs
<1>6. \A n \in DOMAIN r.original :
        /\ s.original[n].shape = r.original[n].shape
        /\ s.original[n].withBatch = r.original[n].withBatch
        /\ s.original[n].shapeTensor = r.original[n].shapeTensor
  BY <1>2, <1>3
<1>7. NormalRequest(c, r) => NormalRequest(c, s)
  BY <1>3, <1>5, <1>6, NormalSame
<1>8. Admissible(c, r, s)
  BY <1>2, <1>3, <1>4, <1>7 DEF Admissible
<1> QED BY <1>8 DEF s, o

(* A new input is one.                                                     *)
LEMMA InputIsInput == ASSUME NEW type, NEW shape PROVE IsInput(Input(type, shape))
  BY DEF IsInput, Input

(* No inputs at all.                                                       *)
LEMMA EmptyFinite == DOMAIN NoFunction = {} /\ IsFiniteSet(DOMAIN NoFunction)
  BY FS_EmptySet DEF NoFunction

(* The calls that change the inputs.                                       *)
LEMMA ChangesOfInputs ==
  ASSUME QInv, NEW name,
         \/ \E type \in scenario.types, shape \in scenario.shapes :
              AddOriginalInput(name, type, shape)
         \/ RemoveOriginalInput(name)
         \/ RemoveAllOriginalInputs
  PROVE  QInv'
<1>1. /\ IsRequest(request) /\ IsFiniteSet(DOMAIN request.original)
      /\ \A n \in DOMAIN request.original : IsInput(request.original[n])
  BY DEF QInv, ObjectsInv
<1>2. ASSUME NEW type, NEW shape, AddOriginalInput(name, type, shape) PROVE QInv'
  <2> DEFINE x == Input(type, shape)
             o == Set(request.original, name, x)
  <2>1. IsInput(x)
    BY InputIsInput
  <2> HIDE DEF x
  <2>2. (\A n \in DOMAIN o : IsInput(o[n])) /\ IsFiniteSet(DOMAIN o)
    <3>1. DOMAIN o = DOMAIN request.original \cup {name}
      BY DEF Set
    <3> QED BY <1>1, <2>1, <3>1, FS_AddElement DEF Set
  <2>3. Call([request EXCEPT !.original = o, !.needs = TRUE])
    BY <1>2 DEF AddOriginalInput, x
  <2> HIDE DEF o
  <2> QED BY <1>1, <2>2, <2>3, InputsAdmissible, CallKeeps
<1>3. ASSUME RemoveOriginalInput(name) PROVE QInv'
  <2> DEFINE o == Without(request.original, name)
  <2>1. (\A n \in DOMAIN o : IsInput(o[n])) /\ IsFiniteSet(DOMAIN o)
    <3>1. DOMAIN o = DOMAIN request.original \ {name}
      BY DEF Without
    <3> QED BY <1>1, <3>1, FS_RemoveElement DEF Without
  <2>2. Call([request EXCEPT !.original = o, !.needs = TRUE])
    BY <1>3 DEF RemoveOriginalInput
  <2> HIDE DEF o
  <2> QED BY <1>1, <2>1, <2>2, InputsAdmissible, CallKeeps
<1>4. ASSUME RemoveAllOriginalInputs PROVE QInv'
  <2>1. (\A n \in DOMAIN NoFunction : IsInput(NoFunction[n])) /\ IsFiniteSet(DOMAIN NoFunction)
    BY EmptyFinite DEF NoFunction
  <2>2. Call([request EXCEPT !.original = NoFunction, !.needs = TRUE])
    BY <1>4 DEF RemoveAllOriginalInputs
  <2> QED BY <1>1, <2>1, <2>2, InputsAdmissible, CallKeeps
<1> QED BY <1>2, <1>3, <1>4

(* The calls that change the data of an input.                             *)
LEMMA ChangesOfData ==
  ASSUME QInv, NEW name,
         \/ \E size \in {0, 8} : AppendData(name, size)
         \/ AppendDataWithHostPolicy(name, "gpu_0", 8)
         \/ RemoveAllData(name)
  PROVE  QInv'
<1>1. /\ IsRequest(request) /\ request.needs \in BOOLEAN /\ IsFiniteSet(DOMAIN request.original)
      /\ \A n \in DOMAIN request.original : IsInput(request.original[n])
  BY DEF QInv, ObjectsInv
<1>2. name \in DOMAIN request.original
  BY DEF AppendData, AppendDataWithHostPolicy, RemoveAllData
<1> DEFINE y == request.original[name]
<1>3. IsInput(y)
  BY <1>1, <1>2
<1>4. ASSUME NEW x, IsInput(x), Call([request EXCEPT !.original = [@ EXCEPT ![name] = x]]),
             x.type = y.type, x.original = y.original, x.shape = y.shape,
             x.withBatch = y.withBatch, x.shapeTensor = y.shapeTensor
      PROVE  QInv'
  BY <1>1, <1>2, <1>4, DataAdmissible, CallKeeps
<1>5. ASSUME NEW size \in {0, 8}, AppendData(name, size) PROVE QInv'
  <2> DEFINE x == [y EXCEPT !.data = @ + size]
  <2>1. Call([request EXCEPT !.original[name].data = @ + size])
    BY <1>5 DEF AppendData
  <2>2. [request EXCEPT !.original[name].data = @ + size]
          = [request EXCEPT !.original = [@ EXCEPT ![name] = x]]
    OBVIOUS
  <2>3. /\ IsInput(x) /\ x.type = y.type /\ x.original = y.original /\ x.shape = y.shape
        /\ x.withBatch = y.withBatch /\ x.shapeTensor = y.shapeTensor
    BY <1>3 DEF IsInput
  <2> HIDE DEF x
  <2> QED BY <1>4, <2>1, <2>2, <2>3
<1>6. ASSUME AppendDataWithHostPolicy(name, "gpu_0", 8) PROVE QInv'
  <2> DEFINE h == Set(y.policyData, "gpu_0", 8 + IF "gpu_0" \in DOMAIN y.policyData
                                                 THEN y.policyData["gpu_0"] ELSE 0)
             x == [y EXCEPT !.policyData = h]
  <2>1. Call([request EXCEPT !.original[name].policyData = h])
    BY <1>6 DEF AppendDataWithHostPolicy
  <2> HIDE DEF h
  <2>2. [request EXCEPT !.original[name].policyData = h]
          = [request EXCEPT !.original = [@ EXCEPT ![name] = x]]
    OBVIOUS
  <2>3. /\ IsInput(x) /\ x.type = y.type /\ x.original = y.original /\ x.shape = y.shape
        /\ x.withBatch = y.withBatch /\ x.shapeTensor = y.shapeTensor
    BY <1>3 DEF IsInput
  <2> HIDE DEF x
  <2> QED BY <1>4, <2>1, <2>2, <2>3
<1>7. ASSUME RemoveAllData(name) PROVE QInv'
  <2> DEFINE x == [y EXCEPT !.data = 0, !.policyData = NoFunction]
  <2>1. Call([request EXCEPT !.original[name].data = 0,
                             !.original[name].policyData = NoFunction])
    BY <1>7 DEF RemoveAllData
  <2>2. [request EXCEPT !.original[name].data = 0, !.original[name].policyData = NoFunction]
          = [request EXCEPT !.original = [@ EXCEPT ![name] = x]]
    BY <1>1, <1>2 DEF IsRequest
  <2>3. /\ IsInput(x) /\ x.type = y.type /\ x.original = y.original /\ x.shape = y.shape
        /\ x.withBatch = y.withBatch /\ x.shapeTensor = y.shapeTensor
    <3>1. PICK z : z = [y EXCEPT !.data = 0]
      OBVIOUS
    <3>2. z = [type |-> y.type, original |-> y.original, shape |-> y.shape,
               withBatch |-> y.withBatch, shapeTensor |-> y.shapeTensor, data |-> 0,
               policyData |-> y.policyData]
      BY <1>3, <3>1 DEF IsInput
    <3>3. x = [z EXCEPT !.policyData = NoFunction]
      BY <3>1
    <3> HIDE DEF x
    <3> QED BY <3>2, <3>3 DEF IsInput
  <2> HIDE DEF x
  <2> QED BY <1>4, <2>1, <2>2, <2>3
<1> QED BY <1>5, <1>6, <1>7

(* The calls that change the outputs or the priority.                      *)
LEMMA OtherChanges ==
  ASSUME QInv,
         \/ \E outputs : ChangeRequestedOutputs(outputs)
         \/ \E p \in 0..3 : RequestSetPriority(p)
  PROVE  QInv'
<1>1. /\ IsRequest(request) /\ request.needs \in BOOLEAN /\ scenario \in Scenarios
      /\ IsFiniteSet(DOMAIN request.original)
      /\ \A n \in DOMAIN request.original : IsInput(request.original[n])
      /\ model.stage = "loaded" => model.config = GetNormalizedModelConfig(scenario.file)
                                    /\ Accepted(scenario.file)
  BY DEF QInv, ObjectsInv, File
<1>2. ASSUME NEW outputs, ChangeRequestedOutputs(outputs) PROVE QInv'
  <2>1. PICK b : b = TRUE
    OBVIOUS
  <2> DEFINE s == [request EXCEPT !.outputs = outputs, !.needs = b]
  <2>2. Call(s)
    BY <1>2, <2>1 DEF ChangeRequestedOutputs
  <2>3. s = [original |-> request.original, outputs |-> outputs,
             requested |-> request.requested, needs |-> b, batch |-> request.batch,
             inputs |-> request.inputs, overrides |-> request.overrides,
             priority |-> request.priority]
    <3>1. PICK t : t = [request EXCEPT !.outputs = outputs]
      OBVIOUS
    <3>2. t = [original |-> request.original, outputs |-> outputs,
               requested |-> request.requested, needs |-> request.needs,
               batch |-> request.batch, inputs |-> request.inputs,
               overrides |-> request.overrides, priority |-> request.priority]
      BY <1>1, <3>1 DEF IsRequest
    <3>3. s = [t EXCEPT !.needs = b]
      BY <3>1
    <3> HIDE DEF s
    <3> QED BY <3>2, <3>3
  <2> HIDE DEF s
  <2>4. IsRequest(s) /\ s.needs = b /\ s.original = request.original /\ s.priority = request.priority
    BY <2>3 DEF IsRequest
  <2>5. Admissible(model.config, request, s)
    BY <1>1, <2>1, <2>4 DEF Admissible
  <2> QED BY <2>2, <2>5, CallKeeps
<1>3. ASSUME NEW p \in 0..3, RequestSetPriority(p) PROVE QInv'
  <2> DEFINE v == SetPriority(model.config, p)
             s == [request EXCEPT !.priority = v]
  <2>1. Call(s)
    BY <1>3 DEF RequestSetPriority
  <2>2. model.stage = "loaded" /\ p \in Nat
    BY <2>1 DEF Call
  <2>3. IsLevel(model.config, v)
    BY <1>1, <2>2, PrioritySet
  <2> HIDE DEF v
  <2>4. s = [original |-> request.original, outputs |-> request.outputs,
             requested |-> request.requested, needs |-> request.needs,
             batch |-> request.batch, inputs |-> request.inputs,
             overrides |-> request.overrides, priority |-> v]
    BY <1>1 DEF IsRequest
  <2> HIDE DEF s
  <2>5. /\ IsRequest(s) /\ s.needs = request.needs /\ s.original = request.original
        /\ s.priority = v /\ s.outputs = request.outputs /\ s.batch = request.batch
        /\ s.requested = request.requested
    BY <2>4 DEF IsRequest
  <2>6. SameInputs(request, s)
    BY <2>5 DEF SameInputs
  <2>7. NormalRequest(model.config, request) => NormalRequest(model.config, s)
    BY <2>5, <2>6, NormalSame
  <2>8. Admissible(model.config, request, s)
    BY <1>1, <2>3, <2>5, <2>7 DEF Admissible
  <2> QED BY <2>1, <2>8, CallKeeps
<1> QED BY <1>2, <1>3

(* A configuration is read and a request made for the model.               *)
LEMMA LoadKeeps == ASSUME QInv, Load PROVE QInv'
<1> DEFINE c == GetNormalizedModelConfig(File)
           stage == IF Accepted(File) THEN "loaded" ELSE "refused"
<1>1. /\ model.stage = "polled" /\ model' = [stage |-> stage, config |-> c]
      /\ request' = NewRequest(c)
      /\ UNCHANGED <<scenario, owner, overridden, null, response, buffers, calls, runs>>
  BY DEF Load
<1>2. File' = File /\ scenario \in Scenarios
  BY <1>1 DEF File, QInv, ObjectsInv
<1>3. model'.stage = "loaded" => Accepted(File)
  BY <1>1
<1> HIDE DEF c
<1>4. /\ model'.stage \in {"loaded", "refused"} /\ model'.config = c
      /\ model' = [stage |-> model'.stage, config |-> model'.config]
  BY <1>1
<1>5. /\ IsRequest(request') /\ request'.needs = TRUE /\ request'.original = NoFunction
      /\ request'.priority = SetPriority(c, 0)
  BY <1>1 DEF NewRequest, IsRequest
<1>6. owner = "caller" /\ owner' = owner
  BY <1>1 DEF QInv, PreparedInv, ObjectsInv
<1>7. /\ \A name \in DOMAIN request'.original : IsInput(request'.original[name])
      /\ IsFiniteSet(DOMAIN request'.original)
  BY <1>5, EmptyFinite
<1>8. ObjectsInv'
  BY <1>1, <1>2, <1>3, <1>4, <1>5, <1>6, <1>7 DEF ObjectsInv, c
<1>9. PreparedInv'
  BY <1>5, <1>6 DEF PreparedInv
<1>10. ShownInv'
  BY <1>6 DEF ShownInv
<1>11. BuffersInv'
  BY <1>1, BuffersAlone DEF QInv
<1>12. PriorityIsLevel'
  <2> SUFFICES ASSUME model'.stage = "loaded" PROVE IsLevel(c, request'.priority)
    BY <1>4 DEF PriorityIsLevel, IsLevel
  <2>1. Accepted(scenario.file) /\ c = GetNormalizedModelConfig(scenario.file)
    BY <1>3 DEF File, c
  <2> QED BY <1>2, <1>5, <2>1, PrioritySet
<1> QED BY <1>8, <1>9, <1>10, <1>11, <1>12 DEF QInv

(* A request is sent: as it is, after normalization, or not at all.        *)
LEMMA InferAsyncKeeps == ASSUME QInv, InferAsync PROVE QInv'
<1>1. /\ model.stage = "loaded" /\ owner = "caller" /\ overridden' = {}
      /\ UNCHANGED <<scenario, model, null, response, buffers>>
  BY DEF InferAsync
<1>2. /\ IsRequest(request) /\ request.needs \in BOOLEAN
      /\ \A name \in DOMAIN request.original : IsInput(request.original[name])
  BY DEF QInv, ObjectsInv
<1>3. ASSUME /\ IsRequest(request') /\ request'.needs \in BOOLEAN
             /\ \A name \in DOMAIN request'.original : IsInput(request'.original[name]),
             request'.priority = request.priority, owner' \in {"caller", "core"},
             DOMAIN request'.original = DOMAIN request.original,
             ~request'.needs => NormalRequest(model.config, request'),
             owner' = "core" =>
               /\ ~request'.needs
               /\ request'.inputs = [name \in DOMAIN request'.original |-> "original"]
      PROVE  QInv'
  <2>1. ObjectsInv'
    BY <1>1, <1>3 DEF QInv, ObjectsInv, File
  <2>2. PreparedInv'
    BY <1>1, <1>3 DEF PreparedInv
  <2>3. ShownInv'
    BY <1>1, <1>3 DEF ShownInv
  <2>4. BuffersInv'
    BY <1>1, BuffersAlone DEF QInv
  <2>5. PriorityIsLevel'
    BY <1>1, <1>3 DEF QInv, PriorityIsLevel
  <2> QED BY <2>1, <2>2, <2>3, <2>4, <2>5 DEF QInv
<1>4. CASE ~request.needs /\ request' = ShowOriginals(request) /\ owner' = "core"
  <2> DEFINE shown == [name \in DOMAIN request.original |-> "original"]
             s == ShowOriginals(request)
  <2>1. s = [original |-> request.original, outputs |-> request.outputs,
             requested |-> request.requested, needs |-> request.needs,
             batch |-> request.batch, inputs |-> shown, overrides |-> NoFunction,
             priority |-> request.priority]
    <3>1. PICK t : t = [request EXCEPT !.overrides = NoFunction]
      OBVIOUS
    <3>2. t = [original |-> request.original, outputs |-> request.outputs,
               requested |-> request.requested, needs |-> request.needs,
               batch |-> request.batch, inputs |-> request.inputs,
               overrides |-> NoFunction, priority |-> request.priority]
      BY <1>2, <3>1 DEF IsRequest
    <3>3. s = [t EXCEPT !.inputs = shown]
      BY <3>1 DEF ShowOriginals
    <3> HIDE DEF s, shown
    <3> QED BY <3>2, <3>3
  <2> HIDE DEF s, shown
  <2>2. /\ IsRequest(s) /\ s.needs = request.needs /\ s.original = request.original
        /\ s.priority = request.priority /\ s.outputs = request.outputs
        /\ s.batch = request.batch /\ s.requested = request.requested /\ s.inputs = shown
    BY <2>1 DEF IsRequest
  <2>3. SameInputs(request, s)
    BY <2>2 DEF SameInputs
  <2>4. NormalRequest(model.config, request)
    BY <1>4 DEF QInv, PreparedInv
  <2>5. NormalRequest(model.config, s)
    BY <2>2, <2>3, <2>4, NormalSame
  <2>6. request' = s
    BY <1>4 DEF s
  <2>7. request'.inputs = [name \in DOMAIN request'.original |-> "original"]
    BY <2>2, <2>6 DEF shown
  <2> QED BY <1>2, <1>3, <1>4, <2>2, <2>5, <2>6, <2>7
<1>5. ASSUME NEW order \in SetToSeqs(DOMAIN request.original),
             NEW n, n = Normalize(model.config, request, order), n.ok,
             request' = ShowOriginals(Renormalized(model.config, request, n)), owner' = "core"
      PROVE  QInv'
  <2> DEFINE s == ShowOriginals(Renormalized(model.config, request, n))
  <2>1. /\ NormalRequest(model.config, s) /\ IsRequest(s) /\ ~s.needs /\ s.needs \in BOOLEAN
        /\ s.priority = request.priority
        /\ DOMAIN s.original = DOMAIN request.original
        /\ s.inputs = [name \in DOMAIN request.original |-> "original"]
        /\ \A name \in DOMAIN request.original : IsInput(s.original[name])
    <3>1. Prepares(model.config, request, order, s)
      BY <1>2, <1>5 DEF Prepares
    <3> HIDE DEF s
    <3> QED BY <3>1, NormalNow
  <2>2. request' = s
    BY <1>5
  <2> HIDE DEF s
  <2> QED BY <1>3, <1>5, <2>1, <2>2
<1>6. CASE /\ request.needs
           /\ request' = [request EXCEPT !.inputs = NoFunction, !.overrides = NoFunction]
           /\ UNCHANGED owner
  <2>1. PICK t : t = [request EXCEPT !.inputs = NoFunction]
    OBVIOUS
  <2>2. t = [original |-> request.original, outputs |-> request.outputs,
             requested |-> request.requested, needs |-> request.needs,
             batch |-> request.batch, inputs |-> NoFunction,
             overrides |-> request.overrides, priority |-> request.priority]
    BY <1>2, <2>1 DEF IsRequest
  <2>3. request' = [t EXCEPT !.overrides = NoFunction]
    BY <1>6, <2>1
  <2>4. request' = [original |-> request.original, outputs |-> request.outputs,
             requested |-> request.requested, needs |-> request.needs,
             batch |-> request.batch, inputs |-> NoFunction,
             overrides |-> NoFunction, priority |-> request.priority]
    BY <2>2, <2>3
  <2>5. /\ IsRequest(request') /\ request'.needs = request.needs
        /\ request'.original = request.original /\ request'.priority = request.priority
    BY <2>4 DEF IsRequest
  <2> QED BY <1>1, <1>2, <1>3, <1>6, <2>5
<1> QED BY <1>4, <1>5, <1>6 DEF InferAsync

(* The batcher overrides an input.                                         *)
LEMMA OverrideKeeps ==
  ASSUME QInv, NEW name, NEW shape, AddOverrideInput(name, shape)
  PROVE  QInv'
<1> DEFINE over == Set(request.overrides, name, [Input("FP32", shape) EXCEPT
                     !.shape = shape,
                     !.withBatch = IF request.batch > 0 THEN <<request.batch>> \o shape ELSE shape])
           shown == Set(request.inputs, name, "override")
<1>1. /\ model.stage = "loaded" /\ owner = "core" /\ overridden' = overridden \cup {name}
      /\ request' = [request EXCEPT !.overrides = over, !.inputs = shown]
      /\ UNCHANGED <<scenario, model, owner, null, response, buffers, calls, runs>>
  BY DEF AddOverrideInput, Core
<1>2. /\ IsRequest(request) /\ request.needs \in BOOLEAN
      /\ \A n \in DOMAIN request.original : IsInput(request.original[n])
  BY DEF QInv, ObjectsInv
<1> HIDE DEF over
<1>3. /\ DOMAIN shown = DOMAIN request.inputs \cup {name} /\ shown[name] = "override"
      /\ \A n \in DOMAIN request.inputs : n # name => shown[n] = request.inputs[n]
  BY DEF Set
<1> HIDE DEF shown
<1>4. request' = [original |-> request.original, outputs |-> request.outputs,
                  requested |-> request.requested, needs |-> request.needs,
                  batch |-> request.batch, inputs |-> shown, overrides |-> over,
                  priority |-> request.priority]
  <2>1. PICK t : t = [request EXCEPT !.overrides = over]
    OBVIOUS
  <2>2. t = [original |-> request.original, outputs |-> request.outputs,
             requested |-> request.requested, needs |-> request.needs,
             batch |-> request.batch, inputs |-> request.inputs,
             overrides |-> over, priority |-> request.priority]
    BY <1>2, <2>1 DEF IsRequest
  <2>3. request' = [t EXCEPT !.inputs = shown]
    BY <1>1, <2>1
  <2> QED BY <2>2, <2>3
<1>5. /\ IsRequest(request') /\ request'.needs = request.needs
      /\ request'.original = request.original /\ request'.priority = request.priority
      /\ request'.outputs = request.outputs /\ request'.batch = request.batch
      /\ request'.requested = request.requested /\ request'.inputs = shown
  BY <1>4 DEF IsRequest
<1>6. ObjectsInv'
  BY <1>1, <1>2, <1>5 DEF QInv, ObjectsInv, File
<1>7. PreparedInv'
  <2>1. SameInputs(request, request')
    BY <1>5 DEF SameInputs
  <2>2. NormalRequest(model.config, request) => NormalRequest(model.config, request')
    BY <1>5, <2>1, NormalSame
  <2> QED BY <1>1, <1>5, <2>2 DEF QInv, PreparedInv
<1>8. ShownInv'
  BY <1>1, <1>3, <1>5 DEF QInv, ShownInv
<1>9. BuffersInv'
  BY <1>1, BuffersAlone DEF QInv
<1>10. PriorityIsLevel'
  BY <1>1, <1>5 DEF QInv, PriorityIsLevel
<1> QED BY <1>6, <1>7, <1>8, <1>9, <1>10 DEF QInv

(* Steps that leave the request alone keep what is said of it.             *)
LEMMA RequestAlone ==
  ASSUME QInv, UNCHANGED <<scenario, model, request, overridden>>,
         owner' = owner \/ owner' = "caller"
  PROVE  ObjectsInv' /\ PreparedInv' /\ ShownInv' /\ PriorityIsLevel'
<1>1. ObjectsInv'
  BY DEF QInv, ObjectsInv, File
<1>2. PreparedInv'
  BY DEF QInv, PreparedInv
<1>3. ShownInv'
  BY DEF QInv, ShownInv
<1>4. PriorityIsLevel'
  BY DEF QInv, PriorityIsLevel
<1> QED BY <1>1, <1>2, <1>3, <1>4

(* A response is made, sent or deleted.                                    *)
LEMMA ResponseKeeps ==
  ASSUME QInv, CreateResponse \/ Send \/ DeleteResponse
  PROVE  QInv'
<1>1. UNCHANGED <<scenario, model, request, overridden, owner>>
  BY DEF CreateResponse, Send, DeleteResponse
<1>2. /\ response.phase \in {"none", "open", "sent"}
      /\ response = [phase |-> response.phase, outputs |-> response.outputs]
      /\ response.phase = "none" => response.outputs = <<>>
      /\ DOMAIN response.outputs = 1..Len(response.outputs) /\ Len(response.outputs) \in Nat
      /\ DOMAIN buffers = 1..Len(buffers) /\ Len(buffers) \in Nat
      /\ \A i \in 1..Len(response.outputs) : /\ "buffer" \in DOMAIN response.outputs[i]
                                                /\ response.outputs[i].buffer \in 0..Len(buffers)
      /\ \A b \in 1..Len(buffers) : IsAllocation(buffers[b])
      /\ \A b \in Held : ~buffers[b].null
      /\ BuffersReturned
  BY DEF QInv, BuffersInv
<1>3. CASE Send
  <2>1. response' = [phase |-> "sent", outputs |-> response.outputs] /\ buffers' = buffers
    BY <1>2, <1>3 DEF Send
  <2> QED BY <1>1, <1>2, <2>1, RequestAlone DEF QInv, BuffersInv, BuffersReturned, Held
<1>4. CASE CreateResponse
  <2>1. /\ response.outputs = <<>> /\ buffers' = buffers
        /\ response' = [phase |-> "open", outputs |-> <<>>]
    BY <1>2, <1>4 DEF CreateResponse
  <2>2. response'.outputs = response.outputs /\ response'.phase = "open"
    BY <2>1
  <2> QED BY <1>1, <1>2, <2>1, <2>2, RequestAlone DEF QInv, BuffersInv, BuffersReturned, Held
<1>5. CASE DeleteResponse
  <2>1. /\ response' = [phase |-> "none", outputs |-> <<>>]
        /\ buffers' = [b \in 1..Len(buffers) |->
              IF b \in Held THEN [buffers[b] EXCEPT !.released = @ + 1] ELSE buffers[b]]
    BY <1>2, <1>5 DEF DeleteResponse, NoResponse
  <2>2. DOMAIN buffers' = 1..Len(buffers) /\ Len(buffers') = Len(buffers)
    BY <1>2, <2>1
  <2>3. response'.outputs = <<>> /\ response'.phase = "none" /\ Held' = {}
    BY <2>1 DEF Held
  <2>4. ASSUME NEW b \in 1..Len(buffers)
        PROVE  /\ IsAllocation(buffers'[b])
               /\ ~buffers'[b].null => buffers'[b].released = 1
    <3>1. CASE b \in Held
      <4>1. PICK x : x = buffers[b]
        OBVIOUS
      <4>2. IsAllocation(x) /\ x.released = 0
        BY <1>2, <3>1, <4>1 DEF BuffersReturned
      <4>3. buffers'[b] = [x EXCEPT !.released = @ + 1]
        BY <2>1, <3>1, <4>1
      <4> QED BY <4>2, <4>3 DEF IsAllocation
    <3>2. CASE b \notin Held
      BY <1>2, <2>1, <3>2 DEF BuffersReturned
    <3> QED BY <3>1, <3>2
  <2>5. BuffersReturned'
    BY <2>2, <2>3, <2>4 DEF BuffersReturned
  <2>6. BuffersInv'
    BY <1>2, <2>1, <2>2, <2>3, <2>4, <2>5 DEF BuffersInv
  <2> QED BY <1>1, <2>6, RequestAlone DEF QInv
<1> QED BY <1>3, <1>4, <1>5

(* The backend adds an output, which has no buffer yet.                    *)
LEMMA AddOutputKeeps ==
  ASSUME QInv, NEW name, NEW shape, AddOutput(name, shape)
  PROVE  QInv'
<1>1. /\ UNCHANGED <<scenario, model, request, overridden, owner, buffers>>
      /\ response.phase = "open"
  BY DEF AddOutput
<1>2. PICK e : e.buffer = 0 /\ "buffer" \in DOMAIN e /\ response' = [response EXCEPT !.outputs = Append(@, e)]
  <2> DEFINE c == model.config
             final == IF name \notin OutputNames(c) THEN shape
                      ELSE IF ConfigOf(c.outputs, name).reshape = <<>> THEN shape
                      ELSE OutputReshape(c, ConfigOf(c.outputs, name), shape)
             entry == [name |-> name, given |-> shape, shape |-> final, buffer |-> 0]
  <2>1. response' = [response EXCEPT !.outputs = Append(@, entry)]
    BY DEF AddOutput
  <2> HIDE DEF final
  <2>2. entry.buffer = 0 /\ "buffer" \in DOMAIN entry
    OBVIOUS
  <2> HIDE DEF entry
  <2> QED BY <2>1, <2>2
<1> DEFINE s == response.outputs
           n == Len(s)
<1>3. /\ response = [phase |-> response.phase, outputs |-> s] /\ DOMAIN s = 1..n /\ n \in Nat
      /\ DOMAIN buffers = 1..Len(buffers) /\ Len(buffers) \in Nat
      /\ \A i \in 1..n : "buffer" \in DOMAIN s[i] /\ s[i].buffer \in 0..Len(buffers)
      /\ \A b \in 1..Len(buffers) : IsAllocation(buffers[b])
      /\ \A b \in Held : ~buffers[b].null
      /\ BuffersReturned
  BY DEF QInv, BuffersInv
<1>4. response' = [phase |-> "open", outputs |-> Append(s, e)]
  BY <1>1, <1>2, <1>3
<1>5. PICK w : w = Append(s, e)
  OBVIOUS
<1>6. response'.outputs = w /\ response'.phase = "open" /\ response' = [phase |-> "open", outputs |-> w]
  BY <1>4, <1>5
<1>7. /\ DOMAIN w = 1..n + 1 /\ Len(w) = n + 1 /\ w[n + 1] = e
      /\ \A i \in 1..n : w[i] = s[i]
  BY <1>3, <1>5
<1> HIDE DEF n, s
<1>8. BuffersReturned' /\ Held' = Held
  <2>1. Held' = Held
    BY <1>2, <1>3, <1>6, <1>7 DEF Held, s, n
  <2> QED BY <1>1, <1>2, <1>3, <1>6, <1>7, <2>1 DEF BuffersReturned, s, n
<1>9. BuffersInv'
  <2>1. \A i \in 1..n + 1 : "buffer" \in DOMAIN w[i] /\ w[i].buffer \in 0..Len(buffers)
    BY <1>2, <1>3, <1>7
  <2>2. n + 1 \in Nat
    BY <1>3
  <2> QED BY <1>1, <1>3, <1>6, <1>7, <1>8, <2>1, <2>2 DEF BuffersInv
<1> QED BY <1>1, <1>9, RequestAlone DEF QInv

(* An output gets a buffer that no other has, or the null pointer.        *)
LEMMA AllocateKeeps ==
  ASSUME QInv, NEW i, NEW gave \in {"null", "memory"}, AllocateDataBuffer(i, gave)
  PROVE  QInv'
<1> DEFINE s == response.outputs
           k == Len(buffers)
           n == Len(s)
<1>1. PICK e : e = [null |-> gave = "null", released |-> 0]
  OBVIOUS
<1>2. /\ UNCHANGED <<scenario, model, request, overridden, owner>>
      /\ response.phase = "open" /\ i \in DOMAIN s /\ s[i].buffer = 0
      /\ buffers' = Append(buffers, e)
      /\ response' = IF gave = "null" THEN response ELSE [response EXCEPT !.outputs[i].buffer = k + 1]
  BY <1>1 DEF AllocateDataBuffer
<1>3. /\ response = [phase |-> response.phase, outputs |-> s] /\ DOMAIN s = 1..n /\ n \in Nat
      /\ DOMAIN buffers = 1..k /\ k \in Nat
      /\ \A j \in 1..n : "buffer" \in DOMAIN s[j] /\ s[j].buffer \in 0..k
      /\ \A b \in 1..k : IsAllocation(buffers[b])
      /\ \A b \in Held : ~buffers[b].null
      /\ BuffersReturned
  BY DEF QInv, BuffersInv
<1>4. IsAllocation(e) /\ e.released = 0 /\ (e.null <=> gave = "null")
  BY <1>1 DEF IsAllocation
<1>5. PICK b : b = Append(buffers, e)
  OBVIOUS
<1>6. /\ DOMAIN b = 1..k + 1 /\ Len(b) = k + 1 /\ b[k + 1] = e
      /\ \A j \in 1..k : b[j] = buffers[j]
  BY <1>3, <1>5
<1>7. buffers' = b /\ k + 1 \in Nat
  BY <1>2, <1>3, <1>5
<1>8. \A j \in 1..k + 1 : IsAllocation(b[j])
  BY <1>3, <1>4, <1>6
<1>9. Held \subseteq 1..k /\ k + 1 \notin Held /\ Held = {s[j].buffer : j \in 1..n} \ {0}
  BY <1>3 DEF Held
<1>10. CASE gave = "null"
  <2>1. response' = response /\ Held' = Held
    BY <1>2, <1>10 DEF Held
  <2>2. \A j \in 1..k + 1 : ~b[j].null => b[j].released = IF j \in Held THEN 0 ELSE 1
    <3>1. \A j \in 1..k : ~b[j].null => b[j].released = IF j \in Held THEN 0 ELSE 1
      BY <1>3, <1>6 DEF BuffersReturned
    <3> QED BY <1>3, <1>4, <1>6, <1>10, <3>1
  <2>3. \A j \in Held : ~b[j].null
    BY <1>3, <1>6, <1>9
  <2>4. BuffersReturned'
    BY <1>3, <1>6, <1>7, <2>1, <2>2 DEF BuffersReturned
  <2>5. \A j \in 1..n : s[j].buffer \in 0..k + 1
    BY <1>3
  <2>6. BuffersInv'
    BY <1>2, <1>3, <1>6, <1>7, <1>8, <2>1, <2>3, <2>4, <2>5 DEF BuffersInv
  <2> QED BY <1>2, <2>6, RequestAlone DEF QInv
<1>11. CASE gave = "memory"
  <2>1. PICK x : x = [s[i] EXCEPT !.buffer = k + 1]
    OBVIOUS
  <2>2. PICK w : w = [s EXCEPT ![i] = x]
    OBVIOUS
  <2>3. response' = [phase |-> "open", outputs |-> w]
    <3>1. response' = [response EXCEPT !.outputs = w]
      BY <1>2, <1>11, <2>1, <2>2
    <3> QED BY <1>2, <1>3, <3>1
  <2>4. response'.outputs = w /\ response'.phase = "open"
    BY <2>3
  <2>5. x.buffer = k + 1 /\ "buffer" \in DOMAIN x
    BY <1>2, <1>3, <2>1
  <2>6. DOMAIN w = 1..n /\ w[i] = x /\ \A j \in 1..n : j # i => w[j] = s[j]
    BY <1>2, <1>3, <2>2
  <2>7. Len(w) = n
    BY <1>3, <2>6
  <2>8. i \in 1..n /\ s[i].buffer = 0
    BY <1>2, <1>3
  <2> HIDE DEF n, s, k
  <2>9. Held' = Held \cup {k + 1}
    <3>1. Held' = {w[j].buffer : j \in 1..n} \ {0}
      BY <2>4, <2>6 DEF Held
    <3>2. k + 1 # 0
      BY <1>3
    <3> QED BY <1>9, <2>5, <2>6, <2>8, <3>1, <3>2
  <2>10. ASSUME NEW j \in 1..k + 1
         PROVE  ~b[j].null => b[j].released = IF j \in Held \cup {k + 1} THEN 0 ELSE 1
    <3>1. CASE j = k + 1
      BY <1>4, <1>6, <3>1
    <3>2. CASE j \in 1..k
      <4>1. j # k + 1
        BY <1>3, <3>2
      <4> QED BY <1>3, <1>6, <3>2, <4>1 DEF BuffersReturned
    <3> QED BY <1>3, <3>1, <3>2
  <2>11. \A j, l \in 1..n : j # l /\ w[j].buffer # 0 => w[j].buffer # w[l].buffer
    <3> SUFFICES ASSUME NEW j \in 1..n, NEW l \in 1..n, j # l, w[j].buffer # 0
                 PROVE  w[j].buffer # w[l].buffer
      OBVIOUS
    <3>1. \A m \in 1..n : s[m].buffer # k + 1
      BY <1>3
    <3>2. \A m, o \in 1..n : m # o /\ s[m].buffer # 0 => s[m].buffer # s[o].buffer
      BY <1>3 DEF BuffersReturned, s
    <3> QED BY <2>5, <2>6, <3>1, <3>2
  <2>12. BuffersReturned'
    BY <1>6, <1>7, <2>4, <2>6, <2>9, <2>10, <2>11 DEF BuffersReturned
  <2>13. \A j \in Held \cup {k + 1} : ~b[j].null
    BY <1>3, <1>4, <1>6, <1>9, <1>11
  <2>14. \A j \in 1..n : "buffer" \in DOMAIN w[j] /\ w[j].buffer \in 0..k + 1
    BY <1>3, <2>5, <2>6
  <2>15. BuffersInv'
    BY <1>3, <1>6, <1>7, <1>8, <2>3, <2>4, <2>6, <2>7, <2>9, <2>12, <2>13, <2>14 DEF BuffersInv
  <2> QED BY <1>2, <2>15, RequestAlone DEF QInv
<1> QED BY <1>10, <1>11

(* Initially a request has been made for a model that is not loaded yet.   *)
LEMMA QInit == Init => QInv
<1> SUFFICES ASSUME Init PROVE QInv
  OBVIOUS
<1>1. /\ scenario \in Scenarios /\ model = [stage |-> "polled", config |-> File]
      /\ request = NewRequest(File) /\ owner = "caller"
      /\ response = [phase |-> "none", outputs |-> <<>>] /\ buffers = <<>>
  BY DEF Init, NoResponse
<1>2. IsRequest(request) /\ request.needs = TRUE /\ request.original = NoFunction
  BY <1>1 DEF NewRequest, IsRequest
<1>3. /\ \A name \in DOMAIN request.original : IsInput(request.original[name])
      /\ IsFiniteSet(DOMAIN request.original)
  BY <1>2, EmptyFinite
<1>4. ObjectsInv
  BY <1>1, <1>2, <1>3 DEF ObjectsInv
<1>5. PreparedInv /\ ShownInv /\ PriorityIsLevel
  BY <1>1, <1>2 DEF PreparedInv, ShownInv, PriorityIsLevel
<1>6. BuffersInv
  BY <1>1 DEF BuffersInv, BuffersReturned, Held
<1> QED BY <1>4, <1>5, <1>6 DEF QInv

(* Every step keeps the invariant.                                         *)
LEMMA QNext == QInv /\ [Next]_vars => QInv'
<1> SUFFICES ASSUME QInv, [Next]_vars PROVE QInv'
  OBVIOUS
<1>1. CASE Load
  BY <1>1, LoadKeeps
<1>2. CASE Client
  BY <1>2, ChangesOfInputs, ChangesOfData, OtherChanges, InferAsyncKeeps, ResponseKeeps DEF Client
<1>3. CASE Batcher
  <2>1. ASSUME FillWithNull PROVE QInv'
    BY <2>1, RequestAlone, BuffersAlone DEF FillWithNull, QInv
  <2> QED BY <1>3, <2>1, OverrideKeeps DEF Batcher
<1>4. CASE Backend
  <2>1. ASSUME Release PROVE QInv'
    BY <2>1, RequestAlone, BuffersAlone DEF Release, QInv
  <2> QED BY <1>4, <2>1, ResponseKeeps, AddOutputKeeps, AllocateKeeps DEF Backend
<1>5. CASE UNCHANGED vars
  BY <1>5, RequestAlone, BuffersAlone DEF vars, QInv
<1> QED BY <1>1, <1>2, <1>3, <1>4, <1>5 DEF Next

(* A step of the whole is a step of the request or leaves it alone.        *)
LEMMA ExecutionStep == [ExecutionNext]_<<vars, contextVars>> => [Next]_vars
  BY DEF ExecutionNext

----------------------------------------------------------------------------
(* The batch size.  Normalize visits the inputs one after the other; the   *)
(* fold is a recursion over sets of positions that takes the last one off. *)

(* Induction over the naturals, for a set.                                 *)
LEMMA NatSet ==
  ASSUME NEW T, T \subseteq Nat, 0 \in T, \A n \in T : n + 1 \in T
  PROVE  \A n \in Nat : n \in T
<1> DEFINE F == Nat \ T
<1>1. SUFFICES ASSUME F # {} PROVE FALSE
  OBVIOUS
<1>2. PICK m \in F : \A y \in F : ~(<<y, m>> \in OpToRel(<, Nat))
  BY <1>1, NatLessThanWellFounded, WFMin, F \subseteq Nat
<1>3. \A y \in F : ~(y < m)
  BY <1>2 DEF OpToRel
<1>4. m # 0 /\ m \in Nat
  OBVIOUS
<1>5. m - 1 \in Nat /\ m - 1 < m
  BY <1>4
<1>6. m - 1 \in T
  BY <1>3, <1>5
<1>7. (m - 1) + 1 \in T
  BY <1>6
<1> QED BY <1>4, <1>7

(* The largest of some positions, one of which is the last.                *)
LEMMA LastIsMax ==
  ASSUME NEW n \in Nat, NEW s \in SUBSET (1..n + 1), n + 1 \in s
  PROVE  Max(s) = n + 1
<1>1. \A y \in s : y \in Int /\ n + 1 >= y
  OBVIOUS
<1>2. PICK z \in s : z = Max(s) /\ \A y \in s : z >= y
  BY <1>1 DEF Max
<1>3. z >= n + 1 /\ n + 1 >= z /\ z \in Int
  BY <1>1, <1>2
<1> QED BY <1>2, <1>3

\* The next input is visited; the recursion for the positions 1..n.
Visit(c, shapes, order, found, i) == NextBatch(c, found, order[i], shapes[order[i]])
NoneSeen == [ok |-> TRUE, batch |-> 0]
Recurs(c, shapes, order, n, g) ==
  g = [s \in SUBSET (1..n) |->
        IF s = {} THEN NoneSeen ELSE Visit(c, shapes, order, g[s \ {Max(s)}], Max(s))]

(* There is a function that satisfies it.                                  *)
LEMMA RecursExists ==
  ASSUME NEW c, NEW shapes, NEW order
  PROVE  \A n \in Nat : \E g : Recurs(c, shapes, order, n, g)
<1> DEFINE T == {n \in Nat : \E g : Recurs(c, shapes, order, n, g)}
           V(f, i) == Visit(c, shapes, order, f, i)
<1>1. 0 \in T
  <2> DEFINE g == [s \in {{}} |-> NoneSeen]
  <2>1. 1..0 = {} /\ SUBSET {} = {{}}
    OBVIOUS
  <2>2. g = [s \in SUBSET (1..0) |->
               IF s = {} THEN NoneSeen ELSE V(g[s \ {Max(s)}], Max(s))]
    BY <2>1
  <2> QED BY <2>2 DEF Recurs
<1>2. ASSUME NEW n \in T PROVE n + 1 \in T
  <2>1. n \in Nat
    OBVIOUS
  <2>2. PICK g : g = [s \in SUBSET (1..n) |->
                       IF s = {} THEN NoneSeen ELSE V(g[s \ {Max(s)}], Max(s))]
    BY DEF Recurs
  <2> HIDE DEF V
  <2> DEFINE h == [s \in SUBSET (1..n + 1) |->
                    IF n + 1 \in s THEN V(g[s \ {n + 1}], n + 1) ELSE g[s]]
             k == [s \in SUBSET (1..n + 1) |->
                    IF s = {} THEN NoneSeen ELSE V(h[s \ {Max(s)}], Max(s))]
  <2>3. ASSUME NEW s \in SUBSET (1..n + 1)
        PROVE  h[s] = IF s = {} THEN NoneSeen ELSE V(h[s \ {Max(s)}], Max(s))
    <3>1. CASE n + 1 \in s
      <4>1. Max(s) = n + 1 /\ s # {}
        BY <2>1, <3>1, LastIsMax
      <4>2. s \ {n + 1} \in SUBSET (1..n + 1) /\ n + 1 \notin s \ {n + 1}
        OBVIOUS
      <4>3. h[s \ {n + 1}] = g[s \ {n + 1}]
        BY <4>2
      <4>4. h[s] = V(g[s \ {n + 1}], n + 1)
        BY <3>1
      <4> QED BY <4>1, <4>3, <4>4
    <3>2. CASE n + 1 \notin s
      <4>1. s \in SUBSET (1..n) /\ h[s] = g[s]
        BY <2>1, <3>2
      <4>2. g[s] = IF s = {} THEN NoneSeen ELSE V(g[s \ {Max(s)}], Max(s))
        BY <2>2, <4>1
      <4>3. /\ s \ {Max(s)} \in SUBSET (1..n + 1) /\ n + 1 \notin s \ {Max(s)}
        BY <3>2
      <4>4. h[s \ {Max(s)}] = g[s \ {Max(s)}]
        BY <4>3
      <4> QED BY <4>1, <4>2, <4>4
    <3> QED BY <3>1, <3>2
  <2>4. h = k
    <3>1. h = [s \in SUBSET (1..n + 1) |-> h[s]]
      OBVIOUS
    <3> HIDE DEF h
    <3> QED BY <2>3, <3>1
  <2>5. Recurs(c, shapes, order, n + 1, h)
    BY <2>4 DEF Recurs, V
  <2> QED BY <2>1, <2>5
<1>3. \A n \in T : n + 1 \in T
  BY <1>2
<1> HIDE DEF T
<1>4. \A n \in Nat : n \in T
  BY <1>1, <1>3, NatSet DEF T
<1> QED BY <1>4 DEF T

(* The batch size is what the recursion gives for all positions.           *)
LEMMA BatchSizeUnfolds ==
  ASSUME NEW c, NEW shapes, NEW order, NEW n \in Nat, DOMAIN order = 1..n, c.batch # 0
  PROVE  BatchSize(c, shapes, order) = (CHOOSE g : Recurs(c, shapes, order, n, g))[1..n]
BY DEF BatchSize, FoldLeft, MapThenFoldSet, Recurs, Visit, NoneSeen

\* The input at position i has a batch dimension; d is the size it gives.
Batched(c, order, i) == ~IsShapeTensor(c, order[i])

\* What has been found after k inputs: if nothing failed, every size seen is
\* the one noted.
Agrees(c, shapes, order, k, found) ==
  /\ \E b : found = [ok |-> TRUE, batch |-> b] \/ found = [ok |-> FALSE, batch |-> b]
  /\ found.ok => \A i \in 1..k : Batched(c, order, i) => shapes[order[i]][1] = found.batch

(* One more input.                                                         *)
LEMMA AgreesNext ==
  ASSUME NEW c, NEW shapes, NEW order, NEW k \in Nat, NEW found, Agrees(c, shapes, order, k, found),
         \A i \in 1..k + 1 : Batched(c, order, i) =>
            shapes[order[i]][1] \in 1..(BatchModulus \div 2 - 1)
  PROVE  Agrees(c, shapes, order, k + 1, Visit(c, shapes, order, found, k + 1))
<1> DEFINE name == order[k + 1]
           shape == shapes[name]
           next == Visit(c, shapes, order, found, k + 1)
<1>1. next = IF ~found.ok \/ ~Batched(c, order, k + 1) THEN found
             ELSE IF shape = <<>> THEN Failed
             ELSE IF found.batch = 0 THEN [found EXCEPT !.batch = shape[1] % BatchModulus]
             ELSE IF shape[1] # found.batch THEN Failed ELSE found
  BY DEF Visit, NextBatch, Batched
<1>2. PICK b : found = [ok |-> TRUE, batch |-> b] \/ found = [ok |-> FALSE, batch |-> b]
  BY DEF Agrees
<1>3. found.ok => \A i \in 1..k : Batched(c, order, i) => shapes[order[i]][1] = b
  BY <1>2 DEF Agrees
<1> SUFFICES Agrees(c, shapes, order, k + 1, next)
  OBVIOUS
<1> HIDE DEF next, shape, name
<1>4. CASE ~found.ok
  BY <1>1, <1>2, <1>4 DEF Agrees
<1>5. CASE found = [ok |-> TRUE, batch |-> b] /\ ~Batched(c, order, k + 1)
  <2>1. next = found
    BY <1>1, <1>5
  <2>2. \A i \in 1..k + 1 : i \in 1..k \/ i = k + 1
    OBVIOUS
  <2> QED BY <1>3, <1>5, <2>1, <2>2 DEF Agrees
<1>6. CASE found = [ok |-> TRUE, batch |-> b] /\ Batched(c, order, k + 1)
  <2>0. \A i \in 1..k + 1 : i \in 1..k \/ i = k + 1
    OBVIOUS
  <2>1. found.ok /\ found.batch = b
    BY <1>6
  <2>2. k + 1 \in 1..k + 1 /\ shape[1] \in 1..(BatchModulus \div 2 - 1)
    BY <1>6 DEF shape, name
  <2>3. CASE shape = <<>> \/ (b # 0 /\ shape[1] # b)
    <3>1. next = Failed
      BY <1>1, <1>6, <2>1, <2>3
    <3> QED BY <3>1 DEF Agrees, Failed
  <2>4. CASE shape # <<>> /\ b # 0 /\ shape[1] = b
    <3>1. next = found
      BY <1>1, <1>6, <2>1, <2>4
    <3> QED BY <1>3, <1>6, <2>0, <2>1, <2>4, <3>1 DEF Agrees, shape, name
  <2>5. CASE shape # <<>> /\ b = 0
    <3>1. shape[1] % BatchModulus = shape[1]
      <4>1. BatchModulus \in Nat /\ BatchModulus \div 2 \in Nat /\ BatchModulus \div 2 <= BatchModulus
        BY RequestAssumption
      <4>2. PICK d \in Nat : d = shape[1] /\ d < BatchModulus
        BY <2>2, <4>1
      <4>3. d % BatchModulus = d
        BY <4>1, <4>2
      <4> QED BY <4>2, <4>3
    <3>2. next = [found EXCEPT !.batch = shape[1]]
      BY <1>1, <1>6, <2>1, <2>5, <3>1
    <3>3. next = [ok |-> TRUE, batch |-> shape[1]]
      BY <1>6, <3>2
    <3>4. \A i \in 1..k : ~Batched(c, order, i)
      BY <1>3, <2>1, <2>5
    <3>5. next.ok /\ next.batch = shape[1]
      BY <3>3
    <3> QED BY <2>0, <3>3, <3>4, <3>5 DEF Agrees, shape, name
  <2> QED BY <2>3, <2>4, <2>5
<1> QED BY <1>2, <1>4, <1>5, <1>6

(* Sizes that a batch size can hold agree when Normalize succeeds.         *)
LEMMA BatchSizeAgrees ==
  ASSUME NEW c, NEW shapes, NEW order, NEW n \in Nat, DOMAIN order = 1..n, c.batch # 0,
         \A i \in 1..n : Batched(c, order, i) =>
            shapes[order[i]][1] \in 1..(BatchModulus \div 2 - 1)
  PROVE  Agrees(c, shapes, order, n, BatchSize(c, shapes, order))
<1>1. PICK g : g = CHOOSE h : Recurs(c, shapes, order, n, h)
  OBVIOUS
<1>2. Recurs(c, shapes, order, n, g)
  BY <1>1, RecursExists
<1>3. /\ g[{}] = NoneSeen
      /\ \A s \in SUBSET (1..n) : s # {} =>
           g[s] = Visit(c, shapes, order, g[s \ {Max(s)}], Max(s))
  BY <1>2 DEF Recurs
<1> DEFINE T == {k \in Nat : k <= n => Agrees(c, shapes, order, k, g[1..k])}
<1>4. 0 \in T
  <2>1. 1..0 = {}
    OBVIOUS
  <2>2. Agrees(c, shapes, order, 0, NoneSeen)
    BY <2>1 DEF Agrees, NoneSeen
  <2> QED BY <1>3, <2>1, <2>2
<1>5. ASSUME NEW k \in T PROVE k + 1 \in T
  <2> SUFFICES ASSUME k + 1 <= n PROVE Agrees(c, shapes, order, k + 1, g[1..k + 1])
    OBVIOUS
  <2>1. k \in Nat /\ Agrees(c, shapes, order, k, g[1..k])
    OBVIOUS
  <2>2. PICK s \in SUBSET (1..n) : s = 1..k + 1
    BY <2>1
  <2>3. k + 1 \in s /\ s \in SUBSET (1..k + 1) /\ s # {} /\ s \ {k + 1} = 1..k
    BY <2>1, <2>2
  <2>4. Max(s) = k + 1
    BY <2>1, <2>3, LastIsMax
  <2>5. g[s] = Visit(c, shapes, order, g[1..k], k + 1)
    BY <1>3, <2>3, <2>4
  <2>6. \A i \in 1..k + 1 : Batched(c, order, i) =>
          shapes[order[i]][1] \in 1..(BatchModulus \div 2 - 1)
    BY <2>1, <2>2
  <2> QED BY <2>1, <2>2, <2>5, <2>6, AgreesNext
<1>6. \A k \in T : k + 1 \in T
  BY <1>5
<1>7. T \subseteq Nat
  OBVIOUS
<1> HIDE DEF T
<1>8. n \in T
  BY <1>4, <1>6, <1>7, NatSet
<1>9. Agrees(c, shapes, order, n, g[1..n])
  BY <1>8 DEF T
<1> QED BY <1>1, <1>9, BatchSizeUnfolds

(* Normalize visits every input.                                           *)
LEMMA OrderCovers ==
  ASSUME NEW S, IsFiniteSet(S), NEW order \in SetToSeqs(S)
  PROVE  /\ Cardinality(S) \in Nat /\ DOMAIN order = 1..Cardinality(S)
         /\ \A x \in S : \E i \in 1..Cardinality(S) : order[i] = x
         /\ \A i \in 1..Cardinality(S) : order[i] \in S
<1>1. PICK n \in Nat : n = Cardinality(S)
  BY FS_CardinalityType
<1>2. order \in [1..n -> S] /\ \A i, j \in 1..n : i # j => order[i] # order[j]
  BY <1>1 DEF SetToSeqs
<1>3. order \in Injection(1..n, S)
  BY <1>2 DEF Injection, IsInjective
<1>4. Cardinality(1..n) = n
  BY FS_Interval
<1>5. order \in Surjection(1..n, S)
  BY <1>1, <1>3, <1>4, FS_Injection
<1> QED BY <1>1, <1>2, <1>5 DEF Surjection

(* The inputs of a request in the core agree on the batch size.            *)
LEMMA AgreesFollows == ObjectsInv /\ PreparedInv => BatchInRangeAgrees
<1> SUFFICES ASSUME ObjectsInv, PreparedInv, owner = "core", InRange, NEW d \in FirstDims
             PROVE  d = request.batch /\ d <= model.config.batch
  BY DEF BatchInRangeAgrees, BatchAgrees
<1>1. PICK c, r : c = model.config /\ r = request
  OBVIOUS
<1>2. NormalRequest(c, r) /\ IsFiniteSet(DOMAIN r.original)
  BY <1>1 DEF PreparedInv, ObjectsInv
<1> DEFINE S == DOMAIN r.original
           n == Cardinality(S)
           shapes == [name \in S |-> r.original[name].original]
<1>3. PICK order \in SetToSeqs(S) : /\ Normalize(c, r, order).ok
                                    /\ r.batch = Normalize(c, r, order).batch
  BY <1>2 DEF NormalRequest
<1> DEFINE size == BatchSize(c, shapes, order)
<1>4. size.ok /\ r.batch = size.batch /\ ToInt(size.batch) <= c.batch
  BY <1>3 DEF Normalize, Failed
<1>5. c.batch # 0
  BY <1>1 DEF FirstDims
<1>6. Plain(r) = {name \in S : ~IsShapeTensor(c, name)}
  BY <1>2 DEF Plain, NormalRequest, IsNormal
<1>7. FirstDims = {shapes[name][1] : name \in {m \in S : ~IsShapeTensor(c, m)}}
  BY <1>1, <1>5, <1>6 DEF FirstDims, Plain
<1>8. /\ n \in Nat /\ DOMAIN order = 1..n
      /\ \A x \in S : \E i \in 1..n : order[i] = x
      /\ \A i \in 1..n : order[i] \in S
  BY <1>2, <1>3, OrderCovers
<1>9. PICK j \in 1..n : ~IsShapeTensor(c, order[j]) /\ d = shapes[order[j]][1]
  BY <1>7, <1>8
<1> HIDE DEF shapes, size, S, n
<1>10. \A i \in 1..n : Batched(c, order, i) =>
         shapes[order[i]][1] \in 1..(BatchModulus \div 2 - 1)
  BY <1>7, <1>8 DEF InRange, Batched
<1>11. Agrees(c, shapes, order, n, size)
  BY <1>5, <1>8, <1>10, BatchSizeAgrees DEF size
<1>12. d = size.batch
  BY <1>4, <1>9, <1>11 DEF Agrees, Batched
<1>13. ToInt(d) = d
  <2>1. d \in 1..(BatchModulus \div 2 - 1) /\ BatchModulus \div 2 \in Nat
    BY RequestAssumption DEF InRange
  <2> QED BY <2>1 DEF ToInt
<1> QED BY <1>1, <1>4, <1>12, <1>13

(* The invariant of the request objects.                                   *)
THEOREM RequestsInvariant == ExecutionSpec => []QInv
<1>1. ExecutionInit => QInv
  BY QInit DEF ExecutionInit
<1>2. QInv /\ [ExecutionNext]_<<vars, contextVars>> => QInv'
  BY ExecutionStep, QNext
<1> QED BY <1>1, <1>2, PTL DEF ExecutionSpec

(* While the core has a request, what was computed when it was normalized, *)
(* be it in an earlier inference, is what the client's inputs and outputs  *)
(* say now, and the backend sees these inputs and the overrides of this    *)
(* inference (PrepareForInference, Normalize, the setters of the C API).   *)
THEOREM RequestsPreparedFresh == ExecutionSpec => []PreparedFresh
<1>1. QInv => PreparedFresh
  BY FreshFollows DEF QInv
<1> QED BY <1>1, RequestsInvariant, PTL

(* The inputs of a request in the core that have a batch dimension agree   *)
(* on the batch size, which the model supports, unless one of them is 0 or *)
(* more than the int32_t can hold to which Normalize compares it; and the  *)
(* priority is a level of the queue (Normalize, SetPriority).              *)
THEOREM RequestsFitBatch == ExecutionSpec => [](BatchInRangeAgrees /\ PriorityIsLevel)
<1>1. QInv => BatchInRangeAgrees /\ PriorityIsLevel
  BY AgreesFollows DEF QInv
<1> QED BY <1>1, RequestsInvariant, PTL

(* A buffer that the client's allocator gave belongs to one output of a    *)
(* response that is not yet deleted, or has been released once, however    *)
(* often an output asked and got the null pointer before                   *)
(* (AllocateDataBuffer, ReleaseDataBuffer).                                *)
THEOREM BuffersComeBack == ExecutionSpec => []BuffersReturned
<1>1. QInv => BuffersReturned
  BY DEF QInv, BuffersInv
<1> QED BY <1>1, RequestsInvariant, PTL
=============================================================================
