---------------------------- MODULE RateLimiter ----------------------------
(***************************************************************************)
(* The rate limiter (src/src/core/rate_limiter.{h,cc}): it hands model     *)
(* instances to requests, one request per instance, within the resource    *)
(* limits, lowest scaled priority first.                                   *)
(*                                                                         *)
(* Actors are threads: the caller of RequestModelInstance, the executor of *)
(* a request that later calls ModelInstance::Release, and the manager that *)
(* calls AddModel and RemoveModel.  A priority queue is the set of its     *)
(* elements: its top is any element of least scaled priority.  Of the      *)
(* mutexes the model keeps those that are held over several steps:         *)
(* model_contexts_mtx_ (ctxMtx), a context's request_queue_mtx_ and        *)
(* avbl_instances_mtx_, which its loops hold together (qMtx), and an       *)
(* instance's state_mtx_ (sMtx).                                           *)
(***************************************************************************)
EXTENDS Integers, Sequences, FiniteSets, FiniteSetsExt

CONSTANTS
  Requests,
  Word,            \* resource counters are modulo Word (uint32_t in the code)
  Settings         \* name -> models, requests and bounds to explore

VARIABLE setting   \* which one: fixed at the start

Setting == Settings[setting]
InstancesOf == Setting.instances  \* model -> its instances, by index
Models == DOMAIN InstancesOf
Priority == Setting.priority      \* instance -> rate_limiter_config_.priority()
Need == Setting.need              \* instance -> resource -> count, 0 if not named
Resources == Setting.resources    \* resource keys: (device, name) pairs
Wants == Setting.wants            \* request -> [model, index], -1 = any instance
Asking == DOMAIN Wants            \* bound: the requests that are made
IgnoreResources == Setting.ignore \* ignore_resources_and_priority_
Preloaded == Setting.preloaded    \* models added, with limits, before the start
MayRemove == Setting.mayRemove    \* bound: models that may be removed, once

Instances == UNION {{InstancesOf[m][k] : k \in 1..Len(InstancesOf[m])} :
                      m \in Models}
ModelOf(i) == CHOOSE m \in Models :
                \E k \in 1..Len(InstancesOf[m]) : InstancesOf[m][k] = i
Own(m) == {i \in Instances : ModelOf(i) = m}

ASSUME RateLimiterAssumption ==
  /\ IsFiniteSet(Requests) /\ 0 \notin Requests /\ Word \in Nat \ {0}
  /\ \A n \in DOMAIN Settings :
       LET s == Settings[n]
           models == DOMAIN s.instances
           insts == DOMAIN s.priority
       IN  /\ models # {} /\ IsFiniteSet(insts)
           /\ \A m \in models :    \* ValidateInstanceGroup: count() >= 1
                s.instances[m] \in Seq(insts) /\ s.instances[m] # << >>
           /\ \A m, o \in models : \A k \in 1..Len(s.instances[m]),
                  l \in 1..Len(s.instances[o]) :
                s.instances[m][k] = s.instances[o][l] => m = o /\ k = l
           /\ 0 \notin insts /\ s.priority \in [insts -> Nat]
           /\ s.need \in [insts -> [s.resources -> 0..Word - 1]]
           /\ DOMAIN s.wants \subseteq Requests
           /\ \A r \in DOMAIN s.wants : s.wants[r] \in
                [model : models, index : Nat \cup {-1}]
           /\ s.ignore \in BOOLEAN
           /\ s.preloaded \subseteq models /\ s.mayRemove \subseteq models

VARIABLES
  ctx,         \* model -> is its context in model_contexts_
  removing,    \* model -> removal_in_progress_
  generic,     \* model -> generic_request_queue_
  specific,    \* instance -> its queue of specific_request_queues_
  avbl,        \* the instances in the avbl_instances_ of their contexts
  state, sched, execCount,  \* instance -> state_, OnSchedule_, exec_count_
  staged,      \* staged_instances_
  registered,  \* the instances in model_resources_
  limit,       \* max_resources_
  allocated,   \* allocated_resources_
  ctxMtx, qMtx, sMtx,
  pc,          \* actor -> where it is
  backup,      \* actor -> local backup_queue of its loop
  on,          \* request -> the instance it was given, or 0
  target       \* RemoveModel's model and instance index

queueVars == <<generic, specific, avbl>>
instVars == <<state, sched, execCount>>
resVars == <<registered, limit, allocated>>
vars == <<setting, ctx, removing, queueVars, instVars, staged, resVars, ctxMtx, qMtx,
          sMtx, pc, backup, on, target>>

Free == << >>
Caller(r) == <<"caller", r>>
Executor(r) == <<"executor", r>>
Manager == <<"manager">>
Actors == {Caller(r) : r \in Requests} \cup {Executor(r) : r \in Requests}
            \cup {Manager}

At(p, where) == pc[p] = where
Goto(p, where) == pc' = [pc EXCEPT ![p] = where]

\* UpdateResourceLimits: the largest need of any registered instance.
Limits(set) == [x \in Resources |->
                  Max({Need[i][x] : i \in set} \cup {0})]

LoadedInstances == UNION {Own(m) : m \in Preloaded}

Init ==
  /\ setting \in DOMAIN Settings
  /\ ctx = [m \in Models |-> IF m \in Preloaded THEN "present" ELSE "none"]
  /\ removing = [m \in Models |-> FALSE]
  /\ generic = [m \in Models |-> << >>]
  /\ specific = [i \in Instances |-> << >>]
  /\ avbl = LoadedInstances
  /\ state = [i \in Instances |-> "AVAILABLE"]
  /\ sched = [i \in Instances |-> 0]
  /\ execCount = [i \in Instances |-> 0]
  /\ staged = {}
  /\ registered = LoadedInstances
  /\ limit = Limits(LoadedInstances)
  /\ allocated = [x \in Resources |-> 0]
  /\ ctxMtx = Free /\ qMtx = [m \in Models |-> Free]
  /\ sMtx = [i \in Instances |-> Free]
  /\ pc = [p \in Actors |-> IF p[1] = "caller" THEN "new" ELSE "idle"]
  /\ backup = [p \in Actors |-> {}]
  /\ on = [r \in Requests |-> 0]
  /\ target = [model |-> CHOOSE m \in Models : TRUE, index |-> 1]

ScaledPriority(i) == execCount[i] * Priority[i]

\* The elements priority_queue::top may return.
Top(set) == {i \in set : \A j \in set : ScaledPriority(i) <= ScaledPriority(j)}

\* The model, and the instance, an actor works on.
ModelOfActor(p) == IF p = Manager THEN target.model ELSE Wants[p[2]].model
Instance(p) == IF p = Manager THEN InstancesOf[target.model][target.index]
               ELSE on[p[2]]

\* ContainsPendingRequests
Pending(i) == generic[ModelOf(i)] # << >> \/ specific[i] # << >>

(***************************************************************************)
(* RequestModelInstance, with model_contexts_mtx_ held to its end.         *)
(***************************************************************************)
NoModel(r) ==
  /\ At(Caller(r), "new") /\ ctxMtx = Free
  /\ ctx[Wants[r].model] # "present" \/ removing[Wants[r].model]
  /\ Goto(Caller(r), "refused")
  /\ UNCHANGED <<ctx, removing, queueVars, instVars, staged, resVars, ctxMtx,
                 qMtx, sMtx, backup, on, target>>

\* EnqueueModelInstanceRequest refuses an index out of range, but its status
\* is not looked at.
RequestModelInstance(r) ==
  LET m == Wants[r].model
      index == Wants[r].index
  IN  /\ At(Caller(r), "new") /\ ctxMtx = Free
      /\ ctx[m] = "present" /\ ~removing[m] /\ qMtx[m] = Free
      /\ \/ /\ index = -1
            /\ generic' = [generic EXCEPT ![m] = Append(@, r)]
            /\ UNCHANGED specific
         \/ /\ index \in 0..Len(InstancesOf[m]) - 1
            /\ specific' = [specific EXCEPT ![InstancesOf[m][index + 1]] =
                              Append(@, r)]
            /\ UNCHANGED generic
         \/ /\ index >= Len(InstancesOf[m])
            /\ UNCHANGED <<generic, specific>>
      /\ ctxMtx' = Caller(r)
      /\ Goto(Caller(r), "stage")
      /\ UNCHANGED <<ctx, removing, avbl, instVars, staged, resVars, qMtx,
                     sMtx, backup, on, target>>

RequestReturns(r) ==
  /\ At(Caller(r), "staged")
  /\ ctxMtx' = Free
  /\ Goto(Caller(r), "accepted")
  /\ UNCHANGED <<ctx, removing, queueVars, instVars, staged, resVars, qMtx,
                 sMtx, backup, on, target>>

(***************************************************************************)
(* StageInstanceIfAvailable, and AllocateInstanceIfAvailable when the      *)
(* resources are ignored: offer every available instance a request.        *)
(***************************************************************************)
EnterLoop(p) ==
  /\ At(p, "stage") /\ qMtx[ModelOfActor(p)] = Free
  /\ qMtx' = [qMtx EXCEPT ![ModelOfActor(p)] = p]
  /\ backup' = [backup EXCEPT ![p] = {}]
  /\ Goto(p, "loop")
  /\ UNCHANGED <<ctx, removing, queueVars, instVars, staged, resVars, ctxMtx,
                 sMtx, on, target>>

Unexamined(p) == (avbl \cap Own(ModelOfActor(p))) \ backup[p]

\* The first request for instance i leaves its queue.
PopRequest(i) ==
  IF specific[i] # << >>
    THEN /\ specific' = [specific EXCEPT ![i] = Tail(@)]
         /\ UNCHANGED generic
    ELSE /\ generic' = [generic EXCEPT ![ModelOf(i)] = Tail(@)]
         /\ UNCHANGED specific
FirstRequest(i) == Head(specific[i] \o generic[ModelOf(i)])

\* An instance is allocated directly, not staged.
SkipsStaging == IgnoreResources

\* ModelInstance::Stage, which then calls OnStage; or DirectAllocate, which
\* then calls the request's callback.  Either fails, and the request is gone,
\* if the instance is not available.
OfferInstance(p) ==
  /\ At(p, "loop")
  /\ \E i \in Top(Unexamined(p)) :
       /\ Pending(i) /\ sMtx[i] = Free
       /\ LET r == FirstRequest(i)
              ok == state[i] = "AVAILABLE"
              direct == ok /\ SkipsStaging
              stage == ok /\ ~SkipsStaging
          IN  /\ PopRequest(i)
              /\ avbl' = avbl \ {i}
              /\ sched' = [sched EXCEPT ![i] = IF ok THEN r ELSE @]
              /\ state' = [state EXCEPT ![i] = IF direct THEN "ALLOCATED"
                                              ELSE IF stage THEN "STAGED" ELSE @]
              /\ execCount' = [execCount EXCEPT ![i] = IF direct THEN @ + 1 ELSE @]
              /\ staged' = IF stage THEN staged \cup {i} ELSE staged
              /\ on' = [on EXCEPT ![r] = IF direct THEN i ELSE @]
              /\ pc' = [pc EXCEPT ![Executor(r)] = IF direct THEN "running" ELSE @,
                                  ![p] = IF stage THEN "onstage" ELSE @]
  /\ UNCHANGED <<ctx, removing, resVars, ctxMtx, qMtx, sMtx, backup, target>>

SkipInstance(p) ==
  /\ At(p, "loop")
  /\ \E i \in Top(Unexamined(p)) :
       /\ ~Pending(i)
       /\ backup' = [backup EXCEPT ![p] = @ \cup {i}]
  /\ UNCHANGED <<ctx, removing, queueVars, instVars, staged, resVars, ctxMtx,
                 qMtx, sMtx, pc, on, target>>

\* The backup queue becomes avbl_instances_ again.
LeaveLoop(p) ==
  /\ At(p, "loop") /\ Unexamined(p) = {}
  /\ qMtx' = [qMtx EXCEPT ![ModelOfActor(p)] = Free]
  /\ backup' = [backup EXCEPT ![p] = {}]
  /\ Goto(p, IF p[1] = "caller" THEN "staged" ELSE "attempt")
  /\ UNCHANGED <<ctx, removing, queueVars, instVars, staged, resVars, ctxMtx,
                 sMtx, on, target>>

(***************************************************************************)
(* AttemptAllocation: the top of staged_instances_ is allocated if its     *)
(* resources are there.  Called by OnStage and at the end of OnRelease.    *)
(***************************************************************************)
Fits(i) ==
  /\ i \in registered
  /\ \A x \in Resources :
       Need[i][x] > 0 => (allocated[x] + Need[i][x]) % Word <= limit[x]

Attempted(p) == IF At(p, "onstage") THEN "loop" ELSE "check"

NothingFits(p) ==
  /\ pc[p] \in {"onstage", "attempt"}
  /\ staged = {} \/ \E i \in Top(staged) : ~Fits(i)
  /\ Goto(p, Attempted(p))
  /\ UNCHANGED <<ctx, removing, queueVars, instVars, staged, resVars, ctxMtx,
                 qMtx, sMtx, backup, on, target>>

\* AllocateResources, then ModelInstance::Allocate with the request's callback.
Allocate(p) ==
  /\ pc[p] \in {"onstage", "attempt"}
  /\ \E i \in Top(staged) :
       /\ Fits(i) /\ sMtx[i] = Free
       /\ allocated' = [x \in Resources |-> (allocated[x] + Need[i][x]) % Word]
       /\ staged' = staged \ {i}
       /\ state' = [state EXCEPT ![i] = "ALLOCATED"]
       /\ execCount' = [execCount EXCEPT ![i] = @ + 1]
       /\ on' = [on EXCEPT ![sched[i]] = i]
       /\ pc' = [pc EXCEPT ![p] = Attempted(p),
                           ![Executor(sched[i])] = "running"]
  /\ UNCHANGED <<ctx, removing, queueVars, sched, registered, limit, ctxMtx,
                 qMtx, sMtx, backup, target>>

(***************************************************************************)
(* ModelInstance::Release, by the executor of the request: OnRelease, then *)
(* the check whether the instance is to be removed.                        *)
(***************************************************************************)
\* The context and the instance of the executor still exist.
Alive(p) == ctx[ModelOfActor(p)] = "present"

AddAvailableInstance(p) ==
  LET i == Instance(p)
  IN  /\ At(p, "running") /\ Alive(p)
      /\ qMtx[ModelOf(i)] = Free /\ sMtx[i] = Free
      /\ avbl' = avbl \cup {i}
      /\ state' = [state EXCEPT ![i] = "AVAILABLE"]
      /\ Goto(p, "resources")
      /\ UNCHANGED <<ctx, removing, generic, specific, sched, execCount,
                     staged, resVars, ctxMtx, qMtx, sMtx, backup, on, target>>

\* Slip: the resources are kept.
KeepResources(p) ==
  /\ At(p, "resources")
  /\ Goto(p, "pending")
  /\ UNCHANGED <<ctx, removing, queueVars, instVars, staged, resVars, ctxMtx,
                 qMtx, sMtx, backup, on, target>>
\* ReleaseResources finds nothing to release for an instance that
\* RemoveModelInstance has taken out meanwhile.
ReleaseResources(p) ==
  LET i == Instance(p)
  IN  /\ At(p, "resources")
      /\ allocated' = IF i \in registered
                      THEN [x \in Resources |->
                              (allocated[x] - Need[i][x]) % Word]
                      ELSE allocated
      /\ Goto(p, "pending")
      /\ UNCHANGED <<ctx, removing, queueVars, instVars, staged, registered,
                     limit, ctxMtx, qMtx, sMtx, backup, on, target>>

\* Slips: only requests for this very instance are looked for; there is no
\* attempt to allocate when nothing is pending for this model.
LookSpecific(p) ==
  /\ At(p, "pending") /\ Alive(p)
  /\ qMtx[ModelOfActor(p)] = Free
  /\ Goto(p, IF specific[Instance(p)] # << >> THEN "stage" ELSE "attempt")
  /\ UNCHANGED <<ctx, removing, queueVars, instVars, staged, resVars, ctxMtx,
                 qMtx, sMtx, backup, on, target>>
LookNoAttempt(p) ==
  /\ At(p, "pending") /\ Alive(p)
  /\ qMtx[ModelOfActor(p)] = Free
  /\ Goto(p, IF Pending(Instance(p)) THEN "stage" ELSE "check")
  /\ UNCHANGED <<ctx, removing, queueVars, instVars, staged, resVars, ctxMtx,
                 qMtx, sMtx, backup, on, target>>
LookForRequests(p) ==
  /\ At(p, "pending") /\ Alive(p)
  /\ qMtx[ModelOfActor(p)] = Free
  /\ Goto(p, IF Pending(Instance(p)) THEN "stage" ELSE "attempt")
  /\ UNCHANGED <<ctx, removing, queueVars, instVars, staged, resVars, ctxMtx,
                 qMtx, sMtx, backup, on, target>>

\* The context was erased under the executor: what it does next is undefined,
\* and the model stops the thread.
Dangle(p) ==
  /\ pc[p] \in {"running", "pending", "stage", "check"} /\ ~Alive(p)
  /\ Goto(p, "dangling")
  /\ UNCHANGED <<ctx, removing, queueVars, instVars, staged, resVars, ctxMtx,
                 qMtx, sMtx, backup, on, target>>

(***************************************************************************)
(* The removal check, at the end of Release and in RequestRemoval: with    *)
(* state_mtx_ held it asks the context for pending requests, which needs   *)
(* request_queue_mtx_.                                                     *)
(***************************************************************************)
Checked(p) == IF p = Manager THEN "wait" ELSE "done"

BeginCheck(p) ==
  LET i == Instance(p)
      idle == state[i] = "AVAILABLE" /\ removing[ModelOf(i)]
  IN  /\ At(p, "check") /\ Alive(p) /\ sMtx[i] = Free
      /\ sMtx' = IF idle THEN [sMtx EXCEPT ![i] = p] ELSE sMtx
      /\ Goto(p, IF idle THEN "decide" ELSE Checked(p))
      /\ UNCHANGED <<ctx, removing, queueVars, instVars, staged, resVars,
                     ctxMtx, qMtx, backup, on, target>>

Decide(p) ==
  LET i == Instance(p)
  IN  /\ At(p, "decide") /\ qMtx[ModelOf(i)] = Free
      /\ state' = IF Pending(i) THEN state
                  ELSE [state EXCEPT ![i] = "REMOVED"]
      /\ sMtx' = [sMtx EXCEPT ![i] = Free]
      /\ Goto(p, Checked(p))
      /\ UNCHANGED <<ctx, removing, queueVars, sched, execCount, staged,
                     resVars, ctxMtx, qMtx, backup, on, target>>

(***************************************************************************)
(* AddModel and RemoveModel.                                               *)
(***************************************************************************)
AddModel(m) ==
  /\ At(Manager, "idle") /\ ctx[m] = "none" /\ ctxMtx = Free
  /\ ctx' = [ctx EXCEPT ![m] = "present"]
  /\ avbl' = avbl \cup Own(m)
  /\ registered' = registered \cup Own(m)
  /\ Goto(Manager, "limits")
  /\ UNCHANGED <<removing, generic, specific, instVars, staged, limit,
                 allocated, ctxMtx, qMtx, sMtx, backup, on, target>>

UpdateResourceLimits ==
  /\ At(Manager, "limits")
  /\ limit' = Limits(registered)
  /\ Goto(Manager, "idle")
  /\ UNCHANGED <<ctx, removing, queueVars, instVars, staged, registered,
                 allocated, ctxMtx, qMtx, sMtx, backup, on, target>>

RemoveModel(m) ==
  /\ At(Manager, "idle") /\ ctx[m] = "present" /\ m \in MayRemove
  /\ ctxMtx = Free
  /\ ctxMtx' = Manager
  /\ removing' = [removing EXCEPT ![m] = TRUE]
  /\ target' = [model |-> m, index |-> 1]
  /\ Goto(Manager, "check")
  /\ UNCHANGED <<ctx, queueVars, instVars, staged, resVars, qMtx, sMtx,
                 backup, on>>

\* WaitForRemoval returns, RemoveModelInstance, and on to the next instance.
InstanceRemoved ==
  /\ At(Manager, "wait") /\ sMtx[Instance(Manager)] = Free
  /\ state[Instance(Manager)] = "REMOVED"
  /\ registered' = registered \ {Instance(Manager)}
  /\ LET last == target.index = Len(InstancesOf[target.model])
     IN  /\ target' = IF last THEN target
                      ELSE [target EXCEPT !.index = @ + 1]
         /\ Goto(Manager, IF last THEN "erase" ELSE "check")
  /\ UNCHANGED <<ctx, removing, queueVars, instVars, staged, limit, allocated,
                 ctxMtx, qMtx, sMtx, backup, on>>

EraseModel ==
  /\ At(Manager, "erase")
  /\ ctx' = [ctx EXCEPT ![target.model] = "removed"]
  /\ avbl' = avbl \ Own(target.model)
  /\ ctxMtx' = Free
  /\ Goto(Manager, "limits")
  /\ UNCHANGED <<removing, generic, specific, instVars, staged, resVars, qMtx,
                 sMtx, backup, on, target>>

----------------------------------------------------------------------------
LoopStep(p) ==
  \/ EnterLoop(p) \/ OfferInstance(p) \/ SkipInstance(p) \/ LeaveLoop(p)
  \/ NothingFits(p) \/ Allocate(p)

CallerStep(r) ==
  RequestModelInstance(r) \/ RequestReturns(r) \/ LoopStep(Caller(r))

ExecutorStep(p) ==
  \/ AddAvailableInstance(p) \/ ReleaseResources(p) \/ LookForRequests(p)
  \/ LoopStep(p) \/ BeginCheck(p) \/ Decide(p) \/ Dangle(p)

ManagerStep ==
  \/ UpdateResourceLimits
  \/ BeginCheck(Manager) \/ Decide(Manager)
  \/ InstanceRemoved \/ EraseModel

Next ==
  /\ \/ \E r \in Asking : NoModel(r) \/ CallerStep(r)
     \/ \E r \in Asking : ExecutorStep(Executor(r))
     \/ \E m \in Models : AddModel(m) \/ RemoveModel(m)
     \/ ManagerStep
  /\ UNCHANGED setting

(***************************************************************************)
(* Fairness: every thread that can go on does, every mutex is eventually   *)
(* granted, and an executor eventually releases its instance.  Nobody is   *)
(* obliged to send a request, or to add or remove a model.                 *)
(***************************************************************************)
KeepsSetting(A) == A /\ UNCHANGED setting

Fairness ==
  /\ \A r \in Requests :
       /\ SF_vars(KeepsSetting(r \in Asking
                    /\ (RequestReturns(r) \/ LoopStep(Caller(r)))))
       /\ SF_vars(KeepsSetting(r \in Asking /\ ExecutorStep(Executor(r))))
  /\ SF_vars(KeepsSetting(ManagerStep))

Spec == Init /\ [][Next]_vars
FairSpec == Spec /\ Fairness

----------------------------------------------------------------------------
PCs == {"new", "refused", "accepted", "stage", "loop", "onstage", "staged",
        "idle", "running", "resources", "pending", "attempt", "check",
        "decide", "done", "dangling", "limits", "wait", "erase"}

RLTypeOK ==
  /\ setting \in DOMAIN Settings
  /\ ctx \in [Models -> {"none", "present", "removed"}]
  /\ removing \in [Models -> BOOLEAN]
  /\ generic \in [Models -> Seq(Requests)]
  /\ specific \in [Instances -> Seq(Requests)]
  /\ avbl \subseteq Instances /\ staged \subseteq Instances
  /\ state \in [Instances -> {"AVAILABLE", "STAGED", "ALLOCATED", "REMOVED"}]
  /\ sched \in [Instances -> Requests \cup {0}]
  /\ execCount \in [Instances -> Nat]
  /\ registered \subseteq Instances
  /\ limit \in [Resources -> Nat] /\ allocated \in [Resources -> 0..Word - 1]
  /\ ctxMtx \in Actors \cup {Free}
  /\ qMtx \in [Models -> Actors \cup {Free}]
  /\ sMtx \in [Instances -> Actors \cup {Free}]
  /\ pc \in [Actors -> PCs]
  /\ backup \in [Actors -> SUBSET Instances]
  /\ on \in [Requests -> Instances \cup {0}]
  /\ target \in [model : Models, index : Nat \ {0}]

Allocated == {i \in Instances : state[i] = "ALLOCATED"}
Releasing == {r \in Requests : pc[Executor(r)] = "resources"}

\* What they have of resource x: the sum of their needs.
Total(f) == MapThenSumSet(LAMBDA s : f[s], DOMAIN f)
InUse(x) == Total([i \in Allocated |-> Need[i][x]])
InReturn(x) == Total([r \in Releasing |-> Need[on[r]][x]])

\* No model is added or removed while requests are made.
Settled == Preloaded = Models /\ MayRemove = {}

\* allocated_resources_ is what the allocated instances need, plus what is
\* about to be returned by Release calls that have already made their
\* instance available again.
ResourcesExact ==
  Settled /\ ~IgnoreResources =>
    \A x \in Resources : allocated[x] = InUse(x) + InReturn(x)

\* "Depending upon the resource availability ..." (rate_limiter.h): instances
\* that execute at the same time never need more than the limit together,
\* although instances are returned to the pool before their resources are.
\* The limit falls when a model is erased: what then executes may exceed it.
WithinLimits ==
  ~IgnoreResources /\ (\A m \in Models : ctx[m] # "removed") =>
    \A x \in Resources : InUse(x) <= limit[x]

\* The accounts of the resources are exact and the limits are kept.
ResourcesSound == RLTypeOK /\ ResourcesExact /\ WithinLimits

Queued(r) == {<<"generic", m>> : m \in {n \in Models :
                \E k \in 1..Len(generic[n]) : generic[n][k] = r}}
             \cup {<<"specific", i>> : i \in {j \in Instances :
                \E k \in 1..Len(specific[j]) : specific[j][k] = r}}
AssignedTo(r) == {i \in Instances : state[i] = "STAGED" /\ sched[i] = r}
Places(r) ==
  Cardinality(Queued(r)) + Cardinality(AssignedTo(r))
    + (IF pc[Executor(r)] = "idle" THEN 0 ELSE 1)
InOnePlace(r) ==
  Places(r) = IF pc[Caller(r)] \in {"new", "refused"} THEN 0 ELSE 1

\* Every request RequestModelInstance accepted, for an index that exists, is in
\* exactly one place: queued, assigned to a staged instance, or called back.
NoneLost ==
  \A r \in Asking :
    Wants[r].index < Len(InstancesOf[Wants[r].model]) => InOnePlace(r)

Quiet ==
  /\ \A r \in Requests :
       /\ pc[Caller(r)] \in {"new", "refused", "accepted"}
       /\ pc[Executor(r)] \in {"idle", "running", "done"}
  /\ pc[Manager] = "idle"

\* When no thread is inside the limiter, a staged instance waits only for one
\* that is executing: its Release will try again.  AttemptAllocation looks at
\* the top only, and only on a stage or a release, so a missed attempt would
\* leave the instance staged for good.
StagedWaitsForRelease == Settled /\ Quiet /\ staged # {} => Allocated # {}

\* When no thread is inside the limiter, no request waits for an instance that
\* is available: the request enqueued while an instance was being returned is
\* seen by one of the two threads.
NoMissedRequest ==
  Quiet => \A i \in avbl : state[i] = "AVAILABLE" => ~Pending(i)

\* RemoveModel erases a model only when all its requests were called back.
RemovedIsDrained ==
  \A m \in Models : ctx[m] = "removed" =>
    \A r \in Asking : Wants[r].model = m =>
      Queued(r) = {} /\ AssignedTo(r) = {} /\ pc[Executor(r)] # "running"

\* No request is lost, overlooked or left behind, whatever is returned,
\* removed or requested meanwhile.
RequestsSound ==
  NoneLost /\ StagedWaitsForRelease /\ NoMissedRequest /\ RemovedIsDrained

\* RequestRemoval and Release take state_mtx_ before request_queue_mtx_, the
\* staging loops the other way round: no two threads hold one and wait for the
\* other.
NoLockCycle ==
  ~ \E p, q \in Actors :
      /\ At(p, "decide") /\ qMtx[ModelOfActor(p)] = q
      /\ At(q, "loop") /\ Instance(p) \in Top(Unexamined(q))
      /\ Pending(Instance(p)) /\ sMtx[Instance(p)] = p

\* "In future, when the conditions are met, the callback will be invoked"
\* (rate_limiter.h): while no model comes or goes every accepted request is
\* called back and, as executors release their instances, completed.
Served ==
  \A r \in Requests : Settled /\ pc[Caller(r)] = "stage"
                          ~> pc[Executor(r)] = "done"
=============================================================================
