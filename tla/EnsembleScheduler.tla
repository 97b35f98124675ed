------------------------- MODULE EnsembleScheduler -------------------------
(***************************************************************************)
(* The ensemble scheduler (src/src/core/ensemble_scheduler.{h,cc}): it     *)
(* runs a request by sending requests to the models of the ensemble, each  *)
(* when its input tensors are there, and answers when nothing is in        *)
(* flight.  Requests share nothing but the models, so the module follows   *)
(* one request: its EnsembleContext, its Steps and its RequestTracker.     *)
(*                                                                         *)
(* An action is what a thread does with the context's mutex_ held.         *)
(* Several threads are in the context: the one that called Enqueue, and    *)
(* for each Step the one that runs its response callback.  A thread is     *)
(* named by its Step (<<index, number>>), or by Caller.                    *)
(***************************************************************************)
EXTENDS Integers, Sequences, FiniteSets, FiniteSetsExt, Functions

CONSTANTS
  Ensembles      \* name -> ensemble, request and faults to explore

VARIABLE config  \* which of them: fixed at the start

Ensemble == Ensembles[config]
Steps == 1..Len(Ensemble.steps)
In(s) == Ensemble.steps[s].in            \* range of input_to_tensor_
Out(s) == Ensemble.steps[s].out          \* range of output_to_tensor_
Inputs == Ensemble.inputs                \* of the ensemble, all in the request
Outputs == Ensemble.outputs
Requested == Ensemble.requested          \* ImmutableRequestedOutputs
Decoupled == Ensemble.decoupled          \* is_decoupled_
MaxResponses == Ensemble.maxResponses    \* bound: responses of one step
MayFail == Ensemble.faults               \* bound: what may go wrong
Tensors == Inputs \cup Outputs \cup UNION {In(s) \cup Out(s) : s \in Steps}

Faults == {"handle", "init", "refuse", "model", "alloc"}

ASSUME EnsembleAssumption ==
  \A n \in DOMAIN Ensembles :
    LET e == Ensembles[n]
    IN  /\ e.requested \subseteq e.outputs /\ e.requested # {}
        /\ e.decoupled \in BOOLEAN /\ e.faults \subseteq Faults
        /\ e.maxResponses \in Nat \ {0} /\ Len(e.steps) \in Nat
        /\ \A s \in 1..Len(e.steps) : e.steps[s].in # {}

VARIABLES
  status,     \* ensemble_status_: "ok" or "error"
  consumers,  \* tensor_to_step_, pruned: tensor -> steps that use it
  next,       \* tensor -> current_iteration_
  refs,       \* tensor -> iteration -> remaining_reference_count_
  inflight,   \* inflight_step_counter_
  tracked,    \* request_tracker_ # nullptr
  counter,    \* inflight_request_counter_ of the tracker
  step,       \* Step objects, by name
  ready       \* thread -> StepList that ScheduleSteps has yet to send
VARIABLES
  sent,       \* what the client was sent: "output", "error", "final"
  released    \* the request was given back to the client

ctx == <<status, consumers, next, refs, inflight, tracked, counter>>
vars == <<config, ctx, step, ready, sent, released>>

Caller == <<0, 0>>
Threads == DOMAIN ready

(***************************************************************************)
(* The constructor of EnsembleContext: steps whose outputs nobody asked    *)
(* for are pruned, by a traversal from the outputs that are ignored.       *)
(***************************************************************************)
Producers(t) == {s \in Steps : t \in Out(s)}

\* tensor_to_prev_step_[t]: for a tensor without a producer, an input of the
\* ensemble, operator[] yields the first step.
PrevStep(t) == IF Producers(t) = {} THEN 1 ELSE Min(Producers(t))

Consumers == [t \in Tensors |-> {s \in Steps : t \in In(s)}]

\* One turn of the loop: left counts the outputs of a step not ignored so far.
PruneRound(p) ==
  LET hits(s) == Cardinality({t \in p.ignored : PrevStep(t) = s})
      pruned == {s \in Steps : p.left[s] > 0 /\ hits(s) >= p.left[s]}
      users == [t \in Tensors |-> p.users[t] \ pruned]
  IN  [left |-> [s \in Steps |-> p.left[s] - hits(s)],
       users |-> users,
       ignored |-> {t \in UNION {In(s) : s \in pruned} : users[t] = {}}]

PrunedConsumers ==
  LET round[n \in 0..Len(Ensemble.steps) + 1] ==
        IF n = 0
        THEN [left |-> [s \in Steps |-> Cardinality(Out(s))],
              users |-> Consumers, ignored |-> Outputs \ Requested]
        ELSE PruneRound(round[n - 1])
  IN  round[Len(Ensemble.steps) + 1].users

\* outgoing_steps_count_: the steps that use t, and the response.
Outgoing(t) ==
  Cardinality(consumers[t]) + (IF t \in Requested THEN 1 ELSE 0)

NoIteration == [i \in {} |-> 0]

Init ==
  /\ config \in DOMAIN Ensembles
  /\ status \in {"ok"} \cup (IF "handle" \in MayFail THEN {"error"} ELSE {})
  /\ consumers = PrunedConsumers
  /\ next = [t \in Tensors |-> IF t \in Inputs /\ status = "ok" THEN 1 ELSE 0]
  /\ refs = [t \in Tensors |->
               IF next[t] = 1 THEN [i \in {0} |-> Outgoing(t)] ELSE NoIteration]
  /\ inflight = 0 /\ tracked = TRUE /\ counter = 1
  /\ step = [x \in {} |-> 0]
  /\ ready = [x \in {} |-> << >>]
  /\ sent = << >> /\ released = FALSE

(***************************************************************************)
(* RequestTracker::DecrementCounter: the last one releases the request.    *)
(***************************************************************************)
\* Slip: one decrement too few.
DecrementLate(n) ==
  /\ counter' = n - 1
  /\ released' = (released \/ n = 0)

Decrement(n) ==
  /\ counter' = n - 1
  /\ released' = (released \/ n = 1)

\* Slip: every thread that finds an error answers.
FinishEveryTime(st, n, out) ==
  IF st = "error"
  THEN sent' = Append(sent, "error") /\ tracked' = FALSE /\ Decrement(counter)
  ELSE /\ sent' = IF out THEN Append(sent, "output") ELSE sent
       /\ IF n = 0 THEN tracked' = FALSE /\ Decrement(counter)
          ELSE UNCHANGED <<tracked, counter, released>>

\* FinishEnsemble with status st, n steps in flight and possibly a response
\* (out).  Responds once: then request_tracker_ is reset.
FinishEnsemble(st, n, out) ==
  LET output == IF out THEN <<"output">> ELSE << >>
      last == CASE st = "error" -> <<"error">>
                [] st = "ok" /\ Decoupled -> output \o <<"final">>
                [] OTHER -> output
      ends == st = "error" \/ ~Decoupled \/ n = 0
  IN  IF ~tracked THEN UNCHANGED <<sent, tracked, counter, released>>
      ELSE IF ends
           THEN sent' = sent \o last /\ tracked' = FALSE /\ Decrement(counter)
           ELSE sent' = sent \o output /\ UNCHANGED <<tracked, counter, released>>

(***************************************************************************)
(* GetNextSteps, InitStep, CheckAndSetEnsembleOutput                       *)
(***************************************************************************)
Has(t, i) == i \in DOMAIN refs[t]

NextSteps(updated) ==
  {p \in Steps \X {u[2] : u \in updated} :
     /\ \E u \in updated : u[2] = p[2] /\ p[1] \in consumers[u[1]]
     /\ \A t \in In(p[1]) : Has(t, p[2])}

\* A tensor is erased with its last reference.
Uses(t, i, n, counts) ==
  IF n = 0 THEN counts
  ELSE IF counts[i] <= n THEN Restrict(counts, DOMAIN counts \ {i})
       ELSE [counts EXCEPT ![i] = @ - n]

\* The references after the Steps in starting and, if reply, the response have
\* taken their tensors of iteration i.
ReleaseRefs(starting, i, reply) ==
  [t \in Tensors |->
     IF ~Has(t, i) THEN refs[t]
     ELSE Uses(t, i, Cardinality({s \in starting : t \in In(s)})
                       + (IF reply /\ t \in Requested THEN 1 ELSE 0), refs[t])]

\* CheckAndSetEnsembleOutput: only tensors of the response at hand are looked
\* at; all requested outputs must be there in the same iteration.
OutputReady(updated) ==
  \E u \in updated : u[1] \in Requested /\ \A t \in Requested : Has(t, u[2])

Created(s) == Cardinality({x \in DOMAIN step : x[1] = s})

NewStep == [at |-> "ready", responses |-> 0, final |-> FALSE, failed |-> FALSE,
            updated |-> {}, held |-> FALSE]

\* The Steps are created in the order of their indices.
StepList(names) ==
  CHOOSE l \in [1..Cardinality(names) -> names] :
    \A i, j \in DOMAIN l : i < j => l[i][1] < l[j][1]

\* Goes to the ScheduleSteps loop of thread x with the new Steps.
Schedules(x, starting, after) ==
  LET names == {<<s, Created(s) + 1>> : s \in starting}
  IN  /\ step' = [n \in DOMAIN after \cup names |->
                    IF n \in names THEN NewStep ELSE after[n]]
      /\ ready' = [y \in Threads \cup {x} |-> IF y = x THEN StepList(names) ELSE ready[y]]

(***************************************************************************)
(* PrepareSteps on thread x, whose Step left the tensors updated, with n   *)
(* steps in flight after it.                                               *)
(***************************************************************************)
Fails(x, n, after) ==
  /\ status' = "error" /\ inflight' = n
  /\ FinishEnsemble("error", n, FALSE)
  /\ Schedules(x, {}, after)
  /\ UNCHANGED <<config, consumers, next, refs>>

Advances(x, updated, n, after) ==
  LET starting == {p[1] : p \in NextSteps(updated)}
      i == IF updated = {} THEN 0 ELSE (CHOOSE u \in updated : TRUE)[2]
      total == n + Cardinality(starting)
      checks == total = 0 \/ Decoupled
      reply == checks /\ OutputReady(updated)
      stuck == checks /\ ~reply /\ ~Decoupled
      bad == \/ stuck
             \/ reply /\ "alloc" \in MayFail
  IN  \/ /\ starting # {} /\ "init" \in MayFail /\ Fails(x, n, after)
      \/ /\ bad /\ status' = "error" /\ inflight' = total
         /\ FinishEnsemble("error", total, FALSE)
         /\ refs' = ReleaseRefs(starting, i, FALSE)
         /\ Schedules(x, {}, after)
         /\ UNCHANGED <<config, consumers, next>>
      \/ /\ ~stuck /\ inflight' = total
         /\ IF checks THEN FinishEnsemble("ok", total, reply)
            ELSE UNCHANGED <<sent, tracked, counter, released>>
         /\ refs' = ReleaseRefs(starting, i, reply)
         /\ Schedules(x, starting, after)
         /\ UNCHANGED <<config, status, consumers, next>>

\* EnsembleScheduler::Enqueue: the context is new, nobody else knows it.
Enqueue ==
  /\ Caller \notin Threads
  /\ IF status = "error" THEN Fails(Caller, 0, step)
     ELSE Advances(Caller, {<<t, 0>> : t \in {u \in Tensors : Has(u, 0)}}, 0, step)

\* Slip: every response is taken for the last of its Step.
OneLess(s) == inflight - 1

StillInFlight(s) == IF s.final THEN inflight - 1 ELSE inflight

PrepareSteps(x) ==
  LET s == step[x]
      n == StillInFlight(s)
      after == [step EXCEPT ![x].at = "scheduling", ![x].updated = {}]
  IN  /\ s.at = "proceed"
      /\ IF status = "error"
         THEN /\ Schedules(x, {}, after)
              /\ UNCHANGED <<config, ctx, sent, released>>
         ELSE IF s.failed THEN Fails(x, n, after)
         ELSE Advances(x, s.updated, n, after)

(***************************************************************************)
(* ScheduleSteps on thread x, one turn of its loop.                        *)
(***************************************************************************)
Pop(x) == ready' = [ready EXCEPT ![x] = Tail(@)]

\* InferAsync takes the request.
SendStep(x) ==
  /\ x \in Threads /\ ready[x] # << >> /\ status = "ok"
  /\ counter' = counter + 1
  /\ step' = [step EXCEPT ![Head(ready[x])].at = "running",
                          ![Head(ready[x])].held = TRUE]
  /\ Pop(x)
  /\ UNCHANGED <<config, status, consumers, next, refs, inflight, tracked, sent,
                 released>>

\* InferAsync refuses it: the loop ends, and the Steps left are destroyed.
RefuseStep(x) ==
  LET rest == Range(ready[x])
  IN  /\ x \in Threads /\ ready[x] # << >> /\ status = "ok"
      /\ "refuse" \in MayFail
      /\ status' = "error"
      /\ FinishEnsemble("error", inflight, FALSE)
      /\ step' = [y \in DOMAIN step |->
                    IF y \in rest THEN [step[y] EXCEPT !.at = "gone"] ELSE step[y]]
      /\ ready' = [ready EXCEPT ![x] = << >>]
      /\ UNCHANGED <<config, consumers, next, refs, inflight>>

\* The ensemble has failed meanwhile: the Step is not sent, and release() gives
\* up the only pointer to it.
AbandonStep(x) ==
  /\ x \in Threads /\ ready[x] # << >> /\ status = "error"
  /\ step' = [step EXCEPT ![Head(ready[x])].at = "abandoned"]
  /\ Pop(x)
  /\ UNCHANGED <<config, ctx, sent, released>>

\* The thread leaves the context; the final response destroys the Step.
Leave(x) ==
  /\ x \in Threads \ {Caller} /\ ready[x] = << >>
  /\ step[x].at = "scheduling"
  /\ step' = [step EXCEPT ![x].at = IF step[x].final THEN "gone" ELSE "running"]
  /\ UNCHANGED <<config, ctx, ready, sent, released>>

(***************************************************************************)
(* Callbacks: ResponseComplete stores the outputs, RequestComplete gives   *)
(* the internal request back.                                              *)
(***************************************************************************)
Ends(x, final) ==
  /\ step[x].at = "running" /\ ~step[x].final
  /\ ~Decoupled \/ step[x].responses + 1 = MaxResponses => final

ResponseComplete(x, final) ==
  LET out == Out(x[1])
  IN  /\ Ends(x, final)
      /\ next' = [t \in Tensors |-> IF t \in out THEN next[t] + 1 ELSE next[t]]
      /\ refs' = [t \in Tensors |->
                    IF t \in out
                    THEN [i \in DOMAIN refs[t] \cup {next[t]} |->
                            IF i = next[t] THEN Outgoing(t) ELSE refs[t][i]]
                    ELSE refs[t]]
      /\ step' = [step EXCEPT ![x].at = "proceed", ![x].final = final,
                              ![x].responses = @ + 1,
                              ![x].updated = {<<t, next[t]>> : t \in out}]
      /\ UNCHANGED <<config, status, consumers, inflight, tracked, counter,
                     ready, sent, released>>

\* A response that carries an error, or a final flag and nothing else.
EmptyResponse(x, failed) ==
  /\ Ends(x, TRUE)
  /\ IF failed THEN "model" \in MayFail ELSE Decoupled
  /\ step' = [step EXCEPT ![x].at = "proceed", ![x].final = TRUE,
                          ![x].failed = failed]
  /\ UNCHANGED <<config, ctx, ready, sent, released>>

RequestComplete(x) ==
  /\ step[x].held
  /\ step' = [step EXCEPT ![x].held = FALSE]
  /\ Decrement(counter)
  /\ UNCHANGED <<config, status, consumers, next, refs, inflight, tracked,
                 ready, sent>>

Thread(x) == SendStep(x) \/ RefuseStep(x) \/ AbandonStep(x) \/ Leave(x)

Model(x) ==
  \/ \E final \in BOOLEAN : ResponseComplete(x, final)
  \/ \E failed \in BOOLEAN : EmptyResponse(x, failed)

Next ==
  \/ Enqueue
  \/ \E x \in Threads : Thread(x)
  \/ \E x \in DOMAIN step : PrepareSteps(x) \/ Model(x) \/ RequestComplete(x)

Spec == Init /\ [][Next]_vars

\* Threads run, and the models answer and release what they were sent.
AllNames == {<<s, n>> : s \in 0..Max({Len(Ensembles[e].steps) : e \in DOMAIN Ensembles}),
                        n \in 0..3}
FairSpec ==
  /\ Spec /\ WF_vars(Enqueue)
  /\ \A x \in AllNames :
       /\ WF_vars(x \in Threads /\ Thread(x))
       /\ WF_vars(x \in DOMAIN step /\ PrepareSteps(x))
       /\ WF_vars(x \in DOMAIN step /\ Model(x))
       /\ WF_vars(x \in DOMAIN step /\ RequestComplete(x))

----------------------------------------------------------------------------
Final == {"error", "final"}
Answered == sent # << >> /\ (sent[Len(sent)] \in Final \/ ~Decoupled)
Alive(x) == step[x].at \in {"running", "proceed", "scheduling"}

\* The client is answered once: FinishEnsemble is reached by several threads
\* and on several paths, and nothing follows the response that ends the
\* request; the request is given back after that, when every model has given
\* back its own, and until then the tracker that their callbacks use exists.
AnsweredOnce ==
  /\ \A i \in 1..Len(sent) : i < Len(sent) => sent[i] = "output" /\ Decoupled
  /\ released => Answered /\ \A x \in DOMAIN step : ~step[x].held
  /\ (Answered \/ tracked) /\ (Answered => ~tracked)
  /\ counter = (IF tracked THEN 1 ELSE 0)
                 + Cardinality({x \in DOMAIN step : step[x].held})

\* inflight_step_counter_ counts the Steps whose final response has not been
\* processed, sent or not, as long as the ensemble has not failed: the request
\* is answered with its outputs only when no Step is left.
InFlightExact ==
  status = "ok" =>
    /\ inflight = Cardinality({x \in DOMAIN step :
                     \/ step[x].at = "ready"
                     \/ Alive(x) /\ ~(step[x].final /\ step[x].at = "scheduling")})
    /\ Answered => inflight = 0

\* If no model and no allocation fails, the client is sent what it asked for,
\* never an error: "Repeat step 3-5 until no more internal requests should be
\* sent, and then response to the inference request with the tensors mapped to
\* the ensemble output names" (docs/architecture.md).
NoSpuriousError == MayFail = {} => \A i \in 1..Len(sent) : sent[i] # "error"

\* The steps that take tensors of several others.
Joins == {s \in Steps : Cardinality({PrevStep(t) : t \in In(s) \ Inputs}) > 1}

\* An output of the ensemble is an input of a step, too.
InnerOutput == \E s \in Steps : In(s) \cap Outputs # {}

\* Where the traversal of the constructor leaves what the outputs need: it
\* takes a step away whose outputs nobody asked for, even if another step reads
\* one of them, a step whose output is asked for and has lost its readers, and,
\* for an input of the ensemble that has lost its readers, the first step.
PrunesSafely == Requested = Outputs \/ (~InnerOutput /\ Inputs \subseteq In(1))

\* Without a join: pruning keeps what the outputs need, a step is sent when its
\* inputs are there, the tensors are given up no sooner than their last user
\* has them, and the last thread finds all outputs.
ForksDeliver == Joins = {} /\ PrunesSafely => NoSpuriousError

\* With one join, whose steps may complete side by side: the thread of one of
\* them can be the last and look at its own tensor only.  The client then gets
\* an error that nothing caused, but no step was left out or sent too early:
\* when the error is sent, every output is there.
JoinComplete ==
  Cardinality(Joins) = 1 /\ ~InnerOutput /\ PrunesSafely /\ MayFail = {} =>
    sent # <<"error">> \/ \A t \in Requested : Has(t, 0)

\* The thread that finds no Step in flight is the one that has the outputs.
OutputsDelivered == InFlightExact /\ ForksDeliver /\ JoinComplete

\* Every ensemble request is answered and given back to the client.
EnsembleCompletes == <>(Answered /\ released)
=============================================================================
