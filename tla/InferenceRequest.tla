-------------------------- MODULE InferenceRequest --------------------------
(***************************************************************************)
(* An inference request and its responses (src/core/infer_request.cc,      *)
(* infer_response.cc) as the calls of the C API (src/core/tritonserver.cc) *)
(* and the core change them: a client builds a request for a model whose   *)
(* configuration was accepted, sends it, gets it back, changes it and      *)
(* sends it again.  The batchers add override inputs and copy it as a null *)
(* request; the backend creates responses whose buffers come from the      *)
(* client's allocator.                                                     *)
(***************************************************************************)
EXTENDS ModelConfig, FiniteSetsExt

CONSTANTS
    Scenarios,      \* what a client does with a model, a set of records
                    \*   file    its configuration, as it is in the file
                    \*   shapes, types  what the client gives for its inputs
                    \*   ops     the calls it makes
                    \*   calls   bound: calls between two inferences
                    \*   runs    bound: inferences with one request
                    \*   outputs bound: outputs and buffers of the responses
    BatchModulus    \* batch_size_ is a uint32_t: 2^32

ASSUME RequestAssumption ==
    /\ BatchModulus \in Nat /\ BatchModulus % 2 = 0
    /\ \A s \in Scenarios :
         /\ {s.calls, s.runs, s.outputs} \subseteq Nat
         /\ "dynamic" \in DOMAIN s.file
         /\ s.file.dynamic = <<>> \/ DOMAIN s.file.dynamic = {1}
         /\ \A i \in DOMAIN s.file.dynamic :
              /\ {"levels", "default"} \subseteq DOMAIN s.file.dynamic[i]
              /\ s.file.dynamic[i].levels \in Nat

VARIABLES
    scenario,   \* with the configuration as it was read
    model,      \* stage: "polled", "loaded" or "refused"; config
    request,    \* the InferenceRequest
    owner,      \* who has it: "caller" or "core"
    overridden, \* the inputs the batcher has overridden in this inference
    null,       \* copies made with CopyAsNull
    response,   \* outputs of the response the backend works at; phase
    buffers,    \* what the allocator was asked for, in order: whether it gave
                \* the null pointer, and how often that was released
    calls, runs

vars == <<scenario, model, request, owner, overridden, null, response, buffers, calls, runs>>

NoFunction == <<>>
File == scenario.file
Does(op) == op \in scenario.ops
MaxOutputs == scenario.outputs
InputNames(c) == Names(c.inputs)
OutputNames(c) == Names(c.outputs)
ConfigOf(ios, name) == ios[CHOOSE i \in DOMAIN ios : ios[i].name = name]

\* The priorities of the dynamic batcher; none without it.
MaxPriorityLevel(c) == IF c.dynamic = <<>> THEN 0 ELSE c.dynamic[1].levels
DefaultPriorityLevel(c) == IF c.dynamic = <<>> THEN 0 ELSE c.dynamic[1].default

SetPriority(c, p) == IF p = 0 \/ p > MaxPriorityLevel(c) THEN DefaultPriorityLevel(c) ELSE p

NewRequest(c) ==
    [original |-> NoFunction, outputs |-> {}, requested |-> {}, needs |-> TRUE,
     batch |-> 0, inputs |-> NoFunction, overrides |-> NoFunction,
     priority |-> SetPriority(c, 0)]

Input(type, shape) ==
    [type |-> type, original |-> shape, shape |-> <<>>, withBatch |-> <<>>,
     shapeTensor |-> FALSE, data |-> 0, policyData |-> NoFunction]

NoResponse == [phase |-> "none", outputs |-> <<>>]

Init ==
    /\ scenario \in Scenarios
    /\ model = [stage |-> "polled", config |-> File]
    /\ request = NewRequest(File) /\ owner = "caller"
    /\ overridden = {} /\ null = {} /\ response = NoResponse
    /\ buffers = <<>> /\ calls = 0 /\ runs = 0

\* The poll takes the normalized configuration if it is valid; then requests
\* can be made for the model.
Load ==
    /\ model.stage = "polled"
    /\ LET config == GetNormalizedModelConfig(File) IN
       /\ model' = [stage |-> IF Accepted(File) THEN "loaded" ELSE "refused", config |-> config]
       /\ request' = NewRequest(config)
    /\ UNCHANGED <<scenario, owner, overridden, null, response, buffers, calls, runs>>

-----------------------------------------------------------------------------
(* The calls of the client.  Those that fail change nothing.               *)

Set(f, x, v) == [y \in DOMAIN f \cup {x} |-> IF y = x THEN v ELSE f[y]]
Without(f, x) == [y \in DOMAIN f \ {x} |-> f[y]]

Call(r) ==
    /\ model.stage = "loaded" /\ model.config.steps = <<>>
    /\ owner = "caller" /\ response.phase = "none" /\ calls < scenario.calls
    /\ request' = r /\ calls' = calls + 1
    /\ UNCHANGED <<scenario, model, owner, overridden, null, response, buffers, runs>>

AddOriginalInput(name, type, shape) ==
    /\ name \notin DOMAIN request.original
    /\ Call([request EXCEPT !.original = Set(@, name, Input(type, shape)), !.needs = TRUE])

\* Slip: what was normalized before is used once more.
RemoveWithoutRenormalizing(name) ==
    /\ name \in DOMAIN request.original
    /\ Call([request EXCEPT !.original = Without(@, name)])

RemoveOriginalInput(name) ==
    /\ name \in DOMAIN request.original
    /\ Call([request EXCEPT !.original = Without(@, name), !.needs = TRUE])

RemoveAllOriginalInputs == Call([request EXCEPT !.original = NoFunction, !.needs = TRUE])

AppendData(name, size) ==
    /\ name \in DOMAIN request.original
    /\ Call([request EXCEPT !.original[name].data = @ + size])

AppendDataWithHostPolicy(name, policy, size) ==
    /\ name \in DOMAIN request.original
    /\ Call([request EXCEPT !.original[name].policyData =
                Set(@, policy, size + IF policy \in DOMAIN @ THEN @[policy] ELSE 0)])

RemoveAllData(name) ==
    /\ name \in DOMAIN request.original
    /\ Call([request EXCEPT !.original[name].data = 0, !.original[name].policyData = NoFunction])

\* AddOriginalRequestedOutput, RemoveOriginalRequestedOutput and
\* RemoveAllOriginalRequestedOutputs.
ChangeRequestedOutputs(outputs) ==
    /\ \/ \E name \in OutputNames(model.config) \cup {"unknown"} :
             outputs \in {request.outputs \cup {name}, request.outputs \ {name}}
       \/ outputs = {}
    /\ Call([request EXCEPT !.outputs = outputs, !.needs = TRUE])

RequestSetPriority(p) == Call([request EXCEPT !.priority = SetPriority(model.config, p)])

-----------------------------------------------------------------------------
(* Normalize.                                                              *)

Failed == [ok |-> FALSE, batch |-> 0]
ToInt(n) == IF n >= BatchModulus \div 2 THEN n - BatchModulus ELSE n

IsShapeTensor(c, name) == c.batch > 0 /\ ConfigOf(c.inputs, name).shapeTensor

\* A batch size of 0 stands for "not yet seen"; a dimension is an int64_t, the
\* batch size a uint32_t.
NextBatch(c, found, name, shape) ==
    IF ~found.ok \/ IsShapeTensor(c, name) THEN found
    ELSE IF shape = <<>> THEN Failed
    ELSE IF found.batch = 0 THEN [found EXCEPT !.batch = shape[1] % BatchModulus]
    ELSE IF shape[1] # found.batch THEN Failed ELSE found

\* The inputs are visited in the order of a hash table.
BatchSize(c, shapes, order) ==
    IF c.batch = 0 THEN [ok |-> TRUE, batch |-> 0]
    ELSE FoldLeft(LAMBDA found, name : NextBatch(c, found, name, shapes[name]),
                  [ok |-> TRUE, batch |-> 0], order)

\* The shape without its batch dimension.
Unbatched(c, name, shape) ==
    IF c.batch = 0 \/ IsShapeTensor(c, name) THEN shape ELSE Tail(shape)

\* The variable-size dimensions of 'from' are taken over by 'to', in order.
Reshaped(from, to, shape) ==
    LET values == [i \in 1..Len(SelectSeq(from, LAMBDA d : d = WILDCARD_DIM)) |->
                     shape[CHOOSE k \in DOMAIN from :
                        /\ from[k] = WILDCARD_DIM
                        /\ Cardinality({j \in 1..k : from[j] = WILDCARD_DIM}) = i]]
    IN  [k \in DOMAIN to |->
            IF to[k] = WILDCARD_DIM
            THEN values[Cardinality({j \in 1..k : to[j] = WILDCARD_DIM})] ELSE to[k]]

Normalized(c, name, input, batch) ==
    LET io == ConfigOf(c.inputs, name)
        shape == Unbatched(c, name, input.original)
        final == IF io.reshape = <<>> THEN shape ELSE Reshaped(io.dims, io.reshape[1], shape)
    IN  [input EXCEPT !.shape = final, !.shapeTensor = IsShapeTensor(c, name),
                      !.withBatch = IF batch = 0 THEN final ELSE <<batch>> \o final]

Fits(c, name, input) ==
    LET io == ConfigOf(c.inputs, name)
    IN  /\ input.type = io.type
        /\ CompareDimsWithWildcard(io.dims, Unbatched(c, name, input.original))

\* Normalize as a whole: whether it succeeds, and the request it leaves.
Normalize(c, r, order) ==
    LET known == DOMAIN r.original = InputNames(c) /\ r.outputs \subseteq OutputNames(c)
        shapes == [name \in DOMAIN r.original |-> r.original[name].original]
        size == IF known THEN BatchSize(c, shapes, order) ELSE Failed
    IN  [ok |-> /\ size.ok /\ ToInt(size.batch) <= c.batch
                /\ \A name \in DOMAIN r.original : Fits(c, name, r.original[name]),
         batch |-> size.batch,
         requested |-> IF r.outputs = {} THEN OutputNames(c) ELSE {}]

Renormalized(c, r, n) ==
    [r EXCEPT !.needs = FALSE, !.batch = n.batch, !.requested = n.requested,
              !.original = [name \in DOMAIN @ |-> Normalized(c, name, @[name], n.batch)]]

\* inputs_ refers to the original inputs; override inputs come later.
ShowOriginals(r) ==
    [r EXCEPT !.overrides = NoFunction, !.inputs = [name \in DOMAIN r.original |-> "original"]]

\* PrepareForInference, and InferAsync if it succeeds: the request belongs to
\* the core.  When it fails nothing is left in inputs_.
InferAsync ==
    /\ model.stage = "loaded" /\ model.config.steps = <<>>
    /\ owner = "caller" /\ response.phase = "none" /\ runs < scenario.runs
    /\ runs' = runs + 1 /\ calls' = 0 /\ overridden' = {}
    /\ \/ /\ ~request.needs
          /\ request' = ShowOriginals(request) /\ owner' = "core"
       \/ /\ request.needs
          /\ \E order \in SetToSeqs(DOMAIN request.original) :
                LET n == Normalize(model.config, request, order)
                IN  IF n.ok THEN /\ request' = ShowOriginals(Renormalized(model.config, request, n))
                                 /\ owner' = "core"
                    ELSE /\ request' = [request EXCEPT !.inputs = NoFunction,
                                                       !.overrides = NoFunction]
                         /\ UNCHANGED owner
    /\ UNCHANGED <<scenario, model, null, response, buffers>>

-----------------------------------------------------------------------------
(* The core: the batchers and the backend.                                 *)

Core == model.stage = "loaded" /\ owner = "core"

\* The sequence batcher's control tensors, or the state of the ensemble.
AddOverrideInput(name, shape) ==
    /\ Core /\ response.phase = "none"
    /\ overridden' = overridden \cup {name}
    /\ request' = [request EXCEPT
         !.overrides = Set(@, name, [Input("FP32", shape) EXCEPT
             !.shape = shape,
             !.withBatch = IF request.batch > 0 THEN <<request.batch>> \o shape ELSE shape]),
         !.inputs = Set(@, name, "override")]
    /\ UNCHANGED <<scenario, model, owner, null, response, buffers, calls, runs>>

Elements(input) == GetElementCount(input.shape)

\* How many bytes the input takes: a string takes 4 when it is empty.
NullSize(input) == IF input.type = "STRING" THEN 4 * Elements(input) ELSE input.data

Plain(r) == {name \in DOMAIN r.original : ~r.original[name].shapeTensor}

\* The second pass: the size of the buffer that the inputs of a null request
\* share, and the input that will own it.  (max_input_name is read unset when
\* all of them are strings without an element.)
NullBuffer(r, order) ==
    FoldLeft(LAMBDA found, name :
                LET input == r.original[name]
                    size == NullSize(input)
                IN  IF name \in Plain(r) /\ (size > found.size \/ (size = found.size /\ input.type # "STRING"))
                    THEN [size |-> size, owner |-> name] ELSE found,
             [size |-> 0, owner |-> "unset"], order)

\* CopyAsNull: shape tensors keep their data; the input that owns the buffer
\* has it as a whole, the others a part of it.  What is copied of an input is
\* its type and its normalized shapes, so that the copy looks as if the client
\* had given the shape without the batch dimension; it is no shape tensor, and
\* adding it has set needs_normalization_.
CopyAsNull(r, order) ==
    LET buffer == NullBuffer(r, order)
        bytes(name) == IF name \notin Plain(r) THEN r.original[name].data
                       ELSE IF name = buffer.owner THEN buffer.size
                       ELSE NullSize(r.original[name])
    IN  [batch |-> r.batch, needs |-> DOMAIN r.original # {}, buffer |-> buffer.size,
         inputs |-> [name \in DOMAIN r.original |->
            [Input(r.original[name].type, r.original[name].shape) EXCEPT
                !.shape = r.original[name].shape, !.withBatch = r.original[name].withBatch,
                !.data = bytes(name)]]]

\* The Direct strategy fills the slots of its batch with copies; the requests
\* of a sequence have a batch size of at most 1.
FillWithNull ==
    /\ Core /\ model.config.sequence # <<>> /\ request.batch <= 1 /\ null = {}
    /\ \E order \in SetToSeqs(DOMAIN request.original) :
         null' = {[from |-> request, copy |-> CopyAsNull(request, order)]}
    /\ UNCHANGED <<scenario, model, request, owner, overridden, response, buffers, calls, runs>>

CreateResponse ==
    /\ Core /\ response.phase = "none"
    /\ response' = [phase |-> "open", outputs |-> <<>>]
    /\ UNCHANGED <<scenario, model, request, owner, overridden, null, buffers, calls, runs>>

\* Output::Reshape: back from the shape of the backend to the one configured.
OutputReshape(c, io, shape) ==
    LET start == IF c.batch > 0 THEN 1 ELSE 0
        batch == IF c.batch > 0 /\ shape # <<>> /\ shape[1] >= 0 THEN <<shape[1]>> ELSE <<>>
    IN  batch \o Reshaped(io.reshape[1], io.dims, SubSeq(shape, 1 + start, Len(shape)))

\* The shapes a backend produces for an output.
Produces(c, io, shape) ==
    CompareDimsWithWildcard(
        (IF c.batch > 0 THEN <<WILDCARD_DIM>> ELSE <<>>)
            \o IF io.reshape = <<>> THEN io.dims ELSE io.reshape[1],
        shape)

\* An output that the model does not have is an error, and stays all the same.
AddOutput(name, shape) ==
    /\ name \in OutputNames(model.config) =>
         Produces(model.config, ConfigOf(model.config.outputs, name), shape)
    /\ Core /\ response.phase = "open" /\ Len(response.outputs) < MaxOutputs
    /\ LET c == model.config
           known == name \in OutputNames(c)
           final == IF ~known THEN shape
                    ELSE IF ConfigOf(c.outputs, name).reshape = <<>> THEN shape
                    ELSE OutputReshape(c, ConfigOf(c.outputs, name), shape)
       IN  response' = [response EXCEPT !.outputs =
                Append(@, [name |-> name, given |-> shape, shape |-> final, buffer |-> 0])]
    /\ UNCHANGED <<scenario, model, request, owner, overridden, null, buffers, calls, runs>>

\* Slip: a second buffer replaces the first.
AllocateAgain(i, gave) ==
    /\ Core /\ response.phase = "open" /\ i \in DOMAIN response.outputs
    /\ Len(buffers) < MaxOutputs
    /\ buffers' = Append(buffers, [null |-> gave = "null", released |-> 0])
    /\ response' = IF gave = "null" THEN response
                   ELSE [response EXCEPT !.outputs[i].buffer = Len(buffers) + 1]
    /\ UNCHANGED <<scenario, model, request, owner, overridden, null, calls, runs>>

\* AllocateDataBuffer: an output that has no buffer asks for one.  The
\* allocators give the null pointer for a size of 0; then the output still has
\* none and may ask again.
AllocateDataBuffer(i, gave) ==
    /\ Core /\ response.phase = "open" /\ i \in DOMAIN response.outputs
    /\ response.outputs[i].buffer = 0 /\ Len(buffers) < MaxOutputs
    /\ buffers' = Append(buffers, [null |-> gave = "null", released |-> 0])
    /\ response' = IF gave = "null" THEN response
                   ELSE [response EXCEPT !.outputs[i].buffer = Len(buffers) + 1]
    /\ UNCHANGED <<scenario, model, request, owner, overridden, null, calls, runs>>

\* Send, or RespondIfError: the response belongs to the client.
Send ==
    /\ Core /\ response.phase = "open"
    /\ response' = [response EXCEPT !.phase = "sent"]
    /\ UNCHANGED <<scenario, model, request, owner, overridden, null, buffers, calls, runs>>

\* Release: the request goes back to the client, before or after the response
\* is deleted, or without one when only flags were sent (SendFlags).
Release ==
    /\ Core /\ response.phase # "open"
    /\ owner' = "caller"
    /\ UNCHANGED <<scenario, model, request, overridden, null, response, buffers, calls, runs>>

Held == {response.outputs[i].buffer : i \in DOMAIN response.outputs} \ {0}

\* The client deletes the response; each output releases the buffer it has
\* (ReleaseDataBuffer), not what gave the null pointer.
DeleteResponse ==
    /\ response.phase = "sent"
    /\ buffers' = [b \in DOMAIN buffers |->
                     IF b \in Held THEN [buffers[b] EXCEPT !.released = @ + 1] ELSE buffers[b]]
    /\ response' = NoResponse
    /\ UNCHANGED <<scenario, model, request, owner, overridden, null, calls, runs>>

-----------------------------------------------------------------------------

Client ==
    \/ \E name \in InputNames(model.config) \cup {"unknown"} :
         \/ /\ Does("inputs")
            /\ \/ \E type \in scenario.types, shape \in scenario.shapes :
                     AddOriginalInput(name, type, shape)
               \/ RemoveOriginalInput(name)
         \/ /\ Does("data")
            /\ \/ \E size \in {0, 8} : AppendData(name, size)
               \/ AppendDataWithHostPolicy(name, "gpu_0", 8)
               \/ RemoveAllData(name)
    \/ Does("inputs") /\ RemoveAllOriginalInputs
    \/ /\ Does("outputs")
       /\ \E outputs \in SUBSET (OutputNames(model.config) \cup {"unknown"}) :
            ChangeRequestedOutputs(outputs)
    \/ Does("priority") /\ \E p \in 0..3 : RequestSetPriority(p)
    \/ InferAsync
    \/ DeleteResponse

Batcher ==
    \/ /\ Does("override")
       /\ \E name \in InputNames(model.config) \cup {"control"} : AddOverrideInput(name, <<1>>)
    \/ FillWithNull

Backend ==
    \/ CreateResponse
    \/ \E name \in OutputNames(model.config) \cup {"unknown"}, shape \in scenario.shapes :
         AddOutput(name, shape)
    \/ \E i \in 1..MaxOutputs, gave \in {"null", "memory"} : AllocateDataBuffer(i, gave)
    \/ Send
    \/ Release

Next == Load \/ Client \/ Batcher \/ Backend

Spec == Init /\ [][Next]_vars

-----------------------------------------------------------------------------
(* Properties.                                                             *)

\* What PrepareForInference would make of the request as it is now.
Fresh(order) == Normalize(model.config, request, order)

\* While the core has a request, everything that was computed when it was
\* sent (PrepareForInference) is what the client's inputs and outputs say
\* now: the normalized shapes that were kept from an earlier inference, the
\* batch size, the outputs to be returned.  The inputs the backend sees are
\* these and the overrides of this inference, none of an earlier one.
PreparedFresh ==
    owner = "core" =>
        /\ \E order \in SetToSeqs(DOMAIN request.original) :
             /\ Fresh(order).ok
             /\ request.batch = Fresh(order).batch
             /\ request.requested = Fresh(order).requested
        /\ \A name \in DOMAIN request.original :
             request.original[name] =
                Normalized(model.config, name, request.original[name], request.batch)
        /\ DOMAIN request.inputs = DOMAIN request.original \cup overridden
        /\ \A name \in DOMAIN request.inputs :
             request.inputs[name] = IF name \in overridden THEN "override" ELSE "original"

\* The first dimensions of the inputs that have a batch dimension.
FirstDims ==
    IF model.config.batch = 0 THEN {}
    ELSE {request.original[name].original[1] : name \in Plain(request)}

InRange == FirstDims \subseteq 1..(BatchModulus \div 2 - 1)

\* The inputs of a request in the core agree on the batch size, which the
\* model supports.  A first dimension of 0, or one that the batch size cannot
\* hold, gets past Normalize.
BatchAgrees ==
    owner = "core" =>
        \A d \in FirstDims : d = request.batch /\ d <= model.config.batch

\* For all other requests it is so.
BatchInRangeAgrees == owner = "core" /\ InRange => BatchAgrees

\* The batch and the shape that the backend is given have as many elements as
\* the client's, whatever the reshape of the accepted configuration; so have
\* the outputs, which come back in the shape configured.
ElementsKept ==
    /\ owner = "core" /\ InRange =>
        \A name \in Plain(request) :
            Product(request.original[name].withBatch) = Product(request.original[name].original)
    /\ \A i \in DOMAIN response.outputs :
        LET o == response.outputs[i] IN
        o.name \in OutputNames(model.config) =>
            /\ Product(o.shape) = Product(o.given)
            /\ CompareDimsWithWildcard(ConfigOf(model.config.outputs, o.name).dims,
                    IF model.config.batch > 0 THEN Tail(o.shape) ELSE o.shape)

\* The priority is a level of the queue, 0 when there is none.
PriorityIsLevel ==
    model.stage = "loaded" =>
        IF MaxPriorityLevel(model.config) = 0
        THEN model.config.dynamic = <<>> => request.priority = 0
        ELSE request.priority \in 1..MaxPriorityLevel(model.config)

\* A request in the core, and the response to it, fit the model: the batch
\* size, the elements of every tensor and the priority (Normalize, SetPriority,
\* Output::Reshape).
FitsModel == BatchInRangeAgrees /\ ElementsKept /\ PriorityIsLevel

\* A buffer of the client's allocator belongs to one output of the response
\* that is not yet deleted and has not been released, or has been released
\* once, whatever the output had asked for before without getting memory
\* (AllocateDataBuffer, ReleaseDataBuffer).
BuffersReturned ==
    /\ \A b \in DOMAIN buffers :
         ~buffers[b].null => buffers[b].released = IF b \in Held THEN 0 ELSE 1
    /\ \A i, j \in DOMAIN response.outputs :
         i # j /\ response.outputs[i].buffer # 0 => response.outputs[i].buffer # response.outputs[j].buffer

\* Everything that was asked for is released once when the response has been
\* deleted.  It is not so: what gave the null pointer never is, though the
\* userp that came with it may own something.
AllReturned ==
    response.phase = "none" => \A b \in DOMAIN buffers : buffers[b].released = 1

\* A null request can be executed next to the one it was copied from: its
\* shapes go with its batch size, every input has as many bytes as the other's
\* (a string 4 for each of its elements), whichever of them owns the buffer,
\* and what they share is within it.
NullCovers ==
    \A n \in null : \A name \in DOMAIN n.copy.inputs :
        LET from == n.from.original[name]
            to == n.copy.inputs[name]
        IN  /\ to.withBatch = IF n.copy.batch = 0 THEN to.shape ELSE <<n.copy.batch>> \o to.shape
            /\ to.data = IF name \in Plain(n.from) /\ to.type = "STRING"
                         THEN 4 * IF to.shape = <<>> THEN 0 ELSE Product(to.shape)
                         ELSE from.data
            /\ name \in Plain(n.from) => to.data <= n.copy.buffer

\* Memory is sound on both sides: each buffer a back end was given goes back
\* once, and no input of a null request reaches past the buffer it shares.
BuffersSound == BuffersReturned /\ NullCovers

\* A cycle of steps: each takes a tensor that one of them writes.
Cyclic(steps) ==
    \E ring \in SUBSET DOMAIN steps \ {{}} :
        \A s \in ring : \E t \in ring : steps[s].in \cap Range(steps[t].out) # {}

Written(steps) == UNION {Range(steps[s].out) : s \in DOMAIN steps}

\* An ensemble that is accepted can run (ValidateEnsembleSchedulingConfig):
\* unless a step writes an input of the ensemble, there is no cycle among its
\* steps, every tensor a step needs is an input or is written, and every
\* output of the ensemble is written.
EnsemblesRun ==
    model.stage = "loaded" /\ model.config.steps # <<>> =>
        LET steps == StepsOf(model.config)
            inputs == InputNames(model.config)
        IN  Written(steps) \cap inputs = {} =>
                /\ ~Cyclic(steps)
                /\ \A s \in DOMAIN steps : steps[s].in \subseteq inputs \cup Written(steps)
                /\ OutputNames(model.config) \subseteq inputs \cup Written(steps)

=============================================================================
